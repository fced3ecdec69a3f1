-------------------------------- MODULE Job --------------------------------
(***************************************************************************)
(* A job: every rank of an OsUContext runs its program, a sequence of      *)
(* calls of the communication functions, over UCX tag matching.            *)
(*                                                                         *)
(* UCX keeps the messages of one sender to one receiver in order, and a    *)
(* receive takes the first message that carries its tag from ANY sender,   *)
(* arrived or still to arrive: chan[s][d] is what s has sent to d and no   *)
(* receive of d has taken.                                                 *)
(*                                                                         *)
(* Sends whose request is dropped are all made by the step that begins the *)
(* call: no receive can tell a message not yet sent from one on its way.   *)
(* So are those whose requests are collected and waited for together.  A   *)
(* send waited for before the next is made is a step of its own.  A send   *)
(* is finished at once (eager), or when a receive has taken it             *)
(* (rendezvous); messages larger than a threshold of the transport use the *)
(* latter, so a job has either.                                            *)
(***************************************************************************)
EXTENDS Queues

CONSTANTS
  Jobs,            \* the jobs to run: [bench, size, rndv, ...] records
  Program(_, _),   \* Program(j, r): the calls rank r makes in job j
  MaxQueued        \* the length QueuesStayShort promises

VARIABLES
  job,       \* the job that runs
  at,        \* at[r]: calls rank r has begun
  inside,    \* inside[r]: the last of them has not returned
  todo,      \* todo[r]: destinations still ahead of a send loop that waits
  chan,      \* chan[s][d]: messages on their way from s to d
  got        \* got[r]: messages taken by the receives of the last call

vars == <<job, at, inside, todo, chan, got>>

BarrierTag == "BEEFCAFE"

Waits == {"never", "each", "all"}

(* A call of the barrier: one message to every peer, one receive for each. *)
BarrierShape(call, r, n) ==
  /\ call.tag = BarrierTag /\ call.takes = BarrierTag
  /\ call.waits = "never"
  /\ Len(call.from) = n - 1
  /\ \A d \in 0 .. n - 1 : CountIn(call.to, d) = (IF d = r THEN 0 ELSE 1)

(***************************************************************************)
(* Programs are made of calls as Calls describes them, among the ranks of  *)
(* the job; nothing but a barrier uses the barrier's tag.                  *)
(***************************************************************************)
ASSUME ProgramAssumption ==
  \A j \in Jobs :
    LET Members == 0 .. j.size - 1 IN
    /\ j.size \in Nat \ {0}
    /\ \A r \in Members :
         /\ Program(j, r) \in
              Seq([tag : STRING, takes : STRING, to : Seq(Members), from : Seq(Members),
                   waits : Waits, keep : BOOLEAN])
         /\ \A k \in DOMAIN Program(j, r) :
              LET call == Program(j, r)[k] IN
              call.tag = BarrierTag \/ call.takes = BarrierTag =>
                BarrierShape(call, r, j.size)

ASSUME QueueAssumption == MaxQueued \in Nat

Ranks == 0 .. job.size - 1

CallOf(r) == Program(job, r)[at[r]]

(* A message remembers the call that sent it; no receive looks at that. *)
MessageOf(r, k) == [tag |-> Program(job, r)[k].tag, call |-> k]

Init ==
  /\ job \in Jobs
  /\ at = [r \in Ranks |-> 0]
  /\ inside = [r \in Ranks |-> FALSE]
  /\ todo = [r \in Ranks |-> <<>>]
  /\ chan = [s \in Ranks |-> [d \in Ranks |-> <<>>]]
  /\ got = [r \in Ranks |-> <<>>]

(* The messages of a send loop, appended per destination. *)
SendTo(r, to, k) ==
  [chan EXCEPT ![r] = [d \in Ranks |->
     @[d] \o [i \in 1 .. CountIn(to, d) |-> MessageOf(r, k)]]]

(* Fault: what the last call received is not forgotten. *)
BeginWithoutReset(r) ==
  /\ ~inside[r]
  /\ at[r] < Len(Program(job, r))
  /\ at' = [at EXCEPT ![r] = @ + 1]
  /\ inside' = [inside EXCEPT ![r] = TRUE]
  /\ LET call == Program(job, r)[at[r] + 1] IN
       \/ /\ call.waits = "each"
          /\ todo' = [todo EXCEPT ![r] = call.to]
          /\ UNCHANGED chan
       \/ /\ call.waits # "each"
          /\ chan' = SendTo(r, call.to, at[r] + 1)
          /\ UNCHANGED todo
  /\ UNCHANGED <<job, got>>

Begin(r) ==
  /\ ~inside[r]
  /\ at[r] < Len(Program(job, r))
  /\ at' = [at EXCEPT ![r] = @ + 1]
  /\ inside' = [inside EXCEPT ![r] = TRUE]
  /\ got' = [got EXCEPT ![r] = <<>>]
  /\ LET call == Program(job, r)[at[r] + 1] IN
       \/ /\ call.waits = "each"
          /\ todo' = [todo EXCEPT ![r] = call.to]
          /\ UNCHANGED chan
       \/ /\ call.waits # "each"
          /\ chan' = SendTo(r, call.to, at[r] + 1)
          /\ UNCHANGED todo
  /\ UNCHANGED job

(* Every awaited send made so far in this call is finished. *)
SendsFinished(r) ==
  CallOf(r).waits # "never" /\ job.rndv =>
    \A d \in Ranks : \A i \in DOMAIN chan[r][d] : chan[r][d][i].call # at[r]

SendAwaited(r) ==
  /\ inside[r]
  /\ todo[r] # <<>>
  /\ SendsFinished(r)
  /\ chan' = SendTo(r, <<Head(todo[r])>>, at[r])
  /\ todo' = [todo EXCEPT ![r] = Tail(@)]
  /\ UNCHANGED <<job, at, inside, got>>

(* The receives posted by r's call that have not taken a message yet. *)
Posted(r) == IF inside[r] THEN Len(CallOf(r).from) - Len(got[r]) ELSE 0

(* Positions in chan[s][r] of the messages the receives of r's call match. *)
Candidates(s, r) == {i \in DOMAIN chan[s][r] : chan[s][r][i].tag = CallOf(r).takes}

(* Fault: the receives are posted when the sends have been waited for. *)
ReceiveAfterSends(r) ==
  /\ Posted(r) > 0
  /\ todo[r] = <<>>
  /\ SendsFinished(r)
  /\ \E s \in Ranks : \E i \in Candidates(s, r) :
       /\ \A j \in Candidates(s, r) : i <= j
       /\ got' = [got EXCEPT ![r] = Append(@, [src |-> s, call |-> chan[s][r][i].call])]
       /\ chan' = [chan EXCEPT ![s][r] = Without(@, i)]
  /\ UNCHANGED <<job, at, inside, todo>>

(* The oldest posted receive of r takes the oldest candidate of some sender. *)
Receive(r) ==
  /\ Posted(r) > 0
  /\ \E s \in Ranks : \E i \in Candidates(s, r) :
       /\ \A j \in Candidates(s, r) : i <= j
       /\ got' = [got EXCEPT ![r] = Append(@, [src |-> s, call |-> chan[s][r][i].call])]
       /\ chan' = [chan EXCEPT ![s][r] = Without(@, i)]
  /\ UNCHANGED <<job, at, inside, todo>>

(* Fault: the last receive is not waited for. *)
ReturnEarly(r) ==
  /\ inside[r]
  /\ todo[r] = <<>>
  /\ SendsFinished(r)
  /\ Posted(r) <= 1
  /\ inside' = [inside EXCEPT ![r] = FALSE]
  /\ UNCHANGED <<job, at, todo, chan, got>>

Return(r) ==
  /\ inside[r]
  /\ todo[r] = <<>>
  /\ SendsFinished(r)
  /\ Posted(r) = 0
  /\ inside' = [inside EXCEPT ![r] = FALSE]
  /\ UNCHANGED <<job, at, todo, chan, got>>

Step(r) == Begin(r) \/ SendAwaited(r) \/ Receive(r) \/ Return(r)

Finished(r) == at[r] = Len(Program(job, r)) /\ ~inside[r]

(* run_benchmark has returned on every rank. *)
AllFinished ==
  /\ \A r \in Ranks : Finished(r)
  /\ UNCHANGED vars

Next == AllFinished \/ \E r \in Ranks : Step(r)

(***************************************************************************)
(* A rank inside a call spins on check_finished() and progress(); outside  *)
(* one it runs on to its next call.  No rank runs for ever, so it is enough*)
(* that some rank moves when one can: weaker than fairness to each.        *)
(***************************************************************************)
Fairness == WF_vars(\E r \in Ranks : Step(r))

Spec == Init /\ [][Next]_vars

FairSpec == Spec /\ Fairness

-----------------------------------------------------------------------------
(* What the programs of a job ask of each other, before any of them runs. *)

MessagesFrom(j, s, d, tag) ==
  UNION {{<<s, k, i>> : i \in 1 .. CountIn(Program(j, s)[k].to, d)} :
           k \in {l \in DOMAIN Program(j, s) : Program(j, s)[l].tag = tag}}

MessagesTo(j, d, tag) == UNION {MessagesFrom(j, s, d, tag) : s \in 0 .. j.size - 1}

ReceivesOf(j, d, tag) ==
  UNION {{<<k, i>> : i \in 1 .. Len(Program(j, d)[k].from)} :
           k \in {l \in DOMAIN Program(j, d) : Program(j, d)[l].takes = tag}}

(* No rank waits for more messages of a tag than are ever sent to it. *)
Fed(j) ==
  \A d \in 0 .. j.size - 1 :
    \A tag \in {Program(j, d)[k].takes : k \in DOMAIN Program(j, d)} :
      Cardinality(ReceivesOf(j, d, tag)) <= Cardinality(MessagesTo(j, d, tag))

(* What a call sends to a rank is what the same call of that rank expects. *)
Matched(j) ==
  \A s, d \in 0 .. j.size - 1 :
    /\ Len(Program(j, s)) = Len(Program(j, d))
    /\ \A k \in DOMAIN Program(j, s) :
         /\ IF s = d THEN CountIn(Program(j, s)[k].to, d) = 0
                     ELSE Program(j, s)[k].tag = Program(j, d)[k].takes
         /\ CountIn(Program(j, s)[k].to, d) = CountIn(Program(j, d)[k].from, s)

(* Call k of s has a receive for d. *)
Hears(j, s, k, d) ==
  k \in DOMAIN Program(j, s) /\ CountIn(Program(j, s)[k].from, d) > 0

(* The call in which s is to learn that d has taken what call c sent: the next *)
(* one, or the one after it if the next does not hear from d.                  *)
AnsweredIn(j, s, c, d) == IF Hears(j, s, c + 1, d) THEN c + 1 ELSE c + 2

(* "j : j \in" makes TLC enumerate the set once, not test it in every state. *)
FedJobs == {j : j \in {k \in Jobs : Fed(k)}}

MatchedJobs == {j : j \in {k \in Jobs : Matched(k)}}

-----------------------------------------------------------------------------

(***************************************************************************)
(* Every variable has its type; messages carry the tag of a call that their*)
(* sender has begun, and no call receives more than it has receives for.   *)
(***************************************************************************)
TypeOK ==
  /\ job \in Jobs
  /\ at \in [Ranks -> Nat]
  /\ inside \in [Ranks -> BOOLEAN]
  /\ todo \in [Ranks -> Seq(Ranks)]
  /\ chan \in [Ranks -> [Ranks -> Seq([tag : STRING, call : Nat])]]
  /\ got \in [Ranks -> Seq([src : Ranks, call : Nat])]
  /\ \A r \in Ranks : at[r] <= Len(Program(job, r))
  /\ \A s, d \in Ranks : \A i \in DOMAIN chan[s][d] :
       chan[s][d][i].call \in 1 .. at[s]
         /\ chan[s][d][i] = MessageOf(s, chan[s][d][i].call)
  /\ \A r \in Ranks : Len(got[r]) <= (IF at[r] = 0 THEN 0 ELSE Len(CallOf(r).from))

IsBarrier(r, k) ==
  k \in DOMAIN Program(job, r) /\ Program(job, r)[k].tag = BarrierTag

Passed(r, k) == at[r] > k \/ (at[r] = k /\ ~inside[r])

BarriersBegun(r) == Cardinality({k \in 1 .. at[r] : IsBarrier(r, k)})

BarriersPassed(r) == Cardinality({k \in 1 .. at[r] : IsBarrier(r, k) /\ Passed(r, k)})

(***************************************************************************)
(* Whatever else the ranks exchange, a barrier separates: no rank gets past*)
(* its n-th barrier before every rank has begun its n-th.                  *)
(***************************************************************************)
BarriersSeparate ==
  \A r, q \in Ranks : BarriersPassed(r) <= BarriersBegun(q)

(***************************************************************************)
(* Where the ranks make the same calls at each other: what a data call     *)
(* returns is one message of every peer it names and none of an earlier or *)
(* later call, although no receive asks for a sender or a call.  Barriers  *)
(* are exempt: their messages are all alike.                               *)
(***************************************************************************)
OneMessageOfEachPeer ==
  \A r \in Ranks :
    job \in MatchedJobs /\ at[r] > 0 /\ ~inside[r] /\ CallOf(r).tag # BarrierTag =>
      \A s \in Ranks :
        CountIn(got[r], [src |-> s, call |-> at[r]]) = CountIn(CallOf(r).from, s)

(***************************************************************************)
(* No send of a data call is waited for by the blocking collectives, yet   *)
(* the benchmark fills its buffers again and takes its time: a data message*)
(* is taken before its sender gets past the first of its next two calls    *)
(* that hears from the receiver, or past both.  One call would not do: the *)
(* first collective of the next message size hears from nobody if it only  *)
(* sends, and the sum of the timings before it waits for no send.          *)
(***************************************************************************)
SendBuffersNotReusedEarly ==
  \A s, d \in Ranks : \A i \in DOMAIN chan[s][d] :
    chan[s][d][i].tag # BarrierTag =>
      ~Passed(s, AnsweredIn(job, s, chan[s][d][i].call, d))

(***************************************************************************)
(* A rank that only sends is held back by the next barrier alone: however  *)
(* many iterations it runs, few of its messages wait at one receiver.      *)
(***************************************************************************)
QueuesStayShort ==
  \A s, d \in Ranks : Len(chan[s][d]) <= MaxQueued

(***************************************************************************)
(* Where the program has no barrier on one side of a call the messages of  *)
(* neighboring iterations mix.  Between two barriers they do not.          *)
(***************************************************************************)
FencedCallsDoNotMix ==
  \A r \in Ranks :
    at[r] > 1 /\ IsBarrier(r, at[r] - 1) /\ IsBarrier(r, at[r] + 1) =>
      IsBarrier(r, at[r]) \/ \A i \in DOMAIN got[r] : got[r][i].call = at[r]

Done == \A r \in Ranks : Finished(r)

(* No message is left for a receive of a later benchmark or of teardown. *)
NothingLeftBehind ==
  Done => \A s, d \in Ranks : chan[s][d] = <<>>

(* Every receive of a job that is done has taken a message: there were enough. *)
OnlyFedJobsFinish == Done => job \in FedJobs

(***************************************************************************)
(* A job hangs for want of messages alone: never because ranks wait for    *)
(* each other, and never because the wrong call took a message.  Every job *)
(* that is fed finishes, on every rank, and no other does.                 *)
(***************************************************************************)
FinishesIffFed ==
  /\ job \in FedJobs => <>Done
  /\ []OnlyFedJobsFinish

(* The benchmarks promise rows, so every rank of a job is to finish. *)
EveryRankFinishes == <>Done

-----------------------------------------------------------------------------
(* What comments of the runtime and the benchmarks say of their buffers. *)

(* What the caller finds in its receive buffer, slot by slot. *)
ReceiveBuffer(r) == IF CallOf(r).keep THEN got[r] ELSE <<>>

(* A rank gets past a data call when its sends are finished, by rendezvous too. *)
SendsAreWaitedFor ==
  job.rndv =>
    \A s, d \in Ranks : \A i \in DOMAIN chan[s][d] :
      chan[s][d][i].tag # BarrierTag => ~Passed(s, chan[s][d][i].call)

(* The buffer a call returns holds something for every slot. *)
CallsFillTheirBuffer ==
  \A r \in Ranks :
    at[r] > 0 /\ ~inside[r] /\ ~IsBarrier(r, at[r]) =>
      Len(ReceiveBuffer(r)) = Len(CallOf(r).from)

(* The slot of a peer holds what that peer sent. *)
SlotsHoldTheirPeer ==
  \A r \in Ranks :
    at[r] > 0 /\ ~inside[r] /\ ~IsBarrier(r, at[r]) =>
      \A i \in DOMAIN ReceiveBuffer(r) : ReceiveBuffer(r)[i].src = CallOf(r).from[i]
=============================================================================
