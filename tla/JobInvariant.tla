--------------------------- MODULE JobInvariant ---------------------------
(***************************************************************************)
(* The inductive invariant of Job.  No message says which call it belongs  *)
(* to, so the invariant counts: how many messages of each call of s rank d *)
(* has taken follows from what s has sent and what still waits in the      *)
(* channel.  All that ranks have taken fills their receives, one for one.  *)
(***************************************************************************)
EXTENDS Job

CallAt(r, c) == Program(job, r)[c]

(* The messages call c of s sends to d, those sent so far, those that wait. *)
Due(s, d, c) == CountIn(CallAt(s, c).to, d)

Ahead(s, d, c) == IF c = at[s] THEN CountIn(todo[s], d) ELSE 0

Sent(s, d, c) == IF c \in 1 .. at[s] THEN Due(s, d, c) - Ahead(s, d, c) ELSE 0

Waiting(s, d, c) == CountIn(chan[s][d], MessageOf(s, c))

Taken(s, d, c) == Sent(s, d, c) - Waiting(s, d, c)

(* The receives of call c of r that have taken a message. *)
Filled(r, c) == IF c = at[r] THEN Len(got[r]) ELSE Len(CallAt(r, c).from)

TakenFrom(s, r, tag) ==
  UNION {{<<s, c, i>> : i \in 1 .. Taken(s, r, c)} :
           c \in {k \in 1 .. at[s] : CallAt(s, k).tag = tag}}

TakenMessages(r, tag) == UNION {TakenFrom(s, r, tag) : s \in Ranks}

FilledReceives(r, tag) ==
  UNION {{<<c, i>> : i \in 1 .. Filled(r, c)} :
           c \in {k \in 1 .. at[r] : CallAt(r, k).takes = tag}}

-----------------------------------------------------------------------------

(* Outside a call nothing is left to send and no receive is left to fill. *)
Settled ==
  \A r \in Ranks :
    /\ at[r] = 0 => ~inside[r]
    /\ ~inside[r] => todo[r] = <<>>
    /\ ~inside[r] /\ at[r] > 0 => Len(got[r]) = Len(CallOf(r).from)

(* No more messages of a call wait than it has sent. *)
NothingFromNowhere ==
  \A s, d \in Ranks : \A c \in 1 .. at[s] : Waiting(s, d, c) <= Sent(s, d, c)

(* UCX keeps the messages of one sender in order. *)
InOrder ==
  \A s, d \in Ranks : \A i, j \in DOMAIN chan[s][d] :
    i < j => chan[s][d][i].call <= chan[s][d][j].call

(* As many messages of a tag have been taken as receives of it are filled. *)
AsManyTakenAsFilled(r, tag) ==
  LET taken == TakenMessages(r, tag)
      filled == FilledReceives(r, tag)
  IN  /\ IsFiniteSet(taken)
      /\ IsFiniteSet(filled)
      /\ Cardinality(taken) = Cardinality(filled)

Conserved ==
  \A r \in Ranks : \A tag \in {CallAt(r, k).takes : k \in DOMAIN Program(job, r)} :
    AsManyTakenAsFilled(r, tag)

(* The barriers of s whose message d has taken. *)
BarriersTaken(s, d) == {k \in 1 .. at[s] : IsBarrier(s, k) /\ Taken(s, d, k) > 0}

(* The barriers of s whose message has not reached a receive of d. *)
BarriersWaiting(s, d) == {k \in 1 .. at[s] : IsBarrier(s, k) /\ Waiting(s, d, k) > 0}

(***************************************************************************)
(* A receive of a barrier may take a message of a later one, so a rank gets*)
(* past barriers without the messages of a slow peer: but past no more than*)
(* it has taken of that peer, and one for each of the others, which are at *)
(* most one barrier ahead.                                                 *)
(***************************************************************************)
KeptUp ==
  \A s, d \in Ranks : s # d =>
    BarriersPassed(d) <= Cardinality(BarriersTaken(s, d)) + (job.size - 2)

FewBarriersWait ==
  \A s, d \in Ranks : s # d =>
    /\ IsFiniteSet(BarriersWaiting(s, d))
    /\ Cardinality(BarriersWaiting(s, d)) <= job.size
    /\ at[s] > 0 /\ ~IsBarrier(s, at[s]) =>
         Cardinality(BarriersWaiting(s, d)) <= job.size - 1

(* No rank is sent more messages of a tag than it ever waits for. *)
Balanced(j) ==
  \A s, d \in 0 .. j.size - 1 : \A k \in DOMAIN Program(j, s) :
    LET tag == Program(j, s)[k].tag IN
    CountIn(Program(j, s)[k].to, d) > 0 =>
      Cardinality(MessagesTo(j, d, tag)) <= Cardinality(ReceivesOf(j, d, tag))

-----------------------------------------------------------------------------
(* Where the ranks make the same calls at each other. *)

(* A rank that has begun a barrier has all data sent to it before. *)
Delivered ==
  \A r, s \in Ranks : \A b \in 1 .. at[r] : IsBarrier(r, b) =>
    \A c \in 1 .. b - 1 : ~IsBarrier(s, c) => Taken(s, r, c) = Due(s, r, c)

(* What a data call receives was sent with its tag, with no barrier in between. *)
SameSection ==
  \A r \in Ranks : ~IsBarrier(r, at[r]) =>
    \A i \in DOMAIN got[r] :
      LET c == got[r][i].call IN
      /\ c \in DOMAIN Program(job, got[r][i].src)
      /\ CallAt(got[r][i].src, c).tag = CallOf(r).takes
      /\ \A b \in DOMAIN Program(job, r) :
           IsBarrier(r, b) => ~(c <= b /\ b < at[r]) /\ ~(at[r] < b /\ b <= c)

(***************************************************************************)
(* Two calls of a rank that take the same tag have a barrier in between, or*)
(* only ever hear of one and the same peer.  This is so in the blocking    *)
(* collective benchmarks and in those of a pair of ranks, not among the    *)
(* warm-up iterations of a non-blocking collective of three.               *)
(***************************************************************************)
OnlyFrom(call, s) == \A i \in DOMAIN call.from : call.from[i] = s

Ordered(j) ==
  \A r \in 0 .. j.size - 1 : \A k, l \in DOMAIN Program(j, r) :
    k < l /\ Program(j, r)[k].takes = Program(j, r)[l].takes =>
      \/ \E b \in k .. l : Program(j, r)[b].tag = BarrierTag
      \/ \E s \in 0 .. j.size - 1 :
           OnlyFrom(Program(j, r)[k], s) /\ OnlyFrom(Program(j, r)[l], s)

OrderedJobs == {j : j \in {k \in MatchedJobs : Ordered(k)}}

(* Who sends data to a rank hears from it in one of its next two calls, if it makes them. *)
Answered(j) ==
  \A s, d \in 0 .. j.size - 1 : \A k \in DOMAIN Program(j, s) :
    LET answer == AnsweredIn(j, s, k, d) IN
    /\ Program(j, s)[k].tag # BarrierTag
    /\ CountIn(Program(j, s)[k].to, d) > 0
    /\ answer \in DOMAIN Program(j, s)
    => Hears(j, s, answer, d)

(***************************************************************************)
(* The messages from s that wait at d while s is in its k-th call: data of *)
(* the calls since the last barrier s is past, where d answers only of     *)
(* those s has not had the answer to, and barriers' messages.              *)
(***************************************************************************)
Lingering(j, s, d, k) ==
  {c \in 1 .. k : /\ Program(j, s)[c].tag # BarrierTag
                  /\ \A b \in c .. k - 1 : Program(j, s)[b].tag # BarrierTag
                  /\ j \in OrderedJobs /\ Answered(j) => k <= AnsweredIn(j, s, c, d)}

LingeringData(j, s, d, k) ==
  UNION {{<<c, i>> : i \in 1 .. CountIn(Program(j, s)[c].to, d)} : c \in Lingering(j, s, d, k)}

(* One barrier's message for each rank, the last only while s is inside it. *)
QueueBound(j, s, d, k) ==
  Cardinality(LingeringData(j, s, d, k))
    + (IF Program(j, s)[k].tag = BarrierTag THEN j.size ELSE j.size - 1)

QueuesBounded ==
  \A s, d \in Ranks :
    IF at[s] = 0 THEN chan[s][d] = <<>>
                 ELSE Len(chan[s][d]) <= QueueBound(job, s, d, at[s])

(* By its programs alone, a matched job whose queues stay short. *)
Short(j) ==
  \A s, d \in 0 .. j.size - 1 : \A k \in DOMAIN Program(j, s) :
    QueueBound(j, s, d, k) <= MaxQueued

(* A data call takes its own messages, all of them and no other. *)
TakesItsOwn ==
  \A r, s \in Ranks : \A c \in DOMAIN Program(job, s) : ~IsBarrier(s, c) =>
    /\ c > at[r] => Taken(s, r, c) = 0
    /\ c = at[r] => Taken(s, r, c) = CountIn(got[r], [src |-> s, call |-> c])
    /\ Passed(r, c) => Taken(s, r, c) = Due(s, r, c)

(***************************************************************************)
(* What each step of a rank waits for: nothing, its sends, a message, both.*)
(***************************************************************************)
CanBegin(r) == ~inside[r] /\ at[r] < Len(Program(job, r))

CanSend(r) == inside[r] /\ todo[r] # <<>> /\ SendsFinished(r)

CanReceive(r) == Posted(r) > 0 /\ \E s \in Ranks : Candidates(s, r) # {}

CanReturn(r) == inside[r] /\ todo[r] = <<>> /\ SendsFinished(r) /\ Posted(r) = 0

CanStep(r) == CanBegin(r) \/ CanSend(r) \/ CanReceive(r) \/ CanReturn(r)

(* A job some call of which waits until its messages are taken. *)
WaitsForSends(j) ==
  j.rndv /\ \E r \in 0 .. j.size - 1 :
              \E k \in DOMAIN Program(j, r) : Program(j, r)[k].waits # "never"

(* The ranks never all wait for each other. *)
NeverStuck == Done \/ \E r \in Ranks : CanStep(r)

-----------------------------------------------------------------------------

(* What holds of every job, matched or not. *)
Accounts ==
  /\ TypeOK /\ Settled /\ NothingFromNowhere /\ InOrder
  /\ Conserved /\ BarriersSeparate /\ KeptUp

(***************************************************************************)
(* The inductive invariant: every message is accounted for and barriers    *)
(* separate; a matched job has all data delivered at a barrier and takes   *)
(* data of one section only; an ordered one takes the data of each call in *)
(* that call.                                                              *)
(***************************************************************************)
IInv ==
  /\ Accounts
  /\ job \in MatchedJobs => Delivered /\ SameSection
  /\ job \in OrderedJobs => TakesItsOwn
=============================================================================
