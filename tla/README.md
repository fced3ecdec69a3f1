# A TLA+ model of osu-micro-benchmarks-rs

The repository reimplements the OSU micro-benchmarks in Rust. Every benchmark is
a job of `size` ranks; each rank owns an `OsUContext` and drives UCX by itself.
There is no server and no shared memory: what can go wrong lies in the order in
which messages of several ranks, all carrying the same few tags, meet the
receives of the others.

## Inventory

| component | state | operations | interacts through | what makes it correct |
|---|---|---|---|---|
| `barrier` (`collective_blocking.rs`) | loop counters; messages in flight | `barrier` | one byte to every peer, one tag for all calls | nobody leaves before everybody has entered; nothing is left in flight; every call returns |
| blocking collectives (`collective_blocking.rs`) | buffers of the caller | `bcast` ... `neighbor_alltoallw` | tagged messages, any-source receives | one message of each peer and of this call; no deadlock of awaited sends |
| non-blocking collectives (`non_blocking.rs`) | `OsURequest`: pending receives | `i*`, `test`, `wait` | the same tags as the blocking ones | `wait` returns, with the data in the buffer |
| progress and tag matching (`context.rs`, UCX) | queues of each sender to each receiver | `progress`, tag send and receive | | order of one sender's messages |
| collective benchmarks (`collective/src/bin`) | timers | `run_benchmark` | barriers around the timed call, three allreduces per size; UCC's allreduce where a rank has a team | iterations do not mix, buffers are free when refilled, every rank finishes |
| point-to-point benchmarks (`pt2pt/src/bin`) | window of requests | ping-pong, window and ACK, two windows | ranks 0 and 1 only | the time covers the delivery; they finish; one rank cannot run away |
| startup (`context.rs`, `ucc_oob.rs`) | PMIx store, endpoints, OOB state, UCC team | `init_with_rma`, `init_ucc`, `ucc_oob_allgather` | PMIx put/commit/fence/get, OOB messages | addresses are there when read; OOB calls do not mix; all ranks or none get a team |
| fan-in and fan-out (`congestion/`) | host names, node ids, queues of partners | `fan_init`, loops | `allgather`, `bcast`, windows and acknowledgements | every window has a receiver and every acknowledgement a sender |
| one-sided (`onesided/`) | registered memory, buffers of a size, accesses in flight | put, get, atomics, flush; teardown | RMA, no handshake at the end | accesses end before their buffers, stay inside the memory, do not overlap; every rank leaves |
| command line (`cli.rs`) | arguments | `message_sizes`, `ucc_backend` | | sizes grow strictly, so there is a last one |
| timing, output, `libp.rs` | | formatting | | unit tests of the repository |

Hard behaviours: anonymous any-source receives under one tag; dropped send
requests; rendezvous sends that finish only when received; ranks that are an
iteration apart; steps of startup that fail on one rank alone; loops that wait
without a timeout. `PROJECT.json` lists them line by line as hazards.

## Modules

| module | models | relation to the code |
|---|---|---|
| `AbstractBarrier` | what a caller of `barrier` relies on | two counters for each rank, no messages |
| `Barrier` | `OsUContext::barrier` | `Enter`, `SendToPeer`, `RecvFromAny`, `Return` are the entry, one iteration of the send loop, one of the receive loop, and the end |
| `BarrierProofs` | | theorems about `Barrier` |
| `Calls` | the shape of a call | destinations, receive slots, tag, whether sends are waited for, whether the data reaches the caller |
| `Collectives` | every function of `collective_blocking.rs` | one operator for each, giving the calls rank `r` of `n` makes |
| `NonBlocking` | every `i*` function and `wait` | likewise |
| `TimedLoops` | the loops over sizes and iterations | what both kinds of collective benchmarks share: `Repeat` and its constants |
| `CollectiveBenchmarks`, `NonBlockingBenchmarks`, `PairBenchmarks` | `run_benchmark` of every binary | the sequence of calls a rank makes |
| `FanTopology` | `fan_init` on rank 0 | node ids, local ranks and queues as operators on the host names |
| `FanBenchmarks` | `fan_init` as communication, `osu_bw_fan_in`, `osu_bw_fan_out` | programs like those above; `Fan` is what both do around their iterations |
| `Job` | ranks that run such sequences over UCX | `Begin` makes the sends nobody waits for in between, `SendAwaited` one send of a loop that waits for each, `Receive` completes one posted receive, `Return` leaves the call |
| `Queues` | a queue whose receiver takes messages out where it finds a match | `Without` and a count, shared by `Job` and its proofs |
| `JobInvariant` | | the inductive invariant of `Job`, checked by `collectives` |
| `JobLemmas` | | what appending and taking out does to counts; when programs fit each other, also joined and repeated; what each action of `Job` does to the counts of `JobInvariant` |
| `JobProofs` | | theorems about every job: types, balance, barriers, unfed jobs, what is left behind |
| `MatchedProofs` | | theorems about jobs whose ranks make matching calls: delivery, own messages, buffers, queues, no deadlock |
| `CollectiveProofs` | | the programs of `CollectiveBenchmarks` and `NonBlockingBenchmarks` meet the conditions of these theorems |
| `PairJobs` | the jobs that run a program of `PairBenchmarks` | `RunsPair` is the check of the number of ranks at the start of `run_benchmark`; and what holds of pairs alone |
| `PairProofs` | | likewise the programs of `PairBenchmarks`; jobs of more than two ranks |
| `Startup` | `init_with_rma`, `init_ucc`, `ucc_oob_allgather` | one action for each phase and each send and receive of the OOB allgather |
| `StartupProofs` | | theorems about `Startup` |
| `MessageSizes` | `message_sizes` | the step from a size to the next |
| `OneSided` | the nine one-sided binaries, from `main` to the end of the context | a record for each binary; `FlushBefore`, `Issue`, `FlushAfter` are an iteration, `Land` carries an access out at the target, `Close` and `Free` drop the context and its memory |
| `OneSidedProofs` | | theorems about `OneSided` |
| `MC*` | instances for TLC | jobs and programs to run |

`Job` EXTENDS nothing of the benchmarks: an MC module extends both and gives
`Job` its constant `Program`. `JobInvariant`, `JobLemmas`, `JobProofs` and
`MatchedProofs` extend `Job` one after the other, so the proofs know of a program
only what `ProgramAssumption` says. `CollectiveProofs` extends `MatchedProofs`,
`CollectiveBenchmarks` and `NonBlockingBenchmarks`, `PairProofs` extends
`MatchedProofs` and `PairJobs`. The collective benchmarks are built on `TimedLoops`,
`FanBenchmarks` on `PairBenchmarks` and `FanTopology`, `OneSided` on `MessageSizes`. `Barrier` INSTANCEs
`AbstractBarrier` WITH its own counters in place of the abstract ones.

`Barrier` keeps one barrier in all its detail.
`Job` composes everything above: its ranks run the benchmarks' programs, barriers
included, and messages of all calls share the channels. Definitions headed
"Fault" are mistakes the properties are shown to notice; no specification uses
them.

### What is abstracted

* Payloads are not modelled. A message carries the sender, the tag and, as
  history that no guard reads, the call that sent it. So a property can say that
  the data a call returns is that of the right peer and call.
* UCX is external: messages of one sender to one receiver are matched in order,
  a receive with the full mask matches its tag from any sender, an eager send is
  finished at once and a rendezvous send when it has been received. Errors
  reported by UCX are not modelled.
* Dropped sends of a call are one step with its beginning: no receive can tell a
  message not sent yet from one still under way.
* Receives that the code posts one after the other are a count of receives to
  come. All receives of a call have the same tag and sources, so which one takes
  a message makes no difference to what the call takes.
* `usize` wrapping is modelled with a word of 4 bits, whose remainders agree with
  those of a word of 64 bits for the sizes that are run.
* PMIx is external: what is committed before the fence is found after it, as the
  comment on the fence in `context.rs` says.
* How often UCC calls the OOB allgather is its choice (`OobRounds`).
* OpenSHMEM is never initialised by this commit (`openshmem_initialized` is
  false), so its branches are not taken. UCC's allreduce is external: it is
  completed when all members of the team have called it.
* A host name is a number in the order of the names. The width of a `usize`, 8
  bytes on the targets in use, is a parameter of the fan benchmarks, because
  `fan_init` panics for 8 and all the rest of these programs would be dead code.
* A one-sided access has an iteration, a number, an address and a length at the
  target. It is in flight until UCX carries it out, which takes the target's
  worker on a transport that emulates it, and its memory alone on hardware that
  does it: a run has either (`needs`). Where what it takes is gone the access
  fails, and `flush_blocking` takes the error for not finished. Accesses that
  are not waited for one by one are issued in one step: until the flush only
  their number in flight could tell. What an access does to the words it meets
  is not modelled.
* The launcher is not modelled. It may kill a job one of whose ranks exits, which
  turns a hang into an abort.

## Runs

| run | instance | states | shows |
|---|---|---|---|
| `barrier` | 3 ranks, 3 calls | 4,193 | `NobodyLeavesEarly` although a rank may count two messages of one peer and none of another; `NothingLeftOver`; `EveryCallReturns`; the refinement of `AbstractBarrier`; the proof's invariant `IInv` |
| `collectives` | every blocking benchmark on 2 ranks, and on 3 those that differ in more than tags, 1 message size with 2 iterations, eager and rendezvous where a send is waited for, UCC on any subset of 2 ranks; four benchmarks on 2 ranks and two of them on 3 with 2 sizes of 1 iteration | 121,846 | `OneMessageOfEachPeer`, `SendBuffersNotReusedEarly`, `QueuesStayShort`, `NothingLeftBehind`, `BarriersSeparate`, `FinishesIffFed`; the proofs' invariant `IInv` |
| `nonblocking` | every `i*` benchmark on 2 and 3 ranks (ring alltoalls on 2), 2 warm-up and 2 timed iterations | 221,808 | messages of warm-up iterations mix, those between two barriers do not (`FencedCallsDoNotMix`); at most `Skip + 3` messages wait at a receiver; `FinishesIffFed` |
| `pair` | every point-to-point benchmark on 2 and 3 ranks, both fans on 8 placements of 2 and 3 ranks, 2 sizes of 2 iterations, windows of 2 | 213,805 | a message is taken before its sender gets past its next call; at most six messages wait at a receiver, whatever the number of iterations; a fan works on one host or with one process per host only (`FansFinishOnOnePerNode`); `FinishesIffFed` |
| `startup` | 3 ranks, 3 OOB calls, any step of `init_ucc` may fail anywhere | 35,800 | no address is read too early; a slot of the OOB allgather holds the right rank's contribution to the right call; a team means that everybody contributed; without a failure everybody starts; the proof's invariant `IInv` |
| `onesided` | all nine binaries, sizes from 0 or 3 up to 4 or 13 (multiplied up to 4, added to above), 2 iterations, windows of 3 | 140,710 | accesses end before the iteration whose buffers they use, stay in the registered memory and do not overlap; sizes grow; a rank leaves unless its target left first; the proof's invariant `IInv` |
| `stuck` | one job for each way to hang: a ring of 3, an empty piece on a ring, a third rank of a pair, a fan with two processes per node or an 8 byte `usize` | | `EveryRankFinishes` fails (findings) |
| `wait_delivers` | `osu_iallgather` | | the receive buffer stays empty (finding) |
| `allgather_slots` | `allgather` on 3 ranks | | a peer's data in another peer's slot (finding) |
| `sends_waited` | `osu_latency_persistent`, rendezvous | | goes on before its send is finished (finding) |
| `ucc_fallback` | 2 ranks, 1 OOB call | | one rank falls back, the other waits for ever (finding) |
| `target_fence` | `osu_put_latency`, one iteration of two sizes | | the target leaves before the origin has made its access (finding) |

### Which jobs finish

The benchmarks are modelled as they are, those that hang included. `Fed` looks at
the programs of a job before anything runs: a job is fed if no rank waits for
more messages of a tag than are ever sent to it. `FinishesIffFed` says that this
count decides everything: a fed job always finishes on every rank, in all
interleavings, so no deadlock comes from ranks waiting for each other's sends or
from a call that takes a message meant for another; and a job that is not fed
never finishes. So the hangs of `stuck` are the only kind there is in these
programs, and each of its jobs is a job of a passing run too, but for the
fan of four ranks, which `pair` counts and does not run.

### Bounds

Three ranks are the least number on which any-source receives have a choice, a
ring has two different neighbors and a fast, a slow and a middle rank exist; two
calls in a row are needed for messages to be taken by the wrong one, and a rank
cannot be more than two calls ahead of another because of the barriers, so two
iterations (and the allreduces after them) show every overlap inside a message
size. Where one size ends and the next begins there is no barrier: the root of a
`bcast` that has got its last sum sends the next data without hearing from
anybody, so four benchmarks run two sizes (`TwoSizes`), the second of which two
ranks cannot share equally. With one size alone the stricter claim that data is
taken before its sender is past its next call would seem true; it is not, and
`SendBuffersNotReusedEarly` says what is. Eight benchmarks whose programs on three
ranks are those of another with other tags (`AlikeOnThree`) run on two only. In
`barrier` three rounds let a rank get ahead twice. The rings on three ranks do not close, which is
a finding; on two they do. `MaxQueued` is the bound TLC finds: four messages
between two ranks for the blocking benchmarks, whatever the number of iterations;
the warm-up plus three for the others; six for pairs and fans with windows of two,
with four iterations as with two. Two OOB
calls are needed for contributions to mix, three let them mix twice. Fans of
three ranks have one host, three hosts, and two hosts that hold one and two
ranks; placements of four ranks (`LargerFans`), where `fan_init` finds a fault or
two processes per host do not work, are counted by `Fed` and not run. For
`onesided` `LargeMessageSize` is 4 and a `usize` has 16 values, so that sizes grow
in both ways and their sum stays below the wrap-around as the real ones do; 4
bytes are less than an atomic's word, 13 are a word and a remainder.

### Deadlock and fairness

A job that lacks a message really stops, so do a rank of `startup` whose peer has
failed and an origin of `onesided` whose target has left. Deadlock is therefore
not checked there; `FinishesIffFed`, `StartsUnlessOneFails` and
`LeavesUnlessAbandoned` say when it may happen and that it does not otherwise.
`barrier` checks deadlock.

Fairness is weak fairness of each rank's steps (`Barrier`, `Startup`, `OneSided`)
or just of some rank's step (`Job`). A rank inside a call spins on
`check_finished()` and `progress()`, outside one it runs on; nothing in the code
suspends a rank, and a rank that waits is waiting for a message that is under
way or never comes. In `OneSided` an access is carried out in the end while its
target is there: that is UCX's part, for a target that spins in its own flushes
or is left to the hardware. A target that runs on without progress until it
leaves is covered as well, since weak fairness lets it leave first.

## Proofs

`BarrierProofs` proves for every job size `N` and every number of calls `Rounds`
(assumed: `N` is a positive natural number, `Rounds` a natural number):

* `InductiveInvariant`, `TypeCorrect`: `IInv` and `TypeOK` hold always;
* `BarrierSafe`: `NobodyLeavesEarly`;
* `NoMessageOutlivesItsBarrier`: `NothingLeftOver`;
* `BarrierRefines`: `Spec` implements `AbstractBarrier`.

`NobodyLeavesEarly` is not inductive: a rank leaves because it has *counted*
`N-1` messages. The invariant adds that only messages that were sent exist and
none is consumed twice (`OnlySentMessages`), and that the number of messages a
rank has consumed is `(N-1)` for each finished call plus those of the current
one (`Counted`). When rank `i` leaves its `k`-th call it has consumed `(N-1)*k`
different messages. A peer that has entered `k-1` calls only could have sent
`k-1` of them, and the others, by the invariant itself, at most `k` each,
since nobody can be a call further before `i` has left. That is one too few, so
there is no such peer. The lemmas state the cardinality facts this rests on.
Refinement follows from `NobodyLeavesEarly` for the step `Return`; all other
steps map to `Arrive` or stutter.

`StartupProofs` proves for every `N` and `OobRounds` (assumed: `N` positive,
`OobRounds` a natural number), with failures of any step on any rank:

* `InductiveInvariant`, `TypeCorrect`;
* `NoOtherPanic`: `OnlyForcedUccPanics`;
* `OobGathers`: `OobGathersItsRound`;
* `CallsStayClose`: `OobCallsStayClose`;
* `TeamIsComplete`: `TeamMeansEveryoneJoined`.

A message of the callback does not say which call it belongs to, so the
invariant counts. `Got(d, s)` is the number of contributions of `s` that `d` has
received: its number of calls, less one as long as the slot of `s` is empty.
`Put(s, d)`, those `s` has sent, is `Got(d, s)` and what is in the channel. The
invariant (`ChannelHolds`) says that the channel holds exactly the calls `d`
lacks, in order, and that `s` has sent one for each of its calls but perhaps the
last. A rank begins a call with every slot of the last one filled, hence
everybody's `Put` is at least its own number of calls: this keeps the calls
within one of each other and makes the head of a channel a message of the current
call. The part about PMIx (`FenceHolds`) is separate: past the fence everything
has been published. The lemmas show what each step does to a channel.

`OneSidedProofs` proves for every set of benchmarks, range of sizes, number of
iterations and window (assumed: at least one iteration, a window of at least one,
an increment of at least 2, sizes that do not wrap):

* `InductiveInvariant`, `TypeCorrect`;
* `BuffersOutlive`: `OriginBuffersOutliveAccesses`;
* `StaysInside`: `AccessesStayInside`;
* `NoOverlap`: `AccessesDoNotOverlap`;
* `GrowingSizes`: `SizesGrow`.

Its invariant says that what is in flight is a subset of the accesses
`1 .. issued[r]` of the current iteration, empty outside of it, and that the size
is at most the largest asked for. That nothing survives an iteration is what the
second flush is for; with it the positions of a window, `(i - 1) * size`, give
the bounds and the disjointness. `TimesMonotone` is the arithmetic, `GrowGrows`
the lemma about message sizes. The assumption on the increment is needed: the
command line does not check it, and with 1 `message_sizes` does not end.

`JobProofs` and `MatchedProofs` prove for every set of jobs, number of ranks,
program, and eager or rendezvous sends:

| theorem | of | states |
|---|---|---|
| `TypeCorrect` | every job | `TypeOK` |
| `AccountsBalance` | every job | `Accounts`: messages taken and receives filled balance |
| `BarriersAlwaysSeparate` | every job | `BarriersSeparate` |
| `UnfedJobsNeverFinish` | every job | `OnlyFedJobsFinish`, the safety half of `FinishesIffFed` |
| `InductiveInvariant` | every job | `IInv` |
| `MatchedJobsLeaveNothing` | `MatchedJobs` | `NothingLeftBehind` |
| `BarriersFence` | `MatchedJobs` | `FencedCallsDoNotMix` |
| `OrderedCallsTakeTheirOwn` | `OrderedJobs` | `OneMessageOfEachPeer` |
| `AnsweredSendsAreTaken` | `OrderedJobs` that are `Answered` | `SendBuffersNotReusedEarly` |
| `FewBarrierMessagesWait` | every job | `FewBarriersWait`: at most one barrier's message for each rank waits between two ranks |
| `BalancedJobsLeaveNothing` | `Balanced` or unfed jobs | `NothingLeftBehind` |
| `QueuesAreBounded` | `MatchedJobs` | `QueuesBounded`: the data of the calls since the last barrier, and the barriers' messages |
| `ShortJobsKeepQueuesShort` | `MatchedJobs` that are `Short` | `QueuesStayShort` |
| `TwoRanksTakeTheirOwn` | `MatchedJobs` of two ranks | `OneMessageOfEachPeer` |
| `MatchedJobsNeverStuck` | `MatchedJobs`; if rendezvous sends are waited for (`WaitsForSends`), `OrderedJobs` | `NeverStuck`: done, or some rank can take a step |
| `MatchedJobsAreFed` | `MatchedJobs` | they are fed |

The assumptions: `ProgramAssumption` is what `Calls` and `Collectives` make
of the code: calls are records among the ranks of the job, and the tag of
`barrier` and `ibarrier` is used by nothing else, each of whose calls sends one
message to every peer and receives as many (`BARRIER_TAG` occurs in these two
functions only). TLC evaluates it for the programs of all three runs.
`QueueAssumption` says that `MaxQueued` is a natural number.

The conditions on jobs look at the programs before anything runs. A matched
job is one whose k-th calls send to a rank what the k-th call of that rank
expects; in an ordered one two calls that take the same tag have a barrier in
between or hear of one peer only; in an answered one a rank that data is sent to
is heard from in one of the sender's next two calls; a balanced one sends no rank
more messages of a tag than it waits for; a short one keeps the bound of
`QueuesAreBounded` within `MaxQueued`. TLC counts:

| run | jobs | fed | matched | ordered | answered | short |
|---|---|---|---|---|---|---|
| `collectives` | 52 | 45 | 45 | 45 | 45 | 43 |
| `nonblocking` | 37 | 34 | 32 | 21 | 13 | 18 |
| `pair` | 81 | 42 | 34 | 34 | 22 | 22 |

In `collectives` the jobs that are not fed are the rings of three,
which do not close, and `osu_allreduce` with UCC on one rank of two; not short
are the two rooted benchmarks of two sizes on three ranks, whose bound is 5 and
which TLC finds to need 4. In `pair`
the 22 point-to-point jobs of two ranks have every condition; of those of three ranks
none is matched, and none finishes. The 12 fans of two ranks with a `usize` of 4
bytes are matched and ordered, not answered: nobody answers the four broadcasts
of `fan_init` between each other. A fan of three has ranks that make more calls
than others, so it is not matched and only model-checked. In `nonblocking` the
matched jobs that are not ordered are the collectives of
three ranks with more than one sender, whose warm-up iterations do mix. Every
fed job of the three runs is balanced.

No message says which call it belongs to and no receive asks for a sender, so
the invariant counts. What rank `d` has taken of call `c` of `s` is what `s` has
sent to it in `c` less what waits in the channel (`Taken`).

1. `Conserved`: of every tag a rank takes, it has taken as many messages as it has
   filled receives. This holds in every job; the triples of `TakenMessages`
   number the messages of a call, and a receive adds one to it and one pair to
   `FilledReceives` (`ConservedStep`).
2. `BarriersSeparate` needs nothing else. If rank `r` gets past its n-th barrier
   it has taken `(n-1)` messages for each of `1 .. n`, times the number of peers.
   If some `q` had begun fewer than n, `q` could have sent fewer than n of them, and
   by the invariant itself no other rank is further than its n-th: too few
   (`BarrierHolds`, an injection into a smaller set).
3. A rank may get past barriers by the messages of fast peers for later ones while
   those of a slow peer wait. `KeptUp` limits it: the barriers `d` is past are at
   most those of which it has taken the message of `s`, and one for each other
   peer. It is established where a rank gets past a barrier (`KeptUpAtReturn`): it
   has taken enough messages for all barriers up to this one, and the other peers
   have sent at most one more each. With it no
   more than one barrier's message for each rank waits (`FewBarriersWait`).
4. In a matched job the receives a rank has filled up to a call with no earlier
   one left open are as many as the messages due to it from the same calls of its
   peers. If it has taken none of a later call, it has taken all of these and
   exactly these (`ExactlyTheirs`). At a barrier none can be of a later call,
   because nobody is past that barrier: so all data is delivered (`Delivered`),
   and what a data call takes lies between the same two barriers (`SameSection`).
   Data that waits was therefore sent since the sender's last barrier: that and
   `FewBarriersWait` give `QueuesBounded`.
5. In an ordered job the calls of a section that take one tag come from one peer,
   whose messages UCX keeps in order (`InOrder`), or there is just one such call.
   Either way a call takes its own messages (`TakesItsOwn`). A sender that is past
   an answer has what its peer sent after it had returned from the call in
   question: the data is taken.
6. `NeverStuck`: suppose a job that is not done and no rank of which can step. Take a
   rank that no other is behind, counted in calls. If no message were there for its
   receives, it would have taken everything its calls so far expect, by
   `Conserved`, and have no receive left (`ReceivesAreMet`). If a rendezvous send
   of it is not finished, the receiver is in the same call or further; in an ordered
   job a later call leaves no data of this one behind, so the receiver is in
   this call and has a receive for it (`SendsAreMet`).
   `CanBegin` .. `CanReturn` are the guards of the actions of `Step`, because the
   prover does not know ENABLED; TLC finds `NeverStuck` wherever the theorem has it
   in all three runs.

`NothingLeftBehind`, `FencedCallsDoNotMix`, `OneMessageOfEachPeer`,
`SendBuffersNotReusedEarly`, `QueuesBounded` and `NeverStuck` follow from `IInv`
without looking at steps.

`CollectiveProofs` shows that the conditions hold of the code's programs for every
number of ranks, all message sizes and at least one iteration. `CollectivePrograms`
are the programs of all blocking collective benchmarks but the five rings, where
rank 0 does not find its left neighbor, and `osu_allreduce` where all ranks use UCC
or none does. A job that runs one of them is a `CollectiveJob`: 34 of the 52
of `collectives`, and the 6 with two sizes for the sizes they run. For these:

| theorem | states |
|---|---|
| `CollectivesTakeTheirOwn` | `OneMessageOfEachPeer` |
| `CollectivesReuseNoBufferEarly` | `SendBuffersNotReusedEarly` |
| `CollectivesLeaveNothing` | `NothingLeftBehind` |
| `CollectivesNeverStuck` | `NeverStuck` |
| `CollectivesKeepQueuesShort` | `QueuesStayShort` if `MaxQueued` is at least `n + 2` for `n` ranks |

A program is put together from pieces: a barrier, iterations of the collective and
a barrier, the allreduces of the timings. `Orderly` is what is said of
the pieces of all ranks side by side: they fit call by call (`Agree`), two calls of
a tag in one of them have a barrier in between (`Apart`), of two calls in a row
one hears from everybody (`Heard`); and, so that this survives putting one piece
after another (`JoinOrderly`), which tags are taken before its first barrier and
after its last. The loops are folds (`FlattenSeq`), and the prover has no induction
over them; but a fold is a recursive function, which is shown to exist
(`JoinsExist`), and if some number of iterations left a set of programs that
`Join` does not leave, a least number would (`FlattenKeeps`). At least one
iteration is needed: without any the allreduces of one message size follow those
of the one before with no barrier between them.

The second half of `CollectiveProofs` is about the non-blocking benchmarks, again
but for the five rings, for every number of ranks, any number of warm-up (`Skip`)
and timed iterations, none included, with eager and rendezvous sends. `NonBlockingPrograms`
are the programs, and 30 of the 37 jobs of `nonblocking` are `NonBlockingJob`s.

| theorem | states |
|---|---|
| `NonBlockingLeaveNothing` | `NothingLeftBehind` |
| `NonBlockingDoNotMix` | `FencedCallsDoNotMix` |
| `NonBlockingNeverStuck` | `NeverStuck` |
| `NonBlockingKeepQueuesShort` | `QueuesStayShort` if `MaxQueued` is at least `Skip + n + 3` for `n` ranks |

These jobs are matched but not ordered: nothing separates the warm-up iterations, and
with three ranks and more their messages do mix. What they have instead is that no
call waits for its sends (`Unawaited`), so a rank that is stuck could only be waiting
for a receive, and `NeverStuck` needs no order. `Loose` is what is said of a piece:
the ranks agree, no call waits for its sends, and between two barriers there are at
most so many calls (`Bursts`), with how many at the end, so that it survives `Join`
(`JoinLoose`). The longest burst is the warm-up and what follows it
until the next barrier, without timed iterations the allreduces of the timings; each
of its calls leaves at most one message (`NonBlockingQueueBound`), and the rest of the bound are barrier messages. With
`Skip = 2` TLC finds 5 to be enough on three ranks where the theorem needs 8. On two
ranks the warm-up does not mix either, by `TwoRanksTakeTheirOwn`: each rank has one
peer, whose messages come in order.

`PairProofs` does it for the eleven programs of `PairBenchmarks`, any number of
message sizes and iterations, none included, and any window. A job that runs one of
them is in `JobsOfPairs`, with two ranks or more: 33 of the jobs of `pair`.

| theorem | of | states |
|---|---|---|
| `PairsTakeTheirOwn` | all | `OneMessageOfEachPeer` |
| `PairsReuseNoBufferEarly` | all | `PairBuffersNotReusedEarly` |
| `PairsLeaveNothing` | all | `NothingLeftBehind` |
| `PairsKeepQueuesShort` | all, if `MaxQueued` is at least two windows and 1 | `QueuesStayShort` |
| `PairsNeverStuck` | two ranks | `NeverStuck` |
| `ThirdRankHangs` | more than two | `~Done` |

With two ranks a program is put together from pieces as before. `Turns(H)` is what
is said of a piece: the ranks agree; who sends data hears from the other in its next
call (`Echoed`); and, so that this survives `Join`, the ranks in `H` begin by hearing
from the other and the others end with a call that sends no data. Of a ping-pong and
of a window with its ACK `H` is rank 1, of two windows at once both ranks. There is
no barrier between iterations and none is needed: both calls of a tag hear from the one
peer there is, so the jobs are ordered (`PairOrdered`), and they are answered by the
next call (`PairAnswers`), not just by the next two. Hence no
message of a call before the last one waits, which bounds the queues
(`PairLingers`). With more than two ranks the third has an empty program, hence has
begun no barrier, and by `BarriersAlwaysSeparate` nobody gets past its first
(`ThirdRankWaits`): no data is ever sent.

Only model-checked:

* liveness (`EveryCallReturns`, `FinishesIffFed`, `StartsUnlessOneFails`,
  `LeavesUnlessAbandoned`) and ENABLED, which are out of the prover's reach;
* `QueuesStayShort` of jobs that are not matched or not short, such as those of
  three ranks with a window;
* `SendBuffersNotReusedEarly` in jobs that are not matched;
* the other properties of matched jobs for fans of three;
* `FansFinishOnOnePerNode`, a count over concrete placements;
* the rings, blocking and not, which are matched for some numbers of ranks only,
  those whose left neighbors close the ring;
* that the programs of the fan benchmarks are matched for other numbers of
  iterations and windows than those run.

## Plan

1. Done: `Barrier`, `Startup`, `OneSided` and `Job` with proofs; the collectives,
   the non-blocking, point-to-point and fan benchmarks; `MessageSizes`; the
   theorems of jobs for the programs of the collectives, blocking and not, and of
   the pairs.
2. The theorems of matched jobs for fans of more than two ranks, whose calls
   match tag by tag between two barriers and not one by one.
3. `SendBuffersNotReusedEarly` of the unmatched jobs: the part of it that needs
   barriers alone.

## Not modelled

* Timing and output (`timing.rs`, `output.rs`): formatting and floating point,
  covered by unit tests. `libp.rs`: string helpers with unit tests.
* Option parsing in `cli.rs`: it sets fields, with unit tests.
* `osu_init` and `osu_hello`: they start up and print. The persistent collective
  binaries exit with status 77.
* Errors UCX and PMIx report: almost all are panics at the call; the
  v-collectives ignore some (a hazard).
* The order in which UCC's team, the worker and the UCX context are dropped: it
  differs from the comment in `context.rs` (a hazard), but what follows is up to
  the libraries.
