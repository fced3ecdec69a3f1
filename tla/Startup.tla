------------------------------ MODULE Startup ------------------------------
(***************************************************************************)
(* OsUContext::init_with_rma on every rank (common/src/runtime/context.rs):*)
(* the ranks learn each other's addresses through PMIx, connect, and then  *)
(* create a UCC team, each for itself (common/src/runtime/ucc_oob.rs).     *)
(*                                                                         *)
(* Creating a team makes UCC call ucc_oob_allgather a number of times.  A  *)
(* message of that callback carries its sender in the tag but not the call *)
(* it belongs to.  Every step of the team's creation can fail on one rank  *)
(* alone, which then goes on without a team, or panics under --ucc.        *)
(***************************************************************************)
EXTENDS Naturals, Sequences, FiniteSets

CONSTANTS
  N,            \* the job size
  OobRounds     \* calls of ucc_oob_allgather that create a team (UCC's choice)

ASSUME StartupAssumption == N \in Nat \ {0} /\ OobRounds \in Nat

VARIABLES
  ucc,          \* --ucc, --no-ucc or neither: "on", "off", "auto"
  rndv,         \* whether a send is finished only when it has been received
  pc,           \* pc[r]: how far rank r has come
  store,        \* the ranks whose values PMIx_Commit has made visible
  fence,        \* the ranks that have called PMIx_Fence
  known,        \* known[r]: the peers whose values r has
  round,        \* round[r]: calls of ucc_oob_allgather
  todo,         \* todo[r]: peers the current call has not sent to
  posted,       \* posted[r]: peers with a posted receive
  slots,        \* slots[r][p]: history, the call of p whose data slot p holds
  chan,         \* chan[s][d]: calls whose message is on its way from s to d
  team          \* team[r]: init_ucc returned a team

pmix == <<store, fence, known>>
oob == <<round, todo, posted, slots, chan>>
vars == <<ucc, rndv, pc, pmix, oob, team>>

Ranks == 0 .. N-1

Peers(r) == Ranks \ {r}

NextIn(S) == CHOOSE p \in S : \A q \in S : p <= q

Init ==
  /\ ucc \in {"on", "off", "auto"}
  /\ rndv \in BOOLEAN
  /\ pc = [r \in Ranks |-> "publish"]
  /\ store = {}
  /\ fence = {}
  /\ known = [r \in Ranks |-> {r}]
  /\ round = [r \in Ranks |-> 0]
  /\ todo = [r \in Ranks |-> {}]
  /\ posted = [r \in Ranks |-> {}]
  /\ slots = [r \in Ranks |-> [p \in Ranks |-> 0]]
  /\ chan = [s \in Ranks |-> [d \in Ranks |-> <<>>]]
  /\ team = [r \in Ranks |-> FALSE]

Goto(r, label) == pc' = [pc EXCEPT ![r] = label]

-----------------------------------------------------------------------------
(* The address exchange. *)

(***************************************************************************)
(* PMIx_Put of the worker's address and, for a one-sided benchmark, of the *)
(* key and the address of the memory it has registered.  PMIx_Commit makes *)
(* them visible together.                                                  *)
(***************************************************************************)
Publish(r) ==
  /\ pc[r] = "publish"
  /\ store' = store \cup {r}
  /\ Goto(r, "fence")
  /\ UNCHANGED <<ucc, rndv, fence, known, oob, team>>

EnterFence(r) ==
  /\ pc[r] = "fence"
  /\ fence' = fence \cup {r}
  /\ Goto(r, "fenced")
  /\ UNCHANGED <<ucc, rndv, store, known, oob, team>>

(* Fault: the fence does not hold anybody back. *)
LeaveFenceAtOnce(r) ==
  /\ pc[r] = "fenced"
  /\ Goto(r, "get")
  /\ UNCHANGED <<ucc, rndv, pmix, oob, team>>

LeaveFence(r) ==
  /\ pc[r] = "fenced"
  /\ fence = Ranks
  /\ Goto(r, "get")
  /\ UNCHANGED <<ucc, rndv, pmix, oob, team>>

(* PMIx_Get of what the next peer has put; expect() panics if it is not there. *)
GetAddress(r) ==
  /\ pc[r] = "get"
  /\ known[r] # Ranks
  /\ LET p == NextIn(Ranks \ known[r]) IN
       /\ known' = [known EXCEPT ![r] = @ \cup ({p} \cap store)]
       /\ Goto(r, IF p \in store THEN "get" ELSE "panicked")
  /\ UNCHANGED <<ucc, rndv, store, fence, oob, team>>

(* Endpoints to all ranks are created and flushed, their keys unpacked. *)
Connect(r) ==
  /\ pc[r] = "get"
  /\ known[r] = Ranks
  /\ Goto(r, IF ucc = "off" THEN "running" ELSE "library")
  /\ UNCHANGED <<ucc, rndv, pmix, oob, team>>

-----------------------------------------------------------------------------
(* init_ucc. *)

(* init_ucc returns None: fatal only under --ucc. *)
WithoutTeam(r) == Goto(r, IF ucc = "on" THEN "panicked" ELSE "running")

InitLibrary(r) ==
  /\ pc[r] = "library"
  /\ Goto(r, "context") \/ WithoutTeam(r)
  /\ UNCHANGED <<ucc, rndv, pmix, oob, team>>

(* The context is created without the OOB callbacks: it calls none. *)
CreateContext(r) ==
  /\ pc[r] = "context"
  /\ Goto(r, "team") \/ WithoutTeam(r)
  /\ UNCHANGED <<ucc, rndv, pmix, oob, team>>

(* Fault: one call too many. *)
OobCallOnceMore(r) ==
  /\ pc[r] = "team"
  /\ round[r] <= OobRounds
  /\ round' = [round EXCEPT ![r] = @ + 1]
  /\ posted' = [posted EXCEPT ![r] = Peers(r)]
  /\ todo' = [todo EXCEPT ![r] = Peers(r)]
  /\ Goto(r, "oob")
  /\ UNCHANGED <<ucc, rndv, pmix, slots, chan, team>>

(* UCC calls ucc_oob_allgather, which posts its receives in peer order. *)
OobCall(r) ==
  /\ pc[r] = "team"
  /\ round[r] < OobRounds
  /\ round' = [round EXCEPT ![r] = @ + 1]
  /\ slots' = [slots EXCEPT ![r] = [p \in Ranks |-> IF p = r THEN round'[r] ELSE 0]]
  /\ \/ /\ posted' = [posted EXCEPT ![r] = Peers(r)]
        /\ todo' = [todo EXCEPT ![r] = Peers(r)]
        /\ Goto(r, "oob")
     \/ /\ \E failing \in Peers(r) :
             posted' = [posted EXCEPT ![r] = {p \in Peers(r) : p < failing}]
        /\ WithoutTeam(r)
        /\ UNCHANGED todo
  /\ UNCHANGED <<ucc, rndv, pmix, chan, team>>

(* Each send is waited for before the next is made. *)
SendsFinished(r) ==
  rndv => \A d \in Ranks : \A i \in DOMAIN chan[r][d] : chan[r][d][i] # round[r]

OobSend(r) ==
  /\ pc[r] = "oob"
  /\ todo[r] # {}
  /\ SendsFinished(r)
  /\ LET p == NextIn(todo[r]) IN
       \/ /\ chan' = [chan EXCEPT ![r][p] = Append(@, round[r])]
          /\ todo' = [todo EXCEPT ![r] = @ \ {p}]
          /\ UNCHANGED pc
       \/ /\ WithoutTeam(r)
          /\ UNCHANGED <<chan, todo>>
  /\ UNCHANGED <<ucc, rndv, pmix, round, posted, slots, team>>

(* Fault: one tag for all senders. *)
OobReceiveFromAny(r) ==
  /\ pc[r] \in {"oob", "running"}
  /\ \E p \in posted[r] : \E s \in Ranks :
       /\ chan[s][r] # <<>>
       /\ posted' = [posted EXCEPT ![r] = @ \ {p}]
       /\ slots' = [slots EXCEPT ![r][p] = Head(chan[s][r])]
       /\ chan' = [chan EXCEPT ![s][r] = Tail(@)]
  /\ UNCHANGED <<ucc, rndv, pmix, pc, round, todo, team>>

(* Fault: the sends are waited for before the receives are posted. *)
OobReceiveAfterSends(r) ==
  /\ pc[r] \in {"oob", "running"}
  /\ todo[r] = {} /\ SendsFinished(r)
  /\ \E p \in posted[r] :
       /\ chan[p][r] # <<>>
       /\ posted' = [posted EXCEPT ![r] = @ \ {p}]
       /\ slots' = [slots EXCEPT ![r][p] = Head(chan[p][r])]
       /\ chan' = [chan EXCEPT ![p][r] = Tail(@)]
  /\ UNCHANGED <<ucc, rndv, pmix, pc, round, todo, team>>

(***************************************************************************)
(* The tag of the receive for peer p is the tag of p's messages.  Receives *)
(* that a failed call has left behind complete while the benchmark runs.   *)
(***************************************************************************)
OobReceive(r) ==
  /\ pc[r] \in {"oob", "running"}
  /\ \E p \in posted[r] :
       /\ chan[p][r] # <<>>
       /\ posted' = [posted EXCEPT ![r] = @ \ {p}]
       /\ slots' = [slots EXCEPT ![r][p] = Head(chan[p][r])]
       /\ chan' = [chan EXCEPT ![p][r] = Tail(@)]
  /\ UNCHANGED <<ucc, rndv, pmix, pc, round, todo, team>>

(* Fault: the receives are not waited for. *)
OobReturnEarly(r) ==
  /\ pc[r] = "oob"
  /\ todo[r] = {}
  /\ SendsFinished(r)
  /\ Goto(r, "team")
  /\ UNCHANGED <<ucc, rndv, pmix, oob, team>>

OobReturn(r) ==
  /\ pc[r] = "oob"
  /\ todo[r] = {}
  /\ SendsFinished(r)
  /\ posted[r] = {}
  /\ Goto(r, "team")
  /\ UNCHANGED <<ucc, rndv, pmix, oob, team>>

(* UCC has gathered all it needs; the rest of the creation is local. *)
CreateTeam(r) ==
  /\ pc[r] = "team"
  /\ round[r] = OobRounds
  /\ \/ Goto(r, "running") /\ team' = [team EXCEPT ![r] = TRUE]
     \/ WithoutTeam(r) /\ UNCHANGED team
  /\ UNCHANGED <<ucc, rndv, pmix, oob>>

-----------------------------------------------------------------------------

Step(r) ==
  \/ Publish(r) \/ EnterFence(r) \/ LeaveFence(r) \/ GetAddress(r) \/ Connect(r)
  \/ InitLibrary(r) \/ CreateContext(r) \/ CreateTeam(r)
  \/ OobCall(r) \/ OobSend(r) \/ OobReceive(r) \/ OobReturn(r)

Next == \E r \in Ranks : Step(r)

(* init_with_rma and the loops inside it never give the thread away. *)
Fairness == \A r \in Ranks : WF_vars(Step(r))

Spec == Init /\ [][Next]_vars

FairSpec == Spec /\ Fairness

-----------------------------------------------------------------------------

(* Every variable has its type; nobody is beyond the calls UCC makes. *)
TypeOK ==
  /\ ucc \in {"on", "off", "auto"}
  /\ rndv \in BOOLEAN
  /\ pc \in [Ranks -> {"publish", "fence", "fenced", "get", "library", "context",
                       "team", "oob", "running", "panicked"}]
  /\ store \subseteq Ranks /\ fence \subseteq Ranks
  /\ known \in [Ranks -> SUBSET Ranks]
  /\ round \in [Ranks -> 0 .. OobRounds]
  /\ todo \in [Ranks -> SUBSET Ranks]
  /\ posted \in [Ranks -> SUBSET Ranks]
  /\ slots \in [Ranks -> [Ranks -> 0 .. OobRounds]]
  /\ chan \in [Ranks -> [Ranks -> Seq(1 .. OobRounds)]]
  /\ team \in [Ranks -> BOOLEAN]

(* A rank without --ucc never panics: no address is asked for too early. *)
OnlyForcedUccPanics == \A r \in Ranks : pc[r] = "panicked" => ucc = "on"

(***************************************************************************)
(* What UCC gets from the callback: slot p holds what p contributed to the *)
(* same call, although ranks may be a call apart and messages do not say   *)
(* which call they are from.                                               *)
(***************************************************************************)
OobGathersItsRound ==
  \A r, p \in Ranks : pc[r] = "team" /\ round[r] > 0 => slots[r][p] = round[r]

(***************************************************************************)
(* A rank gets a team only if every rank has made all its contributions,   *)
(* whatever became of that rank afterwards.                                *)
(***************************************************************************)
TeamMeansEveryoneJoined ==
  \A r, q \in Ranks : team[r] => round[q] = OobRounds /\ r \notin todo[q]

(***************************************************************************)
(* The ranks are never more than one call of the callback apart, and so no *)
(* more than two contributions of a rank wait at another.                  *)
(***************************************************************************)
OobCallsStayClose ==
  \A r, q \in Ranks : round[r] <= round[q] + 1 /\ Len(chan[r][q]) <= 2

-----------------------------------------------------------------------------
(* Why these hold: an inductive invariant. *)

(* The calls for which d has received the contribution of s. *)
Got(d, s) == IF slots[d][s] = 0 /\ round[d] > 0 THEN round[d] - 1 ELSE round[d]

(* The calls for which s has sent its contribution to d. *)
Put(s, d) == Got(d, s) + Len(chan[s][d])

(* A rank past the fence knows that all addresses have been published. *)
FenceHolds(r) ==
  /\ pc[r] # "publish" => r \in store
  /\ pc[r] \notin {"publish", "fence", "fenced"} => fence = Ranks

Starting(r) == pc[r] \in {"publish", "fence", "fenced", "get", "library", "context"}

(* A slot is empty as long as its receive is posted, and filled by it. *)
SlotsFill(r) ==
  /\ \A p \in Ranks : slots[r][p] \in {0, round[r]}
  /\ \A p \in posted[r] : slots[r][p] = 0
  /\ pc[r] = "oob" => round[r] > 0 /\ \A p \in Ranks : slots[r][p] = 0 => p \in posted[r]
  /\ pc[r] = "team" \/ team[r] => \A p \in Ranks : slots[r][p] = round[r]

CallsNest(r) ==
  /\ posted[r] \cup todo[r] \subseteq Peers(r)
  /\ Starting(r) => round[r] = 0
  /\ round[r] = 0 \/ pc[r] = "team" \/ team[r] => posted[r] = {} /\ todo[r] = {}
  /\ team[r] => pc[r] = "running" /\ round[r] = OobRounds

(* What is under way from r to d are the calls that d lacks, in order. *)
ChannelHolds(r, d) ==
  /\ \A i \in 1 .. Len(chan[r][d]) : chan[r][d][i] = Got(d, r) + i
  /\ Put(r, d) <= round[r] /\ round[r] <= Put(r, d) + 1
  /\ d \in todo[r] => round[r] = Put(r, d) + 1
  /\ pc[r] \in {"oob", "team"} /\ d \notin todo[r] => round[r] = Put(r, d)

PmixInv == OnlyForcedUccPanics /\ fence \subseteq store /\ \A r \in Ranks : FenceHolds(r)

(***************************************************************************)
(* A rank starts a call only when it has all contributions to the last one,*)
(* so all channels together keep the ranks within a call of each other,    *)
(* and the next message of a peer is always one for the current call.      *)
(***************************************************************************)
OobInv ==
  /\ \A r \in Ranks : SlotsFill(r) /\ CallsNest(r) /\ chan[r][r] = <<>>
  /\ \A r \in Ranks : \A d \in Peers(r) : ChannelHolds(r, d)

(* The inductive invariant of the proofs: the exchange through PMIx, and the calls of UCC. *)
IInv == TypeOK /\ PmixInv /\ OobInv

-----------------------------------------------------------------------------

(* Unless a step fails on some rank every rank gets through init. *)
StartsUnlessOneFails ==
  \/ <>(\A r \in Ranks : pc[r] = "running" /\ (team[r] \/ ucc = "off"))
  \/ <>(\E r \in Ranks : pc[r] = "panicked" \/ (pc[r] = "running" /\ ~team[r] /\ ucc # "off"))

(***************************************************************************)
(* "Returns None gracefully if any step fails - benchmarks fall back to    *)
(* UCX": without --ucc init returns on every rank, with a team or without. *)
(***************************************************************************)
FallsBackGracefully ==
  ucc # "on" => \A r \in Ranks : <>(pc[r] = "running")
=============================================================================
