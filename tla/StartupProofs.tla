---------------------------- MODULE StartupProofs ----------------------------
(***************************************************************************)
(* Theorems about Startup for every job size and every number of calls of  *)
(* ucc_oob_allgather, whichever steps fail on whichever ranks.  A message  *)
(* of that callback does not say which call it belongs to.  The argument   *)
(* counts: the messages between two ranks are those of consecutive calls,  *)
(* and a rank that starts a call has received all those of the last one.   *)
(***************************************************************************)
EXTENDS Startup, SequenceTheorems, WellFoundedInduction, TLAPS

(* The loops over the peers take them in the order of their ranks. *)
LEMMA NextInIsIn ==
  ASSUME NEW S, S \subseteq Ranks, S # {}
  PROVE  NextIn(S) \in S
<1>1. S \subseteq Nat
  BY StartupAssumption DEF Ranks
<1>2. PICK p \in S : \A q \in S : ~(<<q, p>> \in OpToRel(<, Nat))
  BY <1>1, NatLessThanWellFounded, WFMin
<1>3. \A q \in S : ~(q < p)
  BY <1>1, <1>2, Zenon DEF OpToRel
<1>4. \A q \in S : p <= q
  BY <1>1, <1>3
<1> QED
  BY <1>4 DEF NextIn

LEMMA Counts ==
  ASSUME TypeOK, NEW s \in Ranks, NEW d \in Ranks
  PROVE  /\ Len(chan[s][d]) \in Nat
         /\ round[s] \in Nat
         /\ Got(d, s) \in Nat
         /\ Put(s, d) \in Nat
<1>1. chan[s][d] \in Seq(1 .. OobRounds) /\ round[s] \in Nat /\ round[d] \in Nat
  BY StartupAssumption DEF TypeOK
<1>2. Len(chan[s][d]) \in Nat
  BY <1>1
<1>3. Got(d, s) \in Nat
  BY <1>1 DEF Got
<1> QED
  BY <1>1, <1>2, <1>3 DEF Put

LEMMA InitInv == Init => IInv
<1> SUFFICES ASSUME Init PROVE IInv
  OBVIOUS
<1> USE StartupAssumption DEF Init
<1>1. TypeOK
  BY EmptySeq DEF TypeOK, Ranks
<1>2. PmixInv
  BY DEF PmixInv, OnlyForcedUccPanics, FenceHolds
<1>3. OobInv
  BY DEF OobInv, SlotsFill, CallsNest, ChannelHolds, Peers, Put, Got
<1> QED
  BY <1>1, <1>2, <1>3 DEF IInv

-----------------------------------------------------------------------------
(* Steps that only move a rank on. *)

(***************************************************************************)
(* Whatever leaves the callback's state alone preserves what is said of it.*)
(***************************************************************************)
LEMMA OobMove ==
  ASSUME IInv, NEW r \in Ranks, NEW there, Goto(r, there), UNCHANGED <<oob, team>>,
         \/ Starting(r) /\ there # "oob"
         \/ pc[r] \in {"oob", "team"} /\ there \in {"running", "panicked"}
         \/ pc[r] = "oob" /\ there = "team" /\ todo[r] = {} /\ posted[r] = {}
  PROVE  OobInv'
<1> USE DEF IInv, OobInv
<1>1. UNCHANGED <<round, todo, posted, slots, chan, team>>
  BY DEF oob
<1>2. pc'[r] = there /\ \A q \in Ranks \ {r} : pc'[q] = pc[q]
  BY DEF Goto, TypeOK
<1>3. ~team[r]
  BY DEF CallsNest, Starting
<1>4. \A q \in Ranks : SlotsFill(q)'
  <2>1. SlotsFill(r)'
    BY <1>1, <1>2, <1>3 DEF SlotsFill, CallsNest
  <2>2. ASSUME NEW q \in Ranks \ {r} PROVE SlotsFill(q)'
    BY <1>1, <1>2 DEF SlotsFill
  <2> QED
    BY <2>1, <2>2
<1>5. \A q \in Ranks : CallsNest(q)'
  BY <1>1, <1>2, <1>3 DEF CallsNest, Starting, Peers
<1>6. ASSUME NEW q \in Ranks, NEW d \in Peers(q) PROVE ChannelHolds(q, d)'
  <2>1. Put(q, d)' = Put(q, d) /\ Got(d, q)' = Got(d, q)
    BY <1>1 DEF Put, Got
  <2>2. d \in Ranks /\ ChannelHolds(q, d)
    BY DEF Peers
  <2>3. CASE q # r
    BY <1>1, <1>2, <2>1, <2>2, <2>3 DEF ChannelHolds
  <2>4. CASE q = r
    <3>1. Put(r, d) \in Nat /\ round[r] \in Nat
      BY <2>2, Counts
    <3> QED
      BY <1>1, <1>2, <2>1, <2>2, <2>4, <3>1 DEF ChannelHolds, CallsNest
  <2> QED
    BY <2>3, <2>4
<1> QED
  BY <1>1, <1>4, <1>5, <1>6 DEF Peers

-----------------------------------------------------------------------------
(* The steps of the callback. *)

LEMMA OobCallInv ==
  ASSUME IInv, NEW r \in Ranks, OobCall(r)
  PROVE  OobInv'
<1> USE DEF IInv, OobInv
<1>1. /\ pc[r] = "team" /\ chan' = chan /\ team' = team
      /\ round' = [round EXCEPT ![r] = @ + 1]
      /\ slots' = [slots EXCEPT ![r] = [p \in Ranks |-> IF p = r THEN round'[r] ELSE 0]]
  BY DEF OobCall
<1>2. /\ posted[r] = {} /\ todo[r] = {} /\ ~team[r]
      /\ \A p \in Ranks : slots[r][p] = round[r]
  BY <1>1 DEF CallsNest, SlotsFill
<1>3. /\ round[r] \in Nat /\ round'[r] = round[r] + 1
      /\ \A p \in Ranks : slots'[r][p] = IF p = r THEN round'[r] ELSE 0
      /\ \A q \in Ranks \ {r} : round'[q] = round[q] /\ slots'[q] = slots[q]
  BY <1>1, StartupAssumption DEF TypeOK
<1>4. /\ \/ pc'[r] = "oob" /\ posted'[r] = Peers(r) /\ todo'[r] = Peers(r)
         \/ pc'[r] \in {"running", "panicked"} /\ posted'[r] \subseteq Peers(r) /\ todo'[r] = {}
      /\ \A q \in Ranks \ {r} : /\ pc'[q] = pc[q] /\ posted'[q] = posted[q]
                                 /\ todo'[q] = todo[q]
  <2>1. CASE /\ posted' = [posted EXCEPT ![r] = Peers(r)]
             /\ todo' = [todo EXCEPT ![r] = Peers(r)]
             /\ Goto(r, "oob")
    BY <2>1 DEF TypeOK, Goto
  <2>2. CASE /\ \E failing \in Peers(r) :
                  posted' = [posted EXCEPT ![r] = {p \in Peers(r) : p < failing}]
             /\ WithoutTeam(r)
             /\ UNCHANGED todo
    BY <2>2, <1>2 DEF TypeOK, WithoutTeam, Goto
  <2> QED
    BY <2>1, <2>2 DEF OobCall
<1>5. \A q \in Ranks : SlotsFill(q)'
  <2>1. SlotsFill(r)'
    BY <1>1, <1>2, <1>3, <1>4 DEF SlotsFill, Peers
  <2>2. ASSUME NEW q \in Ranks \ {r} PROVE SlotsFill(q)'
    BY <1>1, <1>3, <1>4 DEF SlotsFill
  <2> QED
    BY <2>1, <2>2
<1>6. \A q \in Ranks : CallsNest(q)'
  <2>1. CallsNest(r)'
    BY <1>1, <1>2, <1>3, <1>4 DEF CallsNest, Starting, Peers
  <2>2. ASSUME NEW q \in Ranks \ {r} PROVE CallsNest(q)'
    BY <1>1, <1>3, <1>4 DEF CallsNest, Starting, Peers
  <2> QED
    BY <2>1, <2>2
<1>7. ASSUME NEW q \in Ranks, NEW d \in Peers(q) PROVE ChannelHolds(q, d)'
  <2>1. d \in Ranks /\ ChannelHolds(q, d)
    BY DEF Peers
  <2>2. Got(d, q)' = Got(d, q)
    <3>1. CASE d = r
      BY <3>1, <2>1, <1>2, <1>3 DEF Got, Peers
    <3>2. CASE d # r
      BY <3>2, <2>1, <1>3 DEF Got
    <3> QED
      BY <3>1, <3>2
  <2>3. Put(q, d)' = Put(q, d)
    BY <2>2, <1>1 DEF Put
  <2>4. Put(q, d) \in Nat /\ round[q] \in Nat
    BY <2>1, Counts
  <2>5. CASE q # r
    BY <1>1, <1>3, <1>4, <2>1, <2>2, <2>3, <2>5 DEF ChannelHolds
  <2>6. CASE q = r
    <3>1. round[r] = Put(r, d)
      BY <1>1, <1>2, <2>1, <2>6 DEF ChannelHolds
    <3> QED
      BY <1>1, <1>3, <1>4, <2>1, <2>2, <2>3, <2>4, <2>6, <3>1 DEF ChannelHolds
  <2> QED
    BY <2>5, <2>6
<1> QED
  BY <1>1, <1>5, <1>6, <1>7 DEF Peers

(* A message is appended to one channel. *)
LEMMA OobSendInv ==
  ASSUME IInv, NEW r \in Ranks, NEW p \in todo[r], pc[r] = "oob",
         chan' = [chan EXCEPT ![r][p] = Append(@, round[r])],
         todo' = [todo EXCEPT ![r] = @ \ {p}],
         UNCHANGED <<pc, round, posted, slots, team>>
  PROVE  OobInv'
<1> USE DEF IInv, OobInv
<1>1. p \in Ranks /\ p # r /\ p \in Peers(r)
  BY DEF CallsNest, Peers
<1>2. /\ chan[r][p] \in Seq(1 .. OobRounds) /\ round[r] \in Nat
      /\ chan'[r][p] = Append(chan[r][p], round[r])
      /\ \A s, d \in Ranks : s # r \/ d # p => chan'[s][d] = chan[s][d]
  BY <1>1, StartupAssumption DEF TypeOK
<1>3. todo'[r] = todo[r] \ {p} /\ \A q \in Ranks \ {r} : todo'[q] = todo[q]
  BY DEF TypeOK
<1>4. \A q \in Ranks : SlotsFill(q)'
  BY DEF SlotsFill
<1>5. \A q \in Ranks : CallsNest(q)'
  <2>1. CallsNest(r)'
    BY <1>3 DEF CallsNest, Starting, Peers
  <2>2. ASSUME NEW q \in Ranks \ {r} PROVE CallsNest(q)'
    BY <1>3 DEF CallsNest, Starting, Peers
  <2> QED
    BY <2>1, <2>2
<1>6. \A q \in Ranks : chan'[q][q] = <<>>
  BY <1>1, <1>2
<1>7. ASSUME NEW q \in Ranks, NEW d \in Peers(q) PROVE ChannelHolds(q, d)'
  <2>1. d \in Ranks /\ ChannelHolds(q, d)
    BY DEF Peers
  <2>2. Got(d, q)' = Got(d, q)
    BY DEF Got
  <2>3. CASE q # r \/ d # p
    <3>1. chan'[q][d] = chan[q][d] /\ (d \in todo'[q] <=> d \in todo[q])
      BY <1>2, <1>3, <2>1, <2>3
    <3>2. Put(q, d)' = Put(q, d)
      BY <2>2, <3>1 DEF Put
    <3> QED
      BY <2>1, <2>2, <3>1, <3>2 DEF ChannelHolds
  <2>4. CASE q = r /\ d = p
    <3>1. round[r] = Put(r, p) + 1
      BY <2>1, <2>4 DEF ChannelHolds
    <3>2. Len(chan'[r][p]) = Len(chan[r][p]) + 1
      BY <1>2
    <3>3. Len(chan[r][p]) \in Nat /\ Got(p, r) \in Nat
      BY <1>1, Counts
    <3>4. Put(r, p)' = round[r]
      BY <2>2, <2>4, <3>1, <3>2, <3>3 DEF Put
    <3>5. ASSUME NEW i \in 1 .. Len(chan'[r][p])
          PROVE  chan'[r][p][i] = Got(p, r) + i
      <4>1. CASE i <= Len(chan[r][p])
        <5>1. i \in 1 .. Len(chan[r][p]) /\ chan'[r][p][i] = chan[r][p][i]
          BY <1>2, <3>2, <3>3, <4>1
        <5> QED
          BY <2>1, <2>4, <5>1 DEF ChannelHolds
      <4>2. CASE i = Len(chan[r][p]) + 1
        <5>1. chan'[r][p][i] = round[r]
          BY <1>2, <4>2
        <5> QED
          BY <3>1, <3>3, <4>2, <5>1 DEF Put
      <4> QED
        BY <3>2, <3>3, <4>1, <4>2
    <3> QED
      BY <1>2, <1>3, <2>2, <2>4, <3>4, <3>5 DEF ChannelHolds
  <2> QED
    BY <2>3, <2>4
<1> QED
  BY <1>4, <1>5, <1>6, <1>7 DEF Peers

(***************************************************************************)
(* The message a receive takes is that of the receiver's own call: it lacks*)
(* this one alone, and the channel has what it lacks in order.             *)
(***************************************************************************)
LEMMA NextIsCurrent ==
  ASSUME IInv, NEW r \in Ranks, NEW p \in posted[r], chan[p][r] # <<>>
  PROVE  /\ p \in Peers(r) /\ r \in Peers(p) /\ p \in Ranks
         /\ round[r] \in Nat \ {0}
         /\ Got(r, p) = round[r] - 1
         /\ Head(chan[p][r]) = round[r]
<1> USE DEF IInv, OobInv
<1>1. p \in Peers(r) /\ r \in Peers(p) /\ p \in Ranks
  BY DEF CallsNest, Peers
<1>2. round[r] \in Nat \ {0}
  BY StartupAssumption DEF CallsNest, TypeOK
<1>3. Got(r, p) = round[r] - 1
  BY <1>1, <1>2 DEF Got, SlotsFill
<1>4. chan[p][r] \in Seq(1 .. OobRounds)
  BY <1>1 DEF TypeOK
<1>5. 1 \in 1 .. Len(chan[p][r]) /\ Head(chan[p][r]) = chan[p][r][1]
  BY <1>4, EmptySeq
<1>6. chan[p][r][1] = Got(r, p) + 1
  BY <1>1, <1>5 DEF ChannelHolds
<1> QED
  BY <1>1, <1>2, <1>3, <1>5, <1>6

LEMMA OobReceiveInv ==
  ASSUME IInv, NEW r \in Ranks, NEW p \in posted[r], chan[p][r] # <<>>,
         posted' = [posted EXCEPT ![r] = @ \ {p}],
         slots' = [slots EXCEPT ![r][p] = Head(chan[p][r])],
         chan' = [chan EXCEPT ![p][r] = Tail(@)],
         UNCHANGED <<pc, round, todo, team>>
  PROVE  OobInv'
<1> USE DEF IInv, OobInv
<1>1. /\ p \in Peers(r) /\ r \in Peers(p) /\ p \in Ranks /\ p # r
      /\ round[r] \in Nat \ {0}
      /\ Got(r, p) = round[r] - 1
      /\ Head(chan[p][r]) = round[r]
  BY NextIsCurrent DEF Peers
<1>2. /\ chan[p][r] \in Seq(1 .. OobRounds)
      /\ chan'[p][r] = Tail(chan[p][r])
      /\ \A s, d \in Ranks : s # p \/ d # r => chan'[s][d] = chan[s][d]
  BY <1>1 DEF TypeOK
<1>3. /\ posted'[r] = posted[r] \ {p}
      /\ slots'[r][p] = round[r]
      /\ \A q \in Ranks : q # p => slots'[r][q] = slots[r][q]
      /\ \A q \in Ranks \ {r} : posted'[q] = posted[q] /\ slots'[q] = slots[q]
  BY <1>1 DEF TypeOK
<1>4. ~(pc[r] = "team") /\ ~team[r]
  BY DEF CallsNest
<1>5. \A q \in Ranks : SlotsFill(q)'
  <2>1. SlotsFill(r)'
    BY <1>1, <1>3, <1>4 DEF SlotsFill
  <2>2. ASSUME NEW q \in Ranks \ {r} PROVE SlotsFill(q)'
    BY <1>3 DEF SlotsFill
  <2> QED
    BY <2>1, <2>2
<1>6. \A q \in Ranks : CallsNest(q)'
  <2>1. CallsNest(r)'
    BY <1>1, <1>3, <1>4 DEF CallsNest, Starting, Peers
  <2>2. ASSUME NEW q \in Ranks \ {r} PROVE CallsNest(q)'
    BY <1>3 DEF CallsNest, Starting, Peers
  <2> QED
    BY <2>1, <2>2
<1>7. \A q \in Ranks : chan'[q][q] = <<>>
  BY <1>1, <1>2
<1>8. ASSUME NEW q \in Ranks, NEW d \in Peers(q) PROVE ChannelHolds(q, d)'
  <2>1. d \in Ranks /\ ChannelHolds(q, d)
    BY DEF Peers
  <2>2. CASE q # p \/ d # r
    <3>1. chan'[q][d] = chan[q][d] /\ slots'[d][q] = slots[d][q]
      BY <1>2, <1>3, <2>1, <2>2
    <3>2. Got(d, q)' = Got(d, q)
      BY <3>1 DEF Got
    <3>3. Put(q, d)' = Put(q, d)
      BY <3>1, <3>2 DEF Put
    <3> QED
      BY <2>1, <3>1, <3>2, <3>3 DEF ChannelHolds
  <2>3. CASE q = p /\ d = r
    <3>1. Got(r, p)' = Got(r, p) + 1
      BY <1>1, <1>3 DEF Got
    <3>2. /\ Len(chan'[p][r]) = Len(chan[p][r]) - 1
          /\ \A i \in 1 .. Len(chan'[p][r]) : chan'[p][r][i] = chan[p][r][i + 1]
      <4> DEFINE c == chan[p][r]
      <4>1. c \in Seq(1 .. OobRounds) /\ c # <<>>
        BY <1>2
      <4>2. chan'[p][r] = Tail(c)
        BY <1>2
      <4> HIDE DEF c
      <4>3. /\ Len(Tail(c)) = Len(c) - 1
            /\ \A i \in 1 .. Len(Tail(c)) : Tail(c)[i] = c[i + 1]
        BY <4>1, HeadTailProperties
      <4> QED
        BY <4>2, <4>3 DEF c
    <3>3. Len(chan[p][r]) \in Nat /\ Got(r, p) \in Nat
      BY <1>1, Counts
    <3>4. Put(p, r)' = Put(p, r)
      BY <3>1, <3>2, <3>3 DEF Put
    <3>5. \A i \in 1 .. Len(chan'[p][r]) : chan'[p][r][i] = Got(r, p)' + i
      <4>1. \A i \in 1 .. Len(chan[p][r]) : chan[p][r][i] = Got(r, p) + i
        BY <2>1, <2>3 DEF ChannelHolds
      <4>2. \A i \in 1 .. Len(chan'[p][r]) : i \in Nat /\ i + 1 \in 1 .. Len(chan[p][r])
        BY <3>2, <3>3
      <4>3. \A i \in 1 .. Len(chan'[p][r]) : chan[p][r][i + 1] = Got(r, p) + (i + 1)
        BY <4>1, <4>2
      <4>4. \A i \in Nat : Got(r, p) + (i + 1) = Got(r, p)' + i
        BY <3>1, <3>3
      <4> QED
        BY <3>2, <4>2, <4>3, <4>4
    <3> QED
      BY <2>1, <2>3, <3>4, <3>5 DEF ChannelHolds
  <2> QED
    BY <2>2, <2>3
<1> QED
  BY <1>5, <1>6, <1>7, <1>8 DEF Peers

(* CreateTeam with success: the rank has all contributions of all calls. *)
LEMMA CreateTeamInv ==
  ASSUME IInv, NEW r \in Ranks, pc[r] = "team", round[r] = OobRounds, Goto(r, "running"),
         team' = [team EXCEPT ![r] = TRUE], UNCHANGED oob
  PROVE  OobInv'
<1> USE DEF IInv, OobInv
<1>1. UNCHANGED <<round, todo, posted, slots, chan>>
  BY DEF oob
<1>2. /\ pc'[r] = "running" /\ \A q \in Ranks \ {r} : pc'[q] = pc[q]
      /\ team'[r] /\ \A q \in Ranks \ {r} : team'[q] = team[q]
  BY DEF Goto, TypeOK
<1>3. \A q \in Ranks : SlotsFill(q)'
  <2>1. SlotsFill(r)'
    BY <1>1, <1>2 DEF SlotsFill
  <2>2. ASSUME NEW q \in Ranks \ {r} PROVE SlotsFill(q)'
    BY <1>1, <1>2 DEF SlotsFill
  <2> QED
    BY <2>1, <2>2
<1>4. \A q \in Ranks : CallsNest(q)'
  <2>1. CallsNest(r)'
    BY <1>1, <1>2 DEF CallsNest, Starting, Peers
  <2>2. ASSUME NEW q \in Ranks \ {r} PROVE CallsNest(q)'
    BY <1>1, <1>2 DEF CallsNest, Starting, Peers
  <2> QED
    BY <2>1, <2>2
<1>5. ASSUME NEW q \in Ranks, NEW d \in Peers(q) PROVE ChannelHolds(q, d)'
  <2>1. Put(q, d)' = Put(q, d) /\ Got(d, q)' = Got(d, q)
    BY <1>1 DEF Put, Got
  <2>2. ChannelHolds(q, d)
    OBVIOUS
  <2>3. pc'[q] \in {"oob", "team"} => pc[q] \in {"oob", "team"}
    BY <1>2
  <2> QED
    BY <1>1, <2>1, <2>2, <2>3 DEF ChannelHolds
<1> QED
  BY <1>1, <1>3, <1>4, <1>5 DEF Peers

-----------------------------------------------------------------------------
(* The exchange through PMIx, and the invariant. *)

(* A step that leaves store and fence alone, seen from PMIx. *)
LEMMA PmixMove ==
  ASSUME IInv, NEW r \in Ranks, NEW there, Goto(r, there), UNCHANGED <<ucc, store, fence>>,
         pc[r] # "publish",
         there \in {"publish", "fence", "fenced"} \/ fence = Ranks,
         there = "panicked" => ucc = "on"
  PROVE  PmixInv'
<1> USE DEF IInv, PmixInv
<1>1. pc'[r] = there /\ \A q \in Ranks \ {r} : pc'[q] = pc[q]
  BY DEF Goto, TypeOK
<1>2. OnlyForcedUccPanics'
  BY <1>1 DEF OnlyForcedUccPanics
<1>3. \A q \in Ranks : FenceHolds(q)'
  BY <1>1 DEF FenceHolds
<1> QED
  BY <1>2, <1>3

(* Giving up a team is a step to "running", or to "panicked" under --ucc. *)
LEMMA GiveUpInv ==
  ASSUME IInv, NEW r \in Ranks, WithoutTeam(r),
         pc[r] \in {"library", "context", "oob", "team"}
  PROVE  /\ pc' \in [Ranks -> {"publish", "fence", "fenced", "get", "library", "context",
                               "team", "oob", "running", "panicked"}]
         /\ UNCHANGED <<ucc, store, fence>> => PmixInv'
         /\ UNCHANGED <<oob, team>> => OobInv'
<1> DEFINE there == IF ucc = "on" THEN "panicked" ELSE "running"
<1>1. Goto(r, there)
  BY DEF WithoutTeam
<1>2. there \in {"panicked", "running"} /\ (there = "panicked" => ucc = "on")
  OBVIOUS
<1> HIDE DEF there
<1>3. pc' \in [Ranks -> {"publish", "fence", "fenced", "get", "library", "context",
                        "team", "oob", "running", "panicked"}]
  BY <1>1, <1>2 DEF Goto, IInv, TypeOK
<1>4. fence = Ranks
  BY DEF IInv, PmixInv, FenceHolds
<1>5. ASSUME UNCHANGED <<ucc, store, fence>> PROVE PmixInv'
  BY <1>1, <1>2, <1>4, <1>5, PmixMove
<1>6. ASSUME UNCHANGED <<oob, team>> PROVE OobInv'
  BY <1>1, <1>2, <1>6, OobMove DEF Starting
<1> QED
  BY <1>3, <1>5, <1>6

LEMMA StepInv == IInv /\ [Next]_vars => IInv'
<1> SUFFICES ASSUME IInv, [Next]_vars PROVE IInv'
  OBVIOUS
<1> USE StartupAssumption
<1>1. ASSUME NEW r \in Ranks, Publish(r) PROVE IInv'
  <2>1. TypeOK'
    BY <1>1 DEF Publish, Goto, IInv, TypeOK, oob
  <2>2. PmixInv'
    BY <1>1 DEF Publish, Goto, IInv, TypeOK, PmixInv, OnlyForcedUccPanics, FenceHolds
  <2>3. OobInv'
    BY <1>1, OobMove DEF Publish, Starting
  <2> QED
    BY <2>1, <2>2, <2>3 DEF IInv
<1>2. ASSUME NEW r \in Ranks, EnterFence(r) PROVE IInv'
  <2>1. TypeOK'
    BY <1>2 DEF EnterFence, Goto, IInv, TypeOK, oob
  <2>2. PmixInv'
    <3>1. r \in store /\ store \subseteq Ranks
      BY <1>2 DEF EnterFence, IInv, TypeOK, PmixInv, FenceHolds
    <3> QED
      BY <1>2, <3>1
      DEF EnterFence, Goto, IInv, TypeOK, PmixInv, OnlyForcedUccPanics, FenceHolds
  <2>3. OobInv'
    BY <1>2, OobMove DEF EnterFence, Starting
  <2> QED
    BY <2>1, <2>2, <2>3 DEF IInv
<1>3. ASSUME NEW r \in Ranks, LeaveFence(r) PROVE IInv'
  <2>1. TypeOK'
    BY <1>3 DEF LeaveFence, Goto, IInv, TypeOK, oob, pmix
  <2>2. PmixInv'
    BY <1>3, PmixMove DEF LeaveFence, pmix
  <2>3. OobInv'
    BY <1>3, OobMove DEF LeaveFence, Starting
  <2> QED
    BY <2>1, <2>2, <2>3 DEF IInv
<1>4. ASSUME NEW r \in Ranks, GetAddress(r) PROVE IInv'
  <2> DEFINE p == NextIn(Ranks \ known[r])
  <2>1. p \in store /\ fence = Ranks
    <3>1. p \in Ranks
      <4>1. known[r] \subseteq Ranks /\ known[r] # Ranks
        BY <1>4 DEF GetAddress, IInv, TypeOK
      <4>2. Ranks \ known[r] \subseteq Ranks /\ Ranks \ known[r] # {}
        BY <4>1
      <4> QED
        BY <4>2, NextInIsIn
    <3> QED
      BY <1>4, <3>1 DEF GetAddress, IInv, TypeOK, PmixInv, FenceHolds
  <2>2. known' = [known EXCEPT ![r] = @ \cup ({p} \cap store)] /\ Goto(r, "get")
    BY <1>4, <2>1 DEF GetAddress
  <2>3. pc[r] = "get" /\ UNCHANGED <<ucc, rndv, store, fence, oob, team>>
    BY <1>4 DEF GetAddress
  <2> HIDE DEF p
  <2>4. TypeOK'
    BY <2>2, <2>3 DEF Goto, IInv, TypeOK, oob
  <2>5. PmixInv'
    BY <2>1, <2>2, <2>3, PmixMove
  <2>6. OobInv'
    BY <2>2, <2>3, OobMove DEF Starting
  <2> QED
    BY <2>4, <2>5, <2>6 DEF IInv
<1>5. ASSUME NEW r \in Ranks, Connect(r) PROVE IInv'
  <2>1. PICK there \in {"running", "library"} : Goto(r, there)
    BY <1>5 DEF Connect
  <2>2. pc[r] = "get" /\ UNCHANGED <<ucc, rndv, pmix, oob, team>>
    BY <1>5 DEF Connect
  <2>3. TypeOK'
    BY <2>1, <2>2 DEF Goto, IInv, TypeOK, oob, pmix
  <2>4. PmixInv'
    <3>1. fence = Ranks
      BY <2>2 DEF IInv, PmixInv, FenceHolds
    <3> QED
      BY <2>1, <2>2, <3>1, PmixMove DEF pmix
  <2>5. OobInv'
    BY <2>1, <2>2, OobMove DEF Starting
  <2> QED
    BY <2>3, <2>4, <2>5 DEF IInv
<1>6. ASSUME NEW r \in Ranks, NEW there \in {"context", "team"},
             Goto(r, there) \/ WithoutTeam(r), pc[r] \in {"library", "context"},
             UNCHANGED <<ucc, rndv, pmix, oob, team>>
      PROVE  IInv'
  <2>1. CASE WithoutTeam(r)
    <3>1. TypeOK'
      BY <1>6, <2>1, GiveUpInv DEF IInv, TypeOK, oob, pmix
    <3> QED
      BY <1>6, <2>1, <3>1, GiveUpInv DEF IInv, pmix
  <2>2. CASE Goto(r, there)
    <3>1. TypeOK'
      BY <1>6, <2>2 DEF Goto, IInv, TypeOK, oob, pmix
    <3>2. PmixInv'
      <4>1. fence = Ranks
        BY <1>6 DEF IInv, PmixInv, FenceHolds
      <4> QED
        BY <1>6, <2>2, <4>1, PmixMove DEF pmix
    <3>3. OobInv'
      BY <1>6, <2>2, OobMove DEF Starting
    <3> QED
      BY <3>1, <3>2, <3>3 DEF IInv
  <2> QED
    BY <1>6, <2>1, <2>2
<1>7. ASSUME NEW r \in Ranks, OobCall(r) PROVE IInv'
  <2>1. OobInv'
    BY <1>7, OobCallInv
  <2>2. PmixInv' /\ pc' \in [Ranks -> {"publish", "fence", "fenced", "get", "library",
                                      "context", "team", "oob", "running", "panicked"}]
    <3>1. CASE Goto(r, "oob")
      <4>1. fence = Ranks
        BY <1>7 DEF OobCall, IInv, PmixInv, FenceHolds
      <4>2. PmixInv'
        BY <1>7, <3>1, <4>1, PmixMove DEF OobCall, pmix
      <4> QED
        BY <3>1, <4>2 DEF Goto, IInv, TypeOK
    <3>2. CASE WithoutTeam(r)
      BY <1>7, <3>2, GiveUpInv DEF OobCall, pmix
    <3> QED
      BY <1>7, <3>1, <3>2 DEF OobCall
  <2>3. round' \in [Ranks -> 0 .. OobRounds] /\ slots' \in [Ranks -> [Ranks -> 0 .. OobRounds]]
    BY <1>7 DEF OobCall, IInv, TypeOK
  <2>4. posted' \in [Ranks -> SUBSET Ranks] /\ todo' \in [Ranks -> SUBSET Ranks]
    <3>1. Peers(r) \subseteq Ranks
      BY DEF Peers
    <3>2. CASE posted' = [posted EXCEPT ![r] = Peers(r)] /\ todo' = [todo EXCEPT ![r] = Peers(r)]
      BY <3>1, <3>2 DEF IInv, TypeOK
    <3>3. CASE /\ \E failing \in Peers(r) :
                    posted' = [posted EXCEPT ![r] = {p \in Peers(r) : p < failing}]
               /\ UNCHANGED todo
      <4>1. PICK failing \in Peers(r) :
                 posted' = [posted EXCEPT ![r] = {p \in Peers(r) : p < failing}]
        BY <3>3
      <4>2. {p \in Peers(r) : p < failing} \subseteq Ranks
        BY <3>1
      <4> QED
        BY <3>3, <4>1, <4>2 DEF IInv, TypeOK
    <3> QED
      BY <1>7, <3>2, <3>3 DEF OobCall
  <2> QED
    BY <1>7, <2>1, <2>2, <2>3, <2>4 DEF OobCall, IInv, TypeOK, pmix
<1>8. ASSUME NEW r \in Ranks, OobSend(r) PROVE IInv'
  <2> DEFINE p == NextIn(todo[r])
  <2>1. p \in todo[r] /\ p \in Ranks
    BY <1>8, NextInIsIn DEF OobSend, IInv, TypeOK
  <2>2. CASE /\ chan' = [chan EXCEPT ![r][p] = Append(@, round[r])]
             /\ todo' = [todo EXCEPT ![r] = @ \ {p}]
             /\ UNCHANGED pc
    <3>1. OobInv'
      BY <1>8, <2>1, <2>2, OobSendInv DEF OobSend
    <3>2. round[r] \in 1 .. OobRounds
      BY <1>8 DEF OobSend, IInv, TypeOK, OobInv, SlotsFill
    <3>3. chan' \in [Ranks -> [Ranks -> Seq(1 .. OobRounds)]]
      BY <2>1, <2>2, <3>2 DEF IInv, TypeOK
    <3>4. todo' \in [Ranks -> SUBSET Ranks]
      BY <2>2 DEF IInv, TypeOK
    <3>5. PmixInv'
      BY <1>8, <2>2 DEF OobSend, IInv, PmixInv, OnlyForcedUccPanics, FenceHolds, pmix
    <3> QED
      BY <1>8, <2>2, <3>1, <3>3, <3>4, <3>5 DEF OobSend, IInv, TypeOK, pmix
  <2>3. CASE WithoutTeam(r) /\ UNCHANGED <<chan, todo>>
    <3>1. pc[r] = "oob" /\ UNCHANGED <<ucc, rndv, pmix, oob, team>>
      BY <1>8, <2>3 DEF OobSend, oob
    <3>2. TypeOK'
      BY <2>3, <3>1, GiveUpInv DEF IInv, TypeOK, oob, pmix
    <3> QED
      BY <2>3, <3>1, <3>2, GiveUpInv DEF IInv, pmix
  <2> QED
    BY <1>8, <2>2, <2>3 DEF OobSend
<1>9. ASSUME NEW r \in Ranks, OobReceive(r) PROVE IInv'
  <2>1. PICK p \in posted[r] :
          /\ chan[p][r] # <<>>
          /\ posted' = [posted EXCEPT ![r] = @ \ {p}]
          /\ slots' = [slots EXCEPT ![r][p] = Head(chan[p][r])]
          /\ chan' = [chan EXCEPT ![p][r] = Tail(@)]
    BY <1>9 DEF OobReceive
  <2>2. UNCHANGED <<ucc, rndv, pmix, pc, round, todo, team>>
    BY <1>9 DEF OobReceive
  <2>3. OobInv'
    BY <2>1, <2>2, OobReceiveInv
  <2>4. p \in Ranks /\ Head(chan[p][r]) \in 0 .. OobRounds
    <3>1. p \in Ranks /\ Head(chan[p][r]) = round[r]
      BY <2>1, NextIsCurrent
    <3> QED
      BY <3>1 DEF IInv, TypeOK
  <2>5. chan' \in [Ranks -> [Ranks -> Seq(1 .. OobRounds)]]
    <3>1. Tail(chan[p][r]) \in Seq(1 .. OobRounds)
      BY <2>1, <2>4, HeadTailProperties DEF IInv, TypeOK
    <3> QED
      BY <2>1, <2>4, <3>1 DEF IInv, TypeOK
  <2>6. slots' \in [Ranks -> [Ranks -> 0 .. OobRounds]] /\ posted' \in [Ranks -> SUBSET Ranks]
    BY <2>1, <2>4 DEF IInv, TypeOK
  <2>7. PmixInv'
    BY <2>2 DEF IInv, PmixInv, OnlyForcedUccPanics, FenceHolds, pmix
  <2> QED
    BY <2>2, <2>3, <2>5, <2>6, <2>7 DEF IInv, TypeOK, pmix
<1>10. ASSUME NEW r \in Ranks, OobReturn(r) PROVE IInv'
  <2>1. /\ pc[r] = "oob" /\ todo[r] = {} /\ posted[r] = {} /\ Goto(r, "team")
        /\ UNCHANGED <<ucc, rndv, pmix, oob, team>>
    BY <1>10 DEF OobReturn
  <2>2. TypeOK'
    BY <2>1 DEF Goto, IInv, TypeOK, oob, pmix
  <2>3. PmixInv'
    <3>1. fence = Ranks
      BY <2>1 DEF IInv, PmixInv, FenceHolds
    <3> QED
      BY <2>1, <3>1, PmixMove DEF pmix
  <2>4. OobInv'
    BY <2>1, OobMove
  <2> QED
    BY <2>2, <2>3, <2>4 DEF IInv
<1>11. ASSUME NEW r \in Ranks, CreateTeam(r) PROVE IInv'
  <2>1. CASE Goto(r, "running") /\ team' = [team EXCEPT ![r] = TRUE]
    <3>1. pc[r] = "team" /\ round[r] = OobRounds /\ UNCHANGED <<ucc, rndv, pmix, oob>>
      BY <1>11 DEF CreateTeam
    <3>2. TypeOK'
      BY <2>1, <3>1 DEF Goto, IInv, TypeOK, oob, pmix
    <3>3. PmixInv'
      <4>1. fence = Ranks
        BY <3>1 DEF IInv, PmixInv, FenceHolds
      <4> QED
        BY <2>1, <3>1, <4>1, PmixMove DEF pmix
    <3>4. OobInv'
      BY <2>1, <3>1, CreateTeamInv
    <3> QED
      BY <3>2, <3>3, <3>4 DEF IInv
  <2>2. CASE WithoutTeam(r) /\ UNCHANGED team
    <3>1. pc[r] = "team" /\ UNCHANGED <<ucc, rndv, pmix, oob, team>>
      BY <1>11, <2>2 DEF CreateTeam
    <3>2. TypeOK'
      BY <2>2, <3>1, GiveUpInv DEF IInv, TypeOK, oob, pmix
    <3> QED
      BY <2>2, <3>1, <3>2, GiveUpInv DEF IInv, pmix
  <2> QED
    BY <1>11, <2>1, <2>2 DEF CreateTeam
<1>12. CASE UNCHANGED vars
  BY <1>12 DEF vars, pmix, oob, IInv, TypeOK, PmixInv, OnlyForcedUccPanics, FenceHolds,
     OobInv, SlotsFill, CallsNest, ChannelHolds, Put, Got, Starting, Peers
<1>13. ASSUME NEW r \in Ranks, InitLibrary(r) PROVE IInv'
  BY <1>6, <1>13 DEF InitLibrary
<1>14. ASSUME NEW r \in Ranks, CreateContext(r) PROVE IInv'
  BY <1>6, <1>14 DEF CreateContext
<1> QED
  BY <1>1, <1>2, <1>3, <1>4, <1>5, <1>7, <1>8, <1>9, <1>10, <1>11, <1>12, <1>13, <1>14
  DEF Next, Step

-----------------------------------------------------------------------------
(* The theorems. *)

(* The invariant holds whatever the job size, and whichever steps fail. *)
THEOREM InductiveInvariant == Spec => []IInv
<1>1. Init => IInv
  BY InitInv
<1>2. IInv /\ [Next]_vars => IInv'
  BY StepInv
<1> QED
  BY <1>1, <1>2, PTL DEF Spec

(* Type correctness. *)
THEOREM TypeCorrect == Spec => []TypeOK
<1>1. IInv => TypeOK
  BY DEF IInv
<1> QED
  BY <1>1, InductiveInvariant, PTL

(* The fence does what the exchange of addresses needs. *)
THEOREM NoOtherPanic == Spec => []OnlyForcedUccPanics
<1>1. IInv => OnlyForcedUccPanics
  BY DEF IInv, PmixInv
<1> QED
  BY <1>1, InductiveInvariant, PTL

(* ucc_oob_allgather gathers the contributions of one call. *)
THEOREM OobGathers == Spec => []OobGathersItsRound
<1>1. IInv => OobGathersItsRound
  BY DEF IInv, OobInv, SlotsFill, OobGathersItsRound
<1> QED
  BY <1>1, InductiveInvariant, PTL

(* The ranks are less than two calls apart. *)
THEOREM CallsStayClose == Spec => []OobCallsStayClose
<1>1. IInv => OobCallsStayClose
  <2> SUFFICES ASSUME IInv, NEW r \in Ranks, NEW q \in Ranks
               PROVE  round[r] <= round[q] + 1 /\ Len(chan[r][q]) <= 2
    BY DEF OobCallsStayClose
  <2>1. CASE r = q
    <3>1. round[r] \in Nat /\ chan[r][q] = <<>>
      BY <2>1, StartupAssumption DEF IInv, TypeOK, OobInv
    <3> QED
      BY <2>1, <3>1
  <2>2. CASE r # q
    <3>1. q \in Peers(r) /\ r \in Peers(q)
      BY <2>2 DEF Peers
    <3>2. /\ round[r] \in Nat /\ round[q] \in Nat
          /\ Len(chan[r][q]) \in Nat /\ Len(chan[q][r]) \in Nat
      BY Counts DEF IInv
    <3>3. Put(r, q) <= round[r] /\ Put(q, r) <= round[q]
      BY <3>1 DEF IInv, OobInv, ChannelHolds
    <3>4. round[q] <= Got(q, r) + 1 /\ round[r] <= Got(r, q) + 1
      BY <3>2 DEF Got
    <3>5. Got(q, r) \in Nat /\ Got(r, q) \in Nat
      BY Counts DEF IInv
    <3>6. Put(r, q) = Got(q, r) + Len(chan[r][q]) /\ Put(q, r) = Got(r, q) + Len(chan[q][r])
      BY DEF Put
    <3>7. round[r] <= round[q] + 1
      BY <3>2, <3>3, <3>4, <3>5, <3>6
    <3>8. Len(chan[r][q]) <= round[r] - Got(q, r)
      BY <3>2, <3>3, <3>5, <3>6
    <3>9. round[r] - Got(q, r) <= 2
      BY <3>2, <3>4, <3>5, <3>7
    <3> QED
      BY <3>2, <3>5, <3>7, <3>8, <3>9
  <2> QED
    BY <2>1, <2>2
<1> QED
  BY <1>1, InductiveInvariant, PTL

(* A team is made of the contributions of all ranks to all calls. *)
THEOREM TeamIsComplete == Spec => []TeamMeansEveryoneJoined
<1>1. IInv => TeamMeansEveryoneJoined
  <2> SUFFICES ASSUME IInv, NEW r \in Ranks, NEW q \in Ranks, team[r]
               PROVE  round[q] = OobRounds /\ r \notin todo[q]
    BY DEF TeamMeansEveryoneJoined
  <2>1. round[r] = OobRounds /\ todo[r] = {} /\ slots[r][q] = round[r]
    BY DEF IInv, OobInv, CallsNest, SlotsFill
  <2>2. CASE q = r
    BY <2>1, <2>2
  <2>3. CASE q # r
    <3>1. q \in Peers(r) /\ r \in Peers(q)
      BY <2>3 DEF Peers
    <3>2. round[q] \in 0 .. OobRounds /\ OobRounds \in Nat
      BY StartupAssumption DEF IInv, TypeOK
    <3>3. Got(r, q) = OobRounds
      BY <2>1, <3>2 DEF Got
    <3>4. Len(chan[q][r]) \in Nat /\ Put(q, r) = Got(r, q) + Len(chan[q][r])
      BY Counts DEF IInv, Put
    <3>5. Put(q, r) <= round[q] /\ (r \in todo[q] => round[q] = Put(q, r) + 1)
      BY <3>1 DEF IInv, OobInv, ChannelHolds
    <3> QED
      BY <3>2, <3>3, <3>4, <3>5
  <2> QED
    BY <2>2, <2>3
<1> QED
  BY <1>1, InductiveInvariant, PTL
=============================================================================
