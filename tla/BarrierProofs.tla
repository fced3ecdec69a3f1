--------------------------- MODULE BarrierProofs ---------------------------
(***************************************************************************)
(* Theorems about Barrier for every job size N and every number of calls.  *)
(* The argument is one of counting: a receive names no sender and no call, *)
(* so what a rank knows when barrier() returns is only how many messages   *)
(* it has consumed.  Returning from call k it has consumed k * (N-1).      *)
(*   - If one of them belongs to call k+1 of a peer, that peer has returned*)
(*     from call k, so every rank had entered call k already.              *)
(*   - Otherwise they are distinct members of (Ranks \ {i}) \X 1..k, a set *)
(*     of exactly k * (N-1) elements: they are all of it, and each peer    *)
(*     has sent its message of call k.                                     *)
(***************************************************************************)
EXTENDS Barrier, FiniteSetTheorems, TLAPS

(* There are N-1 peers, and k * (N-1) messages to one rank in k calls. *)
LEMMA PeerCount ==
  ASSUME NEW i \in Ranks, NEW k \in Nat
  PROVE  LET P == (Ranks \ {i}) \X (1 .. k)
         IN  IsFiniteSet(P) /\ Cardinality(P) = (N - 1) * k
<1> DEFINE Peers == Ranks \ {i}
<1>1. IsFiniteSet(Ranks) /\ Cardinality(Ranks) = N
  BY FS_Interval, NAssumption DEF Ranks
<1>2. IsFiniteSet(Peers) /\ Cardinality(Peers) = N - 1
  BY <1>1, FS_RemoveElement
<1>3. IsFiniteSet(1 .. k) /\ Cardinality(1 .. k) = k
  BY FS_Interval
<1> HIDE DEF Peers
<1>4. /\ IsFiniteSet(Peers \X (1 .. k))
      /\ Cardinality(Peers \X (1 .. k)) = (N - 1) * k
  BY <1>2, <1>3, FS_Product
<1> QED BY <1>4 DEF Peers

(* The send loop visits each peer once: PeerOf and SlotOf are inverse. *)
LEMMA PeerSlot ==
  ASSUME NEW r \in Ranks, NEW k \in 0 .. N-2
  PROVE  /\ PeerOf(r, k) \in Ranks \ {r}
         /\ SlotOf(r, PeerOf(r, k)) = k
         /\ \A d \in Ranks \ {r} : SlotOf(r, d) < k + 1 <=> SlotOf(r, d) < k \/ d = PeerOf(r, k)
BY NAssumption DEF PeerOf, SlotOf, Ranks

LEMMA SlotRange ==
  ASSUME NEW r \in Ranks, NEW d \in Ranks, r # d
  PROVE  SlotOf(r, d) \in 0 .. N-2
BY NAssumption DEF SlotOf, Ranks

(***************************************************************************)
(* The counting argument, in any state that satisfies the invariant.       *)
(***************************************************************************)
LEMMA CountingArgument ==
  ASSUME IInv, NEW i \in Ranks, NEW k \in Nat,
         Cardinality(got[i]) = (N - 1) * k,
         \A p \in got[i] : p[2] <= k
  PROVE  got[i] = (Ranks \ {i}) \X (1 .. k)
<1> DEFINE P == (Ranks \ {i}) \X (1 .. k)
<1>1. got[i] \in SUBSET P
  <2> SUFFICES ASSUME NEW p \in got[i] PROVE p \in P
    OBVIOUS
  <2>1. p \in Ranks \X Nat
    BY DEF IInv, TypeOK
  <2>2. Sent(p[1], i, p[2])
    BY DEF IInv, OnlySentMessages
  <2> QED BY <2>1, <2>2 DEF Sent
<1>2. IsFiniteSet(P) /\ Cardinality(P) = (N - 1) * k
  BY PeerCount
<1> HIDE DEF P
<1>3. P = got[i]
  BY <1>1, <1>2, FS_Subset
<1> QED BY <1>3 DEF P

(* A rank about to return from its call knows that every rank entered it. *)
LEMMA ReturnIsSafe ==
  ASSUME IInv, NEW i \in Ranks, Inside(i), rcvd[i] = N - 1, NEW j \in Ranks
  PROVE  exited[i] + 1 <= entered[j]
<1> USE NAssumption
<1> DEFINE k == entered[i]
<1>1. /\ exited \in [Ranks -> Nat] /\ entered \in [Ranks -> Nat]
      /\ k = exited[i] + 1
  BY DEF IInv, TypeOK, OneCallAtATime, Inside
<1>2. Cardinality(got[i]) = (N - 1) * k
  <2>1. Cardinality(got[i]) = (N - 1) * exited[i] + (N - 1)
    BY DEF IInv, Counted
  <2>2. \A a, x \in Int : a * x + a = a * (x + 1)
    OBVIOUS
  <2> QED BY <2>1, <2>2, <1>1
<1>3. CASE \E p \in got[i] : p[2] > k
  <2>1. PICK p \in got[i] : p[2] > k
    BY <1>3
  <2>2. p \in Ranks \X Nat /\ Sent(p[1], i, p[2])
    BY DEF IInv, TypeOK, OnlySentMessages
  <2>3. exited[p[1]] >= k
    BY <2>1, <2>2, <1>1 DEF Sent, IInv, OneCallAtATime
  <2>4. exited[p[1]] <= entered[j]
    BY <2>2 DEF IInv, NobodyLeavesEarly
  <2> QED BY <2>2, <2>3, <2>4, <1>1
<1>4. CASE \A p \in got[i] : ~(p[2] > k)
  <2>1. CASE j = i
    BY <2>1, <1>1
  <2>2. CASE j # i
    <3>1. \A p \in got[i] : p[2] <= k
      BY <1>4, <1>1 DEF IInv, TypeOK
    <3> HIDE DEF k
    <3>2. k \in Nat
      BY <1>1
    <3>3. got[i] = (Ranks \ {i}) \X (1 .. k)
      BY <1>2, <3>1, <3>2, CountingArgument
    <3>4. <<j, k>> \in got[i]
      BY <3>3, <2>2, <1>1
    <3>5. Sent(j, i, k)
      BY <3>4 DEF IInv, OnlySentMessages
    <3> QED BY <3>5, <1>1 DEF Sent
  <2> QED BY <2>1, <2>2
<1> QED BY <1>3, <1>4

LEMMA InitInv == Init => IInv
<1> SUFFICES ASSUME Init PROVE IInv
  OBVIOUS
<1> USE NAssumption DEF Init
<1>1. TypeOK
  BY DEF TypeOK, Message
<1>2. OneCallAtATime
  BY DEF OneCallAtATime
<1>3. OnlySentMessages
  BY DEF OnlySentMessages
<1>4. Counted
  BY FS_EmptySet DEF Counted, Inside
<1>5. NobodyLeavesEarly
  BY DEF NobodyLeavesEarly
<1> QED BY <1>1, <1>2, <1>3, <1>4, <1>5 DEF IInv

LEMMA EnterInv ==
  ASSUME IInv, NEW r \in Ranks, Enter(r)
  PROVE  IInv'
<1> USE NAssumption DEF Enter
<1>0. TypeOK /\ OneCallAtATime
  BY DEF IInv
<1>1. TypeOK'
  BY <1>0 DEF TypeOK
<1>2. OneCallAtATime'
  BY <1>0 DEF TypeOK, OneCallAtATime, Inside
<1>3. ASSUME NEW s \in Ranks, NEW d, NEW k \in Nat, Sent(s, d, k)
      PROVE  Sent(s, d, k)'
  BY <1>0, <1>3 DEF Sent, TypeOK, Inside
<1>4. OnlySentMessages'
  BY <1>0, <1>3 DEF IInv, OnlySentMessages, TypeOK, Message
<1>5. Counted'
  <2> SUFFICES ASSUME NEW q \in Ranks
               PROVE  /\ IsFiniteSet(got[q])
                      /\ Cardinality(got[q]) =
                           (N - 1) * exited[q] + (IF Inside(q)' THEN rcvd'[q] ELSE 0)
    BY DEF Counted
  <2>1. /\ IsFiniteSet(got[q])
        /\ Cardinality(got[q]) = (N - 1) * exited[q] + (IF Inside(q) THEN rcvd[q] ELSE 0)
    BY DEF IInv, Counted
  <2>2. (IF Inside(q)' THEN rcvd'[q] ELSE 0) = (IF Inside(q) THEN rcvd[q] ELSE 0)
    BY <1>0 DEF TypeOK, OneCallAtATime, Inside
  <2> QED BY <2>1, <2>2
<1>6. NobodyLeavesEarly'
  BY <1>0 DEF IInv, NobodyLeavesEarly, TypeOK
<1> QED BY <1>1, <1>2, <1>4, <1>5, <1>6 DEF IInv

LEMMA SendInv ==
  ASSUME IInv, NEW r \in Ranks, SendToPeer(r)
  PROVE  IInv'
<1> USE NAssumption DEF SendToPeer
<1>0. TypeOK /\ OneCallAtATime /\ OnlySentMessages
  BY DEF IInv
<1>a. sent[r] \in 0 .. N-2
  BY <1>0 DEF TypeOK
<1>b. PICK d \in Ranks \ {r} : d = PeerOf(r, sent[r]) /\ SlotOf(r, d) = sent[r]
  BY <1>a, PeerSlot
<1>c. PICK m \in Message : m = [src |-> r, dst |-> d, round |-> entered[r]]
  BY <1>0, <1>b DEF TypeOK, Message
<1>1. TypeOK'
  <2>1. net' = net \cup {m}
    BY <1>b, <1>c
  <2>2. sent' \in [Ranks -> 0 .. N-1]
    BY <1>0, <1>a DEF TypeOK
  <2> QED BY <1>0, <2>1, <2>2 DEF TypeOK
<1>2. OneCallAtATime'
  BY <1>0 DEF OneCallAtATime
<1>3. ASSUME NEW s \in Ranks, NEW e \in Ranks, NEW k \in Nat, Sent(s, e, k)
      PROVE  Sent(s, e, k)'
  <2>1. SlotOf(s, e) \in 0 .. N-2
    BY <1>3, SlotRange DEF Sent
  <2>2. SlotOf(s, e)' = SlotOf(s, e)
    BY DEF SlotOf
  <2>3. SlotOf(s, e) < sent[s] => SlotOf(s, e) < sent'[s]
    BY <1>0, <1>a, <2>1 DEF TypeOK
  <2> QED BY <1>3, <2>2, <2>3 DEF Sent, Inside
<1>4. OnlySentMessages'
  <2>1. Sent(r, d, entered[r])'
    <3>1. SlotOf(r, d)' = sent[r] /\ sent[r] < sent'[r]
      BY <1>0, <1>a, <1>b DEF SlotOf, TypeOK
    <3>2. 1 <= entered[r]
      BY <1>0 DEF TypeOK, Inside
    <3> QED BY <1>0, <1>b, <3>1, <3>2 DEF Sent, TypeOK
  <2>2. <<r, entered[r]>> \notin got[d]
    <3> SUFFICES ASSUME <<r, entered[r]>> \in got[d] PROVE FALSE
      OBVIOUS
    <3>1. Sent(r, d, entered[r])
      BY <1>0, <1>b DEF OnlySentMessages
    <3> QED BY <1>0, <1>a, <1>b, <3>1 DEF Sent, TypeOK
  <2>3. ASSUME NEW o \in net'
        PROVE  Sent(o.src, o.dst, o.round)' /\ <<o.src, o.round>> \notin got'[o.dst]
    <3>1. CASE o = m
      BY <1>c, <2>1, <2>2, <3>1
    <3>2. CASE o \in net
      BY <1>0, <1>3, <3>2 DEF OnlySentMessages, TypeOK, Message
    <3> QED BY <1>b, <1>c, <2>3, <3>1, <3>2
  <2>4. \A q \in Ranks : \A p \in got'[q] : Sent(p[1], q, p[2])'
    BY <1>0, <1>3 DEF OnlySentMessages, TypeOK
  <2> QED BY <2>3, <2>4 DEF OnlySentMessages
<1>5. Counted'
  BY DEF IInv, Counted, Inside
<1>6. NobodyLeavesEarly'
  BY DEF IInv, NobodyLeavesEarly
<1> QED BY <1>1, <1>2, <1>4, <1>5, <1>6 DEF IInv

LEMMA RecvInv ==
  ASSUME IInv, NEW r \in Ranks, RecvFromAny(r)
  PROVE  IInv'
<1> USE NAssumption
<1>0. TypeOK /\ OneCallAtATime /\ OnlySentMessages
  BY DEF IInv
<1>a. PICK m \in net : /\ m.dst = r
                       /\ net' = net \ {m}
                       /\ got' = [got EXCEPT ![r] = @ \cup {<<m.src, m.round>>}]
  BY DEF RecvFromAny, Arrivals
<1>b. /\ m.src \in Ranks /\ m.round \in Nat
      /\ Sent(m.src, r, m.round)
      /\ <<m.src, m.round>> \notin got[r]
  BY <1>0, <1>a DEF TypeOK, Message, OnlySentMessages
<1>c. /\ UNCHANGED <<entered, exited, sent>>
      /\ rcvd' = [rcvd EXCEPT ![r] = @ + 1]
      /\ rcvd[r] < N - 1 /\ Inside(r)
  BY DEF RecvFromAny
<1>d. \A q : Inside(q)' = Inside(q)
  BY <1>c DEF Inside
<1>e. \A s, d, k : Sent(s, d, k)' = Sent(s, d, k)
  BY <1>c DEF Sent, Inside, SlotOf
<1>1. TypeOK'
  <2>1. got' \in [Ranks -> SUBSET (Ranks \X Nat)]
    BY <1>0, <1>a, <1>b DEF TypeOK
  <2>2. rcvd' \in [Ranks -> 0 .. N-1]
    BY <1>0, <1>c DEF TypeOK
  <2> QED BY <1>0, <1>a, <1>c, <2>1, <2>2 DEF TypeOK
<1>2. OneCallAtATime'
  BY <1>0, <1>c DEF OneCallAtATime
<1>3. OnlySentMessages'
  <2>1. ASSUME NEW o \in net'
        PROVE  Sent(o.src, o.dst, o.round)' /\ <<o.src, o.round>> \notin got'[o.dst]
    <3>1. o \in net /\ o # m /\ o \in Message /\ m \in Message
      BY <1>0, <1>a DEF TypeOK
    <3>2. Sent(o.src, o.dst, o.round) /\ <<o.src, o.round>> \notin got[o.dst]
      BY <1>0, <3>1 DEF OnlySentMessages
    <3>3. o.dst = r => <<o.src, o.round>> # <<m.src, m.round>>
      BY <1>a, <3>1 DEF Message
    <3>4. got'[o.dst] = IF o.dst = r THEN got[r] \cup {<<m.src, m.round>>} ELSE got[o.dst]
      BY <1>0, <1>a, <3>1 DEF TypeOK, Message
    <3> QED BY <1>e, <3>2, <3>3, <3>4
  <2>2. ASSUME NEW q \in Ranks, NEW p \in got'[q] PROVE Sent(p[1], q, p[2])'
    <3>1. CASE p \in got[q]
      BY <1>0, <1>e, <3>1 DEF OnlySentMessages
    <3>2. CASE q = r /\ p = <<m.src, m.round>>
      BY <1>b, <1>e, <3>2
    <3> QED BY <1>0, <1>a, <2>2, <3>1, <3>2 DEF TypeOK
  <2> QED BY <2>1, <2>2 DEF OnlySentMessages
<1>4. Counted'
  <2> SUFFICES ASSUME NEW q \in Ranks
               PROVE  /\ IsFiniteSet(got'[q])
                      /\ Cardinality(got'[q]) =
                           (N - 1) * exited[q] + (IF Inside(q) THEN rcvd'[q] ELSE 0)
    BY <1>c, <1>d DEF Counted
  <2>1. /\ IsFiniteSet(got[q])
        /\ Cardinality(got[q]) = (N - 1) * exited[q] + (IF Inside(q) THEN rcvd[q] ELSE 0)
    BY DEF IInv, Counted
  <2>2. CASE q # r
    BY <1>0, <1>a, <1>c, <2>1, <2>2 DEF TypeOK
  <2>3. CASE q = r
    <3>1. got'[r] = got[r] \cup {<<m.src, m.round>>} /\ rcvd'[r] = rcvd[r] + 1
      BY <1>0, <1>a, <1>c DEF TypeOK
    <3>2. IsFiniteSet(got'[r]) /\ Cardinality(got'[r]) = Cardinality(got[r]) + 1
      <4>1. \A S, x : IsFiniteSet(S) /\ x \notin S =>
              IsFiniteSet(S \cup {x}) /\ Cardinality(S \cup {x}) = Cardinality(S) + 1
        BY FS_AddElement
      <4>2. IsFiniteSet(got[r]) /\ <<m.src, m.round>> \notin got[r]
        BY <1>b, <2>1, <2>3
      <4>3. LET T == got[r] \cup {<<m.src, m.round>>}
            IN  IsFiniteSet(T) /\ Cardinality(T) = Cardinality(got[r]) + 1
        BY <4>1, <4>2, Zenon
      <4> QED BY <3>1, <4>3
    <3>3. (N - 1) * exited[r] \in Int /\ rcvd[r] \in Int
      BY <1>0 DEF TypeOK
    <3> QED BY <1>c, <2>1, <2>3, <3>1, <3>2, <3>3
  <2> QED BY <2>2, <2>3
<1>5. NobodyLeavesEarly'
  BY <1>c DEF IInv, NobodyLeavesEarly
<1> QED BY <1>1, <1>2, <1>3, <1>4, <1>5 DEF IInv

LEMMA ReturnInv ==
  ASSUME IInv, NEW r \in Ranks, Return(r)
  PROVE  IInv'
<1> USE NAssumption DEF Return
<1>0. TypeOK /\ OneCallAtATime
  BY DEF IInv
<1>1. TypeOK'
  BY <1>0 DEF TypeOK
<1>2. OneCallAtATime'
  BY <1>0 DEF TypeOK, OneCallAtATime, Inside
<1>3. ASSUME NEW s \in Ranks, NEW d, NEW k \in Nat, Sent(s, d, k), d \in Ranks
      PROVE  Sent(s, d, k)'
  <2>1. SlotOf(s, d)' = SlotOf(s, d)
    BY DEF SlotOf
  <2>2. SlotOf(s, d) \in 0 .. N-2
    BY <1>3, SlotRange DEF Sent
  <2> QED BY <1>0, <1>3, <2>1, <2>2 DEF Sent, Inside, TypeOK
<1>4. OnlySentMessages'
  BY <1>0, <1>3 DEF IInv, OnlySentMessages, TypeOK, Message
<1>5. Counted'
  <2> SUFFICES ASSUME NEW q \in Ranks
               PROVE  /\ IsFiniteSet(got[q])
                      /\ Cardinality(got[q]) =
                           (N - 1) * exited'[q] + (IF Inside(q)' THEN rcvd[q] ELSE 0)
    BY DEF Counted
  <2>1. /\ IsFiniteSet(got[q])
        /\ Cardinality(got[q]) = (N - 1) * exited[q] + (IF Inside(q) THEN rcvd[q] ELSE 0)
    BY DEF IInv, Counted
  <2>2. CASE q # r
    BY <1>0, <2>1, <2>2 DEF TypeOK, Inside
  <2>3. CASE q = r
    <3>1. exited'[r] = exited[r] + 1 /\ ~Inside(r)' /\ exited[r] \in Nat
      BY <1>0 DEF TypeOK, OneCallAtATime, Inside
    <3>2. \A a, x \in Int : a * x + a = a * (x + 1) + 0
      OBVIOUS
    <3>3. Cardinality(got[r]) = (N - 1) * exited[r] + (N - 1)
      BY <2>1, <2>3
    <3>4. (N - 1) * exited[r] + (N - 1) = (N - 1) * (exited[r] + 1) + 0
      BY <3>1, <3>2
    <3> QED BY <2>1, <2>3, <3>1, <3>3, <3>4
  <2> QED BY <2>2, <2>3
<1>6. NobodyLeavesEarly'
  <2> SUFFICES ASSUME NEW i \in Ranks, NEW j \in Ranks PROVE exited'[i] <= entered[j]
    BY DEF NobodyLeavesEarly
  <2>1. CASE i = r
    BY <1>0, <2>1, ReturnIsSafe DEF TypeOK
  <2>2. CASE i # r
    BY <1>0, <2>2 DEF IInv, NobodyLeavesEarly, TypeOK
  <2> QED BY <2>1, <2>2
<1> QED BY <1>1, <1>2, <1>4, <1>5, <1>6 DEF IInv

(* One step of any rank, or none, keeps the invariant. *)
LEMMA StepInv == IInv /\ [Next]_vars => IInv'
<1> SUFFICES ASSUME IInv, [Next]_vars PROVE IInv'
  OBVIOUS
<1>1. CASE UNCHANGED vars
  BY <1>1 DEF IInv, TypeOK, OneCallAtATime, OnlySentMessages, Sent, Counted,
              NobodyLeavesEarly, Inside, SlotOf, Arrivals, vars
<1>2. CASE Finished
  BY <1>1, <1>2 DEF Finished
<1>3. ASSUME NEW r \in Ranks, Step(r) PROVE IInv'
  BY <1>3, EnterInv, SendInv, RecvInv, ReturnInv DEF Step
<1> QED BY <1>1, <1>2, <1>3 DEF Next

THEOREM InductiveInvariant == Spec => []IInv
BY InitInv, StepInv, PTL DEF Spec

(* The variables of every job keep their types. *)
THEOREM TypeCorrect == Spec => []TypeOK
<1>1. IInv => TypeOK
  BY DEF IInv
<1> QED BY <1>1, InductiveInvariant, PTL

(***************************************************************************)
(* The promise of barrier(), for every job size: no rank is told that call *)
(* k is over before every rank has made it.                                *)
(***************************************************************************)
THEOREM BarrierSafe == Spec => []NobodyLeavesEarly
<1>1. IInv => NobodyLeavesEarly
  BY DEF IInv
<1> QED BY <1>1, InductiveInvariant, PTL

(***************************************************************************)
(* Between calls no barrier message is in flight: the messages consumed    *)
(* are all that were sent.                                                 *)
(***************************************************************************)
LEMMA Drained == IInv => NothingLeftOver
<1> SUFFICES ASSUME IInv, \A i, j \in Ranks : exited[i] = entered[j],
                    NEW m \in net
             PROVE  FALSE
  BY DEF NothingLeftOver
<1> USE NAssumption
<1>1. /\ m.src \in Ranks /\ m.dst \in Ranks /\ m.round \in Nat
      /\ exited \in [Ranks -> Nat] /\ entered \in [Ranks -> Nat]
      /\ got \in [Ranks -> SUBSET (Ranks \X Nat)]
  BY DEF IInv, TypeOK, Message
<1>2. Sent(m.src, m.dst, m.round) /\ <<m.src, m.round>> \notin got[m.dst]
  BY DEF IInv, OnlySentMessages
<1> DEFINE k == exited[m.dst]
<1>3. k \in Nat /\ Cardinality(got[m.dst]) = (N - 1) * k
  <2>1. ~Inside(m.dst)
    BY <1>1 DEF Inside
  <2>2. Cardinality(got[m.dst]) = (N - 1) * k + 0
    BY <1>1, <2>1 DEF IInv, Counted
  <2>3. (N - 1) * k \in Int
    BY <1>1
  <2> QED BY <1>1, <2>2, <2>3
<1>4. \A p \in got[m.dst] : p[2] <= k
  <2> SUFFICES ASSUME NEW p \in got[m.dst] PROVE p[2] <= k
    OBVIOUS
  <2>1. p[1] \in Ranks /\ Sent(p[1], m.dst, p[2])
    BY <1>1 DEF IInv, OnlySentMessages
  <2> QED BY <1>1, <2>1 DEF Sent
<1>5. got[m.dst] = (Ranks \ {m.dst}) \X (1 .. k)
  <2> HIDE DEF k
  <2> QED BY <1>1, <1>3, <1>4, CountingArgument
<1>6. m.round \in 1 .. k /\ m.src \in Ranks \ {m.dst}
  BY <1>1, <1>2 DEF Sent
<1> QED BY <1>2, <1>5, <1>6

(* A barrier leaves no message behind for the next call to mistake. *)
THEOREM NoMessageOutlivesItsBarrier == Spec => []NothingLeftOver
BY Drained, InductiveInvariant, PTL

-----------------------------------------------------------------------------

(* The initial states of the handshake are those of the abstract barrier. *)
LEMMA AbstractInit == Init => Abstract!Init
BY DEF Init, Abstract!Init

(* A step of the handshake is a step of the abstract barrier or invisible. *)
LEMMA AbstractStep == IInv /\ [Next]_vars => [Abstract!Next]_(Abstract!vars)
<1> SUFFICES ASSUME IInv, [Next]_vars
             PROVE  [Abstract!Next]_(Abstract!vars)
  OBVIOUS
<1>1. CASE UNCHANGED vars
  BY <1>1 DEF vars, Abstract!vars
<1>2. CASE Finished
  BY <1>2 DEF Finished, vars, Abstract!vars
<1>3. ASSUME NEW r \in Ranks, Step(r)
      PROVE  [Abstract!Next]_(Abstract!vars)
  <2>1. CASE Enter(r)
    <3>1. entered[r] = exited[r]
      BY <2>1 DEF Enter, Inside, IInv, TypeOK, OneCallAtATime
    <3>2. Abstract!Arrive(r)
      BY <2>1, <3>1 DEF Enter, Abstract!Arrive
    <3> QED BY <3>2 DEF Abstract!Next
  <2>2. CASE SendToPeer(r) \/ RecvFromAny(r)
    BY <2>2 DEF SendToPeer, RecvFromAny, Abstract!vars
  <2>3. CASE Return(r)
    <3>1. \A q \in Ranks : entered[q] >= entered[r]
      <4> TAKE q \in Ranks
      <4>1. exited[r] + 1 <= entered[q]
        BY <2>3, ReturnIsSafe DEF Return
      <4>2. entered[r] <= exited[r] + 1
        BY DEF IInv, OneCallAtATime
      <4> QED BY <4>1, <4>2 DEF IInv, TypeOK
    <3>2. Abstract!Leave(r)
      BY <2>3, <3>1 DEF Return, Inside, Abstract!Leave
    <3> QED BY <3>2 DEF Abstract!Next
  <2> QED BY <1>3, <2>1, <2>2, <2>3 DEF Step
<1> QED BY <1>1, <1>2, <1>3 DEF Next

(***************************************************************************)
(* The all-to-all handshake with one anonymous tag implements the abstract *)
(* barrier: its message traffic is invisible to the callers.               *)
(***************************************************************************)
THEOREM BarrierRefines == Spec => ImplementsAbstract
<1>1. Spec => Abstract!Spec
  BY AbstractInit, AbstractStep, InductiveInvariant, PTL DEF Spec, Abstract!Spec
<1> QED BY <1>1 DEF ImplementsAbstract
=============================================================================
