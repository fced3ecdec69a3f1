--------------------------- MODULE MatchedProofs ---------------------------
(***************************************************************************)
(* Theorems about the jobs of Job whose ranks make the same calls at each  *)
(* other: what a barrier delivers, which messages a call takes, and that   *)
(* nothing is left behind.                                                 *)
(***************************************************************************)
EXTENDS JobProofs

-----------------------------------------------------------------------------
(* What the ranks of a matched job expect of each other. *)

LEMMA MatchedDomains ==
  ASSUME job \in MatchedJobs, NEW s \in Ranks, NEW d \in Ranks
  PROVE  DOMAIN Program(job, s) = DOMAIN Program(job, d)
<1>1. job \in Jobs /\ Matched(job)
  BY DEF MatchedJobs
<1>2. Len(Program(job, s)) = Len(Program(job, d))
  BY <1>1 DEF Matched, Ranks
<1> QED
  BY <1>1, <1>2, ProgramFacts

LEMMA MatchedFacts ==
  ASSUME job \in MatchedJobs, NEW s \in Ranks, NEW d \in Ranks, NEW k \in DOMAIN Program(job, s)
  PROVE  /\ k \in DOMAIN Program(job, d)
         /\ s # d => CallAt(s, k).tag = CallAt(d, k).takes
         /\ s = d => Due(s, d, k) = 0
         /\ Due(s, d, k) = CountIn(CallAt(d, k).from, s)
         /\ IsBarrier(s, k) <=> IsBarrier(d, k)
<1>1. job \in Jobs /\ Matched(job)
  BY DEF MatchedJobs
<1>2. k \in DOMAIN Program(job, d)
  BY MatchedDomains
<1>3. /\ s # d => CallAt(s, k).tag = CallAt(d, k).takes
      /\ s = d => Due(s, d, k) = 0
      /\ Due(s, d, k) = CountIn(CallAt(d, k).from, s)
  BY <1>1 DEF Matched, Ranks, CallAt, Due
<1>4. IsBarrier(s, k) <=> IsBarrier(d, k)
  BY <1>1, <1>2, <1>3, BarrierFacts
<1> QED
  BY <1>2, <1>3, <1>4

LEMMA MatchedNth ==
  ASSUME job \in MatchedJobs, NEW s \in Ranks, NEW d \in Ranks, NEW n
  PROVE  Nth(s, n) = Nth(d, n)
<1>1. \A k : IsBarrier(s, k) <=> IsBarrier(d, k)
  <2>1. ASSUME NEW k
        PROVE  IsBarrier(s, k) <=> IsBarrier(d, k)
    <3>1. CASE k \in DOMAIN Program(job, s)
      BY <3>1, MatchedFacts
    <3>2. CASE k \notin DOMAIN Program(job, s)
      BY <3>2, MatchedDomains DEF IsBarrier
    <3> QED
      BY <3>1, <3>2
  <2> QED
    BY <2>1
<1> QED
  BY <1>1 DEF Nth, BarriersIn

(* A barrier that one rank has passed, every rank has begun. *)
LEMMA HasBegun ==
  ASSUME TypeOK, Settled, BarriersSeparate, job \in MatchedJobs,
         NEW r \in Ranks, NEW q \in Ranks, NEW b, IsBarrier(r, b), Passed(r, b)
  PROVE  b <= at[q]
<1>1. /\ job \in Jobs /\ at[r] \in Nat /\ at[q] \in Nat /\ inside[r] \in BOOLEAN
      /\ inside[r] => at[r] > 0
  BY StateFacts DEF Settled
<1>2. b \in Nat
  BY <1>1, ProgramFacts DEF IsBarrier
<1>3. Nth(r, b) <= BarriersPassed(r) /\ BarriersPassed(r) \in Nat
  <2>1. CASE ~inside[r]
    <3>1. b <= at[r]
      BY <1>1, <1>2 DEF Passed
    <3> QED
      BY <1>1, <1>2, <2>1, <3>1, BegunAndPassed, NthGrows, NthFacts DEF BarrierCounts
  <2>2. CASE inside[r]
    <3>1. b <= at[r] - 1 /\ at[r] - 1 \in Nat
      BY <1>1, <1>2, <2>2 DEF Passed
    <3>2. BarriersPassed(r) = Nth(r, at[r] - 1)
      BY <1>1, <2>2, BegunAndPassed DEF BarrierCounts
    <3> QED
      BY <1>2, <3>1, <3>2, NthGrows, NthFacts
  <2> QED
    BY <2>1, <2>2
<1>4. BarriersPassed(r) <= Nth(r, at[q])
  <2>1. BarriersPassed(r) <= Nth(q, at[q])
    BY BegunAndPassed DEF BarriersSeparate, BarrierCounts
  <2> QED
    BY <2>1, MatchedNth
<1>5. Nth(r, b) \in Nat /\ Nth(r, at[q]) \in Nat
  BY <1>1, <1>2, NthFacts
<1>6. at[q] < b => Nth(r, at[q]) < Nth(r, b)
  BY <1>1, <1>2, NthGrows
<1> QED
  BY <1>1, <1>2, <1>3, <1>4, <1>5, <1>6

-----------------------------------------------------------------------------
(***************************************************************************)
(* When a rank has filled the receives of all its calls, and no message of *)
(* a tag that it has taken belongs to a later call, it has taken all the   *)
(* messages of that tag that its calls expect: there are as many.          *)
(***************************************************************************)
LEMMA ExactlyTheirs ==
  ASSUME Accounts, job \in MatchedJobs, NEW r \in Ranks, NEW tag,
         \A c \in 1 .. at[r] : Filled(r, c) = Len(CallAt(r, c).from),
         \A s \in Ranks : \A c \in DOMAIN Program(job, s) :
           CallAt(s, c).tag = tag /\ c > at[r] => Taken(s, r, c) = 0,
         NEW q \in Ranks, NEW e \in DOMAIN Program(job, q), e <= at[r],
         CallAt(q, e).tag = tag
  PROVE  Taken(q, r, e) = Due(q, r, e)
<1>0. TypeOK /\ NothingFromNowhere /\ Conserved
  BY DEF Accounts
<1>1. job \in Jobs /\ at[r] \in Nat /\ \A c \in 1 .. at[r] : c \in DOMAIN Program(job, r)
  BY <1>0, StateFacts
<1>4. \A s \in Ranks : \A c \in DOMAIN Program(job, s) :
        /\ Taken(s, r, c) \in Nat /\ Taken(s, r, c) <= Due(s, r, c) /\ Due(s, r, c) \in Nat
  <2>1. ASSUME NEW s \in Ranks, NEW c \in DOMAIN Program(job, s)
        PROVE  /\ Due(s, r, c) \in Nat /\ Sent(s, r, c) \in Nat /\ Taken(s, r, c) \in Nat
               /\ Sent(s, r, c) <= Due(s, r, c) /\ Taken(s, r, c) <= Sent(s, r, c)
    BY <1>0, CountFacts
  <2> QED
    BY <2>1
<1>2. CASE q = r
  <2>1. Due(q, r, e) = 0
    BY <1>2, MatchedFacts
  <2>2. Taken(q, r, e) \in Nat /\ Taken(q, r, e) <= Due(q, r, e)
    BY <1>0, CountFacts
  <2> QED
    BY <2>1, <2>2
<1>3. CASE q # r
  <2> DEFINE T == TakenMessages(r, tag)
             F == FilledReceives(r, tag)
             Named(s, c) == {p \in DOMAIN CallAt(r, c).from : CallAt(r, c).from[p] = s}
             A == {m \in Ranks \X (1 .. at[r]) \X Nat :
                     CallAt(m[1], m[2]).tag = tag /\ m[3] \in 1 .. Due(m[1], r, m[2])}
             Place(s, c) == CHOOSE f : f \in Bijection(1 .. Due(s, r, c), Named(s, c))
             g == [m \in A |-> <<m[2], Place(m[1], m[2])[m[3]]>>]
  <2>1. CallAt(r, e).takes = tag /\ e \in DOMAIN Program(job, r)
    BY <1>3, MatchedFacts
  <2>2. IsFiniteSet(T) /\ IsFiniteSet(F) /\ Cardinality(T) = Cardinality(F)
    BY <1>0, <2>1 DEF Conserved, AsManyTakenAsFilled
  <2>3. ASSUME NEW s \in Ranks, NEW c \in 1 .. at[r]
        PROVE  Place(s, c) \in Bijection(1 .. Due(s, r, c), Named(s, c))
    <3>1. /\ CallAt(r, c).from \in Seq(Ranks) /\ c \in DOMAIN Program(job, s)
      BY <1>1, CallFacts, MatchedDomains
    <3>2. IsFiniteSet(Named(s, c)) /\ Cardinality(Named(s, c)) = Due(s, r, c)
      <4>1. Due(s, r, c) = CountIn(CallAt(r, c).from, s)
        BY <3>1, MatchedFacts
      <4>2. IsFiniteSet(Named(s, c))
        BY <3>1, CountType
      <4> QED
        BY <4>1, <4>2 DEF CountIn
    <3>3. ExistsBijection(1 .. Due(s, r, c), Named(s, c))
      <4> HIDE DEF Named
      <4> QED
        BY <3>2, FS_CardinalityType
    <3>4. \E f : f \in Bijection(1 .. Due(s, r, c), Named(s, c))
      <4> HIDE DEF Named
      <4> QED
        BY <3>3 DEF ExistsBijection
    <3> QED
      BY <3>4
  <2>4. ASSUME NEW s \in Ranks, NEW c \in 1 .. at[r], NEW i \in 1 .. Due(s, r, c)
        PROVE  /\ Place(s, c)[i] \in DOMAIN CallAt(r, c).from
               /\ CallAt(r, c).from[Place(s, c)[i]] = s
               /\ \A j \in 1 .. Due(s, r, c) : Place(s, c)[i] = Place(s, c)[j] => i = j
    <3> HIDE DEF Place
    <3>1. Place(s, c) \in Bijection(1 .. Due(s, r, c), Named(s, c))
      BY <2>3
    <3>2. Place(s, c)[i] \in Named(s, c)
      BY <3>1 DEF Bijection, Injection
    <3>3. \A j \in 1 .. Due(s, r, c) : Place(s, c)[i] = Place(s, c)[j] => i = j
      BY <3>1 DEF Bijection, Injection, IsInjective
    <3> QED
      BY <3>2, <3>3
  <2>5. ASSUME NEW s \in Ranks, NEW c \in 1 .. at[r], NEW i \in 1 .. Due(s, r, c),
               CallAt(s, c).tag = tag
        PROVE  \A p \in DOMAIN CallAt(r, c).from : <<c, p>> \in F
    <3>1. c \in DOMAIN Program(job, s) /\ c \in DOMAIN Program(job, r)
      BY <1>1, MatchedDomains
    <3>2. s # r
      <4>1. s = r => Due(s, r, c) = 0
        BY <3>1, MatchedFacts
      <4> QED
        BY <2>5, <4>1
    <3>3. CallAt(r, c).takes = tag
      BY <2>5, <3>1, <3>2, MatchedFacts
    <3>4. DOMAIN CallAt(r, c).from = 1 .. Filled(r, c)
      <4>1. CallAt(r, c).from \in Seq(Ranks)
        BY <1>1, <3>1, CallFacts
      <4> QED
        BY <4>1, LenProperties
    <3> QED
      BY <3>3, <3>4, FilledMembers
  <2>6. g \in Injection(A, F)
    <3>1. ASSUME NEW m \in A
          PROVE  /\ m[1] \in Ranks /\ m[2] \in 1 .. at[r] /\ m[3] \in 1 .. Due(m[1], r, m[2])
                 /\ CallAt(m[1], m[2]).tag = tag /\ m = <<m[1], m[2], m[3]>>
      OBVIOUS
    <3>2. ASSUME NEW m \in A
          PROVE  g[m] = <<m[2], Place(m[1], m[2])[m[3]]>> /\ g[m] \in F
      <4>1. g[m] = <<m[2], Place(m[1], m[2])[m[3]]>>
        OBVIOUS
      <4> HIDE DEF A, F, g, Place
      <4>2. PICK s, c, i :
              /\ s \in Ranks
              /\ c \in 1 .. at[r] /\ i \in 1 .. Due(s, r, c) /\ CallAt(s, c).tag = tag
              /\ m[1] = s /\ m[2] = c /\ m[3] = i
        BY <3>1
      <4>3. Place(s, c)[i] \in DOMAIN CallAt(r, c).from
        BY <2>4, <4>2
      <4>4. <<c, Place(s, c)[i]>> \in F
        BY <2>5, <4>2, <4>3
      <4> QED
        BY <4>1, <4>2, <4>4
    <3>3. ASSUME NEW m \in A, NEW l \in A, g[m] = g[l]
          PROVE  m = l
      <4>1. m[2] = l[2] /\ Place(m[1], m[2])[m[3]] = Place(l[1], l[2])[l[3]]
        <5> HIDE DEF A, F, g, Place
        <5>1. g[m] = <<m[2], Place(m[1], m[2])[m[3]]>> /\ g[l] = <<l[2], Place(l[1], l[2])[l[3]]>>
          BY <3>2
        <5>2. <<m[2], Place(m[1], m[2])[m[3]]>> = <<l[2], Place(l[1], l[2])[l[3]]>>
          BY <3>3, <5>1, Zenon
        <5> QED
          BY <5>2
      <4>2. m[1] = l[1]
        <5> HIDE DEF A, F, g, Place
        <5> QED
          BY <2>4, <3>1, <4>1
      <4>3. m[3] = l[3]
        <5> HIDE DEF A, F, g, Place
        <5> QED
          BY <2>4, <3>1, <4>1, <4>2
      <4> HIDE DEF A, F, g, Place
      <4> QED
        BY <3>1, <4>1, <4>2, <4>3
    <3>4. g \in [A -> F]
      BY <3>2
    <3> HIDE DEF A, F, g
    <3> QED
      BY <3>3, <3>4 DEF Injection, IsInjective
  <2>7. IsFiniteSet(A) /\ Cardinality(A) <= Cardinality(T)
    <3> HIDE DEF A, F, g, T
    <3> QED
      BY <2>2, <2>6, FS_Injection
  <2>8. T \in SUBSET A
    <3>1. ASSUME NEW m \in T
          PROVE  m \in A
      <4>1. PICK s, c, i : m = <<s, c, i>> /\ IsTaken(r, tag, s, c, i)
        BY <1>0, TakenMember DEF TakenAreTriples
      <4>2. /\ s \in Ranks /\ c \in DOMAIN Program(job, s) /\ i \in 1 .. Taken(s, r, c)
            /\ CallAt(s, c).tag = tag
        BY <4>1 DEF IsTaken
      <4>3. /\ Taken(s, r, c) \in Nat /\ Taken(s, r, c) <= Due(s, r, c) /\ Due(s, r, c) \in Nat
        BY <1>4, <4>2
      <4>6. c \in Nat /\ c > 0
        BY <1>1, <4>2, ProgramFacts
      <4>4. ~(c > at[r])
        BY <4>2, <4>3
      <4>5. c \in 1 .. at[r] /\ i \in 1 .. Due(s, r, c) /\ i \in Nat
        BY <1>1, <4>2, <4>3, <4>4, <4>6
      <4> QED
        BY <4>1, <4>2, <4>5
    <3> QED
      BY <3>1
  <2>9. T = A
    <3>1. Cardinality(T) <= Cardinality(A)
      <4> HIDE DEF A, T
      <4> QED
        BY <2>7, <2>8, FS_Subset
    <3>2. Cardinality(T) \in Nat /\ Cardinality(A) \in Nat
      <4> HIDE DEF A, T, F
      <4> QED
        BY <2>2, <2>7, FS_CardinalityType
    <3> HIDE DEF A, T, F
    <3>3. Cardinality(A) = Cardinality(T)
      BY <2>7, <3>1, <3>2
    <3> QED
      BY <2>7, <2>8, <3>3, FS_Subset
  <2>10. /\ Taken(q, r, e) \in Nat /\ Due(q, r, e) \in Nat
         /\ Taken(q, r, e) <= Due(q, r, e)
    BY <1>0, CountFacts
  <2>12. e \in Nat /\ e > 0
    BY <1>1, ProgramFacts
  <2>11. ASSUME Taken(q, r, e) < Due(q, r, e)
         PROVE  FALSE
    <3>1. e \in 1 .. at[r] /\ Due(q, r, e) \in 1 .. Due(q, r, e)
      BY <1>1, <2>10, <2>11, <2>12
    <3>2. <<q, e, Due(q, r, e)>> \in A
      BY <2>10, <3>1
    <3>3. Due(q, r, e) \in 1 .. Taken(q, r, e)
      BY <2>9, <3>2, TakenMembers
    <3> QED
      BY <2>10, <2>11, <3>3
  <2> QED
    BY <2>10, <2>11
<1> QED
  BY <1>2, <1>3

-----------------------------------------------------------------------------
(* What has been taken in full stays so. *)

LEMMA StaysTaken ==
  ASSUME Accounts, [Next]_vars,
         NEW s \in Ranks, NEW d \in Ranks, NEW c \in DOMAIN Program(job, s),
         Taken(s, d, c) = Due(s, d, c)
  PROVE  Taken(s, d, c)' = Due(s, d, c)
<1>1. job' = job /\ TypeOK' /\ NothingFromNowhere'
  BY SameJob, AccountsStep DEF Accounts
<1>2. TakenBounded'
  BY <1>1, TakenBound, PTL
<1>3. Due(s, d, c)' = Due(s, d, c) /\ Ranks' = Ranks
  BY <1>1, SameProgram
<1>4. /\ Taken(s, d, c)' \in Nat /\ Due(s, d, c) \in Nat
      /\ Taken(s, d, c)' <= Due(s, d, c)
  BY <1>1, <1>2, <1>3 DEF TakenBounded
<1>5. Taken(s, d, c)' = Taken(s, d, c) \/ Taken(s, d, c)' = Taken(s, d, c) + 1
  BY TakenStep DEF Accounts
<1> QED
  BY <1>4, <1>5

(* No message of a call that has been taken in full waits. *)
LEMMA NoneWaits ==
  ASSUME TypeOK, NothingFromNowhere,
         NEW s \in Ranks, NEW d \in Ranks, NEW c \in DOMAIN Program(job, s),
         Taken(s, d, c) = Due(s, d, c)
  PROVE  Waiting(s, d, c) = 0 /\ Sent(s, d, c) = Due(s, d, c)
<1>1. /\ Due(s, d, c) \in Nat /\ Sent(s, d, c) \in Nat /\ Waiting(s, d, c) \in Nat
      /\ Sent(s, d, c) <= Due(s, d, c) /\ Taken(s, d, c) = Sent(s, d, c) - Waiting(s, d, c)
  BY CountFacts
<1> QED
  BY <1>1

-----------------------------------------------------------------------------
(* Data sent before a barrier has been taken where the barrier is begun. *)

(***************************************************************************)
(* No data sent after a barrier waits for or has reached a rank that has   *)
(* not begun it: all it has taken belongs to calls before.                 *)
(***************************************************************************)
LEMMA NothingFromBeyond ==
  ASSUME Accounts, job \in MatchedJobs, NEW r \in Ranks, NEW s \in Ranks,
         NEW b, IsBarrier(r, b), at[r] < b,
         NEW c \in 1 .. at[s], c \in DOMAIN Program(job, s), ~IsBarrier(s, c)
  PROVE  c < b
<1>0. TypeOK /\ Settled /\ BarriersSeparate
  BY DEF Accounts
<1>1. /\ job \in Jobs /\ at[r] \in Nat /\ at[s] \in Nat /\ b \in DOMAIN Program(job, r)
  BY <1>0, StateFacts DEF IsBarrier
<1>2. b \in Nat /\ c \in Nat /\ c <= at[s]
  BY <1>1, ProgramFacts
<1>3. IsBarrier(s, b)
  BY <1>1, MatchedFacts
<1>4. c # b
  BY <1>3
<1>5. ASSUME b < c
      PROVE  FALSE
  <2>1. Passed(s, b)
    BY <1>1, <1>2, <1>5 DEF Passed
  <2>2. b <= at[r]
    BY <1>0, <1>3, <2>1, HasBegun
  <2> QED
    BY <1>1, <1>2, <2>2
<1> QED
  BY <1>2, <1>4, <1>5

(* So a rank that is about to begin a barrier has taken all data sent before it. *)
LEMMA BarrierDelivers ==
  ASSUME Accounts, job \in MatchedJobs, NEW r \in Ranks, ~inside[r],
         IsBarrier(r, at[r] + 1),
         NEW s \in Ranks, NEW c \in 1 .. at[r], ~IsBarrier(s, c)
  PROVE  Taken(s, r, c) = Due(s, r, c)
<1>0. TypeOK /\ Settled /\ NothingFromNowhere
  BY DEF Accounts
<1>1. job \in Jobs /\ at[r] \in Nat /\ c \in DOMAIN Program(job, r)
  BY <1>0, StateFacts
<1>2. c \in DOMAIN Program(job, s) /\ c <= at[r]
  BY <1>1, MatchedDomains
<1>3. PICK tag : tag = CallAt(s, c).tag
  OBVIOUS
<1>4. tag # BarrierTag
  BY <1>1, <1>2, <1>3, BarrierFacts
<1>5. \A k \in 1 .. at[r] : Filled(r, k) = Len(CallAt(r, k).from)
  BY <1>0, <1>1 DEF Filled, Settled, CallOf, CallAt
<1>6. ASSUME NEW p \in Ranks, NEW k \in DOMAIN Program(job, p), CallAt(p, k).tag = tag, k > at[r]
      PROVE  Taken(p, r, k) = 0
  <2>1. k \in Nat /\ k > 0 /\ at[p] \in Nat
    BY <1>0, <1>1, ProgramFacts, StateFacts
  <2>2. ~IsBarrier(p, k)
    BY <1>1, <1>4, <1>6, BarrierFacts
  <2>3. CASE k <= at[p]
    <3>1. k \in 1 .. at[p] /\ at[r] < at[r] + 1
      BY <1>1, <2>1, <2>3
    <3>2. k < at[r] + 1
      BY <2>2, <3>1, NothingFromBeyond
    <3> QED
      BY <1>1, <1>6, <2>1, <3>2
  <2>4. CASE k > at[p]
    BY <1>0, <2>4, CountFacts
  <2> QED
    BY <2>1, <2>3, <2>4
<1> QED
  BY <1>2, <1>3, <1>5, <1>6, ExactlyTheirs

LEMMA DeliveredStep ==
  ASSUME Accounts, job \in MatchedJobs, Delivered, [Next]_vars
  PROVE  Delivered'
<1>0. TypeOK /\ Settled /\ NothingFromNowhere /\ job' = job
  BY SameJob DEF Accounts
<1>1. /\ job \in Jobs /\ at \in [Ranks -> Nat]
      /\ Ranks' = Ranks /\ \A r, k : IsBarrier(r, k)' = IsBarrier(r, k)
  BY <1>0, SameProgram, TypeParts
<1>2. ASSUME NEW r \in Ranks, NEW s \in Ranks, NEW b \in 1 .. at[r], IsBarrier(r, b),
             NEW c \in 1 .. b - 1, ~IsBarrier(s, c)
      PROVE  Taken(s, r, c)' = Due(s, r, c)
  <2>1. Taken(s, r, c) = Due(s, r, c)
    BY <1>2 DEF Delivered
  <2>2. c \in 1 .. at[r]
    BY <1>1
  <2>3. c \in DOMAIN Program(job, r)
    BY <1>0, <2>2, StateFacts
  <2>4. c \in DOMAIN Program(job, s)
    BY <2>3, MatchedDomains
  <2> QED
    BY <2>1, <2>4, StaysTaken
<1>3. ASSUME \A r, s \in Ranks : \A b \in 1 .. at'[r] : IsBarrier(r, b) =>
               \A c \in 1 .. b - 1 : ~IsBarrier(s, c) => Taken(s, r, c)' = Due(s, r, c)
      PROVE  Delivered'
  <2>1. \A s, r, c : Due(s, r, c)' = Due(s, r, c)
    BY <1>0, SameProgram
  <2> QED
    BY <1>1, <1>3, <2>1 DEF Delivered
<1>4. ASSUME at' = at
      PROVE  Delivered'
  BY <1>2, <1>3, <1>4
<1>5. ASSUME NEW q \in Ranks, Begin(q)
      PROVE  Delivered'
  <2>0. PICK k : k = at[q] + 1
    OBVIOUS
  <2>1. ~inside[q] /\ at' = [at EXCEPT ![q] = k]
    BY <1>0, <1>5, <2>0, BeginEffect
  <2>2. at'[q] = k /\ at[q] \in Nat /\ \A r \in Ranks : r # q => at'[r] = at[r]
    BY <1>1, <2>1
  <2>3. ASSUME NEW r \in Ranks, NEW s \in Ranks, NEW b \in 1 .. at'[r], IsBarrier(r, b),
               NEW c \in 1 .. b - 1, ~IsBarrier(s, c)
        PROVE  Taken(s, r, c)' = Due(s, r, c)
    <3>1. CASE b \in 1 .. at[r]
      BY <1>2, <2>3, <3>1
    <3>2. CASE b \notin 1 .. at[r]
      <4>1. r = q
        BY <2>2, <3>2
      <4>2. b = k /\ c \in 1 .. at[q]
        BY <2>0, <2>2, <3>2, <4>1
      <4>3. Taken(s, q, c) = Due(s, q, c)
        BY <2>0, <2>1, <2>3, <4>1, <4>2, BarrierDelivers
      <4>4. c \in DOMAIN Program(job, q)
        BY <1>0, <4>2, StateFacts
      <4>5. c \in DOMAIN Program(job, s)
        BY <4>4, MatchedDomains
      <4> QED
        BY <4>1, <4>3, <4>5, StaysTaken
    <3> QED
      BY <3>1, <3>2
  <2> QED
    BY <1>3, <2>3
<1>6. ASSUME NEW q \in Ranks, SendAwaited(q)
      PROVE  at' = at
  BY <1>0, <1>6, SendEffect
<1>7. ASSUME NEW q \in Ranks, Receive(q)
      PROVE  at' = at
  BY <1>0, <1>7, ReceiveEffect
<1>8. ASSUME NEW q \in Ranks, Return(q)
      PROVE  at' = at
  BY <1>0, <1>8, ReturnEffect
<1> QED
  BY <1>4, <1>5, <1>6, <1>7, <1>8, NextCases DEF vars

-----------------------------------------------------------------------------
(* A data call takes messages of its own section only. *)

SectionOf(r, k, m) ==
  /\ m.call \in DOMAIN Program(job, m.src)
  /\ CallAt(m.src, m.call).tag = CallAt(r, k).takes
  /\ \A b \in DOMAIN Program(job, r) :
       IsBarrier(r, b) => ~(m.call <= b /\ b < k) /\ ~(k < b /\ b <= m.call)

LEMMA SameSectionStep ==
  ASSUME Accounts, job \in MatchedJobs, Delivered, SameSection, [Next]_vars
  PROVE  SameSection'
<1>0. TypeOK /\ Settled /\ NothingFromNowhere /\ BarriersSeparate /\ job' = job
  BY SameJob DEF Accounts
<1>1. /\ job \in Jobs /\ at \in [Ranks -> Nat] /\ got \in [Ranks -> Seq(Arrival)]
      /\ Ranks' = Ranks /\ \A r, k : IsBarrier(r, k)' = IsBarrier(r, k)
  BY <1>0, SameProgram, TypeParts
<1>2. \A r \in Ranks : ~IsBarrier(r, at[r]) =>
        \A i \in DOMAIN got[r] : SectionOf(r, at[r], got[r][i])
  BY DEF SameSection, SectionOf, CallOf, CallAt
<1>3. ASSUME \A r \in Ranks : \E k :
               at'[r] = k /\ (~IsBarrier(r, k) => \A i \in DOMAIN got'[r] : SectionOf(r, k, got'[r][i]))
      PROVE  SameSection'
  <2>1. ASSUME NEW r \in Ranks, ~IsBarrier(r, at'[r]), NEW i \in DOMAIN got'[r]
        PROVE  /\ got'[r][i].call \in DOMAIN Program(job, got'[r][i].src)
               /\ Program(job, got'[r][i].src)[got'[r][i].call].tag
                    = Program(job, r)[at'[r]].takes
               /\ \A b \in DOMAIN Program(job, r) : IsBarrier(r, b) =>
                    ~(got'[r][i].call <= b /\ b < at'[r]) /\ ~(at'[r] < b /\ b <= got'[r][i].call)
    <3>1. PICK k, m : at'[r] = k /\ m = got'[r][i]
      OBVIOUS
    <3>2. SectionOf(r, k, m)
      BY <1>3, <2>1, <3>1
    <3>3. /\ m.call \in DOMAIN Program(job, m.src)
          /\ Program(job, m.src)[m.call].tag = Program(job, r)[k].takes
          /\ \A b \in DOMAIN Program(job, r) :
               IsBarrier(r, b) => ~(m.call <= b /\ b < k) /\ ~(k < b /\ b <= m.call)
      BY <3>2 DEF SectionOf, CallAt
    <3> QED
      BY <3>1, <3>3
  <2>2. \A r \in Ranks : IsBarrier(r, at[r])' <=> IsBarrier(r, at'[r])
    BY <1>0 DEF IsBarrier
  <2>3. \A r \in Ranks : ~IsBarrier(r, at[r])' =>
          \A i \in DOMAIN got'[r] :
            /\ got'[r][i].call \in DOMAIN Program(job', got'[r][i].src)
            /\ Program(job', got'[r][i].src)[got'[r][i].call].tag = Program(job', r)[at'[r]].takes
            /\ \A b \in DOMAIN Program(job', r) : IsBarrier(r, b)' =>
                 ~(got'[r][i].call <= b /\ b < at'[r]) /\ ~(at'[r] < b /\ b <= got'[r][i].call)
    BY <1>0, <1>1, <2>1, <2>2
  <2> QED
    BY <1>1, <2>3 DEF SameSection, CallAt, CallOf
<1>4. ASSUME at' = at, got' = got
      PROVE  SameSection'
  BY <1>2, <1>3, <1>4
<1>5. ASSUME NEW q \in Ranks, Begin(q)
      PROVE  SameSection'
  <2>0. PICK k : k = at[q] + 1
    OBVIOUS
  <2>1. at' = [at EXCEPT ![q] = k] /\ got' = [got EXCEPT ![q] = <<>>]
    BY <1>0, <1>5, <2>0, BeginEffect
  <2>2. /\ at'[q] = k /\ got'[q] = <<>>
        /\ \A r \in Ranks : r # q => at'[r] = at[r] /\ got'[r] = got[r]
    BY <1>1, <2>1
  <2> QED
    BY <1>2, <1>3, <2>2
<1>6. ASSUME NEW q \in Ranks, Receive(q)
      PROVE  SameSection'
  <2>1. at' = at /\ todo' = todo /\ at[q] \in DOMAIN Program(job, q)
    BY <1>0, <1>6, ReceiveEffect
  <2>2. PICK s \in Ranks, i \in Nat, c \in Nat :
          /\ i \in DOMAIN chan[s][q] /\ c \in 1 .. at[s]
          /\ c \in DOMAIN Program(job, s)
          /\ chan[s][q][i] = MessageOf(s, c)
          /\ CallAt(s, c).tag = CallAt(q, at[q]).takes
          /\ \A j \in DOMAIN chan[s][q] :
               chan[s][q][j].tag = CallAt(q, at[q]).takes => i <= j
          /\ got' = [got EXCEPT ![q] = Append(got[q], [src |-> s, call |-> c])]
          /\ chan' = [chan EXCEPT ![s][q] = Without(chan[s][q], i)]
    BY <1>0, <1>6, ReceiveEffect
  <2>3. PICK k, m : k = at[q] /\ m = [src |-> s, call |-> c]
    OBVIOUS
  <2>4. Waiting(s, q, c) > 0
    <3>1. chan[s][q] \in Seq(Message)
      BY <1>0, StateFacts
    <3> QED
      BY <2>2, <3>1, CountPositive DEF Waiting
  <2>5. ~IsBarrier(q, k) => SectionOf(q, k, m)
    <3> SUFFICES ASSUME ~IsBarrier(q, k), NEW b \in DOMAIN Program(job, q), IsBarrier(q, b)
                 PROVE  ~(c <= b /\ b < k) /\ ~(k < b /\ b <= c)
      BY <2>2, <2>3 DEF SectionOf
    <3>1. k \in Nat /\ c \in Nat /\ b \in Nat /\ c >= 1 /\ k = at[q] /\ c <= at[s] /\ at[s] \in Nat
      BY <1>1, <2>2, <2>3, ProgramFacts
    <3>2. ~IsBarrier(s, c)
      <4>1. CallAt(s, c).tag # BarrierTag
        BY <1>1, <2>1, <2>2, <2>3, BarrierFacts
      <4> QED
        BY <1>1, <2>2, <4>1, BarrierFacts
    <3>3. IsBarrier(s, b) /\ c # b
      BY <3>2, MatchedFacts
    <3>4. ASSUME c <= b, b < k
          PROVE  FALSE
      <4>1. b \in 1 .. at[q] /\ c \in 1 .. b - 1
        BY <3>1, <3>3, <3>4
      <4>2. Taken(s, q, c) = Due(s, q, c)
        BY <3>2, <4>1 DEF Delivered
      <4>3. Waiting(s, q, c) = 0
        BY <1>0, <2>2, <4>2, NoneWaits
      <4> QED
        BY <2>4, <4>3
    <3>5. ASSUME k < b, b <= c
          PROVE  FALSE
      <4>1. c < b
        BY <2>2, <2>3, <3>2, <3>5, NothingFromBeyond
      <4> QED
        BY <3>1, <3>5, <4>1
    <3> QED
      BY <3>4, <3>5
  <2>6. /\ at'[q] = k /\ got'[q] = Append(got[q], m) /\ got[q] \in Seq(Arrival) /\ m \in Arrival
        /\ \A r \in Ranks : r # q => at'[r] = at[r] /\ got'[r] = got[r]
    BY <1>1, <2>1, <2>2, <2>3 DEF Arrival
  <2>7. ~IsBarrier(q, k) => \A j \in DOMAIN got'[q] : SectionOf(q, k, got'[q][j])
    <3> SUFFICES ASSUME ~IsBarrier(q, k), NEW j \in DOMAIN got'[q]
                 PROVE  SectionOf(q, k, got'[q][j])
      OBVIOUS
    <3>1. (j \in DOMAIN got[q] /\ got'[q][j] = got[q][j]) \/ got'[q][j] = m
      BY <2>6
    <3> QED
      BY <1>2, <2>3, <2>5, <3>1
  <2> QED
    BY <1>2, <1>3, <2>6, <2>7
<1>7. ASSUME NEW q \in Ranks, SendAwaited(q)
      PROVE  at' = at /\ got' = got
  BY <1>0, <1>7, SendEffect
<1>8. ASSUME NEW q \in Ranks, Return(q)
      PROVE  at' = at /\ got' = got
  BY <1>0, <1>8, ReturnEffect
<1> QED
  BY <1>4, <1>5, <1>6, <1>7, <1>8, NextCases DEF vars

-----------------------------------------------------------------------------
(* A data call of an ordered job takes its own messages, and all of them. *)

LEMMA OrderedIsMatched ==
  job \in OrderedJobs => job \in MatchedJobs /\ Ordered(job)
  BY DEF OrderedJobs

(***************************************************************************)
(* The message that a data call of an ordered job takes is its own: an     *)
(* earlier call has taken all of its messages, a later one is behind a     *)
(* barrier or behind the messages that the same peer sent before.          *)
(***************************************************************************)
LEMMA TakesOnlyItsOwn ==
  ASSUME Accounts, job \in OrderedJobs, TakesItsOwn,
         NEW r \in Ranks, NEW s \in Ranks, NEW c \in DOMAIN Program(job, s), c \in 1 .. at[s],
         inside[r], at[r] \in DOMAIN Program(job, r), ~IsBarrier(r, at[r]),
         Len(got[r]) < Len(CallAt(r, at[r]).from),
         NEW i \in DOMAIN chan[s][r], chan[s][r][i] = MessageOf(s, c),
         CallAt(s, c).tag = CallAt(r, at[r]).takes,
         \A j \in DOMAIN chan[s][r] : chan[s][r][j].tag = CallAt(r, at[r]).takes => i <= j
  PROVE  c = at[r]
<1>0. /\ TypeOK /\ Settled /\ NothingFromNowhere /\ InOrder /\ BarriersSeparate
      /\ job \in MatchedJobs /\ Ordered(job)
  BY OrderedIsMatched DEF Accounts
<1>1. /\ job \in Jobs /\ at[r] \in Nat /\ at[s] \in Nat /\ c \in Nat /\ c >= 1 /\ c <= at[s]
      /\ chan[s][r] \in Seq(Message)
  BY <1>0, StateFacts
<1>2. PICK k : k = at[r]
  OBVIOUS
<1>3. k \in DOMAIN Program(job, s) /\ c \in DOMAIN Program(job, r) /\ k \in Nat /\ k > 0
  BY <1>0, <1>1, <1>2, MatchedDomains, ProgramFacts
<1>4. ~IsBarrier(s, c)
  <2>1. CallAt(s, c).tag # BarrierTag
    BY <1>1, BarrierFacts
  <2> QED
    BY <1>1, <2>1, BarrierFacts
<1>5. Waiting(s, r, c) > 0
  BY <1>1, CountPositive DEF Waiting
<1>6. Taken(s, r, c) # Due(s, r, c)
  <2>1. Taken(s, r, c) = Due(s, r, c) => Waiting(s, r, c) = 0
    BY <1>0, NoneWaits
  <2> QED
    BY <1>5, <2>1
<1>7. s # r
  <2>1. s = r => Due(s, r, c) = 0
    BY <1>0, MatchedFacts
  <2>2. Taken(s, r, c) \in Nat /\ Taken(s, r, c) <= Due(s, r, c)
    BY <1>0, TakenBound DEF TakenBounded
  <2> QED
    BY <1>6, <2>1, <2>2
<1>8. /\ CallAt(r, c).takes = CallAt(r, k).takes
      /\ CallAt(s, k).tag = CallAt(r, k).takes
  BY <1>0, <1>2, <1>3, <1>7, MatchedFacts
<1>9. ASSUME c < k
      PROVE  FALSE
  <2>1. Passed(r, c)
    BY <1>1, <1>2, <1>9 DEF Passed
  <2> QED
    BY <1>4, <1>6, <2>1 DEF TakesItsOwn
<1>10. ASSUME k < c
       PROVE  FALSE
  <2>1. \/ \E b \in k .. c : Program(job, r)[b].tag = BarrierTag
        \/ \E p \in Ranks : OnlyFrom(Program(job, r)[k], p) /\ OnlyFrom(Program(job, r)[c], p)
    BY <1>0, <1>2, <1>3, <1>8, <1>10 DEF Ordered, Ranks, CallAt
  <2>2. ASSUME NEW b \in k .. c, Program(job, r)[b].tag = BarrierTag
        PROVE  FALSE
    <3>1. b \in DOMAIN Program(job, r) /\ b \in Nat /\ k <= b /\ b <= c
      <4>1. DOMAIN Program(job, r) = 1 .. Len(Program(job, r)) /\ Len(Program(job, r)) \in Nat
        BY <1>1, ProgramFacts
      <4> QED
        BY <1>1, <1>3, <4>1
    <3>2. IsBarrier(r, b) /\ ~IsBarrier(r, c)
      BY <1>0, <1>4, <2>2, <3>1, MatchedFacts DEF IsBarrier
    <3>3. b # k /\ b # c
      BY <1>2, <3>2
    <3>4. at[r] < b
      BY <1>2, <1>3, <3>1, <3>3
    <3>5. c < b
      BY <1>0, <1>4, <3>2, <3>4, NothingFromBeyond
    <3> QED
      BY <1>1, <3>1, <3>5
  <2>3. ASSUME NEW p \in Ranks, OnlyFrom(Program(job, r)[k], p), OnlyFrom(Program(job, r)[c], p)
        PROVE  FALSE
    <3>1. CallAt(r, c).from \in Seq(Ranks) /\ CallAt(r, k).from \in Seq(Ranks)
      <4>1. CallAt(r, c).from \in Seq(Ranks)
        BY <1>1, <1>3, CallFacts
      <4>2. CallAt(r, k).from \in Seq(Ranks)
        BY <1>1, <1>2, CallFacts
      <4> QED
        BY <4>1, <4>2
    <3>2. p = s
      <4>1. Due(s, r, c) = CountIn(CallAt(r, c).from, s)
        BY <1>0, MatchedFacts
      <4>2. Due(s, r, c) \in Nat /\ Taken(s, r, c) \in Nat /\ Taken(s, r, c) <= Due(s, r, c)
        BY <1>0, TakenBound DEF TakenBounded
      <4>3. CountIn(CallAt(r, c).from, s) > 0
        BY <1>6, <4>1, <4>2
      <4>4. \E j \in DOMAIN CallAt(r, c).from : CallAt(r, c).from[j] = s
        BY <3>1, <4>3, CountPositive
      <4> QED
        BY <2>3, <4>4 DEF OnlyFrom, CallAt
    <3>3. Due(s, r, k) = Len(CallAt(r, k).from) /\ Len(CallAt(r, k).from) \in Nat
      <4>1. {j \in DOMAIN CallAt(r, k).from : CallAt(r, k).from[j] = s}
              = 1 .. Len(CallAt(r, k).from)
        BY <2>3, <3>1, <3>2, LenProperties DEF OnlyFrom, CallAt
      <4>2. Len(CallAt(r, k).from) \in Nat
        BY <3>1, LenProperties
      <4>3. CountIn(CallAt(r, k).from, s) = Len(CallAt(r, k).from)
        BY <4>1, <4>2, UpTo DEF CountIn
      <4>4. Due(s, r, k) = CountIn(CallAt(r, k).from, s)
        BY <1>0, <1>3, MatchedFacts
      <4> QED
        BY <4>2, <4>3, <4>4
    <3>4. Waiting(s, r, k) = 0
      <4>1. ASSUME NEW j \in DOMAIN chan[s][r], chan[s][r][j] = MessageOf(s, k)
            PROVE  FALSE
        <5>1. /\ MessageOf(s, k).call = k /\ MessageOf(s, k).tag = CallAt(s, k).tag
              /\ MessageOf(s, c).call = c
          BY <1>1, <1>3, CallFacts
        <5>2. i <= j
          BY <1>2, <1>8, <4>1, <5>1
        <5>3. i \in Nat /\ j \in Nat
          <6>1. DOMAIN chan[s][r] = 1 .. Len(chan[s][r])
            BY <1>1, LenProperties
          <6> QED
            BY <6>1
        <5>4. i = j => c = k
          BY <4>1, <5>1
        <5>5. i < j => c <= k
          <6>1. i < j => chan[s][r][i].call <= chan[s][r][j].call
            BY <1>0 DEF InOrder
          <6> QED
            BY <4>1, <5>1, <6>1
        <5> QED
          BY <1>1, <1>3, <1>10, <5>2, <5>3, <5>4, <5>5
      <4>2. Waiting(s, r, k) \in Nat /\ ~(Waiting(s, r, k) > 0)
        BY <1>1, <4>1, CountPositive, CountType DEF Waiting
      <4> QED
        BY <4>2
    <3>5. Sent(s, r, k) = Due(s, r, k)
      <4>1. k \in 1 .. at[s] /\ k # at[s]
        BY <1>1, <1>3, <1>10
      <4>2. Due(s, r, k) \in Nat
        BY <3>3
      <4> QED
        BY <4>1, <4>2 DEF Sent, Ahead
    <3>6. Taken(s, r, k) = Len(CallAt(r, k).from)
      BY <3>3, <3>4, <3>5 DEF Taken
    <3>7. Taken(s, r, k) = CountIn(got[r], [src |-> s, call |-> k])
      <4>1. ~IsBarrier(s, k)
        BY <1>0, <1>2, MatchedFacts
      <4> QED
        BY <1>2, <1>3, <4>1 DEF TakesItsOwn
    <3>8. CountIn(got[r], [src |-> s, call |-> k]) \in Nat
          /\ CountIn(got[r], [src |-> s, call |-> k]) <= Len(got[r]) /\ Len(got[r]) \in Nat
      <4>1. got[r] \in Seq(Arrival) /\ Len(got[r]) \in Nat
        BY <1>0, StateFacts
      <4> QED
        BY <4>1, CountType
    <3> QED
      BY <1>2, <3>3, <3>6, <3>7, <3>8
  <2> QED
    BY <2>1, <2>2, <2>3
<1> QED
  BY <1>1, <1>2, <1>3, <1>9, <1>10

LEMMA TakesItsOwnStep ==
  ASSUME Accounts, job \in OrderedJobs, TakesItsOwn, [Next]_vars
  PROVE  TakesItsOwn'
<1>0. /\ TypeOK /\ Settled /\ NothingFromNowhere /\ job' = job
      /\ job \in MatchedJobs /\ job \in Jobs
  BY SameJob, OrderedIsMatched DEF Accounts, TypeOK
<1>1. /\ at \in [Ranks -> Nat] /\ got \in [Ranks -> Seq(Arrival)]
      /\ inside \in [Ranks -> BOOLEAN] /\ Ranks' = Ranks
  BY <1>0, SameProgram, TypeParts
<1>2. ASSUME \A r, s \in Ranks : \A c \in DOMAIN Program(job, s) : ~IsBarrier(s, c) =>
               /\ c > at'[r] => Taken(s, r, c)' = 0
               /\ c = at'[r] => Taken(s, r, c)' = CountIn(got'[r], [src |-> s, call |-> c])
               /\ at'[r] > c \/ (at'[r] = c /\ ~inside'[r]) => Taken(s, r, c)' = Due(s, r, c)
      PROVE  TakesItsOwn'
  <2>1. /\ \A s, r, c : Due(s, r, c)' = Due(s, r, c)
        /\ \A s, c : IsBarrier(s, c)' = IsBarrier(s, c)
    BY <1>0, SameProgram
  <2> QED
    BY <1>0, <1>1, <1>2, <2>1 DEF TakesItsOwn, Passed
<1>3. ASSUME NEW r \in Ranks, at'[r] = at[r], got'[r] = got[r], inside'[r] = inside[r],
             NEW s \in Ranks, NEW c \in DOMAIN Program(job, s), ~IsBarrier(s, c),
             Taken(s, r, c)' = Taken(s, r, c)
      PROVE  /\ c > at'[r] => Taken(s, r, c)' = 0
             /\ c = at'[r] => Taken(s, r, c)' = CountIn(got'[r], [src |-> s, call |-> c])
             /\ at'[r] > c \/ (at'[r] = c /\ ~inside'[r]) => Taken(s, r, c)' = Due(s, r, c)
  BY <1>3 DEF TakesItsOwn, Passed
<1>4. CASE UNCHANGED vars
  <2>1. \A s, r, c : Taken(s, r, c)' = Taken(s, r, c)
    BY <1>4, SameCounts DEF vars
  <2> QED
    BY <1>2, <1>3, <1>4, <2>1 DEF vars
<1>5. ASSUME NEW q \in Ranks, Begin(q)
      PROVE  TakesItsOwn'
  <2>0. PICK k : k = at[q] + 1
    OBVIOUS
  <2>1. /\ ~inside[q] /\ at' = [at EXCEPT ![q] = k] /\ got' = [got EXCEPT ![q] = <<>>]
        /\ inside' = [inside EXCEPT ![q] = TRUE]
    BY <1>0, <1>5, <2>0, BeginEffect
  <2>2. /\ at'[q] = k /\ got'[q] = <<>> /\ inside'[q] /\ at[q] \in Nat /\ k \in Nat
        /\ \A r \in Ranks : r # q =>
             at'[r] = at[r] /\ got'[r] = got[r] /\ inside'[r] = inside[r]
    BY <1>1, <2>0, <2>1
  <2>3. \A s, r \in Ranks : \A c \in DOMAIN Program(job, s) : Taken(s, r, c)' = Taken(s, r, c)
    BY <1>0, <1>5, BeginCounts
  <2>4. ASSUME NEW s \in Ranks, NEW c \in DOMAIN Program(job, s), ~IsBarrier(s, c)
        PROVE  /\ c > at'[q] => Taken(s, q, c)' = 0
               /\ c = at'[q] => Taken(s, q, c)' = CountIn(got'[q], [src |-> s, call |-> c])
               /\ at'[q] > c \/ (at'[q] = c /\ ~inside'[q]) => Taken(s, q, c)' = Due(s, q, c)
    <3>1. c \in Nat
      BY <1>0, ProgramFacts
    <3>2. c > at[q] => Taken(s, q, c) = 0
      BY <2>4 DEF TakesItsOwn
    <3>3. c <= at[q] => Taken(s, q, c) = Due(s, q, c)
      <4>1. c <= at[q] => Passed(q, c)
        BY <2>1, <2>2, <3>1 DEF Passed
      <4> QED
        BY <2>4, <4>1 DEF TakesItsOwn
    <3>4. CountIn(got'[q], [src |-> s, call |-> c]) = 0
      BY <2>2, CountEmpty
    <3> QED
      BY <2>0, <2>2, <2>3, <3>1, <3>2, <3>3, <3>4
  <2>5. ASSUME NEW r \in Ranks, r # q, NEW s \in Ranks, NEW c \in DOMAIN Program(job, s),
               ~IsBarrier(s, c)
        PROVE  /\ c > at'[r] => Taken(s, r, c)' = 0
               /\ c = at'[r] => Taken(s, r, c)' = CountIn(got'[r], [src |-> s, call |-> c])
               /\ at'[r] > c \/ (at'[r] = c /\ ~inside'[r]) => Taken(s, r, c)' = Due(s, r, c)
    BY <1>3, <2>2, <2>3, <2>5
  <2> QED
    BY <1>2, <2>4, <2>5
<1>6. ASSUME NEW q \in Ranks, SendAwaited(q)
      PROVE  TakesItsOwn'
  <2>1. at' = at /\ inside' = inside /\ got' = got
    BY <1>0, <1>6, SendEffect
  <2>2. \A s, r \in Ranks : \A c \in DOMAIN Program(job, s) : Taken(s, r, c)' = Taken(s, r, c)
    BY <1>0, <1>6, SendCounts
  <2> QED
    BY <1>2, <1>3, <2>1, <2>2
<1>7. ASSUME NEW q \in Ranks, Receive(q)
      PROVE  TakesItsOwn'
  <2>1. /\ inside[q] /\ at[q] \in DOMAIN Program(job, q) /\ at[q] > 0
        /\ Len(got[q]) < Len(CallAt(q, at[q]).from)
        /\ at' = at /\ inside' = inside /\ todo' = todo
    BY <1>0, <1>7, ReceiveEffect
  <2>2. PICK p \in Ranks, i \in Nat, e \in Nat :
          /\ i \in DOMAIN chan[p][q] /\ e \in 1 .. at[p]
          /\ e \in DOMAIN Program(job, p)
          /\ chan[p][q][i] = MessageOf(p, e)
          /\ CallAt(p, e).tag = CallAt(q, at[q]).takes
          /\ \A j \in DOMAIN chan[p][q] :
               chan[p][q][j].tag = CallAt(q, at[q]).takes => i <= j
          /\ got' = [got EXCEPT ![q] = Append(got[q], [src |-> p, call |-> e])]
          /\ chan' = [chan EXCEPT ![p][q] = Without(chan[p][q], i)]
    BY <1>0, <1>7, ReceiveEffect
  <2>3. /\ e \in DOMAIN Program(job, p) /\ i \in DOMAIN chan[p][q]
        /\ chan[p][q][i] = MessageOf(p, e)
        /\ chan' = [chan EXCEPT ![p][q] = Without(chan[p][q], i)]
    BY <2>2
  <2>4. Taken(p, q, e)' = Taken(p, q, e) + 1
    BY <1>0, <2>1, <2>3, ReceiveCounts
  <2>5. \A s, r \in Ranks : \A c \in DOMAIN Program(job, s) :
          s # p \/ r # q \/ c # e => Taken(s, r, c)' = Taken(s, r, c)
    BY <1>0, <2>1, <2>3, ReceiveKeeps
  <2>6. \A r \in Ranks : at'[r] = at[r] /\ inside'[r] = inside[r] /\ (r # q => got'[r] = got[r])
    BY <1>1, <2>1, <2>2
  <2>7. ~IsBarrier(q, at[q]) => e = at[q]
    BY <2>1, <2>2, TakesOnlyItsOwn
  <2>8. ASSUME NEW r \in Ranks, r # q, NEW s \in Ranks, NEW c \in DOMAIN Program(job, s),
               ~IsBarrier(s, c)
        PROVE  /\ c > at'[r] => Taken(s, r, c)' = 0
               /\ c = at'[r] => Taken(s, r, c)' = CountIn(got'[r], [src |-> s, call |-> c])
               /\ at'[r] > c \/ (at'[r] = c /\ ~inside'[r]) => Taken(s, r, c)' = Due(s, r, c)
    BY <1>3, <2>5, <2>6, <2>8
  <2>9. ASSUME NEW s \in Ranks, NEW c \in DOMAIN Program(job, s), ~IsBarrier(s, c)
        PROVE  /\ c > at[q] => Taken(s, q, c)' = 0
               /\ c = at[q] => Taken(s, q, c)' = CountIn(got'[q], [src |-> s, call |-> c])
               /\ at[q] > c \/ (at[q] = c /\ ~inside[q]) => Taken(s, q, c)' = Due(s, q, c)
    <3>0. c \in Nat /\ at[q] \in Nat /\ c \in DOMAIN Program(job, q)
          /\ (IsBarrier(s, c) <=> IsBarrier(q, c))
      BY <1>0, <1>1, ProgramFacts, MatchedFacts
    <3>1. /\ c > at[q] => Taken(s, q, c) = 0
          /\ c = at[q] => Taken(s, q, c) = CountIn(got[q], [src |-> s, call |-> c])
          /\ at[q] > c \/ (at[q] = c /\ ~inside[q]) => Taken(s, q, c) = Due(s, q, c)
      BY <2>9 DEF TakesItsOwn, Passed
    <3>2. at[q] > c \/ (at[q] = c /\ ~inside[q]) => Taken(s, q, c)' = Due(s, q, c)
      BY <3>1, StaysTaken
    <3>3. c > at[q] => Taken(s, q, c)' = 0
      <4>1. ASSUME s = p, c = e
            PROVE  ~(c > at[q])
        <5>1. ~IsBarrier(q, at[q])
          <6>1. CallAt(p, e).tag # BarrierTag
            BY <1>0, <2>3, <2>9, <4>1, BarrierFacts
          <6> QED
            BY <1>0, <2>1, <2>2, <6>1, BarrierFacts
        <5> QED
          BY <2>7, <3>0, <4>1, <5>1
      <4> QED
        BY <2>5, <3>1, <4>1
    <3>4. ASSUME c = at[q]
          PROVE  Taken(s, q, c)' = CountIn(got'[q], [src |-> s, call |-> c])
      <4>1. PICK x, y : x = [src |-> s, call |-> c] /\ y = [src |-> p, call |-> e]
        OBVIOUS
      <4>2. /\ x \in Arrival /\ y \in Arrival /\ got[q] \in Seq(Arrival)
            /\ got'[q] = Append(got[q], y)
        BY <1>1, <2>2, <3>0, <4>1 DEF Arrival
      <4>3. CASE s = p /\ c = e
        <5>1. CountIn(got'[q], y) = CountIn(got[q], y) + 1
          BY <4>2, CountAppend
        <5> QED
          BY <2>4, <3>1, <3>4, <4>1, <4>3, <5>1
      <4>4. CASE s # p \/ c # e
        <5>1. x # y
          BY <4>1, <4>4
        <5>2. CountIn(got'[q], x) = CountIn(got[q], x)
          BY <4>2, <5>1, CountAppend
        <5> QED
          BY <2>5, <3>1, <3>4, <4>1, <4>4, <5>2
      <4> QED
        BY <4>3, <4>4
    <3> QED
      BY <3>2, <3>3, <3>4
  <2>10. ASSUME NEW s \in Ranks, NEW c \in DOMAIN Program(job, s), ~IsBarrier(s, c)
        PROVE  /\ c > at'[q] => Taken(s, q, c)' = 0
               /\ c = at'[q] => Taken(s, q, c)' = CountIn(got'[q], [src |-> s, call |-> c])
               /\ at'[q] > c \/ (at'[q] = c /\ ~inside'[q]) => Taken(s, q, c)' = Due(s, q, c)
    BY <2>6, <2>9, <2>10
  <2> QED
    BY <1>2, <2>8, <2>10
<1>8. ASSUME NEW q \in Ranks, Return(q)
      PROVE  TakesItsOwn'
  <2>0. PICK k : k = at[q]
    OBVIOUS
  <2>1. /\ inside[q] /\ at[q] \in DOMAIN Program(job, q) /\ at[q] > 0
        /\ Len(got[q]) = Len(CallAt(q, at[q]).from)
        /\ at' = at /\ todo' = todo /\ chan' = chan /\ got' = got
        /\ inside' = [inside EXCEPT ![q] = FALSE]
    BY <1>0, <1>8, ReturnEffect
  <2>2. \A s, r, c : Taken(s, r, c)' = Taken(s, r, c)
    BY <1>0, <2>1, SameCounts
  <2>3. \A r \in Ranks : at'[r] = at[r] /\ got'[r] = got[r] /\ (r # q => inside'[r] = inside[r])
    BY <1>1, <2>1
  <2>4. ASSUME NEW s \in Ranks, k \in DOMAIN Program(job, s), ~IsBarrier(s, k)
        PROVE  Taken(s, q, k) = Due(s, q, k)
    <3>1. PICK tag : tag = CallAt(s, k).tag
      OBVIOUS
    <3>2. tag # BarrierTag
      BY <1>0, <2>4, <3>1, BarrierFacts
    <3>3. \A c \in 1 .. at[q] : Filled(q, c) = Len(CallAt(q, c).from)
      BY <2>1 DEF Filled
    <3>4. ASSUME NEW p \in Ranks, NEW c \in DOMAIN Program(job, p), CallAt(p, c).tag = tag, c > at[q]
          PROVE  Taken(p, q, c) = 0
      <4>1. ~IsBarrier(p, c)
        BY <1>0, <3>2, <3>4, BarrierFacts
      <4> QED
        BY <3>4, <4>1 DEF TakesItsOwn
    <3>5. k <= at[q]
      BY <1>1, <2>0
    <3> QED
      BY <1>0, <2>4, <3>1, <3>3, <3>4, <3>5, ExactlyTheirs
  <2>5. ASSUME NEW s \in Ranks, NEW c \in DOMAIN Program(job, s), ~IsBarrier(s, c)
        PROVE  /\ c > at[q] => Taken(s, q, c) = 0
               /\ c = at[q] => Taken(s, q, c) = CountIn(got[q], [src |-> s, call |-> c])
               /\ at[q] > c \/ at[q] = c => Taken(s, q, c) = Due(s, q, c)
    <3>1. /\ c > at[q] => Taken(s, q, c) = 0
          /\ c = at[q] => Taken(s, q, c) = CountIn(got[q], [src |-> s, call |-> c])
          /\ at[q] > c => Taken(s, q, c) = Due(s, q, c)
      BY <2>5 DEF TakesItsOwn, Passed
    <3>2. at[q] = c => Taken(s, q, c) = Due(s, q, c)
      BY <2>0, <2>4, <2>5
    <3> QED
      BY <3>1, <3>2
  <2>6. ASSUME NEW s \in Ranks, NEW c \in DOMAIN Program(job, s), ~IsBarrier(s, c)
        PROVE  /\ c > at'[q] => Taken(s, q, c)' = 0
               /\ c = at'[q] => Taken(s, q, c)' = CountIn(got'[q], [src |-> s, call |-> c])
               /\ at'[q] > c \/ (at'[q] = c /\ ~inside'[q]) => Taken(s, q, c)' = Due(s, q, c)
    BY <2>2, <2>3, <2>5, <2>6
  <2>7. ASSUME NEW r \in Ranks, r # q, NEW s \in Ranks, NEW c \in DOMAIN Program(job, s),
               ~IsBarrier(s, c)
        PROVE  /\ c > at'[r] => Taken(s, r, c)' = 0
               /\ c = at'[r] => Taken(s, r, c)' = CountIn(got'[r], [src |-> s, call |-> c])
               /\ at'[r] > c \/ (at'[r] = c /\ ~inside'[r]) => Taken(s, r, c)' = Due(s, r, c)
    BY <1>3, <2>2, <2>3, <2>7
  <2> QED
    BY <1>2, <2>6, <2>7
<1> QED
  BY <1>4, <1>5, <1>6, <1>7, <1>8, NextCases

-----------------------------------------------------------------------------
(* The inductive invariant, and what follows from it. *)

LEMMA InitIInv ==
  Init => IInv
<1> SUFFICES ASSUME Init
             PROVE  IInv
  OBVIOUS
<1>1. Accounts
  BY InitAccounts
<1>2. TypeOK /\ NothingFromNowhere
  BY <1>1 DEF Accounts
<1>3. \A r \in Ranks : at[r] = 0 /\ got[r] = <<>> /\ ~inside[r]
  BY DEF Init
<1>4. Delivered
  BY <1>3 DEF Delivered
<1>5. SameSection
  BY <1>3 DEF SameSection
<1>6. TakesItsOwn
  <2>1. ASSUME NEW r \in Ranks, NEW s \in Ranks, NEW c \in DOMAIN Program(job, s)
        PROVE  /\ c > at[r] => Taken(s, r, c) = 0
               /\ c # at[r] /\ ~Passed(r, c)
    <3>1. c \in Nat /\ c > 0
      BY <1>2, StateFacts, ProgramFacts
    <3>2. Taken(s, r, c) = 0
      BY <1>2, <1>3, <3>1, CountFacts
    <3> QED
      BY <1>3, <3>1, <3>2 DEF Passed
  <2> QED
    BY <2>1 DEF TakesItsOwn
<1> QED
  BY <1>1, <1>4, <1>5, <1>6 DEF IInv

LEMMA IInvStep ==
  IInv /\ [Next]_vars => IInv'
<1> SUFFICES ASSUME IInv, [Next]_vars
             PROVE  IInv'
  OBVIOUS
<1>1. Accounts /\ Accounts' /\ job' = job
  BY AccountsStep, SameJob DEF IInv
<1>2. MatchedJobs' = MatchedJobs /\ OrderedJobs' = OrderedJobs
  OBVIOUS
<1>3. ASSUME job \in MatchedJobs
      PROVE  Delivered' /\ SameSection'
  BY <1>1, <1>3, DeliveredStep, SameSectionStep DEF IInv
<1>4. ASSUME job \in OrderedJobs
      PROVE  TakesItsOwn'
  BY <1>1, <1>4, TakesItsOwnStep DEF IInv
<1> QED
  BY <1>1, <1>2, <1>3, <1>4 DEF IInv

(***************************************************************************)
(* IInv holds throughout: messages and receives balance in every job, data *)
(* is delivered at barriers in a matched one, and every data call of an    *)
(* ordered one takes its own messages.                                     *)
(***************************************************************************)
THEOREM InductiveInvariant ==
  Spec => []IInv
  BY InitIInv, IInvStep, PTL DEF Spec

(* All receives of a job that is done are filled: nothing is left to wait. *)
LEMMA IInvLeavesNothing ==
  IInv => (job \in MatchedJobs => NothingLeftBehind)
<1> SUFFICES ASSUME IInv, job \in MatchedJobs, Done, NEW s \in Ranks, NEW d \in Ranks
             PROVE  chan[s][d] = <<>>
  BY DEF NothingLeftBehind
<1>0. Accounts /\ TypeOK /\ Settled /\ NothingFromNowhere
  BY DEF IInv, Accounts
<1>1. /\ job \in Jobs /\ chan[s][d] \in Seq(Message)
      /\ \A r \in Ranks : at[r] = Len(Program(job, r)) /\ ~inside[r]
  BY <1>0, StateFacts DEF Done, Finished
<1>2. \A c \in 1 .. at[d] : Filled(d, c) = Len(CallAt(d, c).from)
  <2>1. at[d] \in Nat
    BY <1>0, StateFacts
  <2> QED
    BY <1>0, <1>1, <2>1 DEF Filled, Settled, CallOf, CallAt
<1>3. \A p \in Ranks : \A c \in DOMAIN Program(job, p) : c <= at[d] /\ ~(c > at[d])
  <2>1. ASSUME NEW p \in Ranks, NEW c \in DOMAIN Program(job, p)
        PROVE  c <= at[d] /\ ~(c > at[d])
    <3>1. c \in DOMAIN Program(job, d)
      BY MatchedDomains
    <3> QED
      BY <1>1, <3>1, ProgramFacts
  <2> QED
    BY <2>1
<1>4. ASSUME NEW i \in DOMAIN chan[s][d]
      PROVE  FALSE
  <2>1. PICK c : c \in 1 .. at[s] /\ chan[s][d][i] = MessageOf(s, c)
    BY <1>0, StateFacts
  <2>2. c \in DOMAIN Program(job, s)
    BY <1>0, <2>1, StateFacts
  <2>3. PICK tag : tag = CallAt(s, c).tag
    OBVIOUS
  <2>4. Taken(s, d, c) = Due(s, d, c)
    BY <1>0, <1>2, <1>3, <2>2, <2>3, ExactlyTheirs
  <2>5. Waiting(s, d, c) = 0
    BY <1>0, <2>2, <2>4, NoneWaits
  <2>6. Waiting(s, d, c) > 0
    BY <1>1, <2>1, CountPositive DEF Waiting
  <2> QED
    BY <2>5, <2>6
<1>5. DOMAIN chan[s][d] = 1 .. Len(chan[s][d]) /\ Len(chan[s][d]) \in Nat
  BY <1>1, LenProperties
<1>6. Len(chan[s][d]) = 0
  <2>1. Len(chan[s][d]) > 0 => 1 \in DOMAIN chan[s][d]
    BY <1>5
  <2> QED
    BY <1>4, <1>5, <2>1
<1> QED
  BY <1>1, <1>6, EmptySeq

(***************************************************************************)
(* A matched job that is done has left no message for the receives of a    *)
(* later benchmark or of teardown, whatever its length.                    *)
(***************************************************************************)
THEOREM MatchedJobsLeaveNothing ==
  Spec => [](job \in MatchedJobs => NothingLeftBehind)
  BY InductiveInvariant, IInvLeavesNothing, PTL

LEMMA IInvFences ==
  IInv => (job \in MatchedJobs => FencedCallsDoNotMix)
<1> SUFFICES ASSUME IInv, job \in MatchedJobs, NEW r \in Ranks, at[r] > 1,
                    IsBarrier(r, at[r] - 1), IsBarrier(r, at[r] + 1),
                    ~IsBarrier(r, at[r]), NEW i \in DOMAIN got[r]
             PROVE  got[r][i].call = at[r]
  BY DEF FencedCallsDoNotMix
<1>1. TypeOK /\ SameSection
  BY DEF IInv, Accounts
<1>2. PICK m : m = got[r][i]
  OBVIOUS
<1>3. at[r] \in Nat /\ m.call \in Nat
  <2>1. got[r] \in Seq(Arrival) /\ at[r] \in Nat
    BY <1>1, StateFacts
  <2>2. got[r][i] \in Arrival
    BY <2>1, LenProperties, ElementOfSeq
  <2> QED
    BY <1>2, <2>1, <2>2 DEF Arrival
<1>4. \A b \in DOMAIN Program(job, r) :
        IsBarrier(r, b) => ~(m.call <= b /\ b < at[r]) /\ ~(at[r] < b /\ b <= m.call)
  BY <1>1, <1>2 DEF SameSection
<1>5. ~(m.call <= at[r] - 1 /\ at[r] - 1 < at[r]) /\ ~(at[r] < at[r] + 1 /\ at[r] + 1 <= m.call)
  BY <1>4 DEF IsBarrier
<1> QED
  BY <1>2, <1>3, <1>5

(***************************************************************************)
(* Between two barriers of a matched job a call receives messages of that  *)
(* call alone, although the receives ask for a tag only.                   *)
(***************************************************************************)
THEOREM BarriersFence ==
  Spec => [](job \in MatchedJobs => FencedCallsDoNotMix)
  BY InductiveInvariant, IInvFences, PTL

LEMMA IInvOfEachPeer ==
  IInv => (job \in OrderedJobs => OneMessageOfEachPeer)
<1> SUFFICES ASSUME IInv, job \in OrderedJobs, NEW r \in Ranks,
                    at[r] > 0, ~inside[r], CallOf(r).tag # BarrierTag, NEW s \in Ranks
             PROVE  CountIn(got[r], [src |-> s, call |-> at[r]]) = CountIn(CallOf(r).from, s)
  BY DEF OneMessageOfEachPeer
<1>1. TypeOK /\ TakesItsOwn /\ job \in MatchedJobs
  BY OrderedIsMatched DEF IInv, Accounts
<1>2. PICK k : k = at[r]
  OBVIOUS
<1>3. k \in DOMAIN Program(job, r) /\ CallOf(r) = CallAt(r, k)
  BY <1>1, <1>2, StateFacts DEF CallOf, CallAt
<1>4. ~IsBarrier(r, k)
  BY <1>3 DEF IsBarrier, CallAt
<1>5. k \in DOMAIN Program(job, s) /\ ~IsBarrier(s, k)
      /\ Due(s, r, k) = CountIn(CallAt(r, k).from, s)
  <2>1. k \in DOMAIN Program(job, s)
    BY <1>1, <1>3, MatchedDomains
  <2> QED
    BY <1>1, <1>4, <2>1, MatchedFacts
<1>6. Passed(r, k)
  BY <1>2 DEF Passed
<1>7. /\ Taken(s, r, k) = CountIn(got[r], [src |-> s, call |-> k])
      /\ Taken(s, r, k) = Due(s, r, k)
  BY <1>1, <1>2, <1>5, <1>6 DEF TakesItsOwn
<1> QED
  BY <1>2, <1>3, <1>5, <1>7

(***************************************************************************)
(* A data call of an ordered job returns one message of every peer that it *)
(* names, sent by the same call of that peer: no message of a neighboring  *)
(* iteration takes its place.                                              *)
(***************************************************************************)
THEOREM OrderedCallsTakeTheirOwn ==
  Spec => [](job \in OrderedJobs => OneMessageOfEachPeer)
  BY InductiveInvariant, IInvOfEachPeer, PTL

LEMMA IInvBuffers ==
  IInv => (job \in OrderedJobs /\ Answered(job) => SendBuffersNotReusedEarly)
<1> SUFFICES ASSUME IInv, job \in OrderedJobs, Answered(job), NEW s \in Ranks, NEW d \in Ranks,
                    NEW i \in DOMAIN chan[s][d], chan[s][d][i].tag # BarrierTag,
                    Passed(s, AnsweredIn(job, s, chan[s][d][i].call, d))
             PROVE  FALSE
  BY DEF SendBuffersNotReusedEarly
<1>1. job \in MatchedJobs
  BY OrderedIsMatched
<1>2. /\ TypeOK /\ Settled /\ NothingFromNowhere /\ BarriersSeparate
      /\ Delivered /\ TakesItsOwn
  BY <1>1 DEF IInv, Accounts
<1>3. /\ job \in Jobs /\ chan[s][d] \in Seq(Message) /\ at[s] \in Nat /\ at[d] \in Nat
  BY <1>2, StateFacts
<1>4. PICK c \in 1 .. at[s] : chan[s][d][i] = MessageOf(s, c) /\ c = chan[s][d][i].call
  BY <1>2, StateFacts
<1>5. c \in DOMAIN Program(job, s) /\ c \in Nat /\ c > 0
  BY <1>2, <1>3, <1>4, StateFacts
<1>6. ~IsBarrier(s, c)
  BY <1>3, <1>4, <1>5, CallFacts, BarrierFacts
<1>7. Taken(s, d, c) # Due(s, d, c) /\ Due(s, d, c) > 0
  <2>1. Waiting(s, d, c) > 0
    BY <1>3, <1>4, CountPositive DEF Waiting
  <2>2. Taken(s, d, c) # Due(s, d, c)
    <3>1. Taken(s, d, c) = Due(s, d, c) => Waiting(s, d, c) = 0
      BY <1>2, <1>5, NoneWaits
    <3> QED
      BY <2>1, <3>1
  <2>3. Taken(s, d, c) \in Nat /\ Due(s, d, c) \in Nat /\ Taken(s, d, c) <= Due(s, d, c)
    BY <1>2, <1>5, TakenBound DEF TakenBounded
  <2> QED
    BY <2>2, <2>3
<1>8. PICK k : k = AnsweredIn(job, s, c, d)
  OBVIOUS
<1>9. k \in {c + 1, c + 2}
  BY <1>8 DEF AnsweredIn
<1>10. k \in 1 .. at[s] /\ Passed(s, k) /\ c < k /\ k \in Nat
  BY <1>3, <1>4, <1>5, <1>8, <1>9 DEF Passed
<1>11. k \in DOMAIN Program(job, s) /\ k \in DOMAIN Program(job, d)
  <2>1. k \in DOMAIN Program(job, s)
    BY <1>2, <1>10, StateFacts
  <2> QED
    BY <1>1, <2>1, MatchedDomains
<1>12. Hears(job, s, k, d)
  <2>1. /\ Program(job, s)[c].tag # BarrierTag
        /\ CountIn(Program(job, s)[c].to, d) > 0
    BY <1>5, <1>6, <1>7 DEF Due, CallAt, IsBarrier
  <2> QED
    BY <1>5, <1>8, <1>11, <2>1 DEF Answered, Ranks
<1>13. CASE IsBarrier(s, k)
  <2>1. k <= at[d]
    BY <1>1, <1>2, <1>10, <1>13, HasBegun
  <2>2. IsBarrier(d, k) /\ k \in 1 .. at[d] /\ c \in 1 .. k - 1
    BY <1>1, <1>3, <1>5, <1>10, <1>11, <1>13, <2>1, MatchedFacts
  <2>3. Taken(s, d, c) = Due(s, d, c)
    BY <1>2, <1>6, <2>2 DEF Delivered
  <2> QED
    BY <1>7, <2>3
<1>14. CASE ~IsBarrier(s, k)
  <2>1. Due(d, s, k) > 0
    BY <1>1, <1>11, <1>12, MatchedFacts DEF Hears, CallAt
  <2>2. ~IsBarrier(d, k)
    BY <1>1, <1>11, <1>14, MatchedFacts
  <2>3. Taken(d, s, k) = Due(d, s, k)
    BY <1>2, <1>10, <1>11, <2>2 DEF TakesItsOwn
  <2>4. ~(k > at[d])
    <3>1. k > at[d] => Taken(d, s, k) = 0
      BY <1>2, <1>11, CountFacts
    <3> QED
      BY <2>1, <2>3, <3>1
  <2>5. Passed(d, c)
    BY <1>3, <1>5, <1>10, <2>4 DEF Passed
  <2>6. Taken(s, d, c) = Due(s, d, c)
    BY <1>2, <1>5, <1>6, <2>5 DEF TakesItsOwn
  <2> QED
    BY <1>7, <2>6
<1> QED
  BY <1>13, <1>14

(***************************************************************************)
(* Where who sends data to a rank hears from it in one of its next two     *)
(* calls, no sender gets past that call before its data is taken, though it*)
(* waits for no send.                                                      *)
(***************************************************************************)
THEOREM AnsweredSendsAreTaken ==
  Spec => [](job \in OrderedJobs /\ Answered(job) => SendBuffersNotReusedEarly)
  BY InductiveInvariant, IInvBuffers, PTL

-----------------------------------------------------------------------------
(* How many messages may wait. *)

(* Data that waits belongs to a call since the last barrier its sender is past. *)
LEMMA WaitingLingers ==
  ASSUME IInv, job \in MatchedJobs, NEW s \in Ranks, NEW d \in Ranks,
         NEW i \in DOMAIN chan[s][d], ~IsBarrier(s, chan[s][d][i].call)
  PROVE  chan[s][d][i].call \in Lingering(job, s, d, at[s])
<1>1. /\ TypeOK /\ Settled /\ NothingFromNowhere /\ BarriersSeparate /\ Delivered
  BY DEF IInv, Accounts
<1>2. /\ job \in Jobs /\ chan[s][d] \in Seq(Message) /\ at[s] \in Nat /\ at[d] \in Nat
  BY <1>1, StateFacts
<1>3. PICK c \in 1 .. at[s] : chan[s][d][i] = MessageOf(s, c) /\ c = chan[s][d][i].call
  BY <1>1, StateFacts
<1>4. c \in DOMAIN Program(job, s) /\ c \in Nat /\ ~IsBarrier(s, c)
  BY <1>1, <1>2, <1>3, StateFacts
<1>5. Program(job, s)[c].tag # BarrierTag /\ chan[s][d][i].tag # BarrierTag
  BY <1>2, <1>3, <1>4, CallFacts DEF IsBarrier, CallAt
<1>6. Waiting(s, d, c) > 0
  BY <1>2, <1>3, CountPositive DEF Waiting
<1>7. ASSUME NEW b \in c .. at[s] - 1, Program(job, s)[b].tag = BarrierTag
      PROVE  FALSE
  <2>1. b \in 1 .. at[s] /\ b < at[s] /\ b \in Nat /\ c <= b
    BY <1>2, <1>3
  <2>2. b \in DOMAIN Program(job, s) /\ IsBarrier(s, b) /\ Passed(s, b)
    BY <1>1, <1>7, <2>1, StateFacts DEF IsBarrier, Passed
  <2>3. b <= at[d]
    BY <1>1, <2>2, HasBegun
  <2>4. c # b
    BY <1>4, <2>2
  <2>5. IsBarrier(d, b) /\ b \in 1 .. at[d] /\ c \in 1 .. b - 1
    <3>1. IsBarrier(d, b)
      BY <2>2, MatchedFacts
    <3> QED
      BY <1>2, <1>3, <1>4, <2>1, <2>3, <2>4, <3>1
  <2>6. Taken(s, d, c) = Due(s, d, c)
    BY <1>1, <1>4, <2>5 DEF Delivered
  <2>7. Waiting(s, d, c) = 0
    BY <1>1, <1>4, <2>6, NoneWaits
  <2> QED
    BY <1>6, <2>7
<1>8. ASSUME job \in OrderedJobs, Answered(job)
      PROVE  at[s] <= AnsweredIn(job, s, c, d)
  <2>1. SendBuffersNotReusedEarly
    BY <1>8, IInvBuffers
  <2>2. ~Passed(s, AnsweredIn(job, s, c, d))
    BY <1>3, <1>5, <2>1 DEF SendBuffersNotReusedEarly
  <2>3. AnsweredIn(job, s, c, d) \in Nat
    BY <1>4 DEF AnsweredIn
  <2> QED
    BY <1>2, <2>2, <2>3 DEF Passed
<1> QED
  BY <1>3, <1>5, <1>7, <1>8 DEF Lingering

LEMMA LingeringFinite ==
  ASSUME job \in Jobs, NEW s \in Ranks, NEW d \in Ranks, NEW k \in DOMAIN Program(job, s)
  PROVE  IsFiniteSet(LingeringData(job, s, d, k))
<1> DEFINE K == Lingering(job, s, d, k)
           n == [c \in K |-> CountIn(Program(job, s)[c].to, d)]
<1>1. k \in Nat /\ \A c \in 1 .. k : c \in DOMAIN Program(job, s)
  BY ProgramFacts
<1>2. IsFiniteSet(K)
  <2>1. IsFiniteSet(1 .. k)
    BY <1>1, UpTo
  <2>2. K \in SUBSET (1 .. k)
    BY DEF Lingering
  <2> HIDE DEF K
  <2> QED
    BY <2>1, <2>2, FS_Subset
<1>3. \A c \in K : n[c] \in Nat
  <2> SUFFICES ASSUME NEW c \in K
               PROVE  CountIn(Program(job, s)[c].to, d) \in Nat
    OBVIOUS
  <2>1. c \in DOMAIN Program(job, s)
    BY <1>1 DEF Lingering
  <2> QED
    BY <2>1, CallFacts DEF Due, CallAt
<1>4. IsFiniteSet(UNION {{<<c, i>> : i \in 1 .. n[c]} : c \in K})
  <2> HIDE DEF n, K
  <2> QED
    BY <1>2, <1>3, FinitePairs
<1>5. \A m : m \in UNION {{<<c, i>> : i \in 1 .. n[c]} : c \in K} <=> m \in LingeringData(job, s, d, k)
  <2>1. \A m : m \in UNION {{<<c, i>> : i \in 1 .. n[c]} : c \in K} <=>
               \E c \in K : \E i \in 1 .. n[c] : m = <<c, i>>
    <3> HIDE DEF n, K
    <3> QED
      OBVIOUS
  <2>2. \A m : m \in LingeringData(job, s, d, k) <=>
               \E c \in K : \E i \in 1 .. CountIn(Program(job, s)[c].to, d) : m = <<c, i>>
    BY DEF LingeringData
  <2>3. \A c \in K : n[c] = CountIn(Program(job, s)[c].to, d)
    OBVIOUS
  <2> HIDE DEF n, K
  <2> QED
    BY <2>1, <2>2, <2>3
<1> HIDE DEF n, K
<1> QED
  BY <1>4, <1>5

(***************************************************************************)
(* A message in a channel is one of its call's messages, so the channel is *)
(* no longer than the data that may linger and the barriers that wait.     *)
(***************************************************************************)
LEMMA IInvQueues ==
  IInv => (job \in MatchedJobs => QueuesBounded)
<1> SUFFICES ASSUME IInv, job \in MatchedJobs, NEW s \in Ranks, NEW d \in Ranks
             PROVE  IF at[s] = 0 THEN chan[s][d] = <<>>
                                 ELSE Len(chan[s][d]) <= QueueBound(job, s, d, at[s])
  BY DEF QueuesBounded
<1>1. TypeOK /\ NothingFromNowhere /\ Accounts
  BY DEF IInv, Accounts
<1>2. PICK q, a, n : q = chan[s][d] /\ a = at[s] /\ n = job.size
  OBVIOUS
<1>3. /\ job \in Jobs /\ q \in Seq(Message) /\ a \in Nat /\ n \in Nat \ {0}
      /\ DOMAIN q = 1 .. Len(q) /\ Len(q) \in Nat
  BY <1>1, <1>2, StateFacts, LenProperties, ProgramFacts
<1>4. ASSUME NEW i \in DOMAIN q
      PROVE  /\ q[i].call \in 1 .. a /\ q[i] = MessageOf(s, q[i].call)
             /\ q[i].call \in DOMAIN Program(job, s) /\ q[i].call \in Nat
  BY <1>1, <1>2, <1>4, StateFacts, ProgramFacts
<1>5. ASSUME NEW i \in DOMAIN q
      PROVE  /\ NumberOf(q, i) \in 1 .. Waiting(s, d, q[i].call)
             /\ NumberOf(q, i) \in 1 .. Due(s, d, q[i].call)
             /\ Waiting(s, d, q[i].call) > 0 /\ Due(s, d, q[i].call) > 0
  <2>1. NumberOf(q, i) \in 1 .. CountIn(q, q[i])
    BY <1>3, Numbered
  <2>2. Waiting(s, d, q[i].call) = CountIn(q, q[i])
    BY <1>2, <1>4 DEF Waiting
  <2>3. /\ Waiting(s, d, q[i].call) \in Nat /\ Due(s, d, q[i].call) \in Nat
        /\ Waiting(s, d, q[i].call) <= Due(s, d, q[i].call)
    <3>1. PICK c : c = q[i].call
      OBVIOUS
    <3>2. /\ Due(s, d, c) \in Nat /\ Waiting(s, d, c) \in Nat /\ Sent(s, d, c) \in Nat
          /\ Sent(s, d, c) <= Due(s, d, c) /\ Taken(s, d, c) \in Nat
          /\ Taken(s, d, c) = Sent(s, d, c) - Waiting(s, d, c)
      BY <1>1, <1>4, <3>1, CountFacts
    <3> QED
      BY <3>1, <3>2
  <2> QED
    BY <2>1, <2>2, <2>3
<1>6. CASE a = 0
  <2>1. DOMAIN q = {}
    BY <1>4, <1>6
  <2>2. Len(q) = 0
    BY <1>3, <2>1
  <2> QED
    BY <1>2, <1>3, <1>6, <2>2, EmptySeq
<1>7. CASE a > 0
  <2>0. a \in DOMAIN Program(job, s)
    BY <1>1, <1>2, <1>7, StateFacts
  <2> DEFINE Data == LingeringData(job, s, d, a)
             Room == IF Program(job, s)[a].tag = BarrierTag THEN n ELSE n - 1
             W == BarriersWaiting(s, d)
             Turns == W \X {1}
  <2>1. IsFiniteSet(Data) /\ Cardinality(Data) \in Nat
    BY <1>3, <2>0, LingeringFinite, FS_CardinalityType
  <2>2. Room \in Nat
    BY <1>3
  <2>3. CASE s = d
    <3>1. \A i \in DOMAIN q : FALSE
      BY <1>4, <1>5, <2>3, MatchedFacts
    <3>2. Len(q) = 0
      <4>1. Len(q) > 0 => 1 \in DOMAIN q
        BY <1>3
      <4> QED
        BY <1>3, <3>1, <4>1
    <3> HIDE DEF Data, Room
    <3>3. Len(q) <= Cardinality(Data) + Room
      BY <2>1, <2>2, <3>2
    <3> QED
      BY <1>2, <1>7, <3>3 DEF QueueBound, Data, Room
  <2>4. CASE s # d
    <3>1. FewBarriersWait
      BY <1>1, AccountsFewBarriers
    <3>2. IsFiniteSet(W) /\ Cardinality(W) <= Room /\ Cardinality(W) \in Nat
      <4>1. /\ IsFiniteSet(W) /\ Cardinality(W) <= n
            /\ ~IsBarrier(s, a) => Cardinality(W) <= n - 1
        BY <1>2, <1>7, <2>4, <3>1 DEF FewBarriersWait
      <4>2. IsBarrier(s, a) => Program(job, s)[a].tag = BarrierTag
        BY DEF IsBarrier
      <4>3. Cardinality(W) \in Nat
        BY <4>1, FS_CardinalityType
      <4> HIDE DEF W
      <4>4. Cardinality(W) <= Room
        BY <2>0, <4>1, <4>2 DEF IsBarrier
      <4> QED
        BY <4>1, <4>3, <4>4
    <3>3. IsFiniteSet(Turns) /\ Cardinality(Turns) = Cardinality(W)
      <4>1. IsFiniteSet({1}) /\ Cardinality({1}) = 1
        BY FS_Singleton
      <4> HIDE DEF W
      <4>2. IsFiniteSet(Turns) /\ Cardinality(Turns) = Cardinality(W) * 1
        BY <3>2, <4>1, FS_Product
      <4> QED
        BY <3>2, <4>2
    <3> DEFINE f == [i \in DOMAIN q |-> <<q[i].call, NumberOf(q, i)>>]
               All == Data \union Turns
    <3>4. ASSUME NEW i \in DOMAIN q
          PROVE  f[i] \in All
      <4>1. CASE IsBarrier(s, q[i].call)
        <5>1. Due(s, d, q[i].call) = 1
          BY <1>3, <1>4, <2>4, <4>1, BarrierFacts
        <5>2. NumberOf(q, i) = 1
          BY <1>5, <5>1
        <5>3. q[i].call \in W
          BY <1>2, <1>4, <1>5, <4>1 DEF BarriersWaiting
        <5> QED
          BY <5>2, <5>3
      <4>2. CASE ~IsBarrier(s, q[i].call)
        <5>1. q[i].call \in Lingering(job, s, d, a)
          BY <1>2, <4>2, WaitingLingers
        <5>2. NumberOf(q, i) \in 1 .. CountIn(Program(job, s)[q[i].call].to, d)
          BY <1>5 DEF Due, CallAt
        <5>3. f[i] \in LingeringData(job, s, d, a)
          BY <5>1, <5>2 DEF LingeringData
        <5> QED
          BY <5>3
      <4> QED
        BY <4>1, <4>2
    <3>5. ASSUME NEW i \in DOMAIN q, NEW j \in DOMAIN q, f[i] = f[j]
          PROVE  i = j
      <4>1. q[i].call = q[j].call /\ NumberOf(q, i) = NumberOf(q, j)
        BY <3>5
      <4>2. q[i] = q[j]
        BY <1>4, <4>1
      <4>3. i \in Nat /\ j \in Nat
        BY <1>3
      <4>4. NumberOf(q, i) \in Int /\ NumberOf(q, j) \in Int
        BY <1>3, Numbered
      <4>5. ~(i < j) /\ ~(j < i)
        BY <1>3, <4>1, <4>2, <4>4, Numbered
      <4> QED
        BY <4>3, <4>5
    <3>6. f \in Injection(DOMAIN q, All)
      <4>1. f \in [DOMAIN q -> All]
        BY <3>4
      <4> HIDE DEF f, All
      <4> QED
        BY <3>5, <4>1 DEF Injection, IsInjective
    <3> HIDE DEF f, Data, Turns, W, Room
    <3>7. IsFiniteSet(All) /\ Cardinality(All) <= Cardinality(Data) + Cardinality(Turns)
      <4>1. /\ IsFiniteSet(Data \union Turns) /\ IsFiniteSet(Data \cap Turns)
            /\ Cardinality(Data \union Turns)
                 = Cardinality(Data) + Cardinality(Turns) - Cardinality(Data \cap Turns)
        BY <2>1, <3>3, FS_Union, FS_Intersection
      <4>2. Cardinality(Data \cap Turns) \in Nat /\ Cardinality(Turns) \in Nat
        BY <3>3, <4>1, FS_CardinalityType
      <4> QED
        BY <2>1, <4>1, <4>2
    <3>8. Cardinality(DOMAIN q) <= Cardinality(All)
      <4> HIDE DEF All
      <4> QED
        BY <3>6, <3>7, FS_Injection
    <3>9. Cardinality(DOMAIN q) = Len(q)
      BY <1>3, UpTo
    <3>10. Cardinality(All) \in Nat
      BY <3>7, FS_CardinalityType
    <3> HIDE DEF All
    <3>11. Len(q) <= Cardinality(Data) + Room
      BY <1>3, <2>1, <2>2, <3>2, <3>3, <3>7, <3>8, <3>9, <3>10
    <3> QED
      BY <1>2, <1>7, <3>11 DEF QueueBound, Data, Room
  <2> QED
    BY <2>3, <2>4
<1> QED
  BY <1>3, <1>6, <1>7

(***************************************************************************)
(* In a matched job no more messages wait between two ranks than the calls *)
(* since the last barrier send, and one barrier's message for each rank:   *)
(* the number of iterations between two barriers bounds the queues, not    *)
(* the length of the run.                                                  *)
(***************************************************************************)
THEOREM QueuesAreBounded ==
  Spec => [](job \in MatchedJobs => QueuesBounded)
  BY InductiveInvariant, IInvQueues, PTL

LEMMA IInvShortQueues ==
  IInv => (job \in MatchedJobs /\ Short(job) => QueuesStayShort)
<1> SUFFICES ASSUME IInv, job \in MatchedJobs, Short(job), NEW s \in Ranks, NEW d \in Ranks
             PROVE  Len(chan[s][d]) <= MaxQueued
  BY DEF QueuesStayShort
<1>1. /\ job \in MatchedJobs
      /\ \A c \in DOMAIN Program(job, s) : QueueBound(job, s, d, c) <= MaxQueued
  BY DEF Short, Ranks
<1>2. QueuesBounded /\ TypeOK /\ job \in Jobs
  BY <1>1, IInvQueues, StateFacts DEF IInv, Accounts
<1>3. at[s] \in Nat /\ MaxQueued \in Nat /\ Len(chan[s][d]) \in Nat
  BY <1>2, StateFacts, LenProperties, QueueAssumption
<1>4. CASE at[s] = 0
  <2>1. Len(chan[s][d]) = 0
    BY <1>2, <1>4 DEF QueuesBounded
  <2> QED
    BY <1>3, <2>1
<1>5. CASE at[s] > 0
  <2>1. PICK a, b : a = at[s] /\ b = QueueBound(job, s, d, at[s])
    OBVIOUS
  <2>2. a \in DOMAIN Program(job, s)
    BY <1>2, <1>5, <2>1, StateFacts
  <2>3. b \in Int
    <3>1. IsFiniteSet(LingeringData(job, s, d, a)) /\ job.size \in Nat
      BY <1>2, <2>2, LingeringFinite, ProgramFacts
    <3>2. Cardinality(LingeringData(job, s, d, a)) \in Nat
      BY <3>1, FS_CardinalityType
    <3> QED
      BY <2>1, <3>1, <3>2 DEF QueueBound
  <2>4. Len(chan[s][d]) <= b /\ b <= MaxQueued
    BY <1>1, <1>2, <1>5, <2>1, <2>2 DEF QueuesBounded
  <2> QED
    BY <1>3, <2>3, <2>4
<1> QED
  BY <1>3, <1>4, <1>5

(***************************************************************************)
(* A job whose programs leave room for it keeps its queues within the      *)
(* length promised: no rank that only sends floods a receiver.             *)
(***************************************************************************)
THEOREM ShortJobsKeepQueuesShort ==
  Spec => [](job \in MatchedJobs /\ Short(job) => QueuesStayShort)
  BY InductiveInvariant, IInvShortQueues, PTL

-----------------------------------------------------------------------------
(* The ranks never all wait for each other. *)

(***************************************************************************)
(* A rank that no other is behind waits for its sends only while the rank  *)
(* they go to, in the same call, has the message to take.                  *)
(***************************************************************************)
LEMMA SendsAreMet ==
  ASSUME IInv, job \in OrderedJobs, NEW s \in Ranks, inside[s], ~SendsFinished(s),
         \A q \in Ranks : at[s] <= at[q]
  PROVE  \E d \in Ranks : CanReceive(d)
<1>0. TypeOK /\ Settled /\ NothingFromNowhere /\ TakesItsOwn /\ Accounts /\ job \in MatchedJobs
  BY OrderedIsMatched DEF IInv, Accounts
<1>1. PICK k : k = at[s]
  OBVIOUS
<1>2. job \in Jobs /\ k \in DOMAIN Program(job, s) /\ k \in Nat /\ k > 0
  BY <1>0, <1>1, StateFacts DEF Settled
<1>3. PICK d \in Ranks : \E i \in DOMAIN chan[s][d] : chan[s][d][i].call = k
  BY <1>1 DEF SendsFinished
<1>4. PICK i \in DOMAIN chan[s][d] : chan[s][d][i].call = k
  BY <1>3
<1>5. ~IsBarrier(s, k)
  <2>1. CallAt(s, k).waits # "never"
    BY <1>1 DEF SendsFinished, CallOf, CallAt
  <2>2. CallAt(s, k).tag = BarrierTag => BarrierShape(CallAt(s, k), s, job.size)
    BY <1>2, ProgramAssumption DEF Ranks, CallAt
  <2> QED
    BY <2>1, <2>2 DEF IsBarrier, BarrierShape, CallAt
<1>6. chan[s][d][i] = MessageOf(s, k) /\ chan[s][d] \in Seq(Message)
  BY <1>0, <1>4, StateFacts
<1>7. Waiting(s, d, k) > 0
  BY <1>4, <1>6, CountPositive DEF Waiting
<1>8. /\ Due(s, d, k) \in Nat /\ Taken(s, d, k) \in Nat
      /\ Taken(s, d, k) < Due(s, d, k)
  <2>1. /\ Due(s, d, k) \in Nat /\ Waiting(s, d, k) \in Nat
        /\ Sent(s, d, k) \in Nat /\ Taken(s, d, k) \in Nat
        /\ Sent(s, d, k) <= Due(s, d, k)
        /\ Taken(s, d, k) = Sent(s, d, k) - Waiting(s, d, k)
    BY <1>0, <1>2, CountFacts
  <2> QED
    BY <1>7, <2>1
<1>9. s # d /\ CallAt(s, k).tag = CallAt(d, k).takes /\ k \in DOMAIN Program(job, d)
  <2>1. s = d => Due(s, d, k) = 0
    BY <1>0, <1>2, MatchedFacts
  <2> QED
    BY <1>0, <1>2, <1>8, <2>1, MatchedFacts
<1>10. at[d] = k /\ inside[d]
  <2>1. ~Passed(d, k)
    <3>1. Passed(d, k) => Taken(s, d, k) = Due(s, d, k)
      BY <1>0, <1>2, <1>5 DEF TakesItsOwn
    <3> QED
      BY <1>8, <3>1
  <2>2. at[d] \in Nat /\ k <= at[d]
    BY <1>0, <1>1, StateFacts
  <2> QED
    BY <1>2, <2>1, <2>2 DEF Passed
<1>11. Len(got[d]) < Len(CallAt(d, k).from)
  <2>1. /\ Len(got[d]) \in Nat /\ Len(CallAt(d, k).from) \in Nat
        /\ Len(got[d]) <= Len(CallAt(d, k).from)
    <3>1. ReceivesOK(d)
      BY <1>0, TypeParts
    <3> QED
      BY <1>0, <1>2, <1>9, <1>10, <3>1, StateFacts, CallFacts DEF ReceivesOK
  <2>2. ASSUME Len(got[d]) = Len(CallAt(d, k).from)
        PROVE  FALSE
    <3>1. PICK tag : tag = CallAt(s, k).tag
      OBVIOUS
    <3>2. \A c \in 1 .. at[d] : Filled(d, c) = Len(CallAt(d, c).from)
      BY <1>10, <2>2 DEF Filled
    <3>3. \A p \in Ranks : \A c \in DOMAIN Program(job, p) :
            CallAt(p, c).tag = tag /\ c > at[d] => Taken(p, d, c) = 0
      <4> SUFFICES ASSUME NEW p \in Ranks, NEW c \in DOMAIN Program(job, p),
                          CallAt(p, c).tag = tag, c > at[d]
                   PROVE  Taken(p, d, c) = 0
        OBVIOUS
      <4>1. ~IsBarrier(p, c)
        BY <1>2, <1>5, <3>1, BarrierFacts
      <4> QED
        BY <1>0, <4>1 DEF TakesItsOwn
    <3>4. Taken(s, d, k) = Due(s, d, k)
      <4>1. k <= at[d]
        BY <1>2, <1>10
      <4> QED
        BY <1>0, <1>2, <3>1, <3>2, <3>3, <4>1, ExactlyTheirs
    <3> QED
      BY <1>8, <3>4
  <2> QED
    BY <2>1, <2>2
<1>12. Posted(d) > 0
  <2>1. Len(got[d]) \in Nat /\ Len(CallAt(d, k).from) \in Nat
    BY <1>0, <1>2, <1>9, StateFacts, CallFacts
  <2>2. Posted(d) = Len(CallAt(d, k).from) - Len(got[d])
    BY <1>10 DEF Posted, CallOf, CallAt
  <2>3. PICK a, b : a = Len(got[d]) /\ b = Len(CallAt(d, k).from)
    OBVIOUS
  <2>4. a \in Nat /\ b \in Nat /\ a < b /\ Posted(d) = b - a
    BY <1>11, <2>1, <2>2, <2>3
  <2> QED
    BY <2>4
<1>13. i \in Candidates(s, d)
  BY <1>6, <1>9, <1>10 DEF Candidates, CallOf, CallAt, MessageOf
<1> QED
  BY <1>12, <1>13 DEF CanReceive

(***************************************************************************)
(* A rank that no other is behind, and that all have sent what they owe it,*)
(* finds a message for each of its receives: were there none, it had taken *)
(* all that its calls expect, and so had nothing left to wait for.         *)
(***************************************************************************)
LEMMA ReceivesAreMet ==
  ASSUME Accounts, job \in MatchedJobs, NEW r \in Ranks, inside[r],
         Len(got[r]) < Len(CallAt(r, at[r]).from),
         \A s \in Ranks : at[r] <= at[s] /\ (at[s] = at[r] => todo[s] = <<>>)
  PROVE  \E s \in Ranks : Candidates(s, r) # {}
<1> SUFFICES ASSUME \A s \in Ranks : Candidates(s, r) = {}
             PROVE  FALSE
  OBVIOUS
<1>0. TypeOK /\ Settled /\ NothingFromNowhere /\ Conserved
  BY DEF Accounts
<1>1. PICK k, tag, n : k = at[r] /\ tag = CallAt(r, k).takes /\ n = Len(CallAt(r, k).from)
  OBVIOUS
<1>2. /\ job \in Jobs /\ k \in DOMAIN Program(job, r) /\ k \in Nat /\ k > 0
      /\ \A c \in 1 .. k : c \in DOMAIN Program(job, r)
      /\ n \in Nat /\ Len(got[r]) \in Nat /\ Len(got[r]) < n
  BY <1>0, <1>1, StateFacts, CallFacts DEF Settled
<1> DEFINE T == TakenMessages(r, tag)
           F == FilledReceives(r, tag)
           R == {m \in (1 .. k) \X Nat :
                   CallAt(r, m[1]).takes = tag /\ m[2] \in 1 .. Len(CallAt(r, m[1]).from)}
           h == [m \in R |-> <<CallAt(r, m[1]).from[m[2]], m[1],
                               NumberOf(CallAt(r, m[1]).from, m[2])>>]
<1>3. ASSUME NEW s \in Ranks, NEW c \in 1 .. k, c \in DOMAIN Program(job, s), CallAt(s, c).tag = tag
      PROVE  Taken(s, r, c) = Due(s, r, c)
  <2>1. at[s] \in Nat /\ c <= at[s]
    BY <1>0, <1>1, <1>2, StateFacts
  <2>2. Ahead(s, r, c) = 0
    <3>1. CASE c = at[s]
      <4>1. todo[s] = <<>>
        BY <1>1, <1>2, <2>1, <3>1
      <4> QED
        BY <4>1, CountEmpty DEF Ahead
    <3>2. CASE c # at[s]
      BY <3>2 DEF Ahead
    <3> QED
      BY <3>1, <3>2
  <2>3. /\ Due(s, r, c) \in Nat /\ Waiting(s, r, c) \in Nat
        /\ Taken(s, r, c) = Sent(s, r, c) - Waiting(s, r, c)
    BY <1>0, <1>3, CountFacts
  <2>4. Sent(s, r, c) = Due(s, r, c)
    BY <1>2, <2>1, <2>2, <2>3 DEF Sent
  <2>5. ~(Waiting(s, r, c) > 0)
    <3>1. ASSUME Waiting(s, r, c) > 0
          PROVE  FALSE
      <4>1. chan[s][r] \in Seq(Message)
        BY <1>0, StateFacts
      <4>2. PICK i \in DOMAIN chan[s][r] : chan[s][r][i] = MessageOf(s, c)
        BY <3>1, <4>1, CountPositive DEF Waiting
      <4>3. i \in Candidates(s, r)
        BY <1>1, <1>3, <4>2 DEF Candidates, MessageOf, CallOf, CallAt
      <4> QED
        BY <4>3
    <3> QED
      BY <3>1
  <2> QED
    BY <2>3, <2>4, <2>5
<1>4. IsFiniteSet(T) /\ IsFiniteSet(F) /\ Cardinality(T) = Cardinality(F)
  BY <1>0, <1>1, <1>2 DEF Conserved, AsManyTakenAsFilled
<1>5. ASSUME NEW m \in R
      PROVE  h[m] \in T
  <2>1. PICK c, p : m = <<c, p>> /\ c = m[1] /\ p = m[2]
    OBVIOUS
  <2>2. /\ c \in 1 .. k /\ p \in 1 .. Len(CallAt(r, c).from) /\ CallAt(r, c).takes = tag
        /\ c \in DOMAIN Program(job, r)
    BY <1>2, <2>1
  <2>3. PICK q, s : q = CallAt(r, c).from /\ s = q[p]
    OBVIOUS
  <2>4. q \in Seq(Ranks) /\ p \in DOMAIN q /\ s \in Ranks
    BY <1>2, <2>2, <2>3, CallFacts, LenProperties, ElementOfSeq
  <2>5. NumberOf(q, p) \in 1 .. CountIn(q, s)
    BY <2>3, <2>4, Numbered
  <2>6. /\ c \in DOMAIN Program(job, s) /\ Due(s, r, c) = CountIn(q, s)
        /\ s = r => Due(s, r, c) = 0
        /\ s # r => CallAt(s, c).tag = CallAt(r, c).takes
    <3>1. c \in DOMAIN Program(job, s)
      BY <2>2, <2>4, MatchedDomains
    <3> QED
      BY <2>3, <2>4, <3>1, MatchedFacts
  <2>7. CallAt(s, c).tag = tag
    BY <2>2, <2>5, <2>6
  <2>8. NumberOf(q, p) \in 1 .. Taken(s, r, c)
    BY <1>3, <2>2, <2>4, <2>5, <2>6, <2>7
  <2>9. c \in 1 .. at[s]
    BY <1>0, <1>1, <1>2, <2>2, <2>4, StateFacts
  <2>10. <<s, c, NumberOf(q, p)>> \in T
    BY <2>4, <2>7, <2>8, <2>9, TakenMembers
  <2> QED
    BY <2>1, <2>3, <2>10
<1>6. ASSUME NEW m \in R, NEW l \in R, h[m] = h[l]
      PROVE  m = l
  <2>1. PICK c, p, q : m = <<c, p>> /\ c = m[1] /\ p = m[2] /\ q = CallAt(r, c).from
    OBVIOUS
  <2>2. PICK e, o, g : l = <<e, o>> /\ e = l[1] /\ o = l[2] /\ g = CallAt(r, e).from
    OBVIOUS
  <2>3. h[m] = <<q[p], c, NumberOf(q, p)>> /\ h[l] = <<g[o], e, NumberOf(g, o)>>
    BY <2>1, <2>2
  <2>4. /\ c \in 1 .. k /\ p \in 1 .. Len(q) /\ o \in 1 .. Len(g)
    BY <2>1, <2>2
  <2> HIDE DEF R, h
  <2>5. c = e /\ q = g /\ q[p] = q[o] /\ NumberOf(q, p) = NumberOf(q, o)
    BY <1>6, <2>1, <2>2, <2>3
  <2>6. q \in Seq(Ranks) /\ p \in DOMAIN q /\ o \in DOMAIN q /\ p \in Nat /\ o \in Nat
    BY <1>2, <2>1, <2>4, <2>5, CallFacts, LenProperties
  <2>7. NumberOf(q, p) \in Nat /\ NumberOf(q, o) \in Nat
    BY <2>6, Numbered
  <2>8. ~(p < o) /\ ~(o < p)
    BY <2>5, <2>6, <2>7, Numbered
  <2> QED
    BY <2>1, <2>2, <2>5, <2>6, <2>8
<1>7. IsFiniteSet(R) /\ Cardinality(R) <= Cardinality(T)
  <2>1. h \in [R -> T]
    BY <1>5
  <2> HIDE DEF h, R, T
  <2>2. h \in Injection(R, T)
    BY <1>6, <2>1 DEF Injection, IsInjective
  <2> QED
    BY <1>4, <2>2, FS_Injection
<1>8. F \in SUBSET R /\ F # R
  <2>1. ASSUME NEW m \in F
        PROVE  m \in R /\ m # <<k, n>>
    <3>1. PICK c \in 1 .. k : \E i \in 1 .. Filled(r, c) : CallAt(r, c).takes = tag /\ m = <<c, i>>
      BY <1>1, FilledMembers
    <3>2. PICK i \in 1 .. Filled(r, c) : CallAt(r, c).takes = tag /\ m = <<c, i>>
      BY <3>1
    <3>3. /\ Len(CallAt(r, c).from) \in Nat
          /\ c = k => Filled(r, c) = Len(got[r])
          /\ c # k => Filled(r, c) = Len(CallAt(r, c).from)
      BY <1>1, <1>2, CallFacts DEF Filled
    <3>4. i \in 1 .. Len(CallAt(r, c).from) /\ (c = k => i # n) /\ i \in Nat
      BY <1>1, <1>2, <3>3
    <3> QED
      BY <3>2, <3>4
  <2>2. <<k, n>> \in R
    BY <1>1, <1>2
  <2> HIDE DEF R, F
  <2> QED
    BY <2>1, <2>2
<1>9. Cardinality(F) \in Nat /\ Cardinality(R) \in Nat
  <2> HIDE DEF R, F, T
  <2> QED
    BY <1>4, <1>7, FS_CardinalityType
<1>10. Cardinality(F) <= Cardinality(R) /\ Cardinality(F) # Cardinality(R)
  <2> HIDE DEF R, F, T
  <2> QED
    BY <1>7, <1>8, FS_Subset
<1> HIDE DEF R, F, T
<1> QED
  BY <1>4, <1>7, <1>9, <1>10

LEMMA IInvNeverStuck ==
  IInv => (job \in MatchedJobs /\ (WaitsForSends(job) => job \in OrderedJobs) => NeverStuck)
<1> SUFFICES ASSUME IInv, job \in MatchedJobs, WaitsForSends(job) => job \in OrderedJobs, ~Done,
                    \A r \in Ranks : ~CanStep(r)
             PROVE  FALSE
  BY DEF NeverStuck
<1>1. TypeOK /\ Settled /\ Accounts /\ job \in Jobs
  BY DEF IInv, Accounts, TypeOK
<1>2. \A q \in Ranks : at[q] \in Nat /\ at[q] <= Len(Program(job, q)) /\ Len(Program(job, q)) \in Nat
  BY <1>1, StateFacts, ProgramFacts
<1>3. \A q \in Ranks : ~inside[q] => at[q] = Len(Program(job, q))
  BY <1>2 DEF CanStep, CanBegin
<1> DEFINE Unfinished == {q \in Ranks : ~Finished(q)}
<1>4. PICK r \in Unfinished : \A q \in Unfinished : at[r] <= at[q]
  <2>1. {at[q] : q \in Unfinished} \subseteq Nat /\ {at[q] : q \in Unfinished} # {}
    BY <1>2 DEF Done
  <2>2. PICK x \in {at[q] : q \in Unfinished} : \A y \in {at[q] : q \in Unfinished} : x <= y
    <3> HIDE DEF Unfinished
    <3> QED
      BY <2>1, LeastOf
  <2> QED
    BY <2>2
<1>5. r \in Ranks /\ inside[r]
  BY <1>3, <1>4 DEF Finished
<1>6. \A q \in Ranks : at[r] <= at[q]
  <2>1. ASSUME NEW q \in Ranks, Finished(q)
        PROVE  at[r] <= at[q]
    <3>1. Len(Program(job, r)) = Len(Program(job, q))
      BY <1>5 DEF MatchedJobs, Matched, Ranks
    <3> QED
      BY <1>2, <1>5, <2>1, <3>1 DEF Finished
  <2> QED
    BY <1>4, <2>1
<1>7. ASSUME NEW s \in Ranks, inside[s], at[s] = at[r]
      PROVE  SendsFinished(s)
  <2>1. ASSUME ~SendsFinished(s)
        PROVE  FALSE
    <3>1. job \in OrderedJobs
      <4>1. job.rndv /\ CallOf(s).waits # "never"
        BY <2>1 DEF SendsFinished
      <4>2. at[s] \in DOMAIN Program(job, s)
        BY <1>1, <1>2, <1>7, StateFacts DEF Settled
      <4>3. WaitsForSends(job)
        BY <4>1, <4>2 DEF WaitsForSends, CallOf, Ranks
      <4> QED
        BY <4>3
    <3>2. \E d \in Ranks : CanReceive(d)
      BY <1>6, <1>7, <2>1, <3>1, SendsAreMet
    <3> QED
      BY <3>2 DEF CanStep
  <2> QED
    BY <2>1
<1>8. ASSUME NEW s \in Ranks, at[s] = at[r]
      PROVE  todo[s] = <<>>
  <2>1. CASE inside[s]
    BY <1>7, <1>8, <2>1 DEF CanStep, CanSend
  <2>2. CASE ~inside[s]
    BY <1>1, <2>2 DEF Settled
  <2> QED
    BY <2>1, <2>2
<1>9. Posted(r) # 0
  BY <1>5, <1>7, <1>8 DEF CanStep, CanReturn
<1>10. Len(got[r]) < Len(CallAt(r, at[r]).from) /\ Posted(r) > 0
  <2>1. at[r] \in DOMAIN Program(job, r) /\ at[r] > 0
    BY <1>1, <1>2, <1>5, StateFacts DEF Settled
  <2>2. /\ Len(got[r]) \in Nat /\ Len(CallAt(r, at[r]).from) \in Nat
        /\ Len(got[r]) <= Len(CallAt(r, at[r]).from)
    <3>1. ReceivesOK(r)
      BY <1>1, <1>5, TypeParts
    <3> QED
      BY <1>1, <1>5, <2>1, <3>1, StateFacts, CallFacts DEF ReceivesOK
  <2>3. Posted(r) = Len(CallAt(r, at[r]).from) - Len(got[r])
    BY <1>5 DEF Posted, CallOf, CallAt
  <2>4. PICK a, b : a = Len(got[r]) /\ b = Len(CallAt(r, at[r]).from)
    OBVIOUS
  <2>5. a \in Nat /\ b \in Nat /\ a <= b /\ Posted(r) = b - a
    BY <2>2, <2>3, <2>4
  <2>6. a < b /\ Posted(r) > 0
    BY <1>9, <2>5
  <2> QED
    BY <2>4, <2>6
<1>11. \E s \in Ranks : Candidates(s, r) # {}
  BY <1>1, <1>5, <1>6, <1>8, <1>10, ReceivesAreMet
<1> QED
  BY <1>5, <1>10, <1>11 DEF CanStep, CanReceive

(***************************************************************************)
(* Until a matched job is done some rank can take its next step: the loops *)
(* that wait for a send or a receive never all wait for each other, though *)
(* receives take whatever comes first.  Where rendezvous sends are waited  *)
(* for this needs the job to be ordered, so that a message in a blocked    *)
(* sender's way is the one its receiver waits for.                         *)
(***************************************************************************)
THEOREM MatchedJobsNeverStuck ==
  Spec => [](job \in MatchedJobs /\ (WaitsForSends(job) => job \in OrderedJobs) => NeverStuck)
  BY InductiveInvariant, IInvNeverStuck, PTL

-----------------------------------------------------------------------------
(* Two ranks. *)

LEMMA TwoRanksOrdered ==
  ASSUME job \in MatchedJobs, job.size = 2
  PROVE  job \in OrderedJobs
<1>1. job \in Jobs /\ Matched(job) /\ Ranks = {0, 1}
  BY DEF MatchedJobs, Ranks
<1>2. ASSUME NEW r \in Ranks, NEW k \in DOMAIN Program(job, r)
      PROVE  OnlyFrom(Program(job, r)[k], 1 - r)
  <2>1. PICK q : q = Program(job, r)[k].from
    OBVIOUS
  <2>2. q \in Seq(Ranks)
    BY <1>1, <2>1, CallFacts DEF CallAt
  <2>3. CountIn(q, r) = 0
    BY <1>1, <2>1 DEF Matched, Ranks
  <2>4. ASSUME NEW i \in DOMAIN q
        PROVE  q[i] = 1 - r
    <3>1. q[i] # r
      BY <2>2, <2>3, CountPositive
    <3>2. q[i] \in {0, 1} /\ r \in {0, 1}
      BY <1>1, <2>2, ElementOfSeq
    <3> QED
      BY <3>1, <3>2
  <2> QED
    BY <2>1, <2>4 DEF OnlyFrom
<1>3. \A r \in Ranks : 1 - r \in Ranks
  BY <1>1
<1>4. Ordered(job)
  BY <1>2, <1>3 DEF Ordered, Ranks
<1> QED
  BY <1>4 DEF OrderedJobs

(***************************************************************************)
(* What two ranks send each other never gets mixed up, in any program whose*)
(* calls match: with one sender the oldest message is the one of the oldest*)
(* call, barriers or not.                                                  *)
(***************************************************************************)
THEOREM TwoRanksTakeTheirOwn ==
  Spec => [](job \in MatchedJobs /\ job.size = 2 => OneMessageOfEachPeer)
<1>1. job \in MatchedJobs /\ job.size = 2 => job \in OrderedJobs
  BY TwoRanksOrdered
<1> QED
  BY <1>1, OrderedCallsTakeTheirOwn, PTL

-----------------------------------------------------------------------------
(* A matched job has all the messages it waits for. *)

LEMMA MatchedFed ==
  job \in MatchedJobs => job \in FedJobs
<1> SUFFICES ASSUME job \in MatchedJobs
             PROVE  job \in FedJobs
  OBVIOUS
<1>1. job \in Jobs
  BY DEF MatchedJobs
<1> SUFFICES ASSUME NEW r \in Ranks, NEW tag
             PROVE  Cardinality(ReceivesOf(job, r, tag)) <= Cardinality(MessagesTo(job, r, tag))
  BY <1>1 DEF FedJobs, Fed, Ranks
<1> DEFINE T == MessagesTo(job, r, tag)
           R == ReceivesOf(job, r, tag)
           h == [m \in R |-> <<CallAt(r, m[1]).from[m[2]], m[1],
                               NumberOf(CallAt(r, m[1]).from, m[2])>>]
<1>2. ASSUME NEW m \in R
      PROVE  \E k \in DOMAIN Program(job, r) :
               /\ CallAt(r, k).takes = tag
               /\ \E i \in 1 .. Len(CallAt(r, k).from) : m = <<k, i>>
  BY DEF ReceivesOf, CallAt
<1>3. ASSUME NEW m \in R
      PROVE  h[m] \in T
  <2>1. PICK k \in DOMAIN Program(job, r) :
               /\ CallAt(r, k).takes = tag
               /\ \E i \in 1 .. Len(CallAt(r, k).from) : m = <<k, i>>
    BY <1>2
  <2>2. PICK i \in 1 .. Len(CallAt(r, k).from) : m = <<k, i>>
    BY <2>1
  <2>3. PICK q, s : q = CallAt(r, k).from /\ s = q[i]
    OBVIOUS
  <2>4. q \in Seq(Ranks) /\ i \in DOMAIN q /\ s \in Ranks
    BY <1>1, <2>2, <2>3, CallFacts, LenProperties, ElementOfSeq
  <2>5. NumberOf(q, i) \in 1 .. CountIn(q, s)
    BY <2>3, <2>4, Numbered
  <2>6. /\ k \in DOMAIN Program(job, s) /\ Due(s, r, k) = CountIn(q, s)
        /\ s = r => Due(s, r, k) = 0
        /\ s # r => CallAt(s, k).tag = CallAt(r, k).takes
    <3>1. k \in DOMAIN Program(job, s)
      BY <2>1, <2>4, MatchedDomains
    <3> QED
      BY <2>3, <2>4, <3>1, MatchedFacts
  <2>7. CallAt(s, k).tag = tag
    BY <2>1, <2>5, <2>6
  <2>8. NumberOf(q, i) \in 1 .. CountIn(Program(job, s)[k].to, r)
    BY <2>5, <2>6 DEF Due, CallAt
  <2>9. <<s, k, NumberOf(q, i)>> \in MessagesFrom(job, s, r, tag)
    BY <2>6, <2>7, <2>8 DEF MessagesFrom, CallAt
  <2>10. <<s, k, NumberOf(q, i)>> \in T
    BY <2>4, <2>9 DEF MessagesTo, Ranks
  <2> QED
    BY <2>2, <2>3, <2>10
<1>4. ASSUME NEW m \in R, NEW l \in R, h[m] = h[l]
      PROVE  m = l
  <2>1. PICK k \in DOMAIN Program(job, r) : \E i \in 1 .. Len(CallAt(r, k).from) : m = <<k, i>>
    BY <1>2
  <2>2. PICK i \in 1 .. Len(CallAt(r, k).from) : m = <<k, i>>
    BY <2>1
  <2>3. PICK e \in DOMAIN Program(job, r) : \E o \in 1 .. Len(CallAt(r, e).from) : l = <<e, o>>
    BY <1>2
  <2>4. PICK o \in 1 .. Len(CallAt(r, e).from) : l = <<e, o>>
    BY <2>3
  <2>5. PICK q, g : q = CallAt(r, k).from /\ g = CallAt(r, e).from
    OBVIOUS
  <2>6. h[m] = <<q[i], k, NumberOf(q, i)>> /\ h[l] = <<g[o], e, NumberOf(g, o)>>
    BY <2>2, <2>4, <2>5
  <2> HIDE DEF R, h
  <2>7. k = e /\ q = g /\ q[i] = q[o] /\ NumberOf(q, i) = NumberOf(q, o)
    <3>1. <<q[i], k, NumberOf(q, i)>> = <<g[o], e, NumberOf(g, o)>>
      BY <1>4, <2>6
    <3>2. q[i] = g[o] /\ k = e /\ NumberOf(q, i) = NumberOf(g, o)
      BY <3>1
    <3>3. q = g
      BY <2>5, <3>2
    <3> QED
      BY <3>2, <3>3
  <2>8. q \in Seq(Ranks) /\ i \in DOMAIN q /\ o \in DOMAIN q /\ i \in Nat /\ o \in Nat
    BY <1>1, <2>2, <2>4, <2>5, <2>7, CallFacts, LenProperties
  <2>9. NumberOf(q, i) \in Nat /\ NumberOf(q, o) \in Nat
    BY <2>8, Numbered
  <2>10. ~(i < o) /\ ~(o < i)
    BY <2>7, <2>8, <2>9, Numbered
  <2> QED
    BY <2>2, <2>4, <2>7, <2>8, <2>10
<1>5. h \in [R -> T]
  BY <1>3
<1>6. IsFiniteSet(T)
  BY <1>1, FiniteMessages
<1> HIDE DEF h, R, T
<1>7. h \in Injection(R, T)
  BY <1>4, <1>5 DEF Injection, IsInjective
<1>8. Cardinality(R) <= Cardinality(T)
  BY <1>6, <1>7, FS_Injection
<1> QED
  BY <1>8 DEF R, T

(***************************************************************************)
(* A matched job is fed: no receive of it waits for a message that nobody  *)
(* sends.                                                                  *)
(***************************************************************************)
THEOREM MatchedJobsAreFed ==
  Spec => [](job \in MatchedJobs => job \in FedJobs)
  BY MatchedFed, PTL
=============================================================================
