--------------------------- MODULE OneSidedProofs ---------------------------
(***************************************************************************)
(* Theorems about the one-sided benchmarks, for every set of benchmarks,   *)
(* number of iterations, window and range of message sizes.  All of them   *)
(* rest on one invariant: what is in flight is a part of the accesses of   *)
(* the current iteration, whose size is one of those asked for.            *)
(***************************************************************************)
EXTENDS OneSided, TLAPS

-----------------------------------------------------------------------------
(* Arithmetic. *)

(* A product grows with each of its factors. *)
LEMMA TimesMonotone ==
  ASSUME NEW a \in Nat, NEW b \in Nat, NEW c \in Nat, a <= b
  PROVE  a * c <= b * c
<1>1. PICK d \in Nat : b = a + d
  <2>1. b - a \in Nat /\ b = a + (b - a)
    OBVIOUS
  <2> QED
    BY <2>1
<1>2. b * c = a * c + d * c
  BY <1>1
<1>3. d * c \in Nat /\ a * c \in Nat
  OBVIOUS
<1> QED
  BY <1>2, <1>3

(* message_sizes grows a size it has to grow, and does not wrap. *)
LEMMA GrowGrows ==
  ASSUME NEW max \in MaxSizes, NEW s \in Nat, s <= max
  PROVE  Grow(s) \in Nat /\ Grow(s) > s
<1> USE SizesAssumption
<1>1. CASE s = 0
  BY <1>1 DEF Grow
<1>2. CASE s # 0 /\ s <= LargeMessageSize
  <2>1. s * MessageSizeIncr <= LargeMessageSize * MessageSizeIncr
    BY <1>2, TimesMonotone
  <2>2. 2 * s <= MessageSizeIncr * s
    BY TimesMonotone
  <2>3. MessageSizeIncr * s = s * MessageSizeIncr /\ s * MessageSizeIncr \in Nat
    OBVIOUS
  <2>4. LargeMessageSize * MessageSizeIncr \in Nat
    OBVIOUS
  <2> DEFINE p == s * MessageSizeIncr
             q == LargeMessageSize * MessageSizeIncr
  <2>5. p \in Nat /\ q \in Nat /\ p <= q /\ q < UsizeValues /\ 2 * s <= p
    BY <2>1, <2>2, <2>3, <2>4
  <2>6. Grow(s) = p % UsizeValues
    BY <1>2 DEF Grow
  <2> HIDE DEF p, q
  <2>7. p % UsizeValues = p
    BY <2>5
  <2> QED
    BY <1>2, <2>5, <2>6, <2>7
<1>3. CASE s # 0 /\ ~(s <= LargeMessageSize)
  <2>1. s + MessageSizeIncr < UsizeValues
    <3>1. max \in Nat /\ max + MessageSizeIncr < UsizeValues
      OBVIOUS
    <3> QED
      BY <3>1
  <2>2. Grow(s) = (s + MessageSizeIncr) % UsizeValues
    BY <1>3 DEF Grow
  <2> QED
    BY <2>1, <2>2
<1> QED
  BY <1>1, <1>2, <1>3

-----------------------------------------------------------------------------
(* The invariant. *)

(* Accesses of an iteration are counted and laid out in natural numbers. *)
LEMMA AccessTypes ==
  ASSUME TypeOK, NEW r \in Ranks
  PROVE  /\ Accesses(r) \in Nat
         /\ \A i \in Nat \ {0} : Access(r, i) \in Flights
<1> USE OneSidedAssumption
<1>1. size[r] \in Nat /\ WindowSize \in Nat /\ round[r] \in 0 .. Iterations - 1
  BY DEF TypeOK
<1>2. Accesses(r) \in Nat
  BY <1>1 DEF Accesses, AmoBytes
<1>3. ASSUME NEW i \in Nat \ {0} PROVE Access(r, i) \in Flights
  <2>1. (i - 1) * size[r] \in Nat
    <3>1. i - 1 \in Nat
      OBVIOUS
    <3> QED
      BY <3>1, <1>1
  <2> QED
    BY <2>1, <1>1 DEF Access, Flights, AmoBytes
<1> QED
  BY <1>2, <1>3

(* Before the first step nothing is in flight. *)
LEMMA InitInv == Init => IInv
<1> SUFFICES ASSUME Init PROVE IInv
  OBVIOUS
<1>1. args.min \in Nat
  BY SizesAssumption DEF Init, Runs
<1>2. 0 \in 0 .. Iterations - 1
  BY OneSidedAssumption
<1>3. TypeOK
  BY <1>1, <1>2 DEF Init, TypeOK
<1> QED
  BY <1>3 DEF Init, IInv

(* What BeginSize, Close and Free do to the invariant: they only move pc. *)
LEMMA MoveInv ==
  ASSUME IInv, NEW r \in Ranks,
         NEW there \in {"size", "before", "leaving", "closed", "gone"},
         pc[r] \notin {"before", "ops"},
         there = "before" => size[r] <= args.max,
         Goto(r, there), UNCHANGED <<args, size, round, issued, flight>>
  PROVE  IInv'
BY DEF IInv, TypeOK, Goto, Accesses, Access, IsOrigin, Windowed, Atomic

LEMMA StepInv == IInv /\ [Next]_vars => IInv'
<1> SUFFICES ASSUME IInv, [Next]_vars PROVE IInv'
  OBVIOUS
<1> USE OneSidedAssumption
<1>1. ASSUME NEW r \in Ranks, BeginSize(r) PROVE IInv'
  <2>1. CASE size[r] <= args.max
    BY <1>1, <2>1, MoveInv DEF BeginSize
  <2>2. CASE ~(size[r] <= args.max)
    BY <1>1, <2>2, MoveInv DEF BeginSize
  <2> QED
    BY <2>1, <2>2
<1>2. ASSUME NEW r \in Ranks, FlushBefore(r) PROVE IInv'
  <2>1. Accesses(r) \in Nat
    BY AccessTypes DEF IInv
  <2>2. \A q \in Ranks : Accesses(q)' = Accesses(q)
    BY <1>2 DEF FlushBefore, Accesses, IsOrigin, Windowed, Atomic
  <2> QED
    BY <1>2, <2>1, <2>2 DEF FlushBefore, IInv, TypeOK, Goto, Access, Windowed, Atomic
<1>3. ASSUME NEW r \in Ranks, Issue(r) PROVE IInv'
  <2>1. \A q \in Ranks : Accesses(q)' = Accesses(q)
    BY <1>3 DEF Issue, Accesses, IsOrigin, Windowed, Atomic
  <2>2. /\ issued' \in [Ranks -> Nat]
        /\ issued[r] <= issued'[r] /\ issued'[r] <= Accesses(r)
        /\ \A q \in Ranks \ {r} : issued'[q] = issued[q]
    <3>1. Accesses(r) \in Nat
      BY AccessTypes DEF IInv
    <3>2. issued \in [Ranks -> Nat]
      BY DEF IInv, TypeOK
    <3> QED
      BY <1>3, <3>1, <3>2 DEF Issue
  <2> DEFINE new == {Access(r, i) : i \in issued[r] + 1 .. issued'[r]}
  <2>3. flight' = [flight EXCEPT ![r] = @ \cup new]
    BY <1>3 DEF Issue
  <2>4. \A q \in Ranks, i \in Nat : Access(q, i)' = Access(q, i)
    BY <1>3 DEF Issue, Access, Windowed, Atomic
  <2>5. issued \in [Ranks -> Nat] /\ flight \in [Ranks -> SUBSET Flights]
    BY DEF IInv, TypeOK
  <2>6. new \subseteq Flights
    <3>1. \A i \in issued[r] + 1 .. issued'[r] : i \in Nat \ {0}
      BY <2>2, <2>5
    <3> QED
      BY <3>1, AccessTypes DEF IInv
  <2>7. \A q \in Ranks : flight'[q] \subseteq {Access(q, i)' : i \in 1 .. issued'[q]}
    <3>1. ASSUME NEW q \in Ranks, q # r
          PROVE  flight'[q] \subseteq {Access(q, i)' : i \in 1 .. issued'[q]}
      <4>1. flight'[q] = flight[q] /\ issued'[q] = issued[q]
        BY <2>2, <2>3, <2>5, <3>1
      <4>2. flight[q] \subseteq {Access(q, i) : i \in 1 .. issued[q]}
        BY DEF IInv
      <4> QED
        BY <4>1, <4>2, <2>4, <2>5
    <3>2. flight'[r] \subseteq {Access(r, i)' : i \in 1 .. issued'[r]}
      <4>1. flight'[r] = flight[r] \cup new
        BY <2>3, <2>5
      <4>2. ASSUME NEW a \in flight'[r]
            PROVE  \E i \in 1 .. issued'[r] : a = Access(r, i)
        <5>1. CASE a \in flight[r]
          <6>1. PICK i \in 1 .. issued[r] : a = Access(r, i)
            BY <5>1 DEF IInv
          <6> QED
            BY <6>1, <2>2, <2>5
        <5>2. CASE a \in new
          <6>1. PICK i \in issued[r] + 1 .. issued'[r] : a = Access(r, i)
            BY <5>2
          <6> QED
            BY <6>1, <2>2, <2>5
        <5> QED
          BY <4>1, <4>2, <5>1, <5>2
      <4>3. \A i \in 1 .. issued'[r] : Access(r, i)' = Access(r, i)
        BY <2>4, <2>2
      <4> QED
        BY <4>2, <4>3
    <3> QED
      BY <3>1, <3>2
  <2>8. TypeOK'
    BY <1>3, <2>2, <2>3, <2>5, <2>6 DEF IInv, TypeOK, Issue
  <2>9. \A q \in Ranks : q # r => flight'[q] = flight[q]
    BY <2>3, <2>5
  <2>10. UNCHANGED <<args, pc, size>> /\ pc[r] = "ops"
    BY <1>3 DEF Issue
  <2> HIDE DEF new
  <2> QED
    BY <2>1, <2>2, <2>7, <2>8, <2>9, <2>10 DEF IInv
<1>4. ASSUME NEW r \in Ranks, FlushAfter(r) PROVE IInv'
  <2>1. flight[r] = {} /\ pc[r] = "ops" /\ UNCHANGED <<args, issued, flight>>
    BY <1>4 DEF FlushAfter, EndRound
  <2>2. size[r] <= args.max /\ args.max \in MaxSizes /\ size[r] \in Nat
    BY <2>1 DEF IInv, TypeOK, Runs
  <2>3. Grow(size[r]) \in Nat
    BY <2>2, GrowGrows
  <2>4. TypeOK'
    BY <1>4, <2>3 DEF IInv, TypeOK, FlushAfter, EndRound, Goto
  <2>5. /\ pc'[r] \in {"before", "size"}
        /\ pc'[r] = "before" => size'[r] = size[r]
    BY <1>4 DEF IInv, TypeOK, FlushAfter, EndRound, Goto
  <2>6. \A q \in Ranks \ {r} :
          /\ pc'[q] = pc[q] /\ size'[q] = size[q] /\ round'[q] = round[q]
    BY <1>4 DEF IInv, TypeOK, FlushAfter, EndRound, Goto
  <2>7. \A q \in Ranks \ {r} : Accesses(q)' = Accesses(q)
    BY <2>1, <2>6 DEF Accesses, IsOrigin, Windowed, Atomic
  <2>8. \A q \in Ranks \ {r} : \A i \in Nat : Access(q, i)' = Access(q, i)
    BY <2>1, <2>6 DEF Access, Windowed, Atomic
  <2>9. \A q \in Ranks : flight'[q] \subseteq {Access(q, i)' : i \in 1 .. issued'[q]}
    BY <2>1, <2>8 DEF IInv, TypeOK
  <2> QED
    BY <2>1, <2>2, <2>4, <2>5, <2>6, <2>7, <2>9 DEF IInv
<1>5. ASSUME NEW r \in Ranks, Land(r) PROVE IInv'
  BY <1>5 DEF Land, IInv, TypeOK, Accesses, Access, IsOrigin, Windowed, Atomic
<1>6. ASSUME NEW r \in Ranks, Close(r) PROVE IInv'
  BY <1>6, MoveInv DEF Close
<1>7. ASSUME NEW r \in Ranks, Free(r) PROVE IInv'
  BY <1>7, MoveInv DEF Free
<1>8. CASE UNCHANGED vars
  BY <1>8 DEF vars, IInv, TypeOK, Accesses, Access, IsOrigin, Windowed, Atomic
<1> QED
  BY <1>1, <1>2, <1>3, <1>4, <1>5, <1>6, <1>7, <1>8 DEF Next, AllFinished, Step

-----------------------------------------------------------------------------
(* The theorems. *)

(* The invariant holds whatever the benchmark, its window and its sizes. *)
THEOREM InductiveInvariant == Spec => []IInv
<1>1. Init => IInv
  BY InitInv
<1>2. IInv /\ [Next]_vars => IInv'
  BY StepInv
<1> QED
  BY <1>1, <1>2, PTL DEF Spec

(* Type correctness. *)
THEOREM TypeCorrect == Spec => []TypeOK
<1>1. IInv => TypeOK
  BY DEF IInv
<1> QED
  BY <1>1, InductiveInvariant, PTL

(* The flush before the end of an iteration keeps its buffers alive. *)
THEOREM BuffersOutlive == Spec => []OriginBuffersOutliveAccesses
<1>1. IInv => OriginBuffersOutliveAccesses
  <2> SUFFICES ASSUME IInv, NEW r \in Ranks, NEW a \in flight[r]
               PROVE  pc[r] = "ops" /\ a.round = round[r] /\ a.len \in {size[r], AmoBytes}
    BY DEF OriginBuffersOutliveAccesses
  <2>1. pc[r] = "ops"
    BY DEF IInv
  <2>2. PICK i \in 1 .. issued[r] : a = Access(r, i)
    BY DEF IInv
  <2> QED
    BY <2>1, <2>2 DEF Access
<1> QED
  BY <1>1, InductiveInvariant, PTL

(* The last access of a window ends where the registered memory does. *)
THEOREM StaysInside == Spec => []AccessesStayInside
<1>1. IInv => AccessesStayInside
  <2> SUFFICES ASSUME IInv, NEW r \in Ranks, NEW a \in flight[r],
                      ~(Atomic /\ args.max < AmoBytes)
               PROVE  a.addr + a.len <= Registered
    BY DEF AccessesStayInside
  <2>1. PICK i \in 1 .. issued[r] : a = Access(r, i)
    BY DEF IInv
  <2>2. /\ pc[r] = "ops" /\ size[r] <= args.max /\ issued[r] <= Accesses(r)
        /\ size[r] \in Nat /\ issued[r] \in Nat /\ args.max \in Nat
    BY SizesAssumption DEF IInv, TypeOK, Runs
  <2>3. CASE Windowed
    <3>1. i <= WindowSize /\ i - 1 \in Nat /\ WindowSize \in Nat
      BY <2>2, <2>3, OneSidedAssumption DEF Accesses
    <3>2. a.addr + a.len = i * size[r]
      <4>1. a.addr = (i - 1) * size[r] /\ a.len = size[r]
        BY <2>1, <2>3 DEF Access, Windowed, Atomic
      <4>2. (i - 1) * size[r] + size[r] = i * size[r]
        BY <2>2, <3>1
      <4> QED
        BY <4>1, <4>2
    <3>3. i * size[r] <= WindowSize * size[r]
      BY <2>2, <3>1, TimesMonotone
    <3>4. size[r] * WindowSize <= args.max * WindowSize
      BY <2>2, <3>1, TimesMonotone
    <3>5. WindowSize * size[r] = size[r] * WindowSize
      BY <2>2, <3>1
    <3>6. i * size[r] \in Nat /\ size[r] * WindowSize \in Nat /\ args.max * WindowSize \in Nat
      BY <2>2, <3>1
    <3> QED
      BY <2>3, <3>2, <3>3, <3>4, <3>5, <3>6 DEF Registered
  <2>4. CASE ~Windowed
    <3>1. a.addr = 0 /\ a.len = IF Atomic THEN AmoBytes ELSE size[r]
      BY <2>1, <2>4 DEF Access
    <3> QED
      BY <2>2, <2>4, <3>1 DEF Registered, AmoBytes
  <2> QED
    BY <2>3, <2>4
<1> QED
  BY <1>1, InductiveInvariant, PTL

(* Puts and gets that are under way together touch different bytes. *)
THEOREM NoOverlap == Spec => []AccessesDoNotOverlap
<1>1. IInv => AccessesDoNotOverlap
  <2> SUFFICES ASSUME IInv, ~Atomic, NEW r \in Ranks,
                      NEW a \in flight[r], NEW b \in flight[r], a # b
               PROVE  a.addr + a.len <= b.addr \/ b.addr + b.len <= a.addr
    BY DEF AccessesDoNotOverlap
  <2>1. PICK i \in 1 .. issued[r] : a = Access(r, i)
    BY DEF IInv
  <2>2. PICK j \in 1 .. issued[r] : b = Access(r, j)
    BY DEF IInv
  <2>3. /\ issued[r] <= Accesses(r) /\ size[r] \in Nat /\ issued[r] \in Nat
        /\ i # j
    BY <2>1, <2>2 DEF IInv, TypeOK
  <2>4. Windowed
    BY <2>1, <2>2, <2>3 DEF Accesses
  <2>5. a.addr = (i - 1) * size[r] /\ a.len = size[r]
    BY <2>1, <2>4 DEF Access
  <2>6. b.addr = (j - 1) * size[r] /\ b.len = size[r]
    BY <2>2, <2>4 DEF Access
  <2>7. ASSUME NEW k \in 1 .. issued[r], NEW l \in 1 .. issued[r], k < l
        PROVE  (k - 1) * size[r] + size[r] <= (l - 1) * size[r]
    <3>1. k \in Nat /\ l - 1 \in Nat /\ k <= l - 1
      BY <2>3, <2>7
    <3>2. k * size[r] <= (l - 1) * size[r]
      BY <2>3, <3>1, TimesMonotone
    <3>3. (k - 1) * size[r] + size[r] = k * size[r]
      BY <2>3, <3>1
    <3> QED
      BY <3>2, <3>3
  <2>8. i < j \/ j < i
    BY <2>3
  <2> QED
    BY <2>5, <2>6, <2>7, <2>8
<1> QED
  BY <1>1, InductiveInvariant, PTL

(* Every new size is larger: a benchmark runs through finitely many. *)
THEOREM GrowingSizes == Spec => SizesGrow
<1>1. IInv /\ [Next]_vars => [\A r \in Ranks : size'[r] # size[r] => size'[r] > size[r]]_vars
  <2> SUFFICES ASSUME IInv, Next, NEW r \in Ranks, size'[r] # size[r]
               PROVE  size'[r] > size[r]
    OBVIOUS
  <2>1. PICK q \in Ranks : FlushAfter(q)
    BY DEF Next, AllFinished, vars, Step, BeginSize, FlushBefore, Issue, Land, Close, Free
  <2>2. pc[q] = "ops" /\ size' = [size EXCEPT ![q] = Grow(@)]
    BY <2>1 DEF FlushAfter, EndRound
  <2>3. size[q] <= args.max /\ args.max \in MaxSizes /\ size \in [Ranks -> Nat]
    BY <2>2 DEF IInv, TypeOK, Runs
  <2>4. q = r /\ size'[r] = Grow(size[r])
    BY <2>2, <2>3
  <2> QED
    BY <2>3, <2>4, GrowGrows
<1> QED
  BY <1>1, InductiveInvariant, PTL DEF Spec, SizesGrow
=============================================================================
