----------------------------- MODULE JobProofs -----------------------------
(***************************************************************************)
(* Theorems about Job, for every set of jobs and every program that        *)
(* ProgramAssumption allows: types, the balance of messages taken and      *)
(* receives filled, that barriers separate, and that no job finishes for   *)
(* which messages are missing.  Nothing here asks the calls of the ranks to*)
(* match.                                                                  *)
(***************************************************************************)
EXTENDS JobLemmas

(* A step is a stutter or one action of one rank. *)
LEMMA NextCases ==
  ASSUME [Next]_vars
  PROVE  \/ UNCHANGED vars
         \/ \E r \in Ranks : Begin(r) \/ SendAwaited(r) \/ Receive(r) \/ Return(r)
  BY DEF Next, Step, AllFinished

-----------------------------------------------------------------------------
(* Types, and what is settled outside a call. *)

LEMMA InitTypeOK ==
  Init => TypeOK /\ Settled
<1> SUFFICES ASSUME Init
             PROVE  TypeOK /\ Settled
  OBVIOUS
<1>1. job \in Jobs /\ \A r \in Ranks : Len(Program(job, r)) \in Nat
  BY ProgramFacts DEF Init
<1>2. \A T : <<>> \in Seq(T)
  OBVIOUS
<1>3. at = [r \in Ranks |-> 0] /\ inside = [r \in Ranks |-> FALSE] /\ todo = [r \in Ranks |-> <<>>]
      /\ chan = [s \in Ranks |-> [d \in Ranks |-> <<>>]] /\ got = [r \in Ranks |-> <<>>]
  BY DEF Init
<1>4. at \in [Ranks -> Nat] /\ inside \in [Ranks -> BOOLEAN] /\ todo \in [Ranks -> Seq(Ranks)]
  BY <1>2, <1>3
<1>5. chan \in [Ranks -> [Ranks -> Seq(Message)]] /\ got \in [Ranks -> Seq(Arrival)]
  BY <1>2, <1>3
<1>6. \A s, d \in Ranks : DOMAIN chan[s][d] = {}
  BY <1>3
<1>7. \A r \in Ranks : at[r] = 0 /\ Len(got[r]) = 0 /\ ~inside[r] /\ todo[r] = <<>>
  BY <1>3
<1>8. TypeOK
  BY <1>1, <1>4, <1>5, <1>6, <1>7 DEF TypeOK, Message, Arrival
<1>9. Settled
  BY <1>7 DEF Settled
<1> QED
  BY <1>8, <1>9

MessagesOK(s, d) ==
  \A i \in DOMAIN chan[s][d] :
    /\ chan[s][d][i].call \in 1 .. at[s]
    /\ chan[s][d][i] = MessageOf(s, chan[s][d][i].call)

ReceivesOK(r) ==
  Len(got[r]) <= (IF at[r] = 0 THEN 0 ELSE Len(CallAt(r, at[r]).from))

LEMMA TypeParts ==
  TypeOK <=> /\ job \in Jobs /\ at \in [Ranks -> Nat] /\ inside \in [Ranks -> BOOLEAN]
             /\ todo \in [Ranks -> Seq(Ranks)]
             /\ chan \in [Ranks -> [Ranks -> Seq(Message)]]
             /\ got \in [Ranks -> Seq(Arrival)]
             /\ \A r \in Ranks : at[r] <= Len(Program(job, r))
             /\ \A s, d \in Ranks : MessagesOK(s, d)
             /\ \A r \in Ranks : ReceivesOK(r)
  BY DEF TypeOK, MessagesOK, ReceivesOK, Message, Arrival, CallOf, CallAt

(* The messages in a channel stay typed when some of a call that has begun are added. *)
LEMMA MessagesStep ==
  ASSUME TypeOK, job' = job, at' \in [Ranks -> Nat],
         \A s \in Ranks : at[s] <= at'[s],
         NEW r \in Ranks, NEW to \in Seq(Ranks),
         NEW k \in DOMAIN Program(job, r), k <= at'[r], chan' = SendTo(r, to, k)
  PROVE  chan' \in [Ranks -> [Ranks -> Seq(Message)]] /\ \A s, d \in Ranks : MessagesOK(s, d)'
<1>0. job \in Jobs /\ at \in [Ranks -> Nat]
  BY DEF TypeOK
<1>1. job \in Jobs /\ at \in [Ranks -> Nat] /\ k \in Nat /\ k > 0
  BY <1>0, ProgramFacts
<1>2. MessageOf(r, k).call = k
  BY <1>1, CallFacts
<1>3. ASSUME NEW s \in Ranks, NEW d \in Ranks
      PROVE  MessagesOK(s, d)'
  <2>1. \A i \in DOMAIN chan[s][d] :
          /\ chan[s][d][i].call \in 1 .. at'[s]
          /\ chan[s][d][i] = MessageOf(s, chan[s][d][i].call)
    BY <1>1, StateFacts
  <2>2. ASSUME NEW i \in DOMAIN chan'[s][d]
        PROVE  /\ chan'[s][d][i].call \in 1 .. at'[s]
               /\ chan'[s][d][i] = MessageOf(s, chan'[s][d][i].call)
    <3>1. CASE s # r
      <4>1. chan'[s][d] = chan[s][d]
        BY <3>1, SendToEffect
      <4> QED
        BY <2>1, <4>1
    <3>2. CASE s = r
      <4>1. /\ chan[r][d] \in Seq(Message) /\ chan'[r][d] \in Seq(Message)
            /\ IF i <= Len(chan[r][d]) THEN chan'[r][d][i] = chan[r][d][i]
                                       ELSE chan'[r][d][i] = MessageOf(r, k)
        BY <3>2, StateFacts, SendToEffect
      <4>2. CASE i <= Len(chan[r][d])
        <5>1. i \in DOMAIN chan[r][d]
          BY <3>2, <4>1, <4>2, LenProperties
        <5> QED
          BY <2>1, <3>2, <4>1, <4>2, <5>1
      <4>3. CASE ~(i <= Len(chan[r][d]))
        BY <1>1, <1>2, <3>2, <4>1, <4>3
      <4> QED
        BY <4>2, <4>3
    <3> QED
      BY <3>1, <3>2
  <2> QED
    BY <2>2, SameProgram DEF MessagesOK
<1> QED
  BY <1>3, SendToEffect

(* No action puts a message or a count where its type does not allow it. *)
LEMMA TypeStep ==
  ASSUME TypeOK, Settled, [Next]_vars
  PROVE  TypeOK'
<1>1. /\ job \in Jobs /\ at \in [Ranks -> Nat] /\ inside \in [Ranks -> BOOLEAN]
      /\ todo \in [Ranks -> Seq(Ranks)]
      /\ chan \in [Ranks -> [Ranks -> Seq(Message)]]
      /\ got \in [Ranks -> Seq(Arrival)]
      /\ \A r \in Ranks : at[r] <= Len(Program(job, r))
      /\ \A s, d \in Ranks : MessagesOK(s, d)
      /\ \A r \in Ranks : ReceivesOK(r)
  BY TypeParts
<1>2. ASSUME /\ job' = job /\ at' \in [Ranks -> Nat] /\ inside' \in [Ranks -> BOOLEAN]
             /\ todo' \in [Ranks -> Seq(Ranks)]
             /\ chan' \in [Ranks -> [Ranks -> Seq(Message)]]
             /\ got' \in [Ranks -> Seq(Arrival)]
             /\ \A r \in Ranks : at'[r] <= Len(Program(job, r))
             /\ \A s, d \in Ranks : MessagesOK(s, d)'
             /\ \A r \in Ranks : ReceivesOK(r)'
      PROVE  TypeOK'
  <2>1. Ranks' = Ranks /\ \A r : Program(job', r) = Program(job, r)
    BY <1>2, SameProgram
  <2>2. /\ job' \in Jobs /\ at' \in [Ranks' -> Nat] /\ inside' \in [Ranks' -> BOOLEAN]
        /\ todo' \in [Ranks' -> Seq(Ranks')]
        /\ chan' \in [Ranks' -> [Ranks' -> Seq(Message)]]
        /\ got' \in [Ranks' -> Seq(Arrival')]
        /\ \A r \in Ranks' : at'[r] <= Len(Program(job', r))
        /\ \A s, d \in Ranks' : MessagesOK(s, d)'
        /\ \A r \in Ranks' : ReceivesOK(r)'
    BY <1>1, <1>2, <2>1 DEF Arrival
  <2>3. (/\ job \in Jobs /\ at \in [Ranks -> Nat] /\ inside \in [Ranks -> BOOLEAN]
         /\ todo \in [Ranks -> Seq(Ranks)]
         /\ chan \in [Ranks -> [Ranks -> Seq(Message)]]
         /\ got \in [Ranks -> Seq(Arrival)]
         /\ \A r \in Ranks : at[r] <= Len(Program(job, r))
         /\ \A s, d \in Ranks : MessagesOK(s, d)
         /\ \A r \in Ranks : ReceivesOK(r))'
    BY <2>2 DEF Message
  <2> QED
    BY <2>3, TypeParts, PTL
<1>3. CASE UNCHANGED vars
  <2>1. \A s, d \in Ranks : MessagesOK(s, d)'
    BY <1>1, <1>3, SameProgram DEF vars, MessagesOK
  <2>2. \A r \in Ranks : ReceivesOK(r)'
    BY <1>1, <1>3, SameProgram DEF vars, ReceivesOK
  <2> QED
    BY <1>1, <1>2, <1>3, <2>1, <2>2 DEF vars
<1>4. ASSUME NEW r \in Ranks, Begin(r)
      PROVE  TypeOK'
  <2>0. PICK k : k = at[r] + 1
    OBVIOUS
  <2>1. /\ k \in DOMAIN Program(job, r) /\ job' = job
        /\ at' = [at EXCEPT ![r] = k] /\ inside' = [inside EXCEPT ![r] = TRUE]
        /\ got' = [got EXCEPT ![r] = <<>>]
        /\ \/ todo' = [todo EXCEPT ![r] = CallAt(r, k).to] /\ chan' = chan
           \/ todo' = todo /\ chan' = SendTo(r, CallAt(r, k).to, k)
    BY <1>4, <2>0, BeginEffect
  <2>2. /\ k \in Nat /\ k > 0 /\ k <= Len(Program(job, r))
        /\ CallAt(r, k).to \in Seq(Ranks) /\ Len(CallAt(r, k).from) \in Nat
    BY <1>1, <2>0, <2>1, ProgramFacts, CallFacts
  <2>3. /\ at' \in [Ranks -> Nat] /\ inside' \in [Ranks -> BOOLEAN]
        /\ \A s \in Ranks : at'[s] <= Len(Program(job, s)) /\ at[s] <= at'[s]
    BY <1>1, <2>0, <2>1, <2>2
  <2>4. got' \in [Ranks -> Seq(Arrival)] /\ todo' \in [Ranks -> Seq(Ranks)]
    <3>1. <<>> \in Seq(Arrival)
      OBVIOUS
    <3> QED
      BY <1>1, <2>1, <2>2, <3>1
  <2>5. \A s \in Ranks : ReceivesOK(s)'
    <3>1. ASSUME NEW s \in Ranks, s # r
          PROVE  ReceivesOK(s)'
      BY <1>1, <2>1, <3>1, SameProgram DEF ReceivesOK
    <3>2. ReceivesOK(r)'
      <4>1. at'[r] = k /\ got'[r] = <<>>
        BY <1>1, <2>1
      <4>2. Len(got'[r]) = 0 /\ k # 0
        BY <2>2, <4>1
      <4>3. CallAt(r, k)' = CallAt(r, k)
        BY <2>1, SameProgram
      <4>4. Len(got'[r]) <= (IF at'[r] = 0 THEN 0 ELSE Len(CallAt(r, k)'.from))
        BY <2>2, <4>1, <4>2, <4>3
      <4> QED
        BY <4>1, <4>4 DEF ReceivesOK, CallAt
    <3> QED
      BY <3>1, <3>2
  <2>6. chan' \in [Ranks -> [Ranks -> Seq(Message)]] /\ \A s, d \in Ranks : MessagesOK(s, d)'
    <3>1. CASE chan' = chan
      <4>1. ASSUME NEW s \in Ranks, NEW d \in Ranks, NEW i \in DOMAIN chan[s][d]
            PROVE  /\ chan[s][d][i].call \in 1 .. at'[s]
                   /\ chan[s][d][i] = MessageOf(s, chan[s][d][i].call)
        <5>1. /\ chan[s][d][i].call \in 1 .. at[s]
              /\ chan[s][d][i] = MessageOf(s, chan[s][d][i].call)
          BY StateFacts
        <5>2. at[s] \in Nat /\ at'[s] \in Nat /\ at[s] <= at'[s]
          BY <1>1, <2>3
        <5> QED
          BY <5>1, <5>2
      <4> QED
        BY <1>1, <2>1, <3>1, <4>1, SameProgram DEF MessagesOK
    <3>2. CASE chan' = SendTo(r, CallAt(r, k).to, k)
      <4>1. k <= at'[r]
        BY <1>1, <2>1, <2>2
      <4> QED
        BY <2>1, <2>2, <2>3, <3>2, <4>1, MessagesStep
    <3> QED
      BY <2>1, <3>1, <3>2
  <2> QED
    BY <1>2, <2>1, <2>3, <2>4, <2>5, <2>6
<1>5. ASSUME NEW r \in Ranks, SendAwaited(r)
      PROVE  TypeOK'
  <2>0. PICK k, to : k = at[r] /\ to = <<Head(todo[r])>>
    OBVIOUS
  <2>1. /\ todo[r] # <<>> /\ k \in DOMAIN Program(job, r) /\ job' = job /\ at' = at
        /\ inside' = inside /\ got' = got
        /\ todo' = [todo EXCEPT ![r] = Tail(todo[r])] /\ chan' = SendTo(r, to, k)
    BY <1>5, <2>0, SendEffect
  <2>2. Head(todo[r]) \in Ranks /\ Tail(todo[r]) \in Seq(Ranks) /\ to \in Seq(Ranks)
    BY <1>1, <2>0, <2>1, HeadTailProperties
  <2>3. todo' \in [Ranks -> Seq(Ranks)]
    BY <1>1, <2>1, <2>2
  <2>4. \A s \in Ranks : ReceivesOK(s)'
    BY <1>1, <2>1, SameProgram DEF ReceivesOK
  <2>5. chan' \in [Ranks -> [Ranks -> Seq(Message)]] /\ \A s, d \in Ranks : MessagesOK(s, d)'
    <3>1. at'[r] = k /\ \A s \in Ranks : at'[s] = at[s] /\ at[s] \in Nat
      BY <1>1, <2>0, <2>1
    <3>2. k <= at'[r] /\ \A s \in Ranks : at[s] <= at'[s]
      BY <3>1
    <3> QED
      BY <1>1, <2>1, <2>2, <3>2, MessagesStep
  <2> QED
    BY <1>1, <1>2, <2>1, <2>3, <2>4, <2>5
<1>6. ASSUME NEW r \in Ranks, Receive(r)
      PROVE  TypeOK'
  <2>1. /\ at[r] > 0 /\ Len(got[r]) < Len(CallAt(r, at[r]).from)
        /\ at[r] \in DOMAIN Program(job, r)
        /\ job' = job /\ at' = at /\ inside' = inside /\ todo' = todo
    BY <1>6, ReceiveEffect
  <2>2. PICK s \in Ranks, i \in Nat, c \in Nat :
          /\ i \in DOMAIN chan[s][r] /\ c \in 1 .. at[s]
          /\ c \in DOMAIN Program(job, s)
          /\ chan[s][r][i] = MessageOf(s, c)
          /\ CallAt(s, c).tag = CallAt(r, at[r]).takes
          /\ \A j \in DOMAIN chan[s][r] :
               chan[s][r][j].tag = CallAt(r, at[r]).takes => i <= j
          /\ got' = [got EXCEPT ![r] = Append(got[r], [src |-> s, call |-> c])]
          /\ chan' = [chan EXCEPT ![s][r] = Without(chan[s][r], i)]
    BY <1>6, ReceiveEffect
  <2>3. /\ Append(got[r], [src |-> s, call |-> c]) \in Seq(Arrival)
        /\ Len(Append(got[r], [src |-> s, call |-> c])) = Len(got[r]) + 1
    <3>1. [src |-> s, call |-> c] \in Arrival /\ got[r] \in Seq(Arrival)
      BY <1>1, <2>2 DEF Arrival
    <3> QED
      BY <3>1, AppendProperties
  <2>4. got' \in [Ranks -> Seq(Arrival)]
    BY <1>1, <2>2, <2>3
  <2>5. \A p \in Ranks : ReceivesOK(p)'
    <3>1. ASSUME NEW p \in Ranks, p # r
          PROVE  ReceivesOK(p)'
      BY <1>1, <2>1, <2>2, <3>1, SameProgram DEF ReceivesOK
    <3>2. ReceivesOK(r)'
      <4>1. Len(got'[r]) = Len(got[r]) + 1
        BY <1>1, <2>2, <2>3
      <4>2. Len(got[r]) \in Nat /\ Len(CallAt(r, at[r]).from) \in Nat
        BY <1>1, <2>1, StateFacts, CallFacts
      <4>3. Len(got'[r]) <= Len(CallAt(r, at[r]).from)
        BY <2>1, <4>1, <4>2
      <4> QED
        BY <2>1, <4>3, SameProgram DEF ReceivesOK
    <3> QED
      BY <3>1, <3>2
  <2>6. /\ Without(chan[s][r], i) \in Seq(Message)
        /\ \A j \in DOMAIN Without(chan[s][r], i) :
             \E l \in DOMAIN chan[s][r] : Without(chan[s][r], i)[j] = chan[s][r][l]
    <3>1. chan[s][r] \in Seq(Message)
      BY <1>1
    <3>2. /\ Without(chan[s][r], i) \in Seq(Message)
          /\ Len(Without(chan[s][r], i)) = Len(chan[s][r]) - 1
          /\ \A j \in 1 .. Len(chan[s][r]) - 1 :
               Without(chan[s][r], i)[j] = IF j < i THEN chan[s][r][j] ELSE chan[s][r][j + 1]
      BY <2>2, <3>1, CountWithout
    <3>3. /\ DOMAIN Without(chan[s][r], i) = 1 .. Len(chan[s][r]) - 1
          /\ DOMAIN chan[s][r] = 1 .. Len(chan[s][r]) /\ Len(chan[s][r]) \in Nat
      BY <3>1, <3>2, LenProperties
    <3>4. \A j \in 1 .. Len(chan[s][r]) - 1 : j \in 1 .. Len(chan[s][r]) /\ j + 1 \in 1 .. Len(chan[s][r])
      BY <3>3
    <3> QED
      BY <3>2, <3>3, <3>4
  <2>7. chan' \in [Ranks -> [Ranks -> Seq(Message)]]
    BY <1>1, <2>2, <2>6
  <2>8. \A p, d \in Ranks : MessagesOK(p, d)'
    <3>1. ASSUME NEW p \in Ranks, NEW d \in Ranks, p # s \/ d # r
          PROVE  MessagesOK(p, d)'
      <4>1. chan'[p][d] = chan[p][d]
        BY <1>1, <2>2, <3>1
      <4> QED
        BY <1>1, <2>1, <4>1, SameProgram DEF MessagesOK
    <3>2. MessagesOK(s, r)'
      <4>1. chan'[s][r] = Without(chan[s][r], i)
        BY <1>1, <2>2
      <4>2. \A j \in DOMAIN chan'[s][r] :
              /\ chan'[s][r][j].call \in 1 .. at[s]
              /\ chan'[s][r][j] = MessageOf(s, chan'[s][r][j].call)
        BY <1>1, <2>6, <4>1 DEF MessagesOK
      <4> QED
        BY <2>1, <4>2, SameProgram DEF MessagesOK
    <3> QED
      BY <3>1, <3>2
  <2> QED
    BY <1>1, <1>2, <2>1, <2>4, <2>5, <2>7, <2>8
<1>7. ASSUME NEW r \in Ranks, Return(r)
      PROVE  TypeOK'
  <2>1. /\ job' = job /\ at' = at /\ todo' = todo /\ chan' = chan /\ got' = got
        /\ inside' = [inside EXCEPT ![r] = FALSE]
    BY <1>7, ReturnEffect
  <2>2. inside' \in [Ranks -> BOOLEAN]
    BY <1>1, <2>1
  <2>3. \A s, d \in Ranks : MessagesOK(s, d)'
    <3>1. ASSUME NEW s \in Ranks, NEW d \in Ranks
          PROVE  MessagesOK(s, d)'
      <4>1. MessagesOK(s, d) /\ \A k : MessageOf(s, k)' = MessageOf(s, k)
        BY <1>1, <2>1, SameProgram
      <4> QED
        BY <2>1, <4>1 DEF MessagesOK
    <3> QED
      BY <3>1
  <2>4. \A s \in Ranks : ReceivesOK(s)'
    BY <1>1, <2>1, SameProgram DEF ReceivesOK
  <2> QED
    BY <1>1, <1>2, <2>1, <2>2, <2>3, <2>4
<1> QED
  BY <1>3, <1>4, <1>5, <1>6, <1>7, NextCases

-----------------------------------------------------------------------------
(* Outside a call nothing is left to send or to receive. *)

LEMMA SettledStep ==
  ASSUME TypeOK, Settled, [Next]_vars
  PROVE  Settled'
<1>1. /\ at \in [Ranks -> Nat] /\ inside \in [Ranks -> BOOLEAN]
      /\ todo \in [Ranks -> Seq(Ranks)] /\ got \in [Ranks -> Seq(Arrival)]
  BY TypeParts
<1>2. \A r \in Ranks :
        /\ at[r] = 0 => ~inside[r]
        /\ ~inside[r] => todo[r] = <<>>
        /\ ~inside[r] /\ at[r] > 0 => Len(got[r]) = Len(CallAt(r, at[r]).from)
  BY DEF Settled, CallOf, CallAt
<1>3. ASSUME job' = job,
             \A r \in Ranks : \E a \in Nat :
               /\ at'[r] = a
               /\ a = 0 => ~inside'[r]
               /\ ~inside'[r] => todo'[r] = <<>>
               /\ ~inside'[r] /\ a > 0 => Len(got'[r]) = Len(CallAt(r, a).from)
      PROVE  Settled'
  <2>1. Ranks' = Ranks /\ \A r, k : CallAt(r, k)' = CallAt(r, k)
    BY <1>3, SameProgram
  <2>2. ASSUME NEW r \in Ranks
        PROVE  /\ at'[r] = 0 => ~inside'[r]
               /\ ~inside'[r] => todo'[r] = <<>>
               /\ ~inside'[r] /\ at'[r] > 0 => Len(got'[r]) = Len(CallOf(r)'.from)
    <3>1. PICK a \in Nat : /\ at'[r] = a
                           /\ a = 0 => ~inside'[r]
                           /\ ~inside'[r] => todo'[r] = <<>>
                           /\ ~inside'[r] /\ a > 0 => Len(got'[r]) = Len(CallAt(r, a).from)
      BY <1>3
    <3>2. CallOf(r)' = CallAt(r, a)
      BY <1>3, <3>1 DEF CallOf, CallAt
    <3> QED
      BY <3>1, <3>2
  <2> QED
    BY <2>1, <2>2 DEF Settled
<1>4. CASE UNCHANGED vars
  BY <1>1, <1>2, <1>3, <1>4 DEF vars
<1>5. ASSUME NEW r \in Ranks, Begin(r)
      PROVE  Settled'
  <2>0. PICK k : k = at[r] + 1
    OBVIOUS
  <2>1. /\ job' = job /\ at' = [at EXCEPT ![r] = k] /\ inside' = [inside EXCEPT ![r] = TRUE]
        /\ got' = [got EXCEPT ![r] = <<>>]
        /\ \/ todo' = [todo EXCEPT ![r] = CallAt(r, k).to]
           \/ todo' = todo
    BY <1>5, <2>0, BeginEffect
  <2>2. at'[r] = k /\ inside'[r] /\ k \in Nat /\ k # 0
    BY <1>1, <2>0, <2>1
  <2>3. \A s \in Ranks : s # r =>
          at'[s] = at[s] /\ inside'[s] = inside[s] /\ got'[s] = got[s] /\ todo'[s] = todo[s]
    BY <1>1, <2>1
  <2>4. ASSUME NEW s \in Ranks
        PROVE  \E a \in Nat :
                 /\ at'[s] = a
                 /\ a = 0 => ~inside'[s]
                 /\ ~inside'[s] => todo'[s] = <<>>
                 /\ ~inside'[s] /\ a > 0 => Len(got'[s]) = Len(CallAt(s, a).from)
    <3>1. CASE s = r
      BY <2>2, <3>1
    <3>2. CASE s # r
      <4>1. at[s] \in Nat /\ at'[s] = at[s] /\ inside'[s] = inside[s]
            /\ got'[s] = got[s] /\ todo'[s] = todo[s]
        BY <1>1, <2>3, <3>2
      <4> QED
        BY <1>2, <4>1
    <3> QED
      BY <3>1, <3>2
  <2> QED
    BY <1>3, <2>1, <2>4
<1>6. ASSUME NEW r \in Ranks, SendAwaited(r)
      PROVE  Settled'
  <2>1. /\ job' = job /\ at' = at /\ inside' = inside /\ got' = got /\ inside[r]
        /\ todo' = [todo EXCEPT ![r] = Tail(todo[r])]
    BY <1>6, SendEffect
  <2>2. \A s \in Ranks : s # r => todo'[s] = todo[s]
    BY <1>1, <2>1
  <2> QED
    BY <1>1, <1>2, <1>3, <2>1, <2>2
<1>7. ASSUME NEW r \in Ranks, Receive(r)
      PROVE  Settled'
  <2>1. job' = job /\ at' = at /\ inside' = inside /\ todo' = todo /\ inside[r]
    BY <1>7, ReceiveEffect
  <2>2. \A s \in Ranks : s # r => got'[s] = got[s]
    <3>1. \E y : got' = [got EXCEPT ![r] = y]
      BY <1>7, ReceiveEffect
    <3> QED
      BY <1>1, <3>1
  <2> QED
    BY <1>1, <1>2, <1>3, <2>1, <2>2
<1>8. ASSUME NEW r \in Ranks, Return(r)
      PROVE  Settled'
  <2>1. /\ todo[r] = <<>> /\ Len(got[r]) = Len(CallAt(r, at[r]).from) /\ at[r] > 0
        /\ job' = job /\ at' = at /\ todo' = todo /\ got' = got
        /\ inside' = [inside EXCEPT ![r] = FALSE]
    BY <1>8, ReturnEffect
  <2>2. \A s \in Ranks : s # r => inside'[s] = inside[s]
    BY <1>1, <2>1
  <2>3. \A s \in Ranks :
          /\ at[s] = 0 => ~inside'[s]
          /\ ~inside'[s] => todo'[s] = <<>>
          /\ ~inside'[s] /\ at[s] > 0 => Len(got'[s]) = Len(CallAt(s, at[s]).from)
    <3>1. at[r] # 0
      BY <1>1, <2>1
    <3> QED
      BY <1>2, <2>1, <2>2, <3>1
  <2>4. \A s \in Ranks : at[s] \in Nat /\ at'[s] = at[s]
    BY <1>1, <2>1
  <2> QED
    BY <1>3, <2>1, <2>3, <2>4
<1> QED
  BY <1>4, <1>5, <1>6, <1>7, <1>8, NextCases

-----------------------------------------------------------------------------
(* What is taken stays taken, and was sent. *)

LEMMA CountTypes ==
  TypeOK => \A s, d \in Ranks : \A c \in 1 .. at[s] :
              Sent(s, d, c) \in Int /\ Waiting(s, d, c) \in Int
<1> SUFFICES ASSUME TypeOK, NEW s \in Ranks, NEW d \in Ranks, NEW c \in 1 .. at[s]
             PROVE  Sent(s, d, c) \in Int /\ Waiting(s, d, c) \in Int
  OBVIOUS
<1>1. Due(s, d, c) \in Nat
  BY StateFacts, CallFacts
<1>2. CountIn(todo[s], d) \in Nat /\ Waiting(s, d, c) \in Nat
  BY StateFacts, CountType DEF Waiting
<1> QED
  BY <1>1, <1>2 DEF Sent, Ahead

LEMMA TakenStep ==
  ASSUME TypeOK, Settled, NothingFromNowhere, [Next]_vars
  PROVE  \A s, d \in Ranks : \A c \in DOMAIN Program(job, s) :
           Taken(s, d, c)' = Taken(s, d, c) \/ Taken(s, d, c)' = Taken(s, d, c) + 1
<1>1. CASE UNCHANGED vars
  BY <1>1, SameCounts DEF vars
<1>2. ASSUME NEW r \in Ranks, Receive(r)
      PROVE  \A s, d \in Ranks : \A c \in DOMAIN Program(job, s) :
               Taken(s, d, c)' = Taken(s, d, c) \/ Taken(s, d, c)' = Taken(s, d, c) + 1
  <2>1. job' = job /\ at' = at /\ todo' = todo
    BY <1>2, ReceiveEffect
  <2>2. PICK p \in Ranks, i \in Nat, k \in Nat :
          /\ i \in DOMAIN chan[p][r] /\ k \in 1 .. at[p]
          /\ k \in DOMAIN Program(job, p)
          /\ chan[p][r][i] = MessageOf(p, k)
          /\ CallAt(p, k).tag = CallAt(r, at[r]).takes
          /\ \A j \in DOMAIN chan[p][r] :
               chan[p][r][j].tag = CallAt(r, at[r]).takes => i <= j
          /\ got' = [got EXCEPT ![r] = Append(got[r], [src |-> p, call |-> k])]
          /\ chan' = [chan EXCEPT ![p][r] = Without(chan[p][r], i)]
    BY <1>2, ReceiveEffect
  <2>3. /\ Taken(p, r, k)' = Taken(p, r, k) + 1
        /\ \A s, d \in Ranks : \A c \in DOMAIN Program(job, s) :
             s # p \/ d # r \/ c # k => Taken(s, d, c)' = Taken(s, d, c)
    <3>1. /\ k \in DOMAIN Program(job, p) /\ i \in DOMAIN chan[p][r]
          /\ chan[p][r][i] = MessageOf(p, k)
          /\ chan' = [chan EXCEPT ![p][r] = Without(chan[p][r], i)]
      BY <2>2
    <3>2. Taken(p, r, k)' = Taken(p, r, k) + 1
      BY <2>1, <3>1, ReceiveCounts
    <3>3. \A s, d \in Ranks : \A c \in DOMAIN Program(job, s) :
            s # p \/ d # r \/ c # k => Taken(s, d, c)' = Taken(s, d, c)
      BY <2>1, <3>1, ReceiveKeeps
    <3> QED
      BY <3>2, <3>3
  <2> QED
    BY <2>3
<1>3. ASSUME NEW r \in Ranks, Return(r)
      PROVE  job' = job /\ at' = at /\ todo' = todo /\ chan' = chan
  BY <1>3, ReturnEffect
<1> QED
  BY <1>1, <1>2, <1>3, NextCases, BeginCounts, SendCounts, SameCounts

LEMMA NothingFromNowhereStep ==
  ASSUME TypeOK, Settled, NothingFromNowhere, [Next]_vars, TypeOK', job' = job
  PROVE  NothingFromNowhere'
<1>1. Ranks' = Ranks /\ \A r \in Ranks : (DOMAIN Program(job, r))' = DOMAIN Program(job, r)
  BY SameProgram
<1>2. \A s, d \in Ranks : \A c \in 1 .. at'[s] :
        Sent(s, d, c)' \in Int /\ Waiting(s, d, c)' \in Int
  <2>1. (\A s, d \in Ranks : \A c \in 1 .. at[s] :
           Sent(s, d, c) \in Int /\ Waiting(s, d, c) \in Int)'
    BY CountTypes, PTL
  <2> QED
    BY <1>1, <2>1
<1>3. \A s \in Ranks : \A c \in 1 .. at'[s] : c \in DOMAIN Program(job, s)
  <2>1. /\ job \in Jobs
        /\ \A s \in Ranks : at'[s] \in Nat /\ at'[s] <= Len(Program(job, s))
    BY <1>1 DEF TypeOK
  <2> QED
    BY <2>1, ProgramFacts
<1>4. ASSUME NEW s \in Ranks, NEW d \in Ranks, NEW c \in 1 .. at'[s]
      PROVE  Waiting(s, d, c)' <= Sent(s, d, c)'
  <2>1. Taken(s, d, c) \in Nat
    BY <1>3, CountFacts
  <2>2. Taken(s, d, c)' \in Nat
    BY <1>3, <2>1, TakenStep
  <2>3. Taken(s, d, c)' = Sent(s, d, c)' - Waiting(s, d, c)'
    BY DEF Taken
  <2> QED
    BY <1>2, <2>2, <2>3
<1> QED
  BY <1>1, <1>4 DEF NothingFromNowhere

-----------------------------------------------------------------------------
(* The messages of one sender stay in the order of their calls. *)

LEMMA InOrderStep ==
  ASSUME TypeOK, Settled, InOrder, [Next]_vars
  PROVE  InOrder'
<1>1. /\ job \in Jobs /\ at \in [Ranks -> Nat]
      /\ chan \in [Ranks -> [Ranks -> Seq(Message)]]
  BY TypeParts
<1>2. ASSUME job' = job,
             \A s, d \in Ranks : \A i, j \in DOMAIN chan'[s][d] :
               i < j => chan'[s][d][i].call <= chan'[s][d][j].call
      PROVE  InOrder'
  BY <1>2, SameProgram DEF InOrder
<1>3. ASSUME NEW r \in Ranks, NEW to \in Seq(Ranks), NEW k \in DOMAIN Program(job, r),
             at[r] <= k, job' = job, chan' = SendTo(r, to, k)
      PROVE  InOrder'
  <2>1. ASSUME NEW s \in Ranks, NEW d \in Ranks,
               NEW i \in DOMAIN chan'[s][d], NEW j \in DOMAIN chan'[s][d], i < j
        PROVE  chan'[s][d][i].call <= chan'[s][d][j].call
    <3>1. CASE s # r
      <4>1. chan'[s][d] = chan[s][d]
        BY <1>3, <3>1, SendToEffect
      <4> QED
        BY <2>1, <4>1 DEF InOrder
    <3>2. CASE s = r
      <4>1. /\ \A l \in DOMAIN chan'[r][d] :
                 IF l <= Len(chan[r][d]) THEN chan'[r][d][l] = chan[r][d][l]
                                         ELSE chan'[r][d][l] = MessageOf(r, k)
            /\ chan'[r][d] \in Seq(Message) /\ chan[r][d] \in Seq(Message)
        BY <1>1, <1>3, SendToEffect
      <4>2. MessageOf(r, k).call = k /\ k \in Nat
        <5>1. MessageOf(r, k).call = k
          BY DEF MessageOf
        <5>2. k \in Nat
          BY <1>1, ProgramFacts
        <5> QED
          BY <5>1, <5>2
      <4>3. /\ DOMAIN chan'[r][d] = 1 .. Len(chan'[r][d]) /\ Len(chan'[r][d]) \in Nat
            /\ DOMAIN chan[r][d] = 1 .. Len(chan[r][d]) /\ Len(chan[r][d]) \in Nat
        BY <4>1, LenProperties
      <4>4. i \in Nat /\ j \in Nat /\ i > 0 /\ j > 0
        BY <3>2, <4>3
      <4>5. \A l \in DOMAIN chan[r][d] : chan[r][d][l].call \in Nat /\ chan[r][d][l].call <= k
        <5>1. \A l \in DOMAIN chan[r][d] : chan[r][d][l].call \in 1 .. at[r]
          BY StateFacts
        <5>2. at[r] \in Nat
          BY <1>1
        <5> QED
          BY <1>3, <4>2, <5>1, <5>2
      <4>6. CASE j <= Len(chan[r][d])
        <5>1. i \in DOMAIN chan[r][d] /\ j \in DOMAIN chan[r][d] /\ i <= Len(chan[r][d])
          BY <2>1, <4>3, <4>4, <4>6
        <5>2. chan'[r][d][i] = chan[r][d][i] /\ chan'[r][d][j] = chan[r][d][j]
          BY <3>2, <4>1, <4>6, <5>1
        <5> QED
          BY <2>1, <3>2, <5>1, <5>2 DEF InOrder
      <4>7. CASE ~(j <= Len(chan[r][d]))
        <5>1. chan'[r][d][j].call = k
          BY <3>2, <4>1, <4>2, <4>7
        <5>2. CASE i <= Len(chan[r][d])
          <6>1. i \in DOMAIN chan[r][d] /\ chan'[r][d][i] = chan[r][d][i]
            BY <3>2, <4>1, <4>3, <4>4, <5>2
          <6> QED
            BY <3>2, <4>5, <5>1, <6>1
        <5>3. CASE ~(i <= Len(chan[r][d]))
          <6>1. chan'[r][d][i].call = k
            BY <3>2, <4>1, <4>2, <5>3
          <6> QED
            BY <3>2, <4>2, <5>1, <6>1
        <5> QED
          BY <5>2, <5>3
      <4> QED
        BY <4>6, <4>7
    <3> QED
      BY <3>1, <3>2
  <2> QED
    BY <1>2, <1>3, <2>1
<1>4. ASSUME job' = job, chan' = chan
      PROVE  InOrder'
  BY <1>2, <1>4 DEF InOrder
<1>5. ASSUME NEW r \in Ranks, Begin(r)
      PROVE  InOrder'
  <2>0. PICK k : k = at[r] + 1
    OBVIOUS
  <2>1. /\ k \in DOMAIN Program(job, r) /\ job' = job
        /\ chan' = chan \/ chan' = SendTo(r, CallAt(r, k).to, k)
    BY <1>5, <2>0, BeginEffect
  <2>2. CallAt(r, k).to \in Seq(Ranks) /\ at[r] <= k
    BY <1>1, <2>0, <2>1, CallFacts
  <2> QED
    BY <1>3, <1>4, <2>1, <2>2
<1>6. ASSUME NEW r \in Ranks, SendAwaited(r)
      PROVE  InOrder'
  <2>1. /\ at[r] \in DOMAIN Program(job, r) /\ job' = job /\ todo[r] # <<>>
        /\ chan' = SendTo(r, <<Head(todo[r])>>, at[r])
    BY <1>6, SendEffect
  <2>2. <<Head(todo[r])>> \in Seq(Ranks) /\ at[r] <= at[r]
    <3>1. todo[r] \in Seq(Ranks) /\ at[r] \in Nat
      BY StateFacts
    <3>2. Head(todo[r]) \in Ranks
      BY <2>1, <3>1, HeadTailProperties
    <3> QED
      BY <3>1, <3>2
  <2> QED
    BY <1>3, <2>1, <2>2
<1>7. ASSUME NEW r \in Ranks, Receive(r)
      PROVE  InOrder'
  <2>1. job' = job
    BY <1>7, ReceiveEffect
  <2>2. PICK s \in Ranks, i \in Nat, c \in Nat :
          /\ i \in DOMAIN chan[s][r] /\ c \in 1 .. at[s]
          /\ c \in DOMAIN Program(job, s)
          /\ chan[s][r][i] = MessageOf(s, c)
          /\ CallAt(s, c).tag = CallAt(r, at[r]).takes
          /\ \A j \in DOMAIN chan[s][r] :
               chan[s][r][j].tag = CallAt(r, at[r]).takes => i <= j
          /\ got' = [got EXCEPT ![r] = Append(got[r], [src |-> s, call |-> c])]
          /\ chan' = [chan EXCEPT ![s][r] = Without(chan[s][r], i)]
    BY <1>7, ReceiveEffect
  <2>3. /\ chan'[s][r] = Without(chan[s][r], i) /\ chan[s][r] \in Seq(Message)
        /\ \A p, d \in Ranks : p # s \/ d # r => chan'[p][d] = chan[p][d]
    BY <1>1, <2>2
  <2>4. /\ Without(chan[s][r], i) \in Seq(Message)
        /\ Len(Without(chan[s][r], i)) = Len(chan[s][r]) - 1
        /\ \A j \in 1 .. Len(chan[s][r]) - 1 :
             Without(chan[s][r], i)[j] = IF j < i THEN chan[s][r][j] ELSE chan[s][r][j + 1]
    BY <2>2, <2>3, CountWithout
  <2>5. /\ DOMAIN chan'[s][r] = 1 .. Len(chan[s][r]) - 1
        /\ DOMAIN chan[s][r] = 1 .. Len(chan[s][r]) /\ Len(chan[s][r]) \in Nat
    BY <2>3, <2>4, LenProperties
  <2>6. ASSUME NEW a \in DOMAIN chan'[s][r], NEW b \in DOMAIN chan'[s][r], a < b
        PROVE  chan'[s][r][a].call <= chan'[s][r][b].call
    <3>1. PICK x \in {a, a + 1} : x = (IF a < i THEN a ELSE a + 1)
      OBVIOUS
    <3>2. PICK y \in {b, b + 1} : y = (IF b < i THEN b ELSE b + 1)
      OBVIOUS
    <3>3. x \in DOMAIN chan[s][r] /\ y \in DOMAIN chan[s][r] /\ x < y
      BY <2>2, <2>5, <2>6, <3>1, <3>2
    <3>4. chan'[s][r][a] = chan[s][r][x] /\ chan'[s][r][b] = chan[s][r][y]
      BY <2>3, <2>4, <2>5, <3>1, <3>2
    <3> QED
      BY <3>3, <3>4 DEF InOrder
  <2>7. \A p, d \in Ranks : \A a, b \in DOMAIN chan'[p][d] :
          a < b => chan'[p][d][a].call <= chan'[p][d][b].call
    <3>1. ASSUME NEW p \in Ranks, NEW d \in Ranks, p # s \/ d # r
          PROVE  \A a, b \in DOMAIN chan'[p][d] :
                   a < b => chan'[p][d][a].call <= chan'[p][d][b].call
      <4>1. chan'[p][d] = chan[p][d]
        BY <2>3, <3>1
      <4> QED
        BY <4>1 DEF InOrder
    <3> QED
      BY <2>6, <3>1
  <2> QED
    BY <1>2, <2>1, <2>7
<1>8. ASSUME NEW r \in Ranks, Return(r)
      PROVE  job' = job /\ chan' = chan
  BY <1>8, ReturnEffect
<1> QED
  BY <1>4, <1>5, <1>6, <1>7, <1>8, NextCases DEF vars

-----------------------------------------------------------------------------
(* As many messages are taken as receives are filled. *)

IsTaken(r, tag, s, c, i) ==
  /\ s \in Ranks /\ c \in DOMAIN Program(job, s) /\ i \in 1 .. Taken(s, r, c)
  /\ CallAt(s, c).tag = tag

TakenAreTriples ==
  \A r \in Ranks : \A tag :
    /\ \A m \in TakenMessages(r, tag) : \E s, c, i : m = <<s, c, i>>
    /\ \A s, c, i : <<s, c, i>> \in TakenMessages(r, tag) <=> IsTaken(r, tag, s, c, i)

LEMMA TakenMember ==
  TypeOK /\ NothingFromNowhere => TakenAreTriples
<1> SUFFICES ASSUME TypeOK, NothingFromNowhere, NEW r \in Ranks, NEW tag, NEW s, NEW c, NEW i
             PROVE  <<s, c, i>> \in TakenMessages(r, tag) <=> IsTaken(r, tag, s, c, i)
  BY TakenMembers DEF TakenAreTriples
<1>1. <<s, c, i>> \in TakenMessages(r, tag) <=>
        /\ s \in Ranks /\ c \in 1 .. at[s] /\ i \in 1 .. Taken(s, r, c)
        /\ CallAt(s, c).tag = tag
  BY TakenMembers
<1>2. ASSUME s \in Ranks, c \in 1 .. at[s]
      PROVE  c \in DOMAIN Program(job, s)
  BY <1>2, StateFacts
<1>3. ASSUME s \in Ranks, c \in DOMAIN Program(job, s), i \in 1 .. Taken(s, r, c)
      PROVE  c \in 1 .. at[s]
  <2>1. Taken(s, r, c) > 0
    <3>1. Taken(s, r, c) \in Nat
      BY <1>3, CountFacts
    <3> QED
      BY <1>3, <3>1
  <2>2. ~(c > at[s])
    BY <1>3, <2>1, CountFacts
  <2>3. c \in Nat /\ c >= 1 /\ at[s] \in Nat
    BY <1>3, StateFacts, ProgramFacts
  <2> QED
    BY <2>2, <2>3
<1> QED
  BY <1>1, <1>2, <1>3 DEF IsTaken

LEMMA TakenAfter ==
  ASSUME TypeOK', NothingFromNowhere', job' = job, NEW r \in Ranks, NEW tag
  PROVE  /\ \A m \in TakenMessages(r, tag)' : \E s, c, i : m = <<s, c, i>>
         /\ \A s, c, i : <<s, c, i>> \in TakenMessages(r, tag)' <=> IsTaken(r, tag, s, c, i)'
<1>1. TakenAreTriples'
  BY TakenMember, PTL
<1>2. Ranks' = Ranks
  BY SameProgram
<1> QED
  BY <1>1, <1>2 DEF TakenAreTriples

LEMMA IsTakenAfter ==
  ASSUME job' = job, NEW r, NEW tag, NEW s, NEW c, NEW i
  PROVE  IsTaken(r, tag, s, c, i)' <=>
           /\ s \in Ranks /\ c \in DOMAIN Program(job, s) /\ i \in 1 .. Taken(s, r, c)'
           /\ CallAt(s, c).tag = tag
<1>1. Ranks' = Ranks /\ CallAt(s, c)' = CallAt(s, c)
  BY SameProgram
<1> QED
  BY <1>1 DEF IsTaken

(* Whoever has taken as many messages of each call as before has taken the same. *)
LEMMA SameTaken ==
  ASSUME TypeOK, NothingFromNowhere, TypeOK', NothingFromNowhere', job' = job,
         NEW r \in Ranks, NEW tag,
         \A s \in Ranks : \A c \in DOMAIN Program(job, s) :
           CallAt(s, c).tag = tag => Taken(s, r, c)' = Taken(s, r, c)
  PROVE  TakenMessages(r, tag)' = TakenMessages(r, tag)
<1>1. /\ \A m \in TakenMessages(r, tag) : \E s, c, i : m = <<s, c, i>>
      /\ \A s, c, i : <<s, c, i>> \in TakenMessages(r, tag) <=> IsTaken(r, tag, s, c, i)
  BY TakenMember DEF TakenAreTriples
<1>2. /\ \A m \in TakenMessages(r, tag)' : \E s, c, i : m = <<s, c, i>>
      /\ \A s, c, i : <<s, c, i>> \in TakenMessages(r, tag)' <=> IsTaken(r, tag, s, c, i)'
  BY TakenAfter
<1>3. ASSUME NEW s, NEW c, NEW i
      PROVE  IsTaken(r, tag, s, c, i)' <=> IsTaken(r, tag, s, c, i)
  <2>1. IsTaken(r, tag, s, c, i)' <=>
           /\ s \in Ranks /\ c \in DOMAIN Program(job, s) /\ i \in 1 .. Taken(s, r, c)'
           /\ CallAt(s, c).tag = tag
    BY IsTakenAfter
  <2> QED
    BY <2>1 DEF IsTaken
<1> QED
  BY <1>1, <1>2, <1>3

(* A receive adds one message to those taken of its tag. *)
LEMMA OneMoreTaken ==
  ASSUME TypeOK, NothingFromNowhere, TypeOK', NothingFromNowhere', job' = job,
         NEW r \in Ranks, NEW tag, NEW p \in Ranks, NEW k \in DOMAIN Program(job, p),
         CallAt(p, k).tag = tag, NEW n \in Nat, n = Taken(p, r, k) + 1,
         Taken(p, r, k)' = n,
         \A s \in Ranks : \A c \in DOMAIN Program(job, s) :
           s # p \/ c # k => Taken(s, r, c)' = Taken(s, r, c)
  PROVE  /\ <<p, k, n>> \notin TakenMessages(r, tag)
         /\ TakenMessages(r, tag)' = TakenMessages(r, tag) \union {<<p, k, n>>}
<1>0. Taken(p, r, k) \in Nat
  BY CountFacts
<1>1. /\ \A m \in TakenMessages(r, tag) : \E s, c, i : m = <<s, c, i>>
      /\ \A s, c, i : <<s, c, i>> \in TakenMessages(r, tag) <=> IsTaken(r, tag, s, c, i)
  BY TakenMember DEF TakenAreTriples
<1>2. /\ \A m \in TakenMessages(r, tag)' : \E s, c, i : m = <<s, c, i>>
      /\ \A s, c, i : <<s, c, i>> \in TakenMessages(r, tag)' <=> IsTaken(r, tag, s, c, i)'
  BY TakenAfter
<1>3. ASSUME NEW s, NEW c, NEW i
      PROVE  IsTaken(r, tag, s, c, i)' <=>
               IsTaken(r, tag, s, c, i) \/ (s = p /\ c = k /\ i = n)
  <2>0. IsTaken(r, tag, s, c, i)' <=>
           /\ s \in Ranks /\ c \in DOMAIN Program(job, s) /\ i \in 1 .. Taken(s, r, c)'
           /\ CallAt(s, c).tag = tag
    BY IsTakenAfter
  <2>1. CASE s = p /\ c = k
    <3>1. i \in 1 .. n <=> i \in 1 .. Taken(p, r, k) \/ i = n
      BY <1>0
    <3> QED
      BY <2>0, <2>1, <3>1 DEF IsTaken
  <2>2. CASE s # p \/ c # k
    BY <2>0, <2>2 DEF IsTaken
  <2> QED
    BY <2>1, <2>2
<1>4. ~IsTaken(r, tag, p, k, n)
  BY <1>0 DEF IsTaken
<1>6. <<p, k, n>> \notin TakenMessages(r, tag)
  BY <1>1, <1>4
<1>7. \A m : m \in TakenMessages(r, tag)' <=> m \in TakenMessages(r, tag) \/ m = <<p, k, n>>
  BY <1>1, <1>2, <1>3
<1> QED
  BY <1>6, <1>7

LEMMA ConservedStep ==
  ASSUME TypeOK, Settled, NothingFromNowhere, Conserved, [Next]_vars,
         TypeOK', NothingFromNowhere', job' = job
  PROVE  Conserved'
<1>1. /\ at \in [Ranks -> Nat] /\ got \in [Ranks -> Seq(Arrival)]
  BY TypeParts
<1>2. ASSUME NEW r \in Ranks, NEW tag, TakenMessages(r, tag)' = TakenMessages(r, tag),
             FilledReceives(r, tag)' = FilledReceives(r, tag), AsManyTakenAsFilled(r, tag)
      PROVE  AsManyTakenAsFilled(r, tag)'
  BY <1>2 DEF AsManyTakenAsFilled
<1>3. ASSUME \A r \in Ranks : \A tag \in {CallAt(r, k).takes : k \in DOMAIN Program(job, r)} :
               AsManyTakenAsFilled(r, tag)'
      PROVE  Conserved'
  BY <1>3, SameProgram DEF Conserved
<1>4. ASSUME NEW r \in Ranks, at'[r] = at[r], got'[r] = got[r]
      PROVE  \A tag : FilledReceives(r, tag)' = FilledReceives(r, tag)
  BY <1>4, SameProgram DEF FilledReceives, Filled
<1>5. CASE UNCHANGED vars
  <2>1. \A r \in Ranks : \A tag : TakenMessages(r, tag)' = TakenMessages(r, tag)
    BY <1>5, SameCounts, SameTaken DEF vars
  <2> QED
    BY <1>2, <1>3, <1>4, <1>5, <2>1 DEF vars, Conserved
<1>6. ASSUME NEW r \in Ranks, Begin(r)
      PROVE  Conserved'
  <2>0. PICK k : k = at[r] + 1
    OBVIOUS
  <2>1. /\ k \in DOMAIN Program(job, r) /\ at' = [at EXCEPT ![r] = k] /\ ~inside[r]
        /\ got' = [got EXCEPT ![r] = <<>>]
    BY <1>6, <2>0, BeginEffect
  <2>2. \A s \in Ranks : \A tag : TakenMessages(s, tag)' = TakenMessages(s, tag)
    BY <1>6, BeginCounts, SameTaken
  <2>3. at'[r] = k /\ got'[r] = <<>> /\ k \in Nat /\ at[r] \in Nat
    BY <1>1, <2>0, <2>1
  <2>4. ASSUME NEW tag
        PROVE  FilledReceives(r, tag)' = FilledReceives(r, tag)
    <3>1. \A c : CallAt(r, c)' = CallAt(r, c)
      BY SameProgram
    <3>2. Filled(r, k)' = 0
      BY <2>3 DEF Filled
    <3>3. \A c \in 1 .. at[r] : Filled(r, c)' = Len(CallAt(r, c).from)
      BY <2>0, <2>3, <3>1 DEF Filled
    <3>4. \A c \in 1 .. at[r] : Filled(r, c) = Len(CallAt(r, c).from)
      BY <2>1, <2>3 DEF Filled, Settled, CallOf, CallAt
    <3>5. \A c : c \in 1 .. k <=> c \in 1 .. at[r] \/ c = k
      BY <2>0, <2>3
    <3>6. ~ \E i : i \in 1 .. 0
      OBVIOUS
    <3>7. \A m : m \in FilledReceives(r, tag)' <=>
            \E c \in 1 .. at'[r] : \E i \in 1 .. Filled(r, c)' :
               CallAt(r, c).takes = tag /\ m = <<c, i>>
      BY <3>1 DEF FilledReceives
    <3>8. \A m : m \in FilledReceives(r, tag)' <=>
            \E c \in 1 .. k : \E i \in 1 .. Filled(r, c)' :
               CallAt(r, c).takes = tag /\ m = <<c, i>>
      BY <2>3, <3>7
    <3>9. \A m : m \in FilledReceives(r, tag) <=>
            \E c \in 1 .. at[r] : \E i \in 1 .. Filled(r, c) :
               CallAt(r, c).takes = tag /\ m = <<c, i>>
      BY DEF FilledReceives
    <3>10. \A m : m \in FilledReceives(r, tag)' <=>
            \E c \in 1 .. at[r] : \E i \in 1 .. Filled(r, c)' :
               CallAt(r, c).takes = tag /\ m = <<c, i>>
      BY <3>2, <3>5, <3>6, <3>8
    <3>11. \A m : m \in FilledReceives(r, tag)' <=> m \in FilledReceives(r, tag)
      BY <3>3, <3>4, <3>9, <3>10
    <3> QED
      BY <3>11
  <2>5. \A s \in Ranks : s # r => at'[s] = at[s] /\ got'[s] = got[s]
    BY <1>1, <2>1
  <2>6. \A s \in Ranks : \A tag : FilledReceives(s, tag)' = FilledReceives(s, tag)
    BY <1>4, <2>4, <2>5
  <2> QED
    BY <1>2, <1>3, <2>2, <2>6 DEF Conserved
<1>7. ASSUME NEW r \in Ranks, SendAwaited(r)
      PROVE  Conserved'
  <2>1. \A s \in Ranks : \A tag : TakenMessages(s, tag)' = TakenMessages(s, tag)
    BY <1>7, SendCounts, SameTaken
  <2>2. at' = at /\ got' = got
    BY <1>7, SendEffect
  <2> QED
    BY <1>2, <1>3, <1>4, <2>1, <2>2 DEF Conserved
<1>8. ASSUME NEW r \in Ranks, Receive(r)
      PROVE  Conserved'
  <2>1. job' = job /\ at' = at /\ todo' = todo /\ at[r] \in DOMAIN Program(job, r) /\ at[r] > 0
    BY <1>8, ReceiveEffect
  <2>2. PICK p \in Ranks, i \in Nat, k \in Nat :
          /\ i \in DOMAIN chan[p][r] /\ k \in 1 .. at[p]
          /\ k \in DOMAIN Program(job, p)
          /\ chan[p][r][i] = MessageOf(p, k)
          /\ CallAt(p, k).tag = CallAt(r, at[r]).takes
          /\ \A j \in DOMAIN chan[p][r] :
               chan[p][r][j].tag = CallAt(r, at[r]).takes => i <= j
          /\ got' = [got EXCEPT ![r] = Append(got[r], [src |-> p, call |-> k])]
          /\ chan' = [chan EXCEPT ![p][r] = Without(chan[p][r], i)]
    BY <1>8, ReceiveEffect
  <2>3. /\ k \in DOMAIN Program(job, p) /\ i \in DOMAIN chan[p][r]
        /\ chan[p][r][i] = MessageOf(p, k)
        /\ chan' = [chan EXCEPT ![p][r] = Without(chan[p][r], i)]
    BY <2>2
  <2>4. PICK tag, n, a, g : /\ tag = CallAt(p, k).tag /\ n = Taken(p, r, k) + 1
                            /\ a = at[r] /\ g = Len(got[r])
    OBVIOUS
  <2>5. n \in Nat /\ a \in Nat /\ g \in Nat
    <3>1. Taken(p, r, k) \in Nat
      BY <2>3, CountFacts
    <3>2. at[r] \in Nat /\ Len(got[r]) \in Nat
      BY StateFacts
    <3> QED
      BY <2>4, <3>1, <3>2
  <2>6. Taken(p, r, k)' = n
    BY <2>1, <2>3, <2>4, ReceiveCounts
  <2>7. \A s, d \in Ranks : \A c \in DOMAIN Program(job, s) :
          s # p \/ d # r \/ c # k => Taken(s, d, c)' = Taken(s, d, c)
    BY <2>1, <2>3, ReceiveKeeps
  <2>8. /\ <<p, k, n>> \notin TakenMessages(r, tag)
        /\ TakenMessages(r, tag)' = TakenMessages(r, tag) \union {<<p, k, n>>}
    BY <2>3, <2>4, <2>5, <2>6, <2>7, OneMoreTaken
  <2>9. CallAt(r, a).takes = tag /\ a \in 1 .. at[r]
    BY <2>1, <2>2, <2>4, <2>5
  <2>10. Len(got'[r]) = g + 1
    <3>1. [src |-> p, call |-> k] \in Arrival /\ got[r] \in Seq(Arrival)
      BY <1>1, <2>2 DEF Arrival
    <3>2. got'[r] = Append(got[r], [src |-> p, call |-> k])
      BY <1>1, <2>2
    <3> QED
      BY <2>4, <3>1, <3>2, AppendProperties
  <2>11. /\ Filled(r, a)' = g + 1 /\ Filled(r, a) = g
         /\ \A c : c # a => Filled(r, c)' = Filled(r, c)
    BY <2>1, <2>4, <2>10, SameProgram DEF Filled
  <2>12. /\ <<a, g + 1>> \notin FilledReceives(r, tag)
         /\ FilledReceives(r, tag)' = FilledReceives(r, tag) \union {<<a, g + 1>>}
         /\ \A t : t # tag => FilledReceives(r, t)' = FilledReceives(r, t)
    <3>1. \A m, t : m \in FilledReceives(r, t)' <=>
            \E c \in 1 .. at[r] : \E j \in 1 .. Filled(r, c)' :
               CallAt(r, c).takes = t /\ m = <<c, j>>
      BY <2>1, SameProgram DEF FilledReceives
    <3>2. \A m, t : m \in FilledReceives(r, t) <=>
            \E c \in 1 .. at[r] : \E j \in 1 .. Filled(r, c) :
               CallAt(r, c).takes = t /\ m = <<c, j>>
      BY DEF FilledReceives
    <3>3. \A j : j \in 1 .. g + 1 <=> j \in 1 .. g \/ j = g + 1
      BY <2>5
    <3>4. g + 1 \notin 1 .. g
      BY <2>5
    <3>5. <<a, g + 1>> \notin FilledReceives(r, tag)
      BY <2>11, <3>2, <3>4
    <3>6. \A m : m \in FilledReceives(r, tag)' <=> m \in FilledReceives(r, tag) \/ m = <<a, g + 1>>
      <4>1. ASSUME NEW m \in FilledReceives(r, tag)'
            PROVE  m \in FilledReceives(r, tag) \/ m = <<a, g + 1>>
        <5>1. PICK c \in 1 .. at[r] : \E j \in 1 .. Filled(r, c)' :
                 CallAt(r, c).takes = tag /\ m = <<c, j>>
          BY <3>1
        <5> QED
          BY <2>11, <3>2, <3>3, <5>1
      <4>2. ASSUME NEW m \in FilledReceives(r, tag)
            PROVE  m \in FilledReceives(r, tag)'
        <5>1. PICK c \in 1 .. at[r] : \E j \in 1 .. Filled(r, c) :
                 CallAt(r, c).takes = tag /\ m = <<c, j>>
          BY <3>2
        <5> QED
          BY <2>11, <3>1, <3>3, <5>1
      <4>3. <<a, g + 1>> \in FilledReceives(r, tag)'
        <5>1. g + 1 \in 1 .. g + 1
          BY <2>5
        <5> QED
          BY <2>9, <2>11, <3>1, <5>1
      <4> QED
        BY <4>1, <4>2, <4>3
    <3>7. ASSUME NEW t, t # tag
          PROVE  FilledReceives(r, t)' = FilledReceives(r, t)
      <4>1. \A c \in 1 .. at[r] : CallAt(r, c).takes = t => Filled(r, c)' = Filled(r, c)
        BY <2>9, <2>11, <3>7
      <4>2. \A m : m \in FilledReceives(r, t)' <=> m \in FilledReceives(r, t)
        BY <3>1, <3>2, <4>1
      <4> QED
        BY <4>2
    <3>8. FilledReceives(r, tag)' = FilledReceives(r, tag) \union {<<a, g + 1>>}
      BY <3>6
    <3> QED
      BY <3>5, <3>7, <3>8
  <2>13. AsManyTakenAsFilled(r, tag)'
    <3>1. AsManyTakenAsFilled(r, tag)
      BY <2>1, <2>4, <2>9 DEF Conserved
    <3>2. /\ IsFiniteSet(TakenMessages(r, tag)')
          /\ Cardinality(TakenMessages(r, tag)') = Cardinality(TakenMessages(r, tag)) + 1
      BY <2>8, <3>1, FS_AddElement DEF AsManyTakenAsFilled
    <3>3. /\ IsFiniteSet(FilledReceives(r, tag)')
          /\ Cardinality(FilledReceives(r, tag)') = Cardinality(FilledReceives(r, tag)) + 1
      BY <2>12, <3>1, FS_AddElement DEF AsManyTakenAsFilled
    <3> QED
      BY <3>1, <3>2, <3>3 DEF AsManyTakenAsFilled
  <2>14. ASSUME NEW t, t # tag
         PROVE  TakenMessages(r, t)' = TakenMessages(r, t)
    <3>1. \A s \in Ranks : \A c \in DOMAIN Program(job, s) :
            CallAt(s, c).tag = t => Taken(s, r, c)' = Taken(s, r, c)
      BY <2>4, <2>7, <2>14
    <3> QED
      BY <3>1, SameTaken
  <2>15. ASSUME NEW d \in Ranks, d # r
         PROVE  \A t : TakenMessages(d, t)' = TakenMessages(d, t)
    <3>1. \A s \in Ranks : \A c \in DOMAIN Program(job, s) : Taken(s, d, c)' = Taken(s, d, c)
      BY <2>7, <2>15
    <3> QED
      BY <3>1, SameTaken
  <2>16. \A d \in Ranks : d # r => at'[d] = at[d] /\ got'[d] = got[d]
    BY <1>1, <2>1, <2>2
  <2>17. \A d \in Ranks : d # r => \A t : FilledReceives(d, t)' = FilledReceives(d, t)
    BY <1>4, <2>16
  <2>18. ASSUME NEW d \in Ranks, NEW t \in {CallAt(d, c).takes : c \in DOMAIN Program(job, d)}
         PROVE  AsManyTakenAsFilled(d, t)'
    <3>1. AsManyTakenAsFilled(d, t)
      BY DEF Conserved
    <3>2. CASE d = r /\ t = tag
      BY <2>13, <3>2
    <3>3. CASE d = r /\ t # tag
      BY <1>2, <2>12, <2>14, <3>1, <3>3
    <3>4. CASE d # r
      BY <1>2, <2>15, <2>17, <3>1, <3>4
    <3> QED
      BY <3>2, <3>3, <3>4
  <2> QED
    BY <1>3, <2>18
<1>9. ASSUME NEW r \in Ranks, Return(r)
      PROVE  Conserved'
  <2>1. job' = job /\ at' = at /\ todo' = todo /\ chan' = chan /\ got' = got
    BY <1>9, ReturnEffect
  <2>2. \A s \in Ranks : \A tag : TakenMessages(s, tag)' = TakenMessages(s, tag)
    BY <2>1, SameCounts, SameTaken
  <2> QED
    BY <1>2, <1>3, <1>4, <2>1, <2>2 DEF Conserved
<1> QED
  BY <1>5, <1>6, <1>7, <1>8, <1>9, NextCases

-----------------------------------------------------------------------------
(* Barriers are counted. *)

(* The barriers among the first n calls of r. *)
BarriersIn(r, n) == {k \in 1 .. n : IsBarrier(r, k)}

Nth(r, n) == Cardinality(BarriersIn(r, n))

LEMMA UpTo ==
  ASSUME NEW n \in Nat
  PROVE  IsFiniteSet(1 .. n) /\ Cardinality(1 .. n) = n
<1>1. 1 \in Int /\ n \in Int
  OBVIOUS
<1>2. IsFiniteSet(1 .. n) /\ Cardinality(1 .. n) = (IF 1 > n THEN 0 ELSE n - 1 + 1)
  BY <1>1, FS_Interval
<1>3. (IF 1 > n THEN 0 ELSE n - 1 + 1) = n
  OBVIOUS
<1> QED
  BY <1>2, <1>3

LEMMA NthFacts ==
  ASSUME NEW r, NEW n \in Nat
  PROVE  /\ IsFiniteSet(BarriersIn(r, n)) /\ Nth(r, n) \in Nat
         /\ IsBarrier(r, n + 1) => Nth(r, n + 1) = Nth(r, n) + 1
         /\ ~IsBarrier(r, n + 1) => Nth(r, n + 1) = Nth(r, n)
<1>1. IsFiniteSet(BarriersIn(r, n)) /\ Nth(r, n) \in Nat
  <2>1. IsFiniteSet(1 .. n)
    BY FS_Interval
  <2>2. BarriersIn(r, n) \in SUBSET (1 .. n)
    BY DEF BarriersIn
  <2> QED
    BY <2>1, <2>2, FS_Subset, FS_CardinalityType DEF Nth
<1>2. \A k : k \in 1 .. n + 1 <=> k \in 1 .. n \/ k = n + 1
  OBVIOUS
<1>3. n + 1 \notin BarriersIn(r, n)
  BY DEF BarriersIn
<1>4. ASSUME IsBarrier(r, n + 1)
      PROVE  Nth(r, n + 1) = Nth(r, n) + 1
  <2>1. BarriersIn(r, n + 1) = BarriersIn(r, n) \union {n + 1}
    BY <1>2, <1>4 DEF BarriersIn
  <2> QED
    BY <1>1, <1>3, <2>1, FS_AddElement DEF Nth
<1>5. ASSUME ~IsBarrier(r, n + 1)
      PROVE  Nth(r, n + 1) = Nth(r, n)
  <2>1. BarriersIn(r, n + 1) = BarriersIn(r, n)
    BY <1>2, <1>5 DEF BarriersIn
  <2> QED
    BY <2>1 DEF Nth
<1> QED
  BY <1>1, <1>4, <1>5

LEMMA NthGrows ==
  ASSUME NEW r, NEW m \in Nat, NEW n \in Nat, m <= n
  PROVE  /\ Nth(r, m) <= Nth(r, n)
         /\ IsBarrier(r, n) /\ m < n => Nth(r, m) < Nth(r, n)
<1>1. IsFiniteSet(BarriersIn(r, n)) /\ IsFiniteSet(BarriersIn(r, m))
      /\ Nth(r, n) \in Nat /\ Nth(r, m) \in Nat
  BY NthFacts
<1>2. BarriersIn(r, m) \in SUBSET BarriersIn(r, n)
  BY DEF BarriersIn
<1>3. Nth(r, m) <= Nth(r, n) /\ (Nth(r, m) = Nth(r, n) => BarriersIn(r, m) = BarriersIn(r, n))
  BY <1>1, <1>2, FS_Subset DEF Nth
<1>4. ASSUME IsBarrier(r, n), m < n
      PROVE  n \in BarriersIn(r, n) /\ n \notin BarriersIn(r, m)
  BY <1>4 DEF BarriersIn
<1> QED
  BY <1>1, <1>3, <1>4

BarrierCounts ==
  \A r \in Ranks :
    /\ BarriersBegun(r) = Nth(r, at[r])
    /\ ~inside[r] => BarriersPassed(r) = Nth(r, at[r])
    /\ inside[r] /\ at[r] > 0 => BarriersPassed(r) = Nth(r, at[r] - 1)

LEMMA BegunAndPassed ==
  TypeOK => BarrierCounts
<1> SUFFICES ASSUME TypeOK, NEW r \in Ranks
             PROVE  /\ BarriersBegun(r) = Nth(r, at[r])
                    /\ ~inside[r] => BarriersPassed(r) = Nth(r, at[r])
                    /\ inside[r] /\ at[r] > 0 => BarriersPassed(r) = Nth(r, at[r] - 1)
  BY DEF BarrierCounts
<1>1. at[r] \in Nat
  BY StateFacts
<1>2. BarriersBegun(r) = Nth(r, at[r])
  BY DEF BarriersBegun, Nth, BarriersIn
<1>3. ASSUME ~inside[r]
      PROVE  BarriersPassed(r) = Nth(r, at[r])
  <2>1. \A k \in 1 .. at[r] : Passed(r, k)
    BY <1>1, <1>3 DEF Passed
  <2>2. {k \in 1 .. at[r] : IsBarrier(r, k) /\ Passed(r, k)} = BarriersIn(r, at[r])
    BY <2>1 DEF BarriersIn
  <2> QED
    BY <2>2 DEF BarriersPassed, Nth
<1>4. ASSUME inside[r], at[r] > 0
      PROVE  BarriersPassed(r) = Nth(r, at[r] - 1)
  <2>1. \A k \in 1 .. at[r] : Passed(r, k) <=> k \in 1 .. at[r] - 1
    BY <1>1, <1>4 DEF Passed
  <2>2. \A k \in 1 .. at[r] - 1 : k \in 1 .. at[r]
    BY <1>1, <1>4
  <2>3. {k \in 1 .. at[r] : IsBarrier(r, k) /\ Passed(r, k)} = BarriersIn(r, at[r] - 1)
    BY <2>1, <2>2 DEF BarriersIn
  <2> QED
    BY <2>3 DEF BarriersPassed, Nth
<1> QED
  BY <1>2, <1>3, <1>4

(***************************************************************************)
(* What a rank has taken when it may leave a barrier: as many messages as  *)
(* all its barriers so far have receives, each from a barrier of a peer.   *)
(***************************************************************************)
LEMMA BarrierMessages ==
  ASSUME Accounts, NEW r \in Ranks, at[r] > 0, IsBarrier(r, at[r]),
         Len(got[r]) = Len(CallAt(r, at[r]).from)
  PROVE  /\ IsFiniteSet(TakenMessages(r, BarrierTag))
         /\ Cardinality(TakenMessages(r, BarrierTag)) = Nth(r, at[r]) * (job.size - 1)
         /\ \A m \in TakenMessages(r, BarrierTag) :
              \E s \in Ranks \ {r} : \E c \in 1 .. at[s] : IsBarrier(s, c) /\ m = <<s, c, 1>>
<1>0. TypeOK /\ Settled /\ NothingFromNowhere /\ Conserved
  BY DEF Accounts
<1>1. /\ job \in Jobs /\ at[r] \in Nat /\ at[r] \in DOMAIN Program(job, r) /\ at[r] - 1 \in Nat
  BY <1>0, StateFacts
<1>2. PICK K : K = Nth(r, at[r])
  OBVIOUS
<1>3. K \in Nat
  BY <1>1, <1>2, NthFacts
<1> DEFINE T == TakenMessages(r, BarrierTag)
           F == FilledReceives(r, BarrierTag)
           Others == Ranks \ {r}
<1>9. IsFiniteSet(T) /\ IsFiniteSet(F) /\ Cardinality(T) = Cardinality(F)
  <2>1. CallAt(r, at[r]).takes = BarrierTag
    BY <1>1, BarrierFacts
  <2> QED
    BY <1>0, <1>1, <2>1 DEF Conserved, AsManyTakenAsFilled
<1>10. job.size \in Nat \ {0} /\ IsFiniteSet(Others) /\ Cardinality(Others) = job.size - 1
  BY <1>1, ProgramFacts, FS_RemoveElement
<1>11. Cardinality(F) = K * (job.size - 1)
  <2>1. \A c \in 1 .. at[r] : CallAt(r, c).takes = BarrierTag <=> IsBarrier(r, c)
    BY <1>0, <1>1, StateFacts, BarrierFacts
  <2>2. \A c \in 1 .. at[r] : IsBarrier(r, c) => Filled(r, c) = job.size - 1
    <3>1. ASSUME NEW c \in 1 .. at[r], IsBarrier(r, c)
          PROVE  Filled(r, c) = job.size - 1
      <4>1. Len(CallAt(r, c).from) = job.size - 1
        BY <1>0, <1>1, <3>1, StateFacts, BarrierFacts
      <4> QED
        BY <4>1 DEF Filled
    <3> QED
      BY <3>1
  <2>3. \A m : m \in F <=> \E c \in BarriersIn(r, at[r]) : \E i \in 1 .. job.size - 1 : m = <<c, i>>
    <3>1. \A m : m \in F <=>
            \E c \in 1 .. at[r] : \E i \in 1 .. Filled(r, c) :
               CallAt(r, c).takes = BarrierTag /\ m = <<c, i>>
      BY DEF FilledReceives
    <3> QED
      BY <2>1, <2>2, <3>1 DEF BarriersIn
  <2>4. F = BarriersIn(r, at[r]) \X (1 .. job.size - 1)
    BY <2>3
  <2>5. IsFiniteSet(1 .. job.size - 1) /\ Cardinality(1 .. job.size - 1) = job.size - 1
    <3>1. job.size - 1 \in Nat
      BY <1>10
    <3> QED
      BY <3>1, UpTo
  <2>6. IsFiniteSet(BarriersIn(r, at[r])) /\ Cardinality(BarriersIn(r, at[r])) = K
    BY <1>1, <1>2, NthFacts DEF Nth
  <2> QED
    BY <2>4, <2>5, <2>6, FS_Product
<1>13. ASSUME NEW m \in T
       PROVE  \E s \in Others : \E c \in 1 .. at[s] : IsBarrier(s, c) /\ m = <<s, c, 1>>
  <2>1. PICK s, c, i : /\ s \in Ranks /\ m = <<s, c, i>>
                       /\ c \in 1 .. at[s] /\ i \in 1 .. Taken(s, r, c)
                       /\ CallAt(s, c).tag = BarrierTag
    BY TakenMembers
  <2>2. c \in DOMAIN Program(job, s)
    BY <1>0, <2>1, StateFacts
  <2>3. IsBarrier(s, c)
    BY <1>1, <2>1, <2>2, BarrierFacts
  <2>4. Taken(s, r, c) \in Nat /\ Taken(s, r, c) <= Due(s, r, c) /\ Due(s, r, c) \in Nat
    BY <1>0, <2>1, <2>2, CountFacts
  <2>5. (s = r => Due(s, r, c) = 0) /\ (s # r => Due(s, r, c) = 1)
    BY <1>1, <2>1, <2>2, <2>3, BarrierFacts
  <2>6. s # r /\ i = 1
    BY <2>1, <2>4, <2>5
  <2> QED
    BY <2>1, <2>3, <2>6
<1> QED
  BY <1>2, <1>9, <1>11, <1>13

(* The barrier that a rank may leave has been begun by all others. *)
LEMMA BarrierHolds ==
  ASSUME Accounts, NEW r \in Ranks, inside[r], at[r] > 0, IsBarrier(r, at[r]),
         Len(got[r]) = Len(CallAt(r, at[r]).from), NEW q \in Ranks
  PROVE  Nth(r, at[r]) <= Nth(q, at[q])
<1>0. TypeOK /\ Settled /\ NothingFromNowhere /\ Conserved /\ BarriersSeparate
  BY DEF Accounts
<1>1. /\ job \in Jobs /\ at[r] \in Nat /\ at[r] \in DOMAIN Program(job, r) /\ at[r] - 1 \in Nat
      /\ \A s \in Ranks : at[s] \in Nat
  BY <1>0, StateFacts
<1>2. PICK a, K : a = at[r] /\ K = Nth(r, at[r])
  OBVIOUS
<1>3. K \in Nat /\ Nth(r, a - 1) = K - 1 /\ Nth(r, a - 1) \in Nat
  <2>1. a - 1 \in Nat /\ (a - 1) + 1 = a
    BY <1>1, <1>2
  <2>2. /\ Nth(r, a - 1) \in Nat
        /\ IsBarrier(r, (a - 1) + 1) => Nth(r, (a - 1) + 1) = Nth(r, a - 1) + 1
    BY <2>1, NthFacts
  <2> QED
    BY <1>2, <2>1, <2>2
<1>4. SUFFICES ASSUME Nth(q, at[q]) < K
               PROVE  FALSE
  BY <1>1, <1>2, <1>3, NthFacts
<1>5. BarriersPassed(r) = K - 1
  BY <1>0, <1>2, <1>3, BegunAndPassed DEF BarrierCounts
<1>6. Nth(q, at[q]) = K - 1
  <2>1. BarriersPassed(r) <= BarriersBegun(q) /\ BarriersBegun(q) = Nth(q, at[q])
    BY <1>0, BegunAndPassed DEF BarriersSeparate, BarrierCounts
  <2>2. Nth(q, at[q]) \in Nat
    BY <1>1, NthFacts
  <2> QED
    BY <1>3, <1>4, <1>5, <2>1, <2>2
<1>7. ASSUME NEW s \in Ranks
      PROVE  Nth(s, at[s]) <= K
  <2>1. BarriersPassed(s) <= K - 1
    BY <1>0, <1>6, BegunAndPassed DEF BarriersSeparate, BarrierCounts
  <2>2. Nth(s, at[s]) \in Nat
    BY <1>1, NthFacts
  <2>3. CASE ~inside[s]
    BY <1>0, <1>3, <2>1, <2>2, <2>3, BegunAndPassed DEF BarrierCounts
  <2>4. CASE inside[s]
    <3>1. at[s] > 0
      BY <1>0, <1>1, <2>4 DEF Settled
    <3>2. at[s] - 1 \in Nat /\ (at[s] - 1) + 1 = at[s]
      BY <1>1, <3>1
    <3>3. BarriersPassed(s) = Nth(s, at[s] - 1)
      BY <1>0, <2>4, <3>1, BegunAndPassed DEF BarrierCounts
    <3>4. Nth(s, at[s] - 1) \in Nat
          /\ (Nth(s, (at[s] - 1) + 1) = Nth(s, at[s] - 1) + 1
                \/ Nth(s, (at[s] - 1) + 1) = Nth(s, at[s] - 1))
      BY <3>2, NthFacts
    <3>5. Nth(s, at[s]) = Nth(s, at[s] - 1) + 1 \/ Nth(s, at[s]) = Nth(s, at[s] - 1)
      BY <3>2, <3>4
    <3> QED
      BY <1>3, <2>1, <3>3, <3>4, <3>5
  <2> QED
    BY <2>3, <2>4
<1>8. q # r
  BY <1>2, <1>3, <1>4
<1> DEFINE T == TakenMessages(r, BarrierTag)
           Others == Ranks \ {r}
           Turns == (1 .. K) \X Others
<1>9. /\ IsFiniteSet(T) /\ Cardinality(T) = K * (job.size - 1)
      /\ \A m \in T : \E s \in Others : \E c \in 1 .. at[s] : IsBarrier(s, c) /\ m = <<s, c, 1>>
  BY <1>2, BarrierMessages
<1>10. job.size \in Nat \ {0} /\ IsFiniteSet(Others) /\ Cardinality(Others) = job.size - 1
  BY <1>1, ProgramFacts, FS_RemoveElement
<1>12. IsFiniteSet(Turns) /\ Cardinality(Turns) = K * (job.size - 1)
  <2>1. IsFiniteSet(1 .. K) /\ Cardinality(1 .. K) = K
    BY <1>3, FS_Interval
  <2>2. IsFiniteSet(Others) /\ Cardinality(Others) = job.size - 1
    BY <1>10
  <2> HIDE DEF Others
  <2> QED
    <3>1. IsFiniteSet(Turns) /\ Cardinality(Turns) = Cardinality(1 .. K) * Cardinality(Others)
      BY <2>1, <2>2, FS_Product
    <3> QED
      BY <2>1, <2>2, <3>1
<1> DEFINE f == [m \in T |-> <<Nth(m[1], m[2]), m[1]>>]
<1>14. f \in Injection(T, Turns \ {<<K, q>>})
  <2>1. ASSUME NEW s \in Ranks, NEW c \in 1 .. at[s], IsBarrier(s, c)
        PROVE  Nth(s, c) \in 1 .. K /\ (Nth(s, c) = K => s # q)
    <3>1. c \in Nat /\ at[s] \in Nat /\ c <= at[s] /\ c - 1 \in Nat
      BY <1>1
    <3>2. Nth(s, c) <= Nth(s, at[s]) /\ Nth(s, at[s]) \in Nat /\ Nth(s, c) \in Nat
      BY <3>1, NthGrows, NthFacts
    <3>3. Nth(s, c - 1) \in Nat /\ Nth(s, c - 1) < Nth(s, c)
      BY <2>1, <3>1, NthGrows, NthFacts
    <3> QED
      BY <1>3, <1>4, <1>7, <3>2, <3>3
  <2>2. ASSUME NEW m \in T
        PROVE  f[m] \in Turns \ {<<K, q>>}
    <3>1. PICK s \in Others : \E c \in 1 .. at[s] : IsBarrier(s, c) /\ m = <<s, c, 1>>
      BY <1>9
    <3>2. PICK c \in 1 .. at[s] : IsBarrier(s, c) /\ m = <<s, c, 1>>
      BY <3>1
    <3>3. f[m] = <<Nth(s, c), s>>
      BY <3>2
    <3> QED
      BY <2>1, <3>2, <3>3
  <2>3. ASSUME NEW m \in T, NEW l \in T, f[m] = f[l]
        PROVE  m = l
    <3>1. PICK s, c : s \in Others /\ c \in 1 .. at[s] /\ IsBarrier(s, c) /\ m = <<s, c, 1>>
      BY <1>9
    <3>2. PICK p, d : p \in Others /\ d \in 1 .. at[p] /\ IsBarrier(p, d) /\ l = <<p, d, 1>>
      BY <1>9
    <3>3. f[m] = <<Nth(s, c), s>> /\ f[l] = <<Nth(p, d), p>>
      BY <3>1, <3>2
    <3>4. s = p /\ Nth(s, c) = Nth(s, d)
      BY <2>3, <3>3
    <3>5. c \in Nat /\ d \in Nat
      BY <1>1, <3>1, <3>2
    <3>6. Nth(s, c) \in Nat /\ Nth(s, d) \in Nat
      BY <3>5, NthFacts
    <3>7. ~(c < d) /\ ~(d < c)
      BY <3>1, <3>2, <3>4, <3>5, <3>6, NthGrows
    <3> QED
      BY <3>1, <3>2, <3>4, <3>5, <3>7
  <2>4. f \in [T -> Turns \ {<<K, q>>}]
    BY <2>2
  <2> HIDE DEF f, T, Turns
  <2> QED
    BY <2>3, <2>4 DEF Injection, IsInjective
<1>15. /\ IsFiniteSet(Turns \ {<<K, q>>})
       /\ Cardinality(Turns \ {<<K, q>>}) = K * (job.size - 1) - 1
  <2>1. <<K, q>> \in Turns
    BY <1>3, <1>8
  <2> HIDE DEF Turns
  <2> QED
    BY <1>12, <2>1, FS_RemoveElement
<1>16. Cardinality(T) <= K * (job.size - 1) - 1
  <2> HIDE DEF T, f, Turns
  <2> QED
    BY <1>14, <1>15, FS_Injection
<1>17. K * (job.size - 1) \in Int
  BY <1>3, <1>10
<1> QED
  BY <1>9, <1>16, <1>17

(***************************************************************************)
(* When a rank may leave its K-th barrier no other is past its K+1st. So of*)
(* the K messages for each peer that it has taken, at most K+1 are of each *)
(* peer but s: at least K - (N-2) are of s.                                *)
(***************************************************************************)
LEMMA KeptUpAtReturn ==
  ASSUME Accounts, NEW d \in Ranks, at[d] > 0, IsBarrier(d, at[d]),
         Len(got[d]) = Len(CallAt(d, at[d]).from), NEW s \in Ranks, s # d
  PROVE  Nth(d, at[d]) <= Cardinality(BarriersTaken(s, d)) + (job.size - 2)
<1>0. TypeOK /\ Settled /\ NothingFromNowhere /\ BarriersSeparate
  BY DEF Accounts
<1>1. /\ job \in Jobs /\ at[d] \in Nat
      /\ \A q \in Ranks : at[q] \in Nat /\ \A c \in 1 .. at[q] : c \in DOMAIN Program(job, q)
  BY <1>0, StateFacts
<1>2. PICK K, n : K = Nth(d, at[d]) /\ n = job.size
  OBVIOUS
<1>3. K \in Nat /\ n \in Nat
  BY <1>1, <1>2, NthFacts, ProgramFacts
<1> DEFINE T == TakenMessages(d, BarrierTag)
           B == BarriersTaken(s, d)
           Own == {m \in T : m[1] = s}
           Rest == {m \in T : m[1] # s}
           Others == (Ranks \ {d}) \ {s}
           Turns == (1 .. K + 1) \X Others
<1>4. /\ IsFiniteSet(T) /\ Cardinality(T) = K * (n - 1)
      /\ \A m \in T : \E q \in Ranks \ {d} : \E c \in 1 .. at[q] : IsBarrier(q, c) /\ m = <<q, c, 1>>
  BY <1>2, BarrierMessages
<1>5. ASSUME NEW q \in Ranks, NEW c \in 1 .. at[q], IsBarrier(q, c)
      PROVE  Nth(q, c) \in 1 .. K + 1
  <2>1. c \in Nat /\ c - 1 \in Nat /\ c <= at[q] /\ at[q] \in Nat
    BY <1>1
  <2>2. BarriersPassed(q) <= K
    BY <1>0, <1>2, BegunAndPassed DEF BarriersSeparate, BarrierCounts
  <2>3. Nth(q, at[q]) <= K + 1 /\ Nth(q, at[q]) \in Nat
    <3>1. Nth(q, at[q]) \in Nat
      BY <1>1, NthFacts
    <3>2. CASE ~inside[q]
      BY <1>0, <1>3, <2>2, <3>1, <3>2, BegunAndPassed DEF BarrierCounts
    <3>3. CASE inside[q]
      <4>1. at[q] > 0 /\ at[q] - 1 \in Nat /\ (at[q] - 1) + 1 = at[q]
        BY <1>0, <1>1, <3>3 DEF Settled
      <4>2. BarriersPassed(q) = Nth(q, at[q] - 1)
        BY <1>0, <3>3, <4>1, BegunAndPassed DEF BarrierCounts
      <4>3. /\ Nth(q, at[q] - 1) \in Nat
            /\ \/ Nth(q, (at[q] - 1) + 1) = Nth(q, at[q] - 1) + 1
               \/ Nth(q, (at[q] - 1) + 1) = Nth(q, at[q] - 1)
        BY <4>1, NthFacts
      <4> QED
        BY <1>3, <2>2, <3>1, <4>1, <4>2, <4>3
    <3> QED
      BY <3>1, <3>2, <3>3
  <2>4. Nth(q, c) <= Nth(q, at[q]) /\ Nth(q, c) \in Nat
    BY <2>1, NthGrows, NthFacts
  <2>5. Nth(q, c - 1) \in Nat /\ Nth(q, c - 1) < Nth(q, c)
    BY <1>5, <2>1, NthGrows, NthFacts
  <2> QED
    BY <1>3, <2>3, <2>4, <2>5
<1>6. /\ IsFiniteSet(Own) /\ IsFiniteSet(Rest)
      /\ Cardinality(T) = Cardinality(Own) + Cardinality(Rest)
  <2> HIDE DEF T
  <2>1. IsFiniteSet(Own) /\ IsFiniteSet(Rest)
    BY <1>4, FS_Subset
  <2>2. Own \union Rest = T /\ Own \cap Rest = {}
    OBVIOUS
  <2> HIDE DEF Own, Rest
  <2>3. Cardinality(Own \union Rest) =
          Cardinality(Own) + Cardinality(Rest) - Cardinality(Own \cap Rest)
    BY <2>1, FS_Union
  <2>4. Cardinality(Own) \in Nat /\ Cardinality(Rest) \in Nat /\ Cardinality({}) = 0
    BY <2>1, FS_CardinalityType, FS_EmptySet
  <2>5. Cardinality(T) = Cardinality(Own) + Cardinality(Rest) - 0
    BY <2>2, <2>3, <2>4
  <2> QED
    BY <2>1, <2>4, <2>5
<1>7. IsFiniteSet(Others) /\ Cardinality(Others) = n - 2 /\ n - 2 \in Nat
  <2>1. IsFiniteSet(Ranks \ {d}) /\ Cardinality(Ranks \ {d}) = n - 1
    BY <1>1, <1>2, ProgramFacts, FS_RemoveElement
  <2>2. IsFiniteSet(Others) /\ Cardinality(Others) = (n - 1) - 1
    BY <2>1, FS_RemoveElement
  <2>3. Cardinality(Others) \in Nat
    <3> HIDE DEF Others
    <3> QED
      BY <2>2, FS_CardinalityType
  <2> QED
    BY <1>3, <2>2, <2>3
<1>8. IsFiniteSet(Turns) /\ Cardinality(Turns) = (K + 1) * (n - 2)
  <2>1. K + 1 \in Nat
    BY <1>3
  <2>2. IsFiniteSet(1 .. K + 1) /\ Cardinality(1 .. K + 1) = K + 1
    BY <2>1, UpTo
  <2> HIDE DEF Others
  <2> QED
    BY <1>7, <2>2, FS_Product
<1>9. Cardinality(Rest) <= (K + 1) * (n - 2)
  <2> DEFINE f == [m \in Rest |-> <<Nth(m[1], m[2]), m[1]>>]
  <2>1. \A m \in Rest : \E q \in Others : \E c \in 1 .. at[q] : IsBarrier(q, c) /\ m = <<q, c, 1>>
    BY <1>4
  <2>2. ASSUME NEW m \in Rest
        PROVE  f[m] \in Turns
    <3>1. PICK q \in Others : \E c \in 1 .. at[q] : IsBarrier(q, c) /\ m = <<q, c, 1>>
      BY <2>1
    <3>2. PICK c \in 1 .. at[q] : IsBarrier(q, c) /\ m = <<q, c, 1>>
      BY <3>1
    <3>3. f[m] = <<Nth(q, c), q>>
      BY <3>2
    <3>4. Nth(q, c) \in 1 .. K + 1
      BY <1>5, <3>2
    <3> QED
      BY <3>3, <3>4
  <2>3. ASSUME NEW m \in Rest, NEW l \in Rest, f[m] = f[l]
        PROVE  m = l
    <3>1. PICK q, c : q \in Others /\ c \in 1 .. at[q] /\ IsBarrier(q, c) /\ m = <<q, c, 1>>
      BY <2>1
    <3>2. PICK p, e : p \in Others /\ e \in 1 .. at[p] /\ IsBarrier(p, e) /\ l = <<p, e, 1>>
      BY <2>1
    <3>3. f[m] = <<Nth(q, c), q>> /\ f[l] = <<Nth(p, e), p>>
      BY <3>1, <3>2
    <3>4. q = p /\ Nth(q, c) = Nth(q, e)
      BY <2>3, <3>3
    <3>5. c \in Nat /\ e \in Nat
      BY <1>1, <3>1, <3>2
    <3>6. Nth(q, c) \in Nat /\ Nth(q, e) \in Nat
      BY <3>5, NthFacts
    <3>7. ~(c < e) /\ ~(e < c)
      BY <3>1, <3>2, <3>4, <3>5, <3>6, NthGrows
    <3> QED
      BY <3>1, <3>2, <3>4, <3>5, <3>7
  <2>4. f \in [Rest -> Turns]
    BY <2>2
  <2>5. f \in Injection(Rest, Turns)
    <3> HIDE DEF f, Rest, Turns
    <3> QED
      BY <2>3, <2>4 DEF Injection, IsInjective
  <2> HIDE DEF f, Rest, Turns
  <2> QED
    BY <1>8, <2>5, FS_Injection
<1>10. IsFiniteSet(B) /\ Cardinality(Own) <= Cardinality(B)
  <2>1. IsFiniteSet(B)
    <3>1. IsFiniteSet(1 .. at[s])
      BY <1>1, UpTo
    <3>2. B \in SUBSET (1 .. at[s])
      BY DEF BarriersTaken
    <3> HIDE DEF B
    <3> QED
      BY <3>1, <3>2, FS_Subset
  <2> DEFINE g == [m \in Own |-> m[2]]
  <2>2. \A m \in Own : m[2] \in B /\ m = <<s, m[2], 1>>
    <3> SUFFICES ASSUME NEW m \in Own
                 PROVE  m[2] \in B /\ m = <<s, m[2], 1>>
      OBVIOUS
    <3>1. PICK c \in 1 .. at[s] : IsBarrier(s, c) /\ m = <<s, c, 1>>
      BY <1>4
    <3>2. <<s, c, 1>> \in TakenMessages(d, BarrierTag)
      BY <3>1
    <3>3. 1 \in 1 .. Taken(s, d, c)
      BY <3>2, TakenMembers
    <3>4. Taken(s, d, c) \in Nat
      BY <1>0, <1>1, CountFacts
    <3>5. Taken(s, d, c) > 0
      BY <3>3, <3>4
    <3> QED
      BY <3>1, <3>5 DEF BarriersTaken
  <2>3. g \in Injection(Own, B)
    <3>1. g \in [Own -> B]
      BY <2>2
    <3>2. \A m, l \in Own : g[m] = g[l] => m = l
      BY <2>2
    <3> HIDE DEF g, Own, B
    <3> QED
      BY <3>1, <3>2 DEF Injection, IsInjective
  <2> HIDE DEF g, Own, B
  <2> QED
    BY <2>1, <2>3, FS_Injection
<1>11. /\ Cardinality(Own) \in Nat /\ Cardinality(Rest) \in Nat /\ Cardinality(B) \in Nat
  <2> HIDE DEF Own, Rest, B
  <2> QED
    BY <1>6, <1>10, FS_CardinalityType
<1>12. K * (n - 1) = K * (n - 2) + K /\ (K + 1) * (n - 2) = K * (n - 2) + (n - 2)
       /\ K * (n - 2) \in Int
  BY <1>3, <1>7
<1> HIDE DEF T, Own, Rest, B
<1>13. K <= Cardinality(B) + (n - 2)
  BY <1>3, <1>4, <1>6, <1>7, <1>9, <1>10, <1>11, <1>12
<1> QED
  BY <1>2, <1>13 DEF B

LEMMA CountsAfter ==
  ASSUME TypeOK', job' = job, NEW r \in Ranks, NEW a, a = at'[r]
  PROVE  /\ BarriersBegun(r)' = Nth(r, a)
         /\ ~inside'[r] => BarriersPassed(r)' = Nth(r, a)
         /\ inside'[r] /\ a > 0 => BarriersPassed(r)' = Nth(r, a - 1)
<1>1. BarrierCounts'
  BY BegunAndPassed, PTL
<1>2. Ranks' = Ranks /\ \A k : IsBarrier(r, k)' = IsBarrier(r, k)
  BY SameProgram
<1>3. Nth(r, at[r])' = Nth(r, a) /\ Nth(r, at[r] - 1)' = Nth(r, a - 1)
  BY <1>2 DEF Nth, BarriersIn
<1> QED
  BY <1>1, <1>2, <1>3 DEF BarrierCounts

LEMMA BarriersSeparateStep ==
  ASSUME Accounts, [Next]_vars, TypeOK', job' = job
  PROVE  BarriersSeparate'
<1>0. TypeOK /\ Settled /\ BarriersSeparate
  BY DEF Accounts
<1>1. \A r \in Ranks : at[r] \in Nat /\ inside[r] \in BOOLEAN /\ (inside[r] => at[r] > 0)
  BY <1>0, StateFacts DEF Settled
<1>2. at \in [Ranks -> Nat] /\ inside \in [Ranks -> BOOLEAN]
  BY <1>0, TypeParts
<1>3. \A r \in Ranks :
        /\ BarriersBegun(r) = Nth(r, at[r])
        /\ ~inside[r] => BarriersPassed(r) = Nth(r, at[r])
        /\ inside[r] => BarriersPassed(r) = Nth(r, at[r] - 1)
  BY <1>0, <1>1, BegunAndPassed DEF BarrierCounts
<1>4. \A r, q \in Ranks : BarriersPassed(r) <= Nth(q, at[q])
  BY <1>0, <1>3 DEF BarriersSeparate
<1>5. ASSUME NEW r \in Ranks, at'[r] = at[r], inside'[r] = inside[r]
      PROVE  BarriersPassed(r)' = BarriersPassed(r) /\ BarriersBegun(r)' = Nth(r, at[r])
  BY <1>1, <1>3, <1>5, CountsAfter
<1>6. ASSUME \A r \in Ranks : at'[r] = at[r] /\ inside'[r] = inside[r]
      PROVE  BarriersSeparate'
  <2>1. \A r, q \in Ranks : BarriersPassed(r)' <= BarriersBegun(q)'
    BY <1>4, <1>5, <1>6
  <2> QED
    BY <2>1, SameProgram DEF BarriersSeparate
<1>7. ASSUME NEW r \in Ranks, Begin(r)
      PROVE  BarriersSeparate'
  <2>0. PICK a, k : a = at[r] /\ k = at[r] + 1
    OBVIOUS
  <2>1. /\ ~inside[r] /\ at' = [at EXCEPT ![r] = k] /\ inside' = [inside EXCEPT ![r] = TRUE]
    BY <1>0, <1>7, <2>0, BeginEffect
  <2>2. /\ at'[r] = k /\ inside'[r] /\ a \in Nat /\ k \in Nat /\ k > 0 /\ k - 1 = a /\ a <= k
        /\ \A s \in Ranks : s # r => at'[s] = at[s] /\ inside'[s] = inside[s]
    BY <1>1, <1>2, <2>0, <2>1
  <2>3. BarriersPassed(r)' = Nth(r, a) /\ BarriersBegun(r)' = Nth(r, k)
    BY <2>2, CountsAfter
  <2>4. BarriersPassed(r) = Nth(r, a)
    BY <1>3, <2>0, <2>1
  <2>5. Nth(r, a) <= Nth(r, k) /\ Nth(r, a) \in Nat /\ Nth(r, k) \in Nat
    BY <2>2, NthGrows, NthFacts
  <2>6. \A s \in Ranks : BarriersPassed(s)' = BarriersPassed(s)
    BY <1>5, <2>2, <2>3, <2>4
  <2>7. \A q \in Ranks : q # r => BarriersBegun(q)' = Nth(q, at[q])
    BY <1>5, <2>2
  <2>8. ASSUME NEW s \in Ranks, NEW q \in Ranks
        PROVE  BarriersPassed(s)' <= BarriersBegun(q)'
    <3>1. CASE q # r
      BY <1>4, <2>6, <2>7, <3>1
    <3>2. CASE q = r
      <4>1. BarriersPassed(s) <= Nth(r, a)
        BY <1>4, <2>0
      <4>2. BarriersPassed(s) \in Nat
        <5>1. CASE ~inside[s]
          BY <1>1, <1>3, <5>1, NthFacts
        <5>2. CASE inside[s]
          <6>1. at[s] - 1 \in Nat
            BY <1>1, <5>2
          <6> QED
            BY <1>3, <5>2, <6>1, NthFacts
        <5> QED
          BY <5>1, <5>2
      <4> QED
        BY <2>3, <2>5, <2>6, <3>2, <4>1, <4>2
    <3> QED
      BY <3>1, <3>2
  <2> QED
    BY <2>8, SameProgram DEF BarriersSeparate
<1>8. ASSUME NEW r \in Ranks, Return(r)
      PROVE  BarriersSeparate'
  <2>0. PICK a : a = at[r]
    OBVIOUS
  <2>1. /\ inside[r] /\ at[r] \in DOMAIN Program(job, r) /\ at[r] > 0
        /\ Len(got[r]) = Len(CallAt(r, at[r]).from)
        /\ at' = at /\ inside' = [inside EXCEPT ![r] = FALSE]
    BY <1>0, <1>8, ReturnEffect
  <2>2. /\ at'[r] = a /\ ~inside'[r] /\ a \in Nat /\ a > 0 /\ a - 1 \in Nat /\ (a - 1) + 1 = a
        /\ \A s \in Ranks : s # r => at'[s] = at[s] /\ inside'[s] = inside[s]
    BY <1>1, <1>2, <2>0, <2>1
  <2>3. BarriersPassed(r)' = Nth(r, a) /\ BarriersBegun(r)' = Nth(r, a)
    BY <2>2, CountsAfter
  <2>4. \A q \in Ranks : BarriersBegun(q)' = Nth(q, at[q])
    BY <1>5, <2>0, <2>2, <2>3
  <2>5. \A s \in Ranks : s # r => BarriersPassed(s)' = BarriersPassed(s)
    BY <1>5, <2>2
  <2>6. ASSUME NEW q \in Ranks
        PROVE  Nth(r, a) <= Nth(q, at[q])
    <3>1. CASE IsBarrier(r, a)
      BY <2>0, <2>1, <3>1, BarrierHolds
    <3>2. CASE ~IsBarrier(r, a)
      <4>1. Nth(r, a) = Nth(r, a - 1)
        <5>1. ~IsBarrier(r, (a - 1) + 1) => Nth(r, (a - 1) + 1) = Nth(r, a - 1)
          BY <2>2, NthFacts
        <5> QED
          BY <2>2, <3>2, <5>1
      <4>2. BarriersPassed(r) = Nth(r, a - 1)
        BY <1>3, <2>0, <2>1
      <4> QED
        BY <1>4, <4>1, <4>2
    <3> QED
      BY <3>1, <3>2
  <2>7. \A s, q \in Ranks : BarriersPassed(s)' <= BarriersBegun(q)'
    BY <1>4, <2>3, <2>4, <2>5, <2>6
  <2> QED
    BY <2>7, SameProgram DEF BarriersSeparate
<1>9. ASSUME NEW r \in Ranks, SendAwaited(r)
      PROVE  at' = at /\ inside' = inside
  BY <1>0, <1>9, SendEffect
<1>10. ASSUME NEW r \in Ranks, Receive(r)
       PROVE  at' = at /\ inside' = inside
  BY <1>0, <1>10, ReceiveEffect
<1> QED
  BY <1>6, <1>7, <1>8, <1>9, <1>10, NextCases DEF vars

(* A step takes no message back. *)
LEMMA TakenGrows ==
  ASSUME Accounts, [Next]_vars, TypeOK', job' = job, NEW s \in Ranks, NEW d \in Ranks
  PROVE  /\ IsFiniteSet(BarriersTaken(s, d)')
         /\ Cardinality(BarriersTaken(s, d)) <= Cardinality(BarriersTaken(s, d)')
         /\ Cardinality(BarriersTaken(s, d)) \in Nat
         /\ Cardinality(BarriersTaken(s, d)') \in Nat
<1>0. TypeOK /\ Settled /\ NothingFromNowhere
  BY DEF Accounts
<1>1. /\ job \in Jobs /\ at \in [Ranks -> Nat] /\ at[s] \in Nat
      /\ \A c \in 1 .. at[s] : c \in DOMAIN Program(job, s)
  BY <1>0, StateFacts, TypeParts
<1>2. at'[s] \in Nat /\ at[s] <= at'[s]
  <2>1. ASSUME NEW r \in Ranks, Begin(r)
        PROVE  at'[s] \in Nat /\ at[s] <= at'[s]
    <3>1. at' = [at EXCEPT ![r] = at[r] + 1] /\ at[r] \in Nat
      BY <1>0, <1>1, <2>1, BeginEffect
    <3> QED
      BY <1>1, <3>1
  <2>2. ASSUME NEW r \in Ranks, SendAwaited(r) \/ Receive(r) \/ Return(r)
        PROVE  at' = at
    BY <2>2 DEF SendAwaited, Receive, Return
  <2> QED
    BY <1>1, <2>1, <2>2, NextCases DEF vars
<1>3. BarriersTaken(s, d) \in SUBSET (BarriersTaken(s, d)')
  <2> SUFFICES ASSUME NEW k \in 1 .. at[s], IsBarrier(s, k), Taken(s, d, k) > 0
               PROVE  k \in BarriersTaken(s, d)'
    BY DEF BarriersTaken
  <2>1. k \in DOMAIN Program(job, s) /\ k \in 1 .. at'[s]
    BY <1>1, <1>2
  <2>2. Taken(s, d, k) \in Nat
    BY <1>0, <2>1, CountFacts
  <2>3. Taken(s, d, k)' = Taken(s, d, k) \/ Taken(s, d, k)' = Taken(s, d, k) + 1
    BY <1>0, <2>1, TakenStep
  <2>4. Taken(s, d, k)' > 0
    BY <2>2, <2>3
  <2>5. IsBarrier(s, k)'
    BY SameProgram
  <2> QED
    BY <2>1, <2>4, <2>5 DEF BarriersTaken
<1>4. IsFiniteSet(BarriersTaken(s, d)')
  <2>1. IsFiniteSet(1 .. at'[s])
    BY <1>2, UpTo
  <2>2. BarriersTaken(s, d)' \in SUBSET (1 .. at'[s])
    BY DEF BarriersTaken
  <2> QED
    BY <2>1, <2>2, FS_Subset
<1> QED
  BY <1>3, <1>4, FS_Subset, FS_CardinalityType

LEMMA KeptUpStep ==
  ASSUME Accounts, [Next]_vars, TypeOK', job' = job
  PROVE  KeptUp'
<1>0. TypeOK /\ Settled /\ KeptUp
  BY DEF Accounts
<1>1. /\ \A r \in Ranks : at[r] \in Nat /\ inside[r] \in BOOLEAN /\ (inside[r] => at[r] > 0)
      /\ at \in [Ranks -> Nat] /\ inside \in [Ranks -> BOOLEAN]
      /\ job.size \in Nat
  BY <1>0, StateFacts, TypeParts, ProgramFacts DEF Settled
<1>2. \A r \in Ranks :
        /\ ~inside[r] => BarriersPassed(r) = Nth(r, at[r])
        /\ inside[r] => BarriersPassed(r) = Nth(r, at[r] - 1)
  BY <1>0, <1>1, BegunAndPassed DEF BarrierCounts
<1>3. SUFFICES ASSUME NEW s \in Ranks, NEW d \in Ranks, s # d
               PROVE  BarriersPassed(d)' <= Cardinality(BarriersTaken(s, d)') + (job.size - 2)
  BY SameProgram DEF KeptUp
<1>4. /\ Cardinality(BarriersTaken(s, d)) <= Cardinality(BarriersTaken(s, d)')
      /\ Cardinality(BarriersTaken(s, d)) \in Nat /\ Cardinality(BarriersTaken(s, d)') \in Nat
  BY TakenGrows
<1>5. /\ BarriersPassed(d) <= Cardinality(BarriersTaken(s, d)) + (job.size - 2)
      /\ BarriersPassed(d) \in Nat
  <2>1. inside[d] => at[d] - 1 \in Nat
    BY <1>1
  <2>2. BarriersPassed(d) \in Nat
    BY <1>1, <1>2, <2>1, NthFacts
  <2> QED
    BY <1>0, <1>3, <2>2 DEF KeptUp
<1>6. SUFFICES \/ BarriersPassed(d)' = BarriersPassed(d)
               \/ /\ BarriersPassed(d)' \in Nat
                  /\ BarriersPassed(d)' <= Cardinality(BarriersTaken(s, d)) + (job.size - 2)
  BY <1>1, <1>4, <1>5
<1>7. ASSUME at'[d] = at[d], inside'[d] = inside[d]
      PROVE  BarriersPassed(d)' = BarriersPassed(d)
  BY <1>1, <1>2, <1>7, CountsAfter
<1>8. ASSUME NEW r \in Ranks, Begin(r)
      PROVE  BarriersPassed(d)' = BarriersPassed(d)
  <2>0. PICK a, k : a = at[r] /\ k = at[r] + 1
    OBVIOUS
  <2>1. ~inside[r] /\ at' = [at EXCEPT ![r] = k] /\ inside' = [inside EXCEPT ![r] = TRUE]
    BY <1>0, <1>8, <2>0, BeginEffect
  <2>2. CASE d # r
    BY <1>1, <1>7, <2>1, <2>2
  <2>3. CASE d = r
    <3>1. at'[r] = k /\ inside'[r] /\ k > 0 /\ k - 1 = a
      BY <1>1, <2>0, <2>1
    <3>2. BarriersPassed(r)' = Nth(r, a)
      BY <3>1, CountsAfter
    <3> QED
      BY <1>2, <2>0, <2>1, <2>3, <3>2
  <2> QED
    BY <2>2, <2>3
<1>9. ASSUME NEW r \in Ranks, Return(r)
      PROVE  \/ BarriersPassed(d)' = BarriersPassed(d)
             \/ /\ BarriersPassed(d)' \in Nat
                /\ BarriersPassed(d)' <= Cardinality(BarriersTaken(s, d)) + (job.size - 2)
  <2>0. PICK a : a = at[r]
    OBVIOUS
  <2>1. /\ inside[r] /\ at[r] > 0 /\ Len(got[r]) = Len(CallAt(r, at[r]).from)
        /\ at' = at /\ inside' = [inside EXCEPT ![r] = FALSE]
    BY <1>0, <1>9, ReturnEffect
  <2>2. CASE d # r
    BY <1>1, <1>7, <2>1, <2>2
  <2>3. CASE d = r
    <3>1. at'[r] = a /\ ~inside'[r] /\ a \in Nat /\ a - 1 \in Nat /\ (a - 1) + 1 = a
      BY <1>1, <2>0, <2>1
    <3>2. BarriersPassed(r)' = Nth(r, a) /\ Nth(r, a) \in Nat
      BY <3>1, CountsAfter, NthFacts
    <3>3. CASE IsBarrier(r, a)
      BY <1>3, <2>0, <2>1, <2>3, <3>2, <3>3, KeptUpAtReturn
    <3>4. CASE ~IsBarrier(r, a)
      <4>1. ~IsBarrier(r, (a - 1) + 1) => Nth(r, (a - 1) + 1) = Nth(r, a - 1)
        BY <3>1, NthFacts
      <4> QED
        BY <1>2, <2>0, <2>1, <2>3, <3>1, <3>2, <3>4, <4>1
    <3> QED
      BY <3>3, <3>4
  <2> QED
    BY <2>2, <2>3
<1>10. ASSUME NEW r \in Ranks, SendAwaited(r) \/ Receive(r)
       PROVE  at' = at /\ inside' = inside
  BY <1>10 DEF SendAwaited, Receive
<1> QED
  BY <1>7, <1>8, <1>9, <1>10, NextCases DEF vars

-----------------------------------------------------------------------------
(* What holds of every job. *)

LEMMA SameJob ==
  ASSUME [Next]_vars
  PROVE  job' = job
  BY NextCases DEF vars, Begin, SendAwaited, Receive, Return

LEMMA InitAccounts ==
  Init => Accounts
<1> SUFFICES ASSUME Init
             PROVE  Accounts
  OBVIOUS
<1>1. TypeOK /\ Settled
  BY InitTypeOK
<1>2. \A r \in Ranks : at[r] = 0 /\ got[r] = <<>>
  BY DEF Init
<1>3. \A s, d \in Ranks : chan[s][d] = <<>>
  BY DEF Init
<1>4. NothingFromNowhere /\ InOrder
  BY <1>2, <1>3 DEF NothingFromNowhere, InOrder
<1>5. ASSUME NEW r \in Ranks, NEW tag
      PROVE  AsManyTakenAsFilled(r, tag)
  <2>1. TakenMessages(r, tag) = {}
    BY <1>2 DEF TakenMessages, TakenFrom
  <2>2. FilledReceives(r, tag) = {}
    BY <1>2 DEF FilledReceives
  <2> QED
    BY <2>1, <2>2, FS_EmptySet DEF AsManyTakenAsFilled
<1>6. Conserved
  BY <1>5 DEF Conserved
<1>7. BarriersSeparate
  <2>1. \A r \in Ranks : {k \in 1 .. at[r] : IsBarrier(r, k) /\ Passed(r, k)} = {}
                         /\ {k \in 1 .. at[r] : IsBarrier(r, k)} = {}
    BY <1>2
  <2>2. \A r \in Ranks : BarriersPassed(r) = 0 /\ BarriersBegun(r) = 0
    BY <2>1, FS_EmptySet DEF BarriersPassed, BarriersBegun
  <2> QED
    BY <2>2 DEF BarriersSeparate
<1>8. KeptUp
  <2>1. job.size \in Nat \ {0} /\ Ranks = 0 .. job.size - 1
    BY <1>1, ProgramFacts DEF Ranks, TypeOK
  <2>2. ASSUME NEW s \in Ranks, NEW d \in Ranks, s # d
        PROVE  BarriersPassed(d) <= Cardinality(BarriersTaken(s, d)) + (job.size - 2)
    <3>1. {k \in 1 .. at[d] : IsBarrier(d, k) /\ Passed(d, k)} = {} /\ BarriersTaken(s, d) = {}
      BY <1>2 DEF BarriersTaken
    <3>2. BarriersPassed(d) = 0 /\ Cardinality(BarriersTaken(s, d)) = 0
      BY <3>1, FS_EmptySet DEF BarriersPassed
    <3> QED
      BY <2>1, <2>2, <3>2
  <2> QED
    BY <2>2 DEF KeptUp
<1> QED
  BY <1>1, <1>4, <1>6, <1>7, <1>8 DEF Accounts

LEMMA AccountsStep ==
  ASSUME Accounts, [Next]_vars
  PROVE  Accounts'
<1>1. TypeOK /\ Settled /\ NothingFromNowhere /\ InOrder /\ Conserved /\ BarriersSeparate
  BY DEF Accounts
<1>2. job' = job /\ TypeOK' /\ Settled'
  BY <1>1, SameJob, TypeStep, SettledStep
<1>3. NothingFromNowhere' /\ InOrder'
  BY <1>1, <1>2, NothingFromNowhereStep, InOrderStep
<1>4. Conserved'
  BY <1>1, <1>2, <1>3, ConservedStep
<1>5. BarriersSeparate'
  BY <1>2, BarriersSeparateStep
<1>6. KeptUp'
  BY <1>2, KeptUpStep
<1> QED
  BY <1>2, <1>3, <1>4, <1>5, <1>6 DEF Accounts

(* Messages taken and receives filled balance in every job, matched or not. *)
THEOREM AccountsBalance ==
  Spec => []Accounts
<1>1. Accounts /\ [Next]_vars => Accounts'
  BY AccountsStep
<1> QED
  BY <1>1, InitAccounts, PTL DEF Spec

(***************************************************************************)
(* Every variable of a job has its type: no channel holds a message its    *)
(* sender has not begun to send, no call receives more than it posted.     *)
(***************************************************************************)
THEOREM TypeCorrect ==
  Spec => []TypeOK
  BY AccountsBalance, PTL DEF Accounts

(***************************************************************************)
(* Among the data calls of any program, of any number of ranks, no rank    *)
(* gets past its n-th barrier before every rank has begun its n-th, though *)
(* a barrier's receives take any message with its tag.                     *)
(***************************************************************************)
THEOREM BarriersAlwaysSeparate ==
  Spec => []BarriersSeparate
  BY AccountsBalance, PTL DEF Accounts

-----------------------------------------------------------------------------
(* A job that is done was fed. *)

TakenBounded ==
  \A s, d \in Ranks : \A c \in DOMAIN Program(job, s) :
    Taken(s, d, c) \in Nat /\ Due(s, d, c) \in Nat /\ Taken(s, d, c) <= Due(s, d, c)

LEMMA TakenBound ==
  TypeOK /\ NothingFromNowhere => TakenBounded
<1> SUFFICES ASSUME TypeOK, NothingFromNowhere,
                    NEW s \in Ranks, NEW d \in Ranks, NEW c \in DOMAIN Program(job, s)
             PROVE  /\ Taken(s, d, c) \in Nat /\ Due(s, d, c) \in Nat
                    /\ Taken(s, d, c) <= Due(s, d, c)
  BY DEF TakenBounded
<1>1. /\ Due(s, d, c) \in Nat /\ Sent(s, d, c) \in Nat /\ Taken(s, d, c) \in Nat
      /\ Sent(s, d, c) <= Due(s, d, c) /\ Taken(s, d, c) <= Sent(s, d, c)
  BY CountFacts
<1> QED
  BY <1>1

LEMMA FiniteImage ==
  ASSUME NEW S, IsFiniteSet(S), NEW f, DOMAIN f = S
  PROVE  IsFiniteSet({f[x] : x \in S})
<1> DEFINE T == {f[x] : x \in S}
           g == [x \in S |-> f[x]]
<1>1. g \in [S -> T] /\ \A t \in T : \E x \in S : g[x] = t
  OBVIOUS
<1>2. g \in Surjection(S, T)
  <2> HIDE DEF T, g
  <2> QED
    BY <1>1, Fun_IsSurj
<1> HIDE DEF T, g
<1>3. IsFiniteSet(T)
  BY <1>2, FS_Surjection
<1> QED
  BY <1>3 DEF T

LEMMA FiniteUnion ==
  ASSUME NEW S, IsFiniteSet(S), NEW f, DOMAIN f = S, \A x \in S : IsFiniteSet(f[x])
  PROVE  IsFiniteSet(UNION {f[x] : x \in S})
<1> DEFINE T == {f[x] : x \in S}
<1>1. IsFiniteSet(T)
  BY FiniteImage
<1>2. \A t \in T : IsFiniteSet(t)
  OBVIOUS
<1> HIDE DEF T
<1>3. IsFiniteSet(UNION T)
  BY <1>1, <1>2, FS_UNION
<1> QED
  BY <1>3 DEF T

LEMMA FiniteMessages ==
  ASSUME job \in Jobs, NEW d \in Ranks, NEW tag
  PROVE  IsFiniteSet(MessagesTo(job, d, tag))
<1>1. ASSUME NEW s \in Ranks
      PROVE  IsFiniteSet(MessagesFrom(job, s, d, tag))
  <2> DEFINE K == {l \in DOMAIN Program(job, s) : Program(job, s)[l].tag = tag}
             f == [k \in K |-> {<<s, k, i>> : i \in 1 .. CountIn(Program(job, s)[k].to, d)}]
  <2>1. IsFiniteSet(K)
    <3>1. IsFiniteSet(DOMAIN Program(job, s))
      BY ProgramFacts, FS_Interval
    <3>2. K \in SUBSET DOMAIN Program(job, s)
      OBVIOUS
    <3> HIDE DEF K
    <3> QED
      BY <3>1, <3>2, FS_Subset
  <2>2. ASSUME NEW k \in K
        PROVE  IsFiniteSet(f[k])
    <3> DEFINE n == CountIn(Program(job, s)[k].to, d)
               g == [i \in 1 .. n |-> <<s, k, i>>]
    <3>1. n \in Nat
      BY CallFacts DEF CallAt, Due
    <3>2. IsFiniteSet(1 .. n)
      <4> HIDE DEF n
      <4> QED
        BY <3>1, FS_Interval
    <3>3. IsFiniteSet({g[i] : i \in 1 .. n})
      <4>1. DOMAIN g = 1 .. n
        OBVIOUS
      <4> HIDE DEF n, g
      <4> QED
        BY <3>2, <4>1, FiniteImage
    <3>4. {g[i] : i \in 1 .. n} = f[k]
      OBVIOUS
    <3> QED
      BY <3>3, <3>4
  <2>3. DOMAIN f = K
    OBVIOUS
  <2>4. IsFiniteSet(UNION {f[k] : k \in K})
    <3> HIDE DEF f, K
    <3> QED
      BY <2>1, <2>2, <2>3, FiniteUnion
  <2>5. UNION {f[k] : k \in K} = MessagesFrom(job, s, d, tag)
    <3>1. \A m : m \in UNION {f[k] : k \in K} <=>
            \E k \in K : \E i \in 1 .. CountIn(Program(job, s)[k].to, d) : m = <<s, k, i>>
      <4>1. \A m : m \in UNION {f[k] : k \in K} <=> \E k \in K : m \in f[k]
        <5> HIDE DEF f, K
        <5> QED
          OBVIOUS
      <4>2. \A m : \A k \in K :
              m \in f[k] <=> \E i \in 1 .. CountIn(Program(job, s)[k].to, d) : m = <<s, k, i>>
        OBVIOUS
      <4> HIDE DEF f, K
      <4> QED
        BY <4>1, <4>2
    <3>2. \A m : m \in MessagesFrom(job, s, d, tag) <=>
            \E k \in K : \E i \in 1 .. CountIn(Program(job, s)[k].to, d) : m = <<s, k, i>>
      BY DEF MessagesFrom
    <3> QED
      BY <3>1, <3>2
  <2> QED
    BY <2>4, <2>5
<1> DEFINE h == [s \in Ranks |-> MessagesFrom(job, s, d, tag)]
<1>2. DOMAIN h = Ranks /\ \A s \in Ranks : IsFiniteSet(h[s])
  BY <1>1
<1>3. IsFiniteSet(UNION {h[s] : s \in Ranks})
  <2> HIDE DEF h
  <2> QED
    BY <1>2, ProgramFacts, FiniteUnion
<1>4. UNION {h[s] : s \in Ranks} = MessagesTo(job, d, tag)
  BY DEF MessagesTo, Ranks
<1> QED
  BY <1>3, <1>4

(* Every receive of a job that is done has taken one of the messages sent. *)
LEMMA DoneTakes ==
  ASSUME Accounts, Done, NEW d \in Ranks, NEW k \in DOMAIN Program(job, d),
         NEW tag, tag = Program(job, d)[k].takes
  PROVE  /\ Cardinality(TakenMessages(d, tag)) = Cardinality(ReceivesOf(job, d, tag))
         /\ TakenMessages(d, tag) \in SUBSET MessagesTo(job, d, tag)
         /\ IsFiniteSet(MessagesTo(job, d, tag))
<1>0. TypeOK /\ Settled /\ NothingFromNowhere /\ Conserved /\ job \in Jobs
  BY DEF Accounts, TypeOK
<1>1. /\ IsFiniteSet(FilledReceives(d, tag))
      /\ Cardinality(TakenMessages(d, tag)) = Cardinality(FilledReceives(d, tag))
  BY <1>0 DEF Conserved, AsManyTakenAsFilled, CallAt
<1>2. FilledReceives(d, tag) = ReceivesOf(job, d, tag)
  <2>1. 1 .. at[d] = DOMAIN Program(job, d)
    BY <1>0, ProgramFacts DEF Done, Finished
  <2>2. \A c \in 1 .. at[d] : Filled(d, c) = Len(Program(job, d)[c].from)
    <3>1. ~inside[d] /\ at[d] \in Nat
      BY <1>0, StateFacts DEF Done, Finished
    <3> QED
      BY <1>0, <3>1 DEF Settled, Filled, CallAt, CallOf
  <2>3. \A m : m \in FilledReceives(d, tag) <=>
          \E c \in 1 .. at[d] : /\ Program(job, d)[c].takes = tag
                               /\ \E i \in 1 .. Filled(d, c) : m = <<c, i>>
    BY DEF FilledReceives, CallAt
  <2>4. \A m : m \in ReceivesOf(job, d, tag) <=>
          \E c \in DOMAIN Program(job, d) :
            /\ Program(job, d)[c].takes = tag
            /\ \E i \in 1 .. Len(Program(job, d)[c].from) : m = <<c, i>>
    BY DEF ReceivesOf
  <2>5. \A m : m \in FilledReceives(d, tag) <=> m \in ReceivesOf(job, d, tag)
    BY <2>1, <2>2, <2>3, <2>4
  <2>6. \A m \in FilledReceives(d, tag) : m \in ReceivesOf(job, d, tag)
    BY <2>5
  <2>7. \A m \in ReceivesOf(job, d, tag) : m \in FilledReceives(d, tag)
    BY <2>5
  <2> QED
    BY <2>6, <2>7
<1>3. TakenMessages(d, tag) \in SUBSET MessagesTo(job, d, tag)
  <2> SUFFICES ASSUME NEW m \in TakenMessages(d, tag)
               PROVE  m \in MessagesTo(job, d, tag)
    OBVIOUS
  <2>1. PICK s, c, i : m = <<s, c, i>>
    BY <1>0, TakenMember DEF TakenAreTriples
  <2>2. IsTaken(d, tag, s, c, i)
    BY <1>0, <2>1, TakenMember DEF TakenAreTriples
  <2>3. /\ s \in Ranks /\ c \in DOMAIN Program(job, s)
        /\ Program(job, s)[c].tag = tag /\ i \in 1 .. Taken(s, d, c)
    BY <2>2 DEF IsTaken, CallAt
  <2>4. i \in 1 .. CountIn(Program(job, s)[c].to, d)
    <3>1. /\ Taken(s, d, c) \in Nat /\ Due(s, d, c) \in Nat
          /\ Taken(s, d, c) <= Due(s, d, c)
      BY <1>0, <2>3, TakenBound DEF TakenBounded
    <3>2. i \in 1 .. Due(s, d, c)
      BY <2>3, <3>1
    <3> QED
      BY <3>2 DEF Due, CallAt
  <2>5. m \in MessagesFrom(job, s, d, tag)
    BY <2>1, <2>3, <2>4 DEF MessagesFrom
  <2> QED
    BY <2>3, <2>5 DEF MessagesTo, Ranks
<1>4. IsFiniteSet(MessagesTo(job, d, tag))
  BY <1>0, FiniteMessages
<1> QED
  BY <1>1, <1>2, <1>3, <1>4

LEMMA AccountsFed ==
  Accounts => OnlyFedJobsFinish
<1> SUFFICES ASSUME Accounts, Done
             PROVE  job \in FedJobs
  BY DEF OnlyFedJobsFinish
<1>1. job \in Jobs
  BY DEF Accounts, TypeOK
<1>2. ASSUME NEW d \in Ranks, NEW k \in DOMAIN Program(job, d),
             NEW tag, tag = Program(job, d)[k].takes
      PROVE  Cardinality(ReceivesOf(job, d, tag)) <= Cardinality(MessagesTo(job, d, tag))
  <2>1. /\ Cardinality(TakenMessages(d, tag)) = Cardinality(ReceivesOf(job, d, tag))
        /\ TakenMessages(d, tag) \in SUBSET MessagesTo(job, d, tag)
        /\ IsFiniteSet(MessagesTo(job, d, tag))
    BY <1>2, DoneTakes
  <2>2. Cardinality(TakenMessages(d, tag)) <= Cardinality(MessagesTo(job, d, tag))
    BY <2>1, FS_Subset
  <2> QED
    BY <2>1, <2>2
<1>3. Fed(job)
  <2> SUFFICES ASSUME NEW d \in Ranks, NEW tag \in {Program(job, d)[k].takes : k \in DOMAIN Program(job, d)}
               PROVE  Cardinality(ReceivesOf(job, d, tag)) <= Cardinality(MessagesTo(job, d, tag))
    BY DEF Fed, Ranks
  <2>1. PICK k \in DOMAIN Program(job, d) : tag = Program(job, d)[k].takes
    OBVIOUS
  <2> QED
    BY <1>2, <2>1
<1> QED
  BY <1>1, <1>3 DEF FedJobs

(***************************************************************************)
(* The safety half of FinishesIffFed, for every program: a job whose ranks *)
(* wait for more messages of a tag than are ever sent does not finish.     *)
(***************************************************************************)
THEOREM UnfedJobsNeverFinish ==
  Spec => []OnlyFedJobsFinish
  BY AccountsBalance, AccountsFed, PTL

-----------------------------------------------------------------------------
(* What a job that is done leaves behind. *)

LEMMA AccountsLeaveNothing ==
  Accounts => (Balanced(job) \/ job \notin FedJobs => NothingLeftBehind)
<1> SUFFICES ASSUME Accounts, Balanced(job), Done, NEW s \in Ranks, NEW d \in Ranks
             PROVE  chan[s][d] = <<>>
  BY AccountsFed DEF NothingLeftBehind, OnlyFedJobsFinish
<1>1. TypeOK /\ NothingFromNowhere /\ job \in Jobs /\ Balanced(job)
  BY DEF Accounts, TypeOK
<1>2. /\ chan[s][d] \in Seq(Message) /\ Len(chan[s][d]) \in Nat
      /\ DOMAIN chan[s][d] = 1 .. Len(chan[s][d])
  BY <1>1, StateFacts, LenProperties
<1>3. ASSUME NEW i \in DOMAIN chan[s][d]
      PROVE  FALSE
  <2>1. PICK c \in 1 .. at[s] : chan[s][d][i] = MessageOf(s, c)
    BY <1>1, StateFacts
  <2>2. c \in DOMAIN Program(job, s)
    BY <1>1, StateFacts
  <2>3. Waiting(s, d, c) > 0
    BY <1>2, <2>1, CountPositive DEF Waiting
  <2>4. PICK n, tag : n = Due(s, d, c) /\ tag = Program(job, s)[c].tag
    OBVIOUS
  <2>5. /\ n \in Nat /\ Sent(s, d, c) \in Nat /\ Sent(s, d, c) <= n
        /\ Waiting(s, d, c) \in Nat /\ Taken(s, d, c) \in Nat
        /\ Taken(s, d, c) = Sent(s, d, c) - Waiting(s, d, c)
    BY <1>1, <2>2, <2>4, CountFacts
  <2>6. n > 0 /\ n \in 1 .. CountIn(Program(job, s)[c].to, d)
    BY <2>3, <2>4, <2>5 DEF Due, CallAt
  <2>7. Cardinality(MessagesTo(job, d, tag)) <= Cardinality(ReceivesOf(job, d, tag))
    <3>1. CountIn(Program(job, s)[c].to, d) > 0
      BY <2>4, <2>6 DEF Due, CallAt
    <3> QED
      BY <1>1, <2>2, <2>4, <3>1 DEF Balanced, Ranks
  <2>8. <<s, c, n>> \in MessagesTo(job, d, tag)
    <3>1. <<s, c, n>> \in MessagesFrom(job, s, d, tag)
      BY <2>2, <2>4, <2>6 DEF MessagesFrom
    <3> QED
      BY <3>1 DEF MessagesTo, Ranks
  <2>9. Cardinality(MessagesTo(job, d, tag)) \in Nat /\ Cardinality(MessagesTo(job, d, tag)) # 0
    <3>1. IsFiniteSet(MessagesTo(job, d, tag))
      BY <1>1, FiniteMessages
    <3> QED
      BY <2>8, <3>1, FS_CardinalityType, FS_EmptySet
  <2>10. PICK k \in DOMAIN Program(job, d) : Program(job, d)[k].takes = tag
    <3>1. ASSUME ReceivesOf(job, d, tag) = {}
          PROVE  FALSE
      <4>1. Cardinality(ReceivesOf(job, d, tag)) = 0
        BY <3>1, FS_EmptySet
      <4> QED
        BY <2>7, <2>9, <4>1
    <3> QED
      BY <3>1 DEF ReceivesOf
  <2>11. /\ Cardinality(TakenMessages(d, tag)) = Cardinality(ReceivesOf(job, d, tag))
         /\ TakenMessages(d, tag) \in SUBSET MessagesTo(job, d, tag)
         /\ IsFiniteSet(MessagesTo(job, d, tag))
    BY <2>10, DoneTakes
  <2>12. TakenMessages(d, tag) = MessagesTo(job, d, tag)
    <3>1. /\ Cardinality(TakenMessages(d, tag)) <= Cardinality(MessagesTo(job, d, tag))
          /\ IsFiniteSet(TakenMessages(d, tag))
          /\ Cardinality(TakenMessages(d, tag)) = Cardinality(MessagesTo(job, d, tag))
                => TakenMessages(d, tag) = MessagesTo(job, d, tag)
      BY <2>11, FS_Subset
    <3>2. Cardinality(TakenMessages(d, tag)) \in Nat
      BY <3>1, FS_CardinalityType
    <3> QED
      BY <2>7, <2>9, <2>11, <3>1, <3>2
  <2>13. n \in 1 .. Taken(s, d, c)
    BY <2>8, <2>12, TakenMembers
  <2> QED
    BY <2>3, <2>5, <2>13
<1>4. Len(chan[s][d]) = 0
  <2>1. Len(chan[s][d]) > 0 => 1 \in DOMAIN chan[s][d]
    BY <1>2
  <2> QED
    BY <1>2, <1>3, <2>1
<1> QED
  BY <1>2, <1>4, EmptySeq

(***************************************************************************)
(* A job in which no rank is sent more messages of a tag than it waits for *)
(* leaves none behind when it is done, whoever takes which, matched or not.*)
(***************************************************************************)
THEOREM BalancedJobsLeaveNothing ==
  Spec => [](Balanced(job) \/ job \notin FedJobs => NothingLeftBehind)
  BY AccountsBalance, AccountsLeaveNothing, PTL

-----------------------------------------------------------------------------
(* Few barriers' messages wait. *)

LEMMA FinitePairs ==
  ASSUME NEW K, IsFiniteSet(K), NEW n, \A k \in K : n[k] \in Nat
  PROVE  IsFiniteSet(UNION {{<<k, i>> : i \in 1 .. n[k]} : k \in K})
<1> DEFINE f == [k \in K |-> {<<k, i>> : i \in 1 .. n[k]}]
<1>1. ASSUME NEW k \in K
      PROVE  IsFiniteSet(f[k])
  <2> DEFINE g == [i \in 1 .. n[k] |-> <<k, i>>]
  <2>1. IsFiniteSet(1 .. n[k])
    BY UpTo
  <2>2. DOMAIN g = 1 .. n[k]
    OBVIOUS
  <2>3. {g[i] : i \in 1 .. n[k]} = f[k]
    OBVIOUS
  <2>4. IsFiniteSet({g[i] : i \in 1 .. n[k]})
    <3> HIDE DEF g
    <3> QED
      BY <2>1, <2>2, FiniteImage
  <2> QED
    BY <2>3, <2>4
<1>2. DOMAIN f = K
  OBVIOUS
<1>3. IsFiniteSet(UNION {f[k] : k \in K})
  <2> HIDE DEF f
  <2> QED
    BY <1>1, <1>2, FiniteUnion
<1>4. \A k \in K : f[k] = {<<k, i>> : i \in 1 .. n[k]}
  OBVIOUS
<1> HIDE DEF f
<1>5. \A m : m \in UNION {f[k] : k \in K} <=> \E k \in K : \E i \in 1 .. n[k] : m = <<k, i>>
  BY <1>4
<1>6. \A m : m \in UNION {{<<k, i>> : i \in 1 .. n[k]} : k \in K} <=>
             \E k \in K : \E i \in 1 .. n[k] : m = <<k, i>>
  OBVIOUS
<1>7. UNION {f[k] : k \in K} = UNION {{<<k, i>> : i \in 1 .. n[k]} : k \in K}
  BY <1>5, <1>6
<1> QED
  BY <1>3, <1>7

LEMMA AccountsFewBarriers ==
  Accounts => FewBarriersWait
<1> SUFFICES ASSUME Accounts, NEW s \in Ranks, NEW d \in Ranks, s # d
             PROVE  /\ IsFiniteSet(BarriersWaiting(s, d))
                    /\ Cardinality(BarriersWaiting(s, d)) <= job.size
                    /\ at[s] > 0 /\ ~IsBarrier(s, at[s]) =>
                         Cardinality(BarriersWaiting(s, d)) <= job.size - 1
  BY DEF FewBarriersWait
<1>0. TypeOK /\ Settled /\ NothingFromNowhere /\ BarriersSeparate /\ KeptUp
  BY DEF Accounts
<1>1. /\ job \in Jobs /\ at[s] \in Nat /\ at[d] \in Nat
      /\ inside[s] \in BOOLEAN /\ inside[d] \in BOOLEAN
      /\ inside[s] => at[s] > 0
      /\ inside[d] => at[d] > 0
      /\ \A c \in 1 .. at[s] : c \in DOMAIN Program(job, s)
  BY <1>0, StateFacts DEF Settled
<1>2. PICK n, p, b, e : /\ n = job.size /\ p = BarriersPassed(d) /\ b = BarriersBegun(d)
                        /\ e = Nth(s, at[s])
  OBVIOUS
<1>3. n \in Nat /\ e \in Nat
  BY <1>1, <1>2, ProgramFacts, NthFacts
<1>4. p \in Nat /\ b \in Nat /\ b <= p + 1
  <2>1. b = Nth(d, at[d]) /\ b \in Nat
    BY <1>0, <1>1, <1>2, BegunAndPassed, NthFacts DEF BarrierCounts
  <2>2. CASE ~inside[d]
    BY <1>0, <1>2, <2>1, <2>2, BegunAndPassed DEF BarrierCounts
  <2>3. CASE inside[d]
    <3>1. at[d] - 1 \in Nat /\ (at[d] - 1) + 1 = at[d]
      BY <1>1, <2>3
    <3>2. p = Nth(d, at[d] - 1)
      BY <1>0, <1>1, <1>2, <2>3, BegunAndPassed DEF BarrierCounts
    <3>3. /\ Nth(d, at[d] - 1) \in Nat
          /\ \/ Nth(d, (at[d] - 1) + 1) = Nth(d, at[d] - 1) + 1
             \/ Nth(d, (at[d] - 1) + 1) = Nth(d, at[d] - 1)
      BY <3>1, NthFacts
    <3> QED
      BY <2>1, <3>1, <3>2, <3>3
  <2> QED
    BY <1>1, <2>2, <2>3
<1>5. e <= b + 1 /\ (at[s] > 0 /\ ~IsBarrier(s, at[s]) => e <= b)
  <2>1. BarriersPassed(s) <= b
    BY <1>0, <1>2 DEF BarriersSeparate
  <2>2. CASE ~inside[s]
    BY <1>0, <1>2, <1>3, <1>4, <2>1, <2>2, BegunAndPassed DEF BarrierCounts
  <2>3. CASE inside[s]
    <3>1. at[s] - 1 \in Nat /\ (at[s] - 1) + 1 = at[s]
      BY <1>1, <2>3
    <3>2. BarriersPassed(s) = Nth(s, at[s] - 1)
      BY <1>0, <1>1, <2>3, BegunAndPassed DEF BarrierCounts
    <3>3. /\ Nth(s, at[s] - 1) \in Nat
          /\ IsBarrier(s, (at[s] - 1) + 1) => Nth(s, (at[s] - 1) + 1) = Nth(s, at[s] - 1) + 1
          /\ ~IsBarrier(s, (at[s] - 1) + 1) => Nth(s, (at[s] - 1) + 1) = Nth(s, at[s] - 1)
      BY <3>1, NthFacts
    <3> QED
      BY <1>2, <1>4, <2>1, <3>1, <3>2, <3>3
  <2> QED
    BY <1>1, <2>2, <2>3
<1> DEFINE B == BarriersIn(s, at[s])
           T == BarriersTaken(s, d)
           W == BarriersWaiting(s, d)
<1>6. IsFiniteSet(B) /\ Cardinality(B) = e
  BY <1>1, <1>2, NthFacts DEF Nth
<1>7. T \in SUBSET B /\ W \in SUBSET (B \ T)
  <2>1. T \in SUBSET B /\ W \in SUBSET B
    BY DEF BarriersTaken, BarriersWaiting, BarriersIn
  <2>2. ASSUME NEW k \in W
        PROVE  k \notin T
    <3>1. k \in 1 .. at[s] /\ IsBarrier(s, k) /\ Waiting(s, d, k) > 0 /\ k \in DOMAIN Program(job, s)
      BY <1>1 DEF BarriersWaiting
    <3>2. Due(s, d, k) = 1
      BY <1>1, <3>1, BarrierFacts
    <3>3. /\ Waiting(s, d, k) \in Nat /\ Sent(s, d, k) \in Nat /\ Sent(s, d, k) <= 1
          /\ Taken(s, d, k) = Sent(s, d, k) - Waiting(s, d, k)
      BY <1>0, <3>1, <3>2, CountFacts
    <3>4. ~(Taken(s, d, k) > 0)
      BY <3>1, <3>3
    <3> QED
      BY <3>4 DEF BarriersTaken
  <2> QED
    BY <2>1, <2>2
<1>8. p <= Cardinality(T) + (n - 2)
  BY <1>0, <1>2 DEF KeptUp
<1> HIDE DEF B, T, W
<1>9. IsFiniteSet(T) /\ Cardinality(T) \in Nat
  BY <1>6, <1>7, FS_Subset, FS_CardinalityType
<1>10. IsFiniteSet(B \ T) /\ Cardinality(B \ T) = e - Cardinality(T)
  <2>1. /\ IsFiniteSet(B \ T)
        /\ Cardinality(B \ T) = Cardinality(B) - Cardinality(B \cap T)
    BY <1>6, FS_Difference
  <2>2. B \cap T = T
    BY <1>7
  <2> QED
    BY <1>6, <2>1, <2>2
<1>11. IsFiniteSet(W) /\ Cardinality(W) <= e - Cardinality(T) /\ Cardinality(W) \in Nat
  BY <1>7, <1>10, FS_Subset, FS_CardinalityType
<1>12. Cardinality(W) <= n /\ (at[s] > 0 /\ ~IsBarrier(s, at[s]) => Cardinality(W) <= n - 1)
  BY <1>3, <1>4, <1>5, <1>8, <1>9, <1>11
<1> QED
  BY <1>2, <1>11, <1>12 DEF W

(***************************************************************************)
(* In every job, matched or not, at most one message of a barrier for each *)
(* rank of the job waits between two of them, however fast one runs ahead. *)
(***************************************************************************)
THEOREM FewBarrierMessagesWait ==
  Spec => []FewBarriersWait
  BY AccountsBalance, AccountsFewBarriers, PTL
=============================================================================
