----------------------------- MODULE PairProofs -----------------------------
(***************************************************************************)
(* Theorems about the programs of PairBenchmarks, for every number of      *)
(* message sizes and iterations and every window: two ranks make the same  *)
(* calls at each other, and who sends data hears from the other in its next*)
(* call.  So the theorems about such jobs of Job are theorems about these  *)
(* benchmarks.  With more than two ranks they never get past their barrier.*)
(***************************************************************************)
EXTENDS MatchedProofs, PairJobs

-----------------------------------------------------------------------------
(* Programs of two ranks that take turns. *)

SendsData(call) == call.tag # BarrierTag /\ call.to # <<>>

(* Who sends data hears from the other in its next call, if it makes one. *)
Echoed(q) ==
  \A k \in DOMAIN q : k + 1 \in DOMAIN q /\ SendsData(q[k]) => q[k + 1].from # <<>>

(* The first call hears from the other. *)
Opens(q) == 1 \in DOMAIN q => q[1].from # <<>>

(* The last call sends no data. *)
Closes(q) == Len(q) \in DOMAIN q => ~SendsData(q[Len(q)])

(* Programs of two ranks that agree; those of H begin by hearing, the others end by it. *)
Turns(H) ==
  {p \in Agreeing(2, WindowSize) :
     \A r \in Members(2) : /\ Echoed(p[r])
                           /\ r \in H => Opens(p[r])
                           /\ r \notin H => Closes(p[r])}

LEMMA JoinEchoed ==
  ASSUME NEW S, NEW a \in Seq(S), NEW b \in Seq(S), Echoed(a), Echoed(b), Opens(b) \/ Closes(a)
  PROVE  /\ Echoed(a \o b)
         /\ Opens(a) /\ Opens(b) => Opens(a \o b)
         /\ Closes(a) /\ Closes(b) => Closes(a \o b)
<1>1. PICK m, l, c : m = Len(a) /\ l = Len(b) /\ c = a \o b
  OBVIOUS
<1>2. /\ m \in Nat /\ l \in Nat /\ DOMAIN a = 1 .. m /\ DOMAIN b = 1 .. l
      /\ DOMAIN c = 1 .. m + l /\ Len(c) = m + l
      /\ \A i \in 1 .. m : c[i] = a[i]
      /\ \A i \in 1 .. l : c[i + m] = b[i]
  BY <1>1, Concatenated
<1>3. ASSUME NEW k \in 1 .. m + l, k + 1 \in 1 .. m + l, SendsData(c[k])
      PROVE  c[k + 1].from # <<>>
  <2>1. CASE k < m
    <3>1. k \in 1 .. m /\ k + 1 \in 1 .. m
      BY <1>2, <2>1
    <3>2. c[k] = a[k] /\ c[k + 1] = a[k + 1]
      BY <1>2, <3>1
    <3> QED
      BY <1>2, <1>3, <3>1, <3>2 DEF Echoed
  <2>2. CASE k = m
    <3>1. m \in 1 .. m /\ 1 \in 1 .. l /\ 1 + m = k + 1
      BY <1>2, <1>3, <2>2
    <3>2. c[k] = a[m] /\ c[k + 1] = b[1]
      BY <1>2, <2>2, <3>1
    <3>3. ~Closes(a)
      BY <1>1, <1>2, <1>3, <3>1, <3>2 DEF Closes
    <3>4. Opens(b)
      BY <3>3
    <3> QED
      BY <1>2, <3>1, <3>2, <3>4 DEF Opens
  <2>3. CASE k > m
    <3>1. PICK i : i = k - m
      OBVIOUS
    <3>2. i \in 1 .. l /\ i + 1 \in 1 .. l /\ k = i + m /\ k + 1 = (i + 1) + m
      BY <1>2, <1>3, <2>3, <3>1
    <3>3. c[k] = b[i] /\ c[k + 1] = b[i + 1]
      BY <1>2, <3>2
    <3> QED
      BY <1>2, <1>3, <3>2, <3>3 DEF Echoed
  <2>4. k < m \/ k = m \/ k > m
    BY <1>2, <1>3
  <2> QED
    BY <2>1, <2>2, <2>3, <2>4
<1>4. Echoed(c)
  BY <1>2, <1>3 DEF Echoed
<1>5. ASSUME Opens(a), Opens(b)
      PROVE  Opens(c)
  <2> SUFFICES ASSUME 1 \in DOMAIN c
               PROVE  c[1].from # <<>>
    BY DEF Opens
  <2>1. CASE m > 0
    <3>1. 1 \in 1 .. m /\ c[1] = a[1]
      BY <1>2, <2>1
    <3> QED
      BY <1>2, <1>5, <3>1 DEF Opens
  <2>2. CASE ~(m > 0)
    <3>1. 1 \in 1 .. l /\ 1 + m = 1
      BY <1>2, <2>2
    <3>2. c[1] = b[1]
      BY <1>2, <3>1
    <3> QED
      BY <1>2, <1>5, <3>1, <3>2 DEF Opens
  <2> QED
    BY <2>1, <2>2
<1>6. ASSUME Closes(a), Closes(b)
      PROVE  Closes(c)
  <2> SUFFICES ASSUME m + l \in 1 .. m + l
               PROVE  ~SendsData(c[m + l])
    BY <1>2 DEF Closes
  <2>1. CASE l > 0
    <3>1. l \in 1 .. l /\ l + m = m + l
      BY <1>2, <2>1
    <3>2. c[m + l] = b[l]
      BY <1>2, <3>1
    <3> QED
      BY <1>1, <1>2, <1>6, <3>1, <3>2 DEF Closes
  <2>2. CASE ~(l > 0)
    <3>1. m \in 1 .. m /\ m + l = m
      BY <1>2, <2>2
    <3>2. c[m + l] = a[m]
      BY <1>2, <3>1
    <3> QED
      BY <1>1, <1>2, <1>6, <3>1, <3>2 DEF Closes
  <2> QED
    BY <2>1, <2>2
<1> QED
  BY <1>1, <1>4, <1>5, <1>6

LEMMA TurnsClosed ==
  ASSUME NEW H
  PROVE  Closed(2, Turns(H)) /\ [r \in Members(2) |-> <<>>] \in Turns(H)
<1>1. ASSUME NEW p \in Turns(H), NEW q \in Turns(H)
      PROVE  Join(2, p, q) \in Turns(H)
  <2>1. p \in Agreeing(2, WindowSize) /\ q \in Agreeing(2, WindowSize)
    BY DEF Turns
  <2>2. Join(2, p, q) \in Agreeing(2, WindowSize)
    BY <2>1, JoinAgrees
  <2>3. ASSUME NEW r \in Members(2)
        PROVE  /\ Echoed(Join(2, p, q)[r])
               /\ r \in H => Opens(Join(2, p, q)[r])
               /\ r \notin H => Closes(Join(2, p, q)[r])
    <3>1. /\ p[r] \in Seq(CallsOf(2, WindowSize)) /\ q[r] \in Seq(CallsOf(2, WindowSize))
      BY <2>1 DEF Agreeing
    <3>2. Join(2, p, q)[r] = p[r] \o q[r]
      BY DEF Join
    <3>3. /\ Echoed(p[r]) /\ Echoed(q[r])
          /\ r \in H => Opens(p[r]) /\ Opens(q[r])
          /\ r \notin H => Closes(p[r]) /\ Closes(q[r])
      BY DEF Turns
    <3>4. /\ Echoed(p[r] \o q[r])
          /\ Opens(p[r]) /\ Opens(q[r]) => Opens(p[r] \o q[r])
          /\ Closes(p[r]) /\ Closes(q[r]) => Closes(p[r] \o q[r])
      BY <3>1, <3>3, JoinEchoed
    <3> QED
      BY <3>2, <3>3, <3>4
  <2> QED
    BY <2>2, <2>3 DEF Turns
<1>2. ASSUME NEW p \in Turns(H)
      PROVE  p = [r \in Members(2) |-> p[r]]
  BY DEF Turns, Agreeing
<1>3. [r \in Members(2) |-> <<>>] \in Turns(H)
  <2>1. PICK p : p = [r \in Members(2) |-> <<>>]
    OBVIOUS
  <2>2. p \in Agreeing(2, WindowSize)
    BY <2>1, NothingAgrees
  <2>3. ASSUME NEW r \in Members(2)
        PROVE  Echoed(p[r]) /\ Opens(p[r]) /\ Closes(p[r])
    <3>1. p[r] = <<>>
      BY <2>1
    <3>2. DOMAIN p[r] = {}
      BY <3>1
    <3> QED
      BY <3>2 DEF Echoed, Opens, Closes
  <2>4. p \in Turns(H)
    BY <2>2, <2>3 DEF Turns
  <2> QED
    BY <2>1, <2>4
<1> QED
  BY <1>1, <1>2, <1>3 DEF Closed

-----------------------------------------------------------------------------
(* The calls of a pair fit. *)

LEMMA CountSame ==
  ASSUME NEW S, NEW q \in Seq(S), NEW x, \A i \in 1 .. Len(q) : q[i] = x, NEW y
  PROVE  /\ x = y => CountIn(q, y) = Len(q)
         /\ x # y => CountIn(q, y) = 0
<1>1. Len(q) \in Nat /\ DOMAIN q = 1 .. Len(q)
  OBVIOUS
<1>2. ASSUME x = y
      PROVE  CountIn(q, y) = Len(q)
  <2>1. {i \in DOMAIN q : q[i] = y} = 1 .. Len(q)
    BY <1>1, <1>2
  <2>2. Cardinality(1 .. Len(q)) = Len(q)
    BY <1>1, FS_Interval
  <2> QED
    BY <2>1, <2>2 DEF CountIn
<1>3. ASSUME x # y
      PROVE  CountIn(q, y) = 0
  <2>1. {i \in DOMAIN q : q[i] = y} = {}
    BY <1>1, <1>3
  <2> QED
    BY <2>1, FS_EmptySet DEF CountIn
<1> QED
  BY <1>2, <1>3

(* A call in which one rank sends and the other hears. *)
FromTo(sender) ==
  {c \in Meeting(2, WindowSize) :
     c[Partner(sender)].to = <<>> /\ c[Partner(sender)].from # <<>>}

LEMMA Partners ==
  ASSUME NEW r \in Members(2)
  PROVE  Partner(r) \in Members(2) /\ Partner(r) # r /\ \A d \in Members(2) : d = r \/ d = Partner(r)
  BY DEF Members, Partner

(* The partner of r, k times. *)
Window(r, k) == [i \in 1 .. k |-> Partner(r)]

LEMMA ToPartner ==
  ASSUME NEW r \in Members(2), NEW k \in 1 .. WindowSize
  PROVE  /\ Window(r, k) \in Seq(Members(2)) /\ Window(r, k) # <<>>
         /\ CountIn(Window(r, k), r) = 0
         /\ CountIn(Window(r, k), Partner(r)) = k
         /\ \A d \in Members(2) : CountIn(Window(r, k), d) \in 0 .. WindowSize
<1>1. k \in Nat /\ k > 0 /\ WindowSize \in Nat
  BY PairAssumption
<1>2. PICK x : x = Partner(r)
  OBVIOUS
<1>3. x \in Members(2) /\ x # r /\ \A d \in Members(2) : d = r \/ d = x
  BY <1>2, Partners
<1>4. PICK q : q = Window(r, k)
  OBVIOUS
<1>5. q \in Seq(Members(2)) /\ Len(q) = k /\ \A i \in 1 .. Len(q) : q[i] = x
  BY <1>1, <1>2, <1>3, <1>4 DEF Window
<1>6. CountIn(q, r) = 0 /\ CountIn(q, x) = k
  BY <1>3, <1>5, CountSame
<1>7. \A d \in Members(2) : CountIn(q, d) \in 0 .. WindowSize
  BY <1>1, <1>3, <1>6
<1> QED
  BY <1>1, <1>2, <1>4, <1>5, <1>6, <1>7

LEMMA OneWayMeets ==
  ASSUME NEW tag \in Tags, NEW sender \in Members(2), NEW k \in 1 .. WindowSize
  PROVE  /\ [r \in Members(2) |-> OneWay(tag, r, sender, k)] \in FromTo(sender)
         /\ [r \in Members(2) |-> AllWaited(OneWay(tag, r, sender, k))] \in FromTo(sender)
<1>1. ASSUME NEW r \in Members(2)
      PROVE  /\ OneWay(tag, r, sender, k) \in CallsOf(2, WindowSize)
             /\ AllWaited(OneWay(tag, r, sender, k)) \in CallsOf(2, WindowSize)
             /\ OneWay(tag, r, sender, k).tag = tag /\ OneWay(tag, r, sender, k).takes = tag
             /\ r = sender => /\ OneWay(tag, r, sender, k).to = Window(r, k)
                              /\ OneWay(tag, r, sender, k).from = <<>>
             /\ r # sender => /\ OneWay(tag, r, sender, k).from = Window(r, k)
                              /\ OneWay(tag, r, sender, k).to = <<>>
  <2>1. PICK q : q = Window(r, k)
    OBVIOUS
  <2>2. q \in Seq(Members(2)) /\ \A d \in Members(2) : CountIn(q, d) \in 0 .. WindowSize
    BY <2>1, ToPartner
  <2>3. <<>> \in Seq(Members(2)) /\ \A d \in Members(2) : CountIn(<<>>, d) \in 0 .. WindowSize
    BY CountEmpty, PairAssumption
  <2>4. OneWay(tag, r, sender, k) =
          IF r = sender THEN Exchange(tag, q, <<>>) ELSE Exchange(tag, <<>>, q)
    BY <2>1 DEF OneWay, NoPeers, Window
  <2>5. \A to, from : /\ Exchange(tag, to, from).tag = tag /\ Exchange(tag, to, from).takes = tag
                      /\ Exchange(tag, to, from).to = to /\ Exchange(tag, to, from).from = from
    BY DEF Exchange
  <2>6. ASSUME NEW to \in Seq(Members(2)), NEW from \in Seq(Members(2)),
               \A d \in Members(2) : CountIn(to, d) \in 0 .. WindowSize
        PROVE  /\ Exchange(tag, to, from) \in CallsOf(2, WindowSize)
               /\ AllWaited(Exchange(tag, to, from)) \in CallsOf(2, WindowSize)
    BY <2>6 DEF Exchange, AllWaited, CallsOf, Waits
  <2>7. CASE r = sender
    <3>1. OneWay(tag, r, sender, k) = Exchange(tag, q, <<>>)
      BY <2>4, <2>7
    <3>2. /\ Exchange(tag, q, <<>>) \in CallsOf(2, WindowSize)
          /\ AllWaited(Exchange(tag, q, <<>>)) \in CallsOf(2, WindowSize)
      BY <2>2, <2>3, <2>6
    <3>3. /\ OneWay(tag, r, sender, k).tag = tag /\ OneWay(tag, r, sender, k).takes = tag
          /\ OneWay(tag, r, sender, k).to = q /\ OneWay(tag, r, sender, k).from = <<>>
      BY <2>5, <3>1
    <3> QED
      BY <2>1, <2>7, <3>1, <3>2, <3>3
  <2>8. CASE r # sender
    <3>1. OneWay(tag, r, sender, k) = Exchange(tag, <<>>, q)
      BY <2>4, <2>8
    <3>2. /\ Exchange(tag, <<>>, q) \in CallsOf(2, WindowSize)
          /\ AllWaited(Exchange(tag, <<>>, q)) \in CallsOf(2, WindowSize)
      BY <2>2, <2>3, <2>6
    <3>3. /\ OneWay(tag, r, sender, k).tag = tag /\ OneWay(tag, r, sender, k).takes = tag
          /\ OneWay(tag, r, sender, k).to = <<>> /\ OneWay(tag, r, sender, k).from = q
      BY <2>5, <3>1
    <3> QED
      BY <2>1, <2>8, <3>1, <3>2, <3>3
  <2> QED
    BY <2>7, <2>8
<1>2. ASSUME NEW s \in Members(2), NEW d \in Members(2)
      PROVE  Fits(s, d, OneWay(tag, s, sender, k), OneWay(tag, d, sender, k))
  <2>1. PICK a, b, q : /\ a = OneWay(tag, s, sender, k) /\ b = OneWay(tag, d, sender, k)
                       /\ q = Window(d, k)
    OBVIOUS
  <2>2. a.tag = tag /\ b.takes = tag
    BY <1>1, <2>1
  <2>3. CASE s = d
    <3>1. CountIn(q, d) = 0 /\ CountIn(<<>>, d) = 0
      BY <2>1, CountEmpty, ToPartner
    <3>2. CountIn(a.to, d) = 0 /\ CountIn(b.from, s) = 0
      BY <1>1, <2>1, <2>3, <3>1
    <3> QED
      BY <2>1, <2>3, <3>2 DEF Fits
  <2>4. CASE s # d
    <3>1. Partner(s) = d /\ Partner(d) = s
      BY <2>4, Partners
    <3>2. CASE s = sender
      <4>1. a.to = Window(s, k) /\ b.from = q
        BY <1>1, <2>1, <2>4, <3>2
      <4>2. CountIn(a.to, d) = k /\ CountIn(b.from, s) = k
        BY <2>1, <3>1, <4>1, ToPartner
      <4> QED
        BY <2>1, <2>2, <2>4, <4>2 DEF Fits
    <3>3. CASE s # sender
      <4>1. d = sender
        BY <2>4, <3>3, Partners
      <4>2. a.to = <<>> /\ b.from = <<>>
        BY <1>1, <2>1, <3>3, <4>1
      <4>3. CountIn(a.to, d) = 0 /\ CountIn(b.from, s) = 0
        BY <4>2, CountEmpty
      <4> QED
        BY <2>1, <2>2, <2>4, <4>3 DEF Fits
    <3> QED
      BY <3>2, <3>3
  <2> QED
    BY <2>3, <2>4
<1>3. PICK c, w : /\ c = [r \in Members(2) |-> OneWay(tag, r, sender, k)]
                  /\ w = [r \in Members(2) |-> AllWaited(OneWay(tag, r, sender, k))]
  OBVIOUS
<1>4. ASSUME NEW r \in Members(2)
      PROVE  /\ c[r] = OneWay(tag, r, sender, k) /\ c[r] \in CallsOf(2, WindowSize)
             /\ w[r] = AllWaited(c[r]) /\ w[r] \in CallsOf(2, WindowSize)
             /\ w[r].tag = c[r].tag /\ w[r].takes = c[r].takes
             /\ w[r].to = c[r].to /\ w[r].from = c[r].from
  <2>1. /\ c[r] = OneWay(tag, r, sender, k) /\ w[r] = AllWaited(OneWay(tag, r, sender, k))
        /\ c[r] \in CallsOf(2, WindowSize) /\ w[r] \in CallsOf(2, WindowSize)
    BY <1>1, <1>3
  <2>2. w[r] = AllWaited(c[r])
    BY <2>1
  <2>3. /\ AllWaited(c[r]).tag = c[r].tag /\ AllWaited(c[r]).takes = c[r].takes
        /\ AllWaited(c[r]).to = c[r].to /\ AllWaited(c[r]).from = c[r].from
    BY <2>1 DEF AllWaited, CallsOf
  <2> QED
    BY <2>1, <2>2, <2>3
<1>5. c \in Meeting(2, WindowSize)
  <2>1. c \in [Members(2) -> CallsOf(2, WindowSize)]
    BY <1>1, <1>3
  <2> QED
    BY <1>2, <1>4, <2>1 DEF Meeting
<1>6. w \in Meeting(2, WindowSize)
  <2>1. w \in [Members(2) -> CallsOf(2, WindowSize)]
    BY <1>1, <1>3
  <2>2. ASSUME NEW s \in Members(2), NEW d \in Members(2)
        PROVE  Fits(s, d, w[s], w[d])
    <3>1. Fits(s, d, c[s], c[d])
      BY <1>2, <1>4
    <3> QED
      BY <1>4, <3>1 DEF Fits
  <2> QED
    BY <2>1, <2>2 DEF Meeting
<1>7. /\ c[Partner(sender)].to = <<>> /\ c[Partner(sender)].from # <<>>
      /\ w[Partner(sender)].to = <<>> /\ w[Partner(sender)].from # <<>>
  <2>1. PICK r \in Members(2) : r = Partner(sender) /\ r # sender
    BY Partners
  <2>2. c[r].to = <<>> /\ c[r].from = Window(r, k)
    BY <1>1, <1>4, <2>1
  <2>3. c[r].from # <<>>
    BY <2>2, ToPartner
  <2> QED
    BY <1>4, <2>1, <2>2, <2>3
<1> QED
  BY <1>3, <1>5, <1>6, <1>7 DEF FromTo

(* A call by which no rank, or each, hears from the other. *)
LEMMA OneCallTurns ==
  ASSUME NEW H, NEW c \in Meeting(2, WindowSize),
         \A r \in Members(2) : c[r].from # <<>>,
         \A r \in Members(2) : r \notin H => c[r].tag = BarrierTag
  PROVE  [r \in Members(2) |-> <<c[r]>>] \in Turns(H)
<1>1. PICK p : p = [r \in Members(2) |-> <<c[r]>>]
  OBVIOUS
<1>2. p \in Agreeing(2, WindowSize)
  BY <1>1, CallAgrees
<1>3. ASSUME NEW r \in Members(2)
      PROVE  /\ Echoed(p[r]) /\ Opens(p[r])
             /\ r \notin H => Closes(p[r])
  <2>1. /\ p[r] = <<c[r]>> /\ DOMAIN p[r] = {1} /\ Len(p[r]) = 1 /\ p[r][1] = c[r]
    BY <1>1
  <2>2. \A k \in DOMAIN p[r] : k + 1 \notin DOMAIN p[r]
    BY <2>1
  <2> QED
    BY <2>1, <2>2 DEF Echoed, Opens, Closes, SendsData
<1>4. p \in Turns(H)
  BY <1>2, <1>3 DEF Turns
<1> QED
  BY <1>1, <1>4

(* Rank 0 sends and rank 1 answers. *)
LEMMA PingPongTurns ==
  ASSUME NEW ping \in FromTo(0), NEW pong \in FromTo(1)
  PROVE  [r \in Members(2) |-> <<ping[r], pong[r]>>] \in Turns({1})
<1>1. ping \in Meeting(2, WindowSize) /\ pong \in Meeting(2, WindowSize)
  BY DEF FromTo
<1>2. /\ Members(2) = {0, 1}
      /\ ping[1].to = <<>> /\ ping[1].from # <<>> /\ pong[0].to = <<>> /\ pong[0].from # <<>>
  BY DEF FromTo, Partner, Members
<1>3. PICK a, b, p : /\ a = [r \in Members(2) |-> <<ping[r]>>]
                     /\ b = [r \in Members(2) |-> <<pong[r]>>]
                     /\ p = [r \in Members(2) |-> <<ping[r], pong[r]>>]
  OBVIOUS
<1>4. p \in Agreeing(2, WindowSize)
  <2>1. a \in Agreeing(2, WindowSize) /\ b \in Agreeing(2, WindowSize)
    BY <1>1, <1>3, CallAgrees
  <2>2. Join(2, a, b) \in Agreeing(2, WindowSize)
    BY <2>1, JoinAgrees
  <2>3. ASSUME NEW r \in Members(2)
        PROVE  a[r] \o b[r] = <<ping[r], pong[r]>>
    BY <1>3, Pair
  <2>4. Join(2, a, b) = p
    BY <1>3, <2>3 DEF Join
  <2> QED
    BY <2>2, <2>4
<1>5. ASSUME NEW r \in Members(2)
      PROVE  /\ p[r] = <<ping[r], pong[r]>> /\ DOMAIN p[r] = {1, 2} /\ Len(p[r]) = 2
             /\ p[r][1] = ping[r] /\ p[r][2] = pong[r]
  BY <1>3
<1>6. ASSUME NEW r \in Members(2)
      PROVE  Echoed(p[r])
  <2> SUFFICES ASSUME NEW k \in DOMAIN p[r], k + 1 \in DOMAIN p[r], SendsData(p[r][k])
               PROVE  p[r][k + 1].from # <<>>
    BY DEF Echoed
  <2>1. k = 1 /\ k + 1 = 2
    BY <1>5
  <2>2. r = 0
    BY <1>2, <1>5, <2>1 DEF SendsData
  <2> QED
    BY <1>2, <1>5, <2>1, <2>2
<1>7. Opens(p[1]) /\ Closes(p[0])
  BY <1>2, <1>5 DEF Opens, Closes, SendsData
<1>8. p \in Turns({1})
  BY <1>2, <1>4, <1>6, <1>7 DEF Turns
<1> QED
  BY <1>3, <1>8

LEMMA BarrierTurns ==
  ASSUME NEW H
  PROVE  [r \in Members(2) |-> <<Barrier(r, 2)>>] \in Turns(H)
<1>1. PICK c : c = [r \in Members(2) |-> Barrier(r, 2)]
  OBVIOUS
<1>2. /\ c \in Meeting(2, WindowSize)
      /\ \A r \in Members(2) :
           c[r].tag = BarrierTag /\ \A d \in Members(2) \ {r} : CountIn(c[r].from, d) > 0
  <2>1. /\ [r \in Members(2) |-> ToAll(BarrierTag, r, 2)] \in Meeting(2, WindowSize)
        /\ \A r \in Members(2) :
             /\ ToAll(BarrierTag, r, 2).tag = BarrierTag
             /\ \A d \in Members(2) \ {r} : CountIn(ToAll(BarrierTag, r, 2).from, d) > 0
    <3>1. BarrierTag \in Tags /\ 2 \in Nat \ {0} /\ WindowSize \in Nat \ {0}
      BY PairAssumption DEF Tags
    <3> QED
      BY <3>1, ToAllMeets
  <2>2. \A r : Barrier(r, 2) = ToAll(BarrierTag, r, 2)
    BY DEF Barrier, BarrierTag
  <2> QED
    BY <1>1, <2>1, <2>2
<1>3. ASSUME NEW r \in Members(2), c[r].from = <<>>
      PROVE  FALSE
  <2>1. CountIn(c[r].from, Partner(r)) > 0
    BY <1>2, Partners
  <2>2. CountIn(c[r].from, Partner(r)) = 0
    BY <1>3, CountEmpty
  <2> QED
    BY <2>1, <2>2
<1>4. [r \in Members(2) |-> <<c[r]>>] \in Turns(H)
  BY <1>2, <1>3, OneCallTurns
<1>5. [r \in Members(2) |-> <<c[r]>>] = [r \in Members(2) |-> <<Barrier(r, 2)>>]
  BY <1>1
<1> QED
  BY <1>4, <1>5

(* The loops of a benchmark. *)
LEMMA LoopsTurn ==
  ASSUME NEW H, NEW before \in Turns(H), NEW iteration \in Turns(H), NEW after \in Turns(H)
  PROVE  [r \in Members(2) |-> Loops(r, 2, before[r], iteration[r], after[r])] \in Turns(H)
<1>1. PICK a : a = Repeated(2, Iterations, iteration) /\ a \in Turns(H)
  <2>1. Iterations \in Nat
    BY PairAssumption
  <2> QED
    BY <2>1, TurnsClosed, RepeatKeeps
<1>2. PICK b : b = Join(2, Join(2, before, a), after) /\ b \in Turns(H)
  BY <1>1, TurnsClosed DEF Closed
<1>3. PICK c : c = Repeated(2, SizesRun, b) /\ c \in Turns(H)
  <2>1. SizesRun \in Nat
    BY PairAssumption
  <2> QED
    BY <1>2, <2>1, TurnsClosed, RepeatKeeps
<1>4. PICK s : s = [r \in Members(2) |-> <<Barrier(r, 2)>>] /\ s \in Turns(H)
  BY BarrierTurns
<1>5. PICK p : p = Join(2, s, c) /\ p \in Turns(H)
  BY <1>3, <1>4, TurnsClosed DEF Closed
<1>6. ASSUME NEW r \in Members(2)
      PROVE  p[r] = Loops(r, 2, before[r], iteration[r], after[r])
  <2>1. b[r] = before[r] \o Repeat(Iterations, iteration[r]) \o after[r]
    <3>1. a[r] = Repeat(Iterations, iteration[r])
      BY <1>1 DEF Repeat, Repeated
    <3>2. b[r] = (before[r] \o a[r]) \o after[r]
      BY <1>2 DEF Join
    <3> QED
      BY <3>1, <3>2
  <2>2. c[r] = Repeat(SizesRun, b[r])
    BY <1>3 DEF Repeat, Repeated
  <2>3. p[r] = <<Barrier(r, 2)>> \o c[r]
    BY <1>4, <1>5 DEF Join
  <2>4. ~(r >= 2)
    BY DEF Members
  <2> QED
    BY <2>1, <2>2, <2>3, <2>4 DEF Loops, OnPair
<1>7. p = [r \in Members(2) |-> p[r]]
  BY <1>5 DEF Join
<1>8. p = [r \in Members(2) |-> Loops(r, 2, before[r], iteration[r], after[r])]
  BY <1>6, <1>7
<1> QED
  BY <1>5, <1>8

-----------------------------------------------------------------------------
(* The iterations. *)

LEMMA LatencyIteration ==
  ASSUME NEW tag \in Tags
  PROVE  [r \in Members(2) |-> PingPong(tag, r)] \in Turns({1})
<1>1. PICK c, e : /\ c = [r \in Members(2) |-> OneWay(tag, r, 0, 1)]
                  /\ e = [r \in Members(2) |-> OneWay(tag, r, 1, 1)]
  OBVIOUS
<1>2. c \in FromTo(0) /\ e \in FromTo(1)
  <2>1. 0 \in Members(2) /\ 1 \in Members(2) /\ 1 \in 1 .. WindowSize
    BY PairAssumption DEF Members
  <2> QED
    BY <1>1, <2>1, OneWayMeets
<1>3. [r \in Members(2) |-> <<c[r], e[r]>>] \in Turns({1})
  BY <1>2, PingPongTurns
<1>4. [r \in Members(2) |-> <<c[r], e[r]>>] = [r \in Members(2) |-> PingPong(tag, r)]
  BY <1>1 DEF PingPong
<1> QED
  BY <1>3, <1>4

LEMMA BandwidthIteration ==
  [r \in Members(2) |-> do_bw_iteration(r)] \in Turns({1})
<1>1. PICK c, e : /\ c = [r \in Members(2) |-> AllWaited(OneWay("100", r, 0, WindowSize))]
                  /\ e = [r \in Members(2) |-> OneWay("101", r, 1, 1)]
  OBVIOUS
<1>2. c \in FromTo(0) /\ e \in FromTo(1)
  <2>1. /\ 0 \in Members(2) /\ 1 \in Members(2) /\ 1 \in 1 .. WindowSize
        /\ WindowSize \in 1 .. WindowSize /\ "100" \in Tags /\ "101" \in Tags
    BY PairAssumption DEF Members, Tags
  <2> QED
    BY <1>1, <2>1, OneWayMeets
<1>3. [r \in Members(2) |-> <<c[r], e[r]>>] \in Turns({1})
  BY <1>2, PingPongTurns
<1>4. [r \in Members(2) |-> <<c[r], e[r]>>] = [r \in Members(2) |-> do_bw_iteration(r)]
  BY <1>1 DEF do_bw_iteration
<1> QED
  BY <1>3, <1>4

(* Both ranks receive a window and send one. *)
LEMMA BothWaysIteration ==
  [r \in Members(2) |-> do_bibw_iteration(r)] \in Turns({0, 1})
<1> DEFINE tag(s) == IF s = 0 THEN "100" ELSE "10"
           call(r) == AllWaited([Exchange(tag(r), Window(r, WindowSize), Window(r, WindowSize))
                                   EXCEPT !.takes = tag(Partner(r))])
<1>1. WindowSize \in 1 .. WindowSize
  BY PairAssumption
<1>2. ASSUME NEW r \in Members(2)
      PROVE  /\ call(r) \in CallsOf(2, WindowSize)
             /\ call(r).tag = tag(r) /\ call(r).takes = tag(Partner(r))
             /\ call(r).to = Window(r, WindowSize) /\ call(r).from = Window(r, WindowSize)
  <2>1. PICK q : q = Window(r, WindowSize)
    OBVIOUS
  <2>2. q \in Seq(Members(2)) /\ \A d \in Members(2) : CountIn(q, d) \in 0 .. WindowSize
    BY <1>1, <2>1, ToPartner
  <2>3. tag(r) \in Tags /\ tag(Partner(r)) \in Tags
    BY DEF Tags
  <2>4. PICK a, b : a = tag(r) /\ b = tag(Partner(r))
    OBVIOUS
  <2> HIDE DEF tag
  <2>5. call(r) = [tag |-> a, takes |-> b, to |-> q, from |-> q, waits |-> "all", keep |-> TRUE]
    <3>1. PICK x : x = Exchange(a, q, q)
      OBVIOUS
    <3>2. x = [tag |-> a, takes |-> a, to |-> q, from |-> q, waits |-> "never", keep |-> TRUE]
      BY <3>1 DEF Exchange
    <3>3. PICK y : y = [x EXCEPT !.takes = b]
      OBVIOUS
    <3>4. y = [tag |-> a, takes |-> b, to |-> q, from |-> q, waits |-> "never", keep |-> TRUE]
      BY <3>2, <3>3
    <3>5. PICK z : z = [y EXCEPT !.waits = "all"]
      OBVIOUS
    <3>6. z = [tag |-> a, takes |-> b, to |-> q, from |-> q, waits |-> "all", keep |-> TRUE]
      BY <3>4, <3>5
    <3>7. call(r) = z
      BY <2>1, <2>4, <3>1, <3>3, <3>5 DEF AllWaited
    <3> QED
      BY <3>6, <3>7
  <2> HIDE DEF call
  <2> QED
    BY <2>1, <2>2, <2>3, <2>4, <2>5 DEF CallsOf, Waits
<1>3. ASSUME NEW s \in Members(2), NEW d \in Members(2)
      PROVE  Fits(s, d, call(s), call(d))
  <2> HIDE DEF tag, call
  <2>1. CASE s = d
    <3>1. CountIn(Window(d, WindowSize), d) = 0
      BY <1>1, ToPartner
    <3> QED
      BY <1>2, <2>1, <3>1 DEF Fits
  <2>2. CASE s # d
    <3>1. Partner(s) = d /\ Partner(d) = s
      BY <2>2, Partners
    <3>2. CountIn(Window(s, WindowSize), d) = WindowSize /\ CountIn(Window(d, WindowSize), s) = WindowSize
      BY <1>1, <3>1, ToPartner
    <3> QED
      BY <1>2, <2>2, <3>1, <3>2 DEF Fits
  <2> QED
    BY <2>1, <2>2
<1>4. PICK c : c = [r \in Members(2) |-> call(r)]
  OBVIOUS
<1>5. [r \in Members(2) |-> <<c[r]>>] \in Turns({0, 1})
  <2> HIDE DEF tag, call
  <2>1. c \in Meeting(2, WindowSize)
    BY <1>2, <1>3, <1>4 DEF Meeting
  <2>2. \A r \in Members(2) : c[r].from # <<>>
    BY <1>1, <1>2, <1>4, ToPartner
  <2>3. \A r \in Members(2) : r \in {0, 1}
    BY DEF Members
  <2> QED
    BY <2>1, <2>2, <2>3, OneCallTurns
<1>6. [r \in Members(2) |-> <<c[r]>>] = [r \in Members(2) |-> do_bibw_iteration(r)]
  <2>1. ASSUME NEW r \in Members(2)
        PROVE  <<call(r)>> = do_bibw_iteration(r)
    BY DEF do_bibw_iteration, Window
  <2>2. \A r \in Members(2) : <<c[r]>> = <<call(r)>>
    BY <1>4
  <2> HIDE DEF tag, call
  <2> QED
    BY <2>1, <2>2
<1> QED
  BY <1>5, <1>6

-----------------------------------------------------------------------------
(* The programs. *)

LEMMA ProgramsTurn ==
  ASSUME NEW p \in PairPrograms(2)
  PROVE  \E H : p \in Turns(H)
<1>1. PICK none, fence : /\ none = [r \in Members(2) |-> <<>>]
                         /\ fence = [r \in Members(2) |-> <<Barrier(r, 2)>>]
  OBVIOUS
<1>2. \A H : none \in Turns(H) /\ fence \in Turns(H)
  BY <1>1, TurnsClosed, BarrierTurns
<1>3. \A r \in Members(2) : none[r] = <<>> /\ fence[r] = <<Barrier(r, 2)>>
  BY <1>1
<1>4. ASSUME NEW tag \in Tags
      PROVE  /\ [r \in Members(2) |-> Loops(r, 2, <<>>, PingPong(tag, r), <<>>)] \in Turns({1})
             /\ [r \in Members(2) |-> Loops(r, 2, <<>>, PingPong(tag, r), <<Barrier(r, 2)>>)] \in Turns({1})
             /\ [r \in Members(2) |-> Loops(r, 2, <<>>, <<Barrier(r, 2)>> \o PingPong(tag, r), <<>>)]
                  \in Turns({1})
  <2>1. PICK c : c = [r \in Members(2) |-> PingPong(tag, r)] /\ c \in Turns({1})
    BY LatencyIteration
  <2>2. PICK b : b = Join(2, fence, c) /\ b \in Turns({1})
    BY <1>2, <2>1, TurnsClosed DEF Closed
  <2>3. \A r \in Members(2) : c[r] = PingPong(tag, r) /\ b[r] = <<Barrier(r, 2)>> \o PingPong(tag, r)
    BY <1>3, <2>1, <2>2 DEF Join
  <2>4. /\ [r \in Members(2) |-> Loops(r, 2, none[r], c[r], none[r])] \in Turns({1})
        /\ [r \in Members(2) |-> Loops(r, 2, none[r], c[r], fence[r])] \in Turns({1})
        /\ [r \in Members(2) |-> Loops(r, 2, none[r], b[r], none[r])] \in Turns({1})
    BY <1>2, <2>1, <2>2, LoopsTurn
  <2>5. /\ [r \in Members(2) |-> Loops(r, 2, none[r], c[r], none[r])]
             = [r \in Members(2) |-> Loops(r, 2, <<>>, PingPong(tag, r), <<>>)]
        /\ [r \in Members(2) |-> Loops(r, 2, none[r], c[r], fence[r])]
             = [r \in Members(2) |-> Loops(r, 2, <<>>, PingPong(tag, r), <<Barrier(r, 2)>>)]
        /\ [r \in Members(2) |-> Loops(r, 2, none[r], b[r], none[r])]
             = [r \in Members(2) |-> Loops(r, 2, <<>>, <<Barrier(r, 2)>> \o PingPong(tag, r), <<>>)]
    BY <1>3, <2>3
  <2> QED
    BY <2>4, <2>5
<1>5. [r \in Members(2) |-> Loops(r, 2, <<>>, do_bw_iteration(r), <<>>)] \in Turns({1})
  <2>1. PICK c : c = [r \in Members(2) |-> do_bw_iteration(r)] /\ c \in Turns({1})
    BY BandwidthIteration
  <2>2. [r \in Members(2) |-> Loops(r, 2, none[r], c[r], none[r])] \in Turns({1})
    BY <1>2, <2>1, LoopsTurn
  <2>3. [r \in Members(2) |-> Loops(r, 2, none[r], c[r], none[r])]
          = [r \in Members(2) |-> Loops(r, 2, <<>>, do_bw_iteration(r), <<>>)]
    BY <1>3, <2>1
  <2> QED
    BY <2>2, <2>3
<1>6. [r \in Members(2) |-> Loops(r, 2, <<Barrier(r, 2)>>, do_bibw_iteration(r), <<>>)] \in Turns({0, 1})
  <2>1. PICK c : c = [r \in Members(2) |-> do_bibw_iteration(r)] /\ c \in Turns({0, 1})
    BY BothWaysIteration
  <2>2. [r \in Members(2) |-> Loops(r, 2, fence[r], c[r], none[r])] \in Turns({0, 1})
    BY <1>2, <2>1, LoopsTurn
  <2>3. [r \in Members(2) |-> Loops(r, 2, fence[r], c[r], none[r])]
          = [r \in Members(2) |-> Loops(r, 2, <<Barrier(r, 2)>>, do_bibw_iteration(r), <<>>)]
    BY <1>3, <2>1
  <2> QED
    BY <2>2, <2>3
<1>7. "123456789ABCDEF0" \in Tags /\ "1" \in Tags
  BY DEF Tags
<1>8. Members(2) = 0 .. 2 - 1
  BY DEF Members
<1>9. /\ [r \in Members(2) |-> osu_latency(r, 2)] \in Turns({1})
      /\ [r \in Members(2) |-> osu_latency_mp(r, 2)] \in Turns({1})
      /\ [r \in Members(2) |-> osu_latency_mt(r, 2)] \in Turns({1})
  BY <1>4, <1>7 DEF osu_latency, osu_latency_mp, osu_latency_mt
<1>10. /\ [r \in Members(2) |-> osu_latency_persistent(r, 2)] \in Turns({1})
       /\ [r \in Members(2) |-> osu_multi_lat(r, 2)] \in Turns({1})
       /\ [r \in Members(2) |-> osu_partitioned_latency(r, 2)] \in Turns({1})
  BY <1>4, <1>7 DEF osu_latency_persistent, persistent_latency_iteration, osu_multi_lat,
                    osu_partitioned_latency
<1>11. /\ [r \in Members(2) |-> osu_bw(r, 2)] \in Turns({1})
       /\ [r \in Members(2) |-> osu_mbw_mr(r, 2)] \in Turns({1})
       /\ [r \in Members(2) |-> osu_bw_persistent(r, 2)] \in Turns({1})
  BY <1>5 DEF osu_bw, osu_mbw_mr, do_mbw_mr_iteration, osu_bw_persistent, persistent_bw_iteration
<1>12. /\ [r \in Members(2) |-> osu_bibw(r, 2)] \in Turns({0, 1})
       /\ [r \in Members(2) |-> osu_bibw_persistent(r, 2)] \in Turns({0, 1})
  BY <1>6 DEF osu_bibw, osu_bibw_persistent, persistent_bibw_iteration
<1>13. p \in Turns({1}) \/ p \in Turns({0, 1})
  BY <1>8, <1>9, <1>10, <1>11, <1>12 DEF PairPrograms
<1> QED
  BY <1>13
-----------------------------------------------------------------------------
(* Jobs of two ranks. *)

LEMMA PairFacts ==
  ASSUME NEW j \in JobsOfPairs, j.size = 2
  PROVE  /\ j \in Jobs /\ j \in MatchedJobs
         /\ \A s, d \in Members(2) :
              \A k \in DOMAIN Program(j, s) : Fits(s, d, Program(j, s)[k], Program(j, d)[k])
         /\ \A r \in Members(2) :
              Program(j, r) \in Seq(CallsOf(2, WindowSize)) /\ Echoed(Program(j, r))
<1>1. j \in Jobs /\ RunsPair(j)
  BY DEF JobsOfPairs
<1>2. PICK p \in PairPrograms(2) : \A r \in Members(2) : Program(j, r) = p[r]
  BY <1>1 DEF RunsPair, Members
<1>3. PICK H : p \in Turns(H)
  BY ProgramsTurn
<1>4. p \in Agreeing(j.size, WindowSize) /\ \A r \in Members(2) : Echoed(p[r])
  BY <1>3 DEF Turns
<1>5. /\ j \in MatchedJobs
      /\ \A s, d \in Members(2) :
           \A k \in DOMAIN Program(j, s) : Fits(s, d, Program(j, s)[k], Program(j, d)[k])
      /\ \A r \in Members(2) : Program(j, r) \in Seq(CallsOf(2, WindowSize))
  BY <1>1, <1>2, <1>4, AgreeingMatched
<1> QED
  BY <1>1, <1>2, <1>4, <1>5

(* A call of the pair sends to the partner and hears from it, and from nobody else. *)
LEMMA PairCalls ==
  ASSUME NEW j \in JobsOfPairs, j.size = 2, NEW r \in Members(2), NEW k \in DOMAIN Program(j, r)
  PROVE  /\ Program(j, r)[k] \in CallsOf(2, WindowSize)
         /\ CountIn(Program(j, r)[k].to, r) = 0
         /\ OnlyFrom(Program(j, r)[k], Partner(r))
         /\ Program(j, r)[k].from # <<>> => CountIn(Program(j, r)[k].from, Partner(r)) > 0
<1>1. PICK c : c = Program(j, r)[k]
  OBVIOUS
<1>2. c \in CallsOf(2, WindowSize)
  BY <1>1, PairFacts
<1>3. c.from \in Seq(Members(2)) /\ c.to \in Seq(Members(2))
  BY <1>2 DEF CallsOf
<1>4. Fits(r, r, c, c)
  BY <1>1, PairFacts
<1>5. CountIn(c.to, r) = 0 /\ CountIn(c.from, r) = 0
  BY <1>4 DEF Fits
<1>6. ASSUME NEW i \in DOMAIN c.from
      PROVE  c.from[i] = Partner(r)
  <2>1. c.from[i] \in Members(2)
    BY <1>3
  <2>2. c.from[i] # r
    <3> SUFFICES ASSUME c.from[i] = r
                 PROVE  FALSE
      OBVIOUS
    <3>1. CountIn(c.from, r) > 0
      BY <1>3, CountPositive
    <3> QED
      BY <1>5, <3>1
  <2> QED
    BY <2>1, <2>2, Partners
<1>7. ASSUME c.from # <<>>
      PROVE  CountIn(c.from, Partner(r)) > 0
  <2>1. 1 \in DOMAIN c.from
    BY <1>3, <1>7
  <2>2. c.from[1] = Partner(r)
    BY <1>6, <2>1
  <2> QED
    BY <1>3, <2>1, <2>2, CountPositive
<1> QED
  BY <1>1, <1>2, <1>5, <1>6, <1>7 DEF OnlyFrom

(* Who sends data in call k learns in the next that it has been taken. *)
LEMMA PairAnswers ==
  ASSUME NEW j \in JobsOfPairs, j.size = 2, NEW s \in Members(2), NEW d \in Members(2),
         NEW k \in DOMAIN Program(j, s), k + 1 \in DOMAIN Program(j, s),
         Program(j, s)[k].tag # BarrierTag, CountIn(Program(j, s)[k].to, d) > 0
  PROVE  Hears(j, s, k + 1, d) /\ AnsweredIn(j, s, k, d) = k + 1
<1>1. PICK c : c = Program(j, s)[k]
  OBVIOUS
<1>2. d # s
  BY PairCalls
<1>3. d = Partner(s)
  BY <1>2, Partners
<1>4. c.to # <<>>
  BY <1>1, CountEmpty
<1>5. Echoed(Program(j, s))
  BY PairFacts
<1>6. Program(j, s)[k + 1].from # <<>>
  BY <1>1, <1>4, <1>5 DEF Echoed, SendsData
<1>7. CountIn(Program(j, s)[k + 1].from, d) > 0
  BY <1>3, <1>6, PairCalls
<1> QED
  BY <1>7 DEF Hears, AnsweredIn

LEMMA PairOrdered ==
  ASSUME NEW j \in JobsOfPairs, j.size = 2
  PROVE  j \in MatchedJobs /\ j \in OrderedJobs /\ Answered(j)
<1>1. j \in MatchedJobs
  BY PairFacts
<1>2. Ordered(j)
  <2> SUFFICES ASSUME NEW r \in Members(2), NEW k \in DOMAIN Program(j, r),
                      NEW l \in DOMAIN Program(j, r)
               PROVE  \E s \in Members(2) :
                        OnlyFrom(Program(j, r)[k], s) /\ OnlyFrom(Program(j, r)[l], s)
    BY DEF Ordered, Members
  <2>1. Partner(r) \in Members(2)
    BY Partners
  <2> QED
    BY <2>1, PairCalls
<1>3. Answered(j)
  <2> SUFFICES ASSUME NEW s \in Members(2), NEW d \in Members(2),
                      NEW k \in DOMAIN Program(j, s),
                      Program(j, s)[k].tag # BarrierTag, CountIn(Program(j, s)[k].to, d) > 0,
                      AnsweredIn(j, s, k, d) \in DOMAIN Program(j, s)
               PROVE  Hears(j, s, AnsweredIn(j, s, k, d), d)
    BY DEF Answered, Members
  <2>1. k + 1 \in DOMAIN Program(j, s)
    <3>1. PICK q : q = Program(j, s)
      OBVIOUS
    <3>2. q \in Seq(CallsOf(2, WindowSize))
      BY <3>1, PairFacts
    <3>3. AnsweredIn(j, s, k, d) \in {k + 1, k + 2}
      BY DEF AnsweredIn
    <3>4. DOMAIN q = 1 .. Len(q) /\ Len(q) \in Nat
      BY <3>2
    <3> QED
      BY <3>1, <3>3, <3>4
  <2> QED
    BY <2>1, PairAnswers
<1> QED
  BY <1>1, <1>2, <1>3 DEF OrderedJobs
-----------------------------------------------------------------------------
(* Jobs of more than two ranks: the third never comes to the barrier. *)

LEMMA RepeatSeq ==
  ASSUME NEW S, NEW q \in Seq(S), NEW m \in Nat
  PROVE  Repeat(m, q) \in Seq(S)
<1>1. PICK Z : Z = [Members(1) -> Seq(S)]
  OBVIOUS
<1>2. PICK p : p = [r \in Members(1) |-> q] /\ p \in Z
  <2>1. [r \in Members(1) |-> q] \in [Members(1) -> Seq(S)]
    OBVIOUS
  <2> QED
    BY <1>1, <2>1
<1>3. ASSUME NEW a \in Z, NEW b \in Z
      PROVE  Join(1, a, b) \in Z
  <2>1. ASSUME NEW r \in Members(1)
        PROVE  a[r] \o b[r] \in Seq(S)
    BY <1>1, Concatenated
  <2> QED
    BY <1>1, <2>1 DEF Join
<1>4. Closed(1, Z) /\ [r \in Members(1) |-> <<>>] \in Z
  BY <1>1, <1>3 DEF Closed
<1>5. Repeated(1, m, p) \in Z
  BY <1>2, <1>4, RepeatKeeps
<1>6. 0 \in Members(1)
  BY DEF Members
<1>7. Repeated(1, m, p)[0] = Repeat(m, q)
  BY <1>2, <1>6 DEF Repeated, Repeat
<1> QED
  BY <1>1, <1>5, <1>6, <1>7

(* The ranks of the pair begin with the barrier, any other rank returns at once. *)
Starts(q, r, n) ==
  /\ r >= 2 => q = <<>>
  /\ ~(r >= 2) => 1 \in DOMAIN q /\ q[1] = Barrier(r, n)

LEMMA LoopsStart ==
  ASSUME NEW S, NEW r, NEW n, Barrier(r, n) \in S,
         NEW before \in Seq(S), NEW iteration \in Seq(S), NEW after \in Seq(S)
  PROVE  Starts(Loops(r, n, before, iteration, after), r, n)
<1>1. PICK a : a = Repeat(Iterations, iteration) /\ a \in Seq(S)
  BY RepeatSeq, PairAssumption
<1>2. PICK b : b = before \o a \o after /\ b \in Seq(S)
  <2>1. before \o a \in Seq(S)
    BY <1>1, Concatenated
  <2>2. PICK x : x = before \o a /\ x \in Seq(S)
    BY <2>1
  <2>3. x \o after \in Seq(S)
    BY <2>2, Concatenated
  <2> QED
    BY <2>2, <2>3
<1>3. PICK c : c = Repeat(SizesRun, b) /\ c \in Seq(S)
  BY <1>2, RepeatSeq, PairAssumption
<1>4. PICK h, q : h = <<Barrier(r, n)>> /\ q = h \o c
  OBVIOUS
<1>5. h \in Seq(S) /\ 1 \in DOMAIN h /\ h[1] = Barrier(r, n)
  BY <1>4
<1>6. 1 \in DOMAIN q /\ q[1] = Barrier(r, n)
  BY <1>3, <1>4, <1>5, Concatenated
<1>7. Loops(r, n, before, iteration, after) = IF r >= 2 THEN <<>> ELSE q
  BY <1>1, <1>2, <1>3, <1>4 DEF Loops, OnPair
<1> QED
  BY <1>6, <1>7 DEF Starts

LEMMA PairStarts ==
  ASSUME NEW n, NEW p \in PairPrograms(n), NEW r \in 0 .. n - 1
  PROVE  Starts(p[r], r, n)
<1>1. PICK b : b = Barrier(r, n)
  OBVIOUS
<1>2. ASSUME NEW tag
      PROVE  /\ Starts(Loops(r, n, <<>>, PingPong(tag, r), <<>>), r, n)
             /\ Starts(Loops(r, n, <<>>, PingPong(tag, r), <<Barrier(r, n)>>), r, n)
             /\ Starts(Loops(r, n, <<>>, <<Barrier(r, n)>> \o PingPong(tag, r), <<>>), r, n)
  <2>1. PICK x, y : x = OneWay(tag, r, 0, 1) /\ y = OneWay(tag, r, 1, 1)
    OBVIOUS
  <2>2. PICK S : S = {b, x, y}
    OBVIOUS
  <2>3. <<>> \in Seq(S) /\ <<b>> \in Seq(S) /\ <<x, y>> \in Seq(S) /\ b \in S
    BY <2>2
  <2>4. <<b>> \o <<x, y>> \in Seq(S)
    BY <2>3, Concatenated
  <2>5. PingPong(tag, r) = <<x, y>>
    BY <2>1 DEF PingPong
  <2>6. PICK u, v : u = PingPong(tag, r) /\ v = <<b>> \o u
    OBVIOUS
  <2>7. u \in Seq(S) /\ v \in Seq(S)
    BY <2>3, <2>4, <2>5, <2>6
  <2>8. /\ Starts(Loops(r, n, <<>>, u, <<>>), r, n)
        /\ Starts(Loops(r, n, <<>>, u, <<b>>), r, n)
        /\ Starts(Loops(r, n, <<>>, v, <<>>), r, n)
    BY <1>1, <2>3, <2>7, LoopsStart
  <2> QED
    BY <1>1, <2>6, <2>8
<1>3. Starts(Loops(r, n, <<>>, do_bw_iteration(r), <<>>), r, n)
  <2>1. PICK x, y : x = AllWaited(OneWay("100", r, 0, WindowSize)) /\ y = OneWay("101", r, 1, 1)
    OBVIOUS
  <2>2. PICK S : S = {b, x, y}
    OBVIOUS
  <2>3. <<>> \in Seq(S) /\ <<x, y>> \in Seq(S) /\ b \in S
    BY <2>2
  <2>4. do_bw_iteration(r) = <<x, y>>
    BY <2>1 DEF do_bw_iteration
  <2>5. PICK u : u = do_bw_iteration(r) /\ u \in Seq(S)
    BY <2>3, <2>4
  <2> QED
    BY <1>1, <2>3, <2>5, LoopsStart
<1>4. Starts(Loops(r, n, <<Barrier(r, n)>>, do_bibw_iteration(r), <<>>), r, n)
  <2>1. PICK x : do_bibw_iteration(r) = <<x>>
    BY DEF do_bibw_iteration
  <2>2. PICK S : S = {b, x}
    OBVIOUS
  <2>3. <<>> \in Seq(S) /\ <<x>> \in Seq(S) /\ <<b>> \in Seq(S) /\ b \in S
    BY <2>2
  <2>4. PICK u : u = do_bibw_iteration(r) /\ u \in Seq(S)
    BY <2>1, <2>3
  <2> QED
    BY <1>1, <2>3, <2>4, LoopsStart
<1>5. /\ Starts(osu_latency(r, n), r, n)
      /\ Starts(osu_latency_mp(r, n), r, n)
      /\ Starts(osu_latency_mt(r, n), r, n)
  BY <1>2 DEF osu_latency, osu_latency_mp, osu_latency_mt
<1>6. /\ Starts(osu_latency_persistent(r, n), r, n)
      /\ Starts(osu_multi_lat(r, n), r, n)
      /\ Starts(osu_partitioned_latency(r, n), r, n)
  BY <1>2 DEF osu_latency_persistent, persistent_latency_iteration, osu_multi_lat,
              osu_partitioned_latency
<1>7. /\ Starts(osu_bw(r, n), r, n)
      /\ Starts(osu_mbw_mr(r, n), r, n)
      /\ Starts(osu_bw_persistent(r, n), r, n)
  BY <1>3 DEF osu_bw, osu_mbw_mr, do_mbw_mr_iteration, osu_bw_persistent, persistent_bw_iteration
<1>8. Starts(osu_bibw(r, n), r, n) /\ Starts(osu_bibw_persistent(r, n), r, n)
  BY <1>4 DEF osu_bibw, osu_bibw_persistent, persistent_bibw_iteration
<1> QED
  BY <1>5, <1>6, <1>7, <1>8 DEF PairPrograms

LEMMA ThirdRankFacts ==
  ASSUME NEW j \in JobsOfPairs, j.size # 2
  PROVE  /\ j \in Jobs /\ j \notin MatchedJobs
         /\ {0, 1, 2} \subseteq Members(j.size)
         /\ \A r \in Members(j.size) : Starts(Program(j, r), r, j.size)
<1>1. j \in Jobs /\ RunsPair(j)
  BY DEF JobsOfPairs
<1>2. j.size \in Nat /\ j.size > 2
  <2>1. j.size \in Nat \ {0}
    BY <1>1, ProgramAssumption
  <2> QED
    BY <1>1, <2>1 DEF RunsPair
<1>3. ASSUME NEW r \in Members(j.size)
      PROVE  Starts(Program(j, r), r, j.size)
  <2>1. PICK p \in PairPrograms(j.size) : \A q \in 0 .. j.size - 1 : Program(j, q) = p[q]
    BY <1>1 DEF RunsPair
  <2>2. r \in 0 .. j.size - 1
    BY DEF Members
  <2> QED
    BY <2>1, <2>2, PairStarts
<1>4. {0, 1, 2} \subseteq Members(j.size)
  BY <1>2 DEF Members
<1>5. j \notin MatchedJobs
  <2> SUFFICES ASSUME Matched(j)
               PROVE  FALSE
    BY DEF MatchedJobs
  <2>1. Len(Program(j, 0)) = Len(Program(j, 2))
    BY <1>4 DEF Matched, Members
  <2>2. Program(j, 2) = <<>> /\ 1 \in DOMAIN Program(j, 0)
    BY <1>3, <1>4 DEF Starts
  <2>3. Len(Program(j, 2)) = 0
    BY <2>2
  <2>4. Program(j, 0) # <<>> /\ DOMAIN Program(j, 0) = 1 .. Len(Program(j, 0))
    <3>1. \E S : Program(j, 0) \in Seq(S)
      BY <1>1, <1>4, ProgramAssumption DEF Members
    <3> QED
      BY <2>2, <3>1
  <2> QED
    BY <2>1, <2>2, <2>3, <2>4
<1> QED
  BY <1>1, <1>3, <1>4, <1>5

(* Nobody gets past the first barrier, and no message but one of it waits. *)
LEMMA ThirdRankWaits ==
  ASSUME TypeOK, NothingFromNowhere, BarriersSeparate, job \in JobsOfPairs, job.size # 2
  PROVE  /\ \A r \in Ranks : /\ at[r] \in {0, 1} /\ (at[r] = 1 => inside[r])
                             /\ at[r] = 1 => IsBarrier(r, 1)
         /\ \A s, d \in Ranks : \A i \in DOMAIN chan[s][d] :
              at[s] = 1 /\ chan[s][d][i] = MessageOf(s, 1) /\ chan[s][d][i].tag = BarrierTag
         /\ \A s, d \in Ranks : Len(chan[s][d]) <= 1
<1>1. /\ job \in Jobs /\ {0, 1, 2} \subseteq Ranks
      /\ \A r \in Ranks : Starts(Program(job, r), r, job.size)
  BY ThirdRankFacts DEF Members, Ranks
<1>2. BarriersBegun(2) = 0
  <2>1. Program(job, 2) = <<>>
    BY <1>1 DEF Starts
  <2>2. at[2] = 0
    BY <1>1, <2>1, StateFacts
  <2>3. {k \in 1 .. at[2] : IsBarrier(2, k)} = {}
    BY <2>2
  <2> QED
    BY <2>3, FS_EmptySet DEF BarriersBegun
<1>3. ASSUME NEW r \in Ranks
      PROVE  /\ at[r] \in {0, 1} /\ (at[r] = 1 => inside[r])
             /\ at[r] = 1 => IsBarrier(r, 1)
  <2>1. at[r] \in Nat /\ at[r] <= Len(Program(job, r)) /\ inside[r] \in BOOLEAN
    BY StateFacts
  <2>2. CASE r >= 2
    <3>1. Program(job, r) = <<>>
      BY <1>1, <2>2 DEF Starts
    <3> QED
      BY <2>1, <3>1
  <2>3. CASE ~(r >= 2)
    <3>1. 1 \in DOMAIN Program(job, r) /\ Program(job, r)[1] = Barrier(r, job.size)
      BY <1>1, <2>3 DEF Starts
    <3>2. IsBarrier(r, 1)
      BY <3>1 DEF IsBarrier, Barrier, ToAll, Exchange, BarrierTag
    <3>3. ~Passed(r, 1) \/ at[r] = 0
      <4> SUFFICES ASSUME Passed(r, 1), at[r] # 0
                   PROVE  FALSE
        OBVIOUS
      <4>1. PICK B : B = {k \in 1 .. at[r] : IsBarrier(r, k) /\ Passed(r, k)}
        OBVIOUS
      <4>2. 1 \in B /\ B \subseteq 1 .. at[r]
        BY <2>1, <3>2, <4>1
      <4>3. IsFiniteSet(1 .. at[r])
        BY <2>1, FS_Interval
      <4>4. IsFiniteSet(B) /\ Cardinality(B) \in Nat
        BY <4>2, <4>3, FS_Subset, FS_CardinalityType
      <4>5. Cardinality(B) # 0
        BY <4>2, <4>4, FS_EmptySet
      <4>6. Cardinality(B) <= 0
        BY <1>1, <1>2, <4>1 DEF BarriersSeparate, BarriersPassed
      <4> QED
        BY <4>4, <4>5, <4>6
    <3> QED
      BY <2>1, <3>2, <3>3 DEF Passed
  <2> QED
    BY <2>2, <2>3
<1>4. ASSUME NEW s \in Ranks, NEW d \in Ranks, NEW i \in DOMAIN chan[s][d]
      PROVE  at[s] = 1 /\ chan[s][d][i] = MessageOf(s, 1) /\ chan[s][d][i].tag = BarrierTag
  <2>1. chan[s][d][i].call \in 1 .. at[s] /\ chan[s][d][i] = MessageOf(s, chan[s][d][i].call)
    BY StateFacts
  <2>2. at[s] = 1 /\ chan[s][d][i].call = 1
    BY <1>3, <2>1
  <2>3. chan[s][d][i] = MessageOf(s, 1)
    BY <2>1, <2>2
  <2>4. MessageOf(s, 1).tag = BarrierTag
    BY <1>3, <2>2 DEF MessageOf, IsBarrier
  <2> QED
    BY <2>2, <2>3, <2>4
<1>5. ASSUME NEW s \in Ranks, NEW d \in Ranks
      PROVE  Len(chan[s][d]) <= 1
  <2>1. chan[s][d] \in Seq(Message)
    BY StateFacts
  <2>2. CASE at[s] = 0
    <3>1. \A i \in DOMAIN chan[s][d] : FALSE
      BY <1>4, <2>2
    <3>2. PICK q \in Seq(Message) : q = chan[s][d]
      BY <2>1
    <3>3. Len(q) \in Nat /\ (Len(q) > 0 => 1 \in DOMAIN q)
      OBVIOUS
    <3>4. Len(q) <= 1
      BY <3>1, <3>2, <3>3
    <3> QED
      BY <3>2, <3>4
  <2>3. CASE at[s] = 1
    <3>1. 1 \in DOMAIN Program(job, s) /\ 1 \in 1 .. at[s]
      BY <2>3, StateFacts
    <3>2. Waiting(s, d, 1) = Len(chan[s][d])
      <4>1. \A i \in 1 .. Len(chan[s][d]) : chan[s][d][i] = MessageOf(s, 1)
        BY <1>4, <2>1
      <4> QED
        BY <2>1, <4>1, CountSame DEF Waiting
    <3>3. Waiting(s, d, 1) <= Sent(s, d, 1)
      BY <3>1 DEF NothingFromNowhere
    <3>4. Sent(s, d, 1) \in Nat /\ Sent(s, d, 1) <= Due(s, d, 1) /\ Due(s, d, 1) \in Nat
      BY <3>1, CountFacts
    <3>5. Due(s, d, 1) <= 1
      <4>1. Due(s, d, 1) = IF d = s THEN 0 ELSE 1
        BY <1>1, <1>3, <2>3, <3>1, BarrierFacts
      <4> QED
        BY <4>1
    <3>6. Len(chan[s][d]) \in Nat
      BY <2>1
    <3> QED
      BY <3>2, <3>3, <3>4, <3>5, <3>6
  <2> QED
    BY <1>3, <2>2, <2>3
<1> QED
  BY <1>3, <1>4, <1>5
-----------------------------------------------------------------------------
(* Two windows wait at most, and a message of a barrier. *)

LEMMA PairLingers ==
  ASSUME NEW j \in JobsOfPairs, j.size = 2, NEW s \in Members(2), NEW d \in Members(2),
         NEW k \in DOMAIN Program(j, s), NEW m \in LingeringData(j, s, d, k)
  PROVE  \/ m \in {k - 1} \X (1 .. WindowSize)
         \/ m \in {k} \X (1 .. WindowSize) /\ Program(j, s)[k].tag # BarrierTag
<1>1. PICK c \in Lingering(j, s, d, k) : m \in {<<c, i>> : i \in 1 .. CountIn(Program(j, s)[c].to, d)}
  BY DEF LingeringData
<1>2. PICK i \in 1 .. CountIn(Program(j, s)[c].to, d) : m = <<c, i>>
  BY <1>1
<1>3. /\ c \in 1 .. k /\ Program(j, s)[c].tag # BarrierTag
      /\ j \in OrderedJobs /\ Answered(j) => k <= AnsweredIn(j, s, c, d)
  BY <1>1 DEF Lingering
<1>4. DOMAIN Program(j, s) = 1 .. Len(Program(j, s)) /\ Len(Program(j, s)) \in Nat
  <2>1. Program(j, s) \in Seq(CallsOf(2, WindowSize))
    BY PairFacts
  <2> QED
    BY <2>1
<1>5. k \in Nat /\ c \in Nat /\ c <= k /\ c \in DOMAIN Program(j, s)
  BY <1>3, <1>4
<1>6. CountIn(Program(j, s)[c].to, d) \in 0 .. WindowSize
  <2>1. Program(j, s)[c] \in CallsOf(2, WindowSize)
    BY <1>5, PairCalls
  <2> QED
    BY <2>1 DEF CallsOf
<1>7. i \in 1 .. WindowSize /\ CountIn(Program(j, s)[c].to, d) > 0
  BY <1>2, <1>6, PairAssumption
<1>8. c = k \/ c = k - 1
  <2>1. CASE c = k
    BY <2>1
  <2>2. CASE c < k
    <3>1. c + 1 \in DOMAIN Program(j, s)
      BY <1>4, <1>5, <2>2
    <3>2. AnsweredIn(j, s, c, d) = c + 1
      BY <1>3, <1>5, <1>7, <3>1, PairAnswers
    <3>3. k <= AnsweredIn(j, s, c, d)
      BY <1>3, PairOrdered
    <3> QED
      BY <1>5, <2>2, <3>2, <3>3
  <2> QED
    BY <1>5, <2>1, <2>2
<1> QED
  BY <1>2, <1>3, <1>7, <1>8

LEMMA PairQueueBound ==
  ASSUME NEW j \in JobsOfPairs, j.size = 2, NEW s \in Members(2), NEW d \in Members(2),
         NEW k \in DOMAIN Program(j, s)
  PROVE  /\ QueueBound(j, s, d, k) \in Int
         /\ QueueBound(j, s, d, k) <= 2 * WindowSize + 1
<1>1. PICK a, b, data : /\ a = {k - 1} \X (1 .. WindowSize)
                        /\ b = {k} \X (1 .. WindowSize)
                        /\ data = LingeringData(j, s, d, k)
  OBVIOUS
<1>2. WindowSize \in Nat /\ WindowSize > 0
  BY PairAssumption
<1>3. /\ IsFiniteSet(a) /\ Cardinality(a) = WindowSize
      /\ IsFiniteSet(b) /\ Cardinality(b) = WindowSize
  <2>1. PICK w, x, y : w = 1 .. WindowSize /\ x = {k - 1} /\ y = {k}
    OBVIOUS
  <2>2. IsFiniteSet(w) /\ Cardinality(w) = WindowSize
    BY <1>2, <2>1, FS_Interval
  <2>3. /\ IsFiniteSet(x) /\ Cardinality(x) = 1
        /\ IsFiniteSet(y) /\ Cardinality(y) = 1
    BY <2>1, FS_Singleton
  <2>4. /\ IsFiniteSet(x \X w) /\ Cardinality(x \X w) = 1 * WindowSize
        /\ IsFiniteSet(y \X w) /\ Cardinality(y \X w) = 1 * WindowSize
    BY <2>2, <2>3, FS_Product
  <2>5. a = x \X w /\ b = y \X w
    BY <1>1, <2>1
  <2> QED
    BY <1>2, <2>4, <2>5
<1>4. /\ data \subseteq a \cup b
      /\ Program(j, s)[k].tag = BarrierTag => data \subseteq a
  BY <1>1, PairLingers
<1>5. /\ IsFiniteSet(a \cup b) /\ Cardinality(a \cup b) \in Nat
      /\ Cardinality(a \cup b) <= WindowSize + WindowSize
  <2>1. /\ IsFiniteSet(a \cup b) /\ IsFiniteSet(a \cap b)
        /\ Cardinality(a \cup b) = Cardinality(a) + Cardinality(b) - Cardinality(a \cap b)
    BY <1>3, FS_Union, FS_Intersection
  <2>2. Cardinality(a \cap b) \in Nat /\ Cardinality(a \cup b) \in Nat
    BY <2>1, FS_CardinalityType
  <2> QED
    BY <1>2, <1>3, <2>1, <2>2
<1>6. /\ Cardinality(data) \in Nat /\ Cardinality(data) <= WindowSize + WindowSize
      /\ Program(j, s)[k].tag = BarrierTag => Cardinality(data) <= WindowSize
  <2>1. IsFiniteSet(data) /\ Cardinality(data) <= Cardinality(a \cup b)
    BY <1>4, <1>5, FS_Subset
  <2>2. Program(j, s)[k].tag = BarrierTag => Cardinality(data) <= Cardinality(a)
    BY <1>3, <1>4, FS_Subset
  <2>3. Cardinality(data) \in Nat
    BY <2>1, FS_CardinalityType
  <2> QED
    BY <1>2, <1>3, <1>5, <2>1, <2>2, <2>3
<1>7. QueueBound(j, s, d, k)
        = Cardinality(data) + (IF Program(j, s)[k].tag = BarrierTag THEN 2 ELSE 1)
  BY <1>1 DEF QueueBound
<1>8. CASE Program(j, s)[k].tag = BarrierTag
  <2>1. QueueBound(j, s, d, k) = Cardinality(data) + 2
    BY <1>7, <1>8
  <2> QED
    BY <1>2, <1>6, <1>8, <2>1
<1>9. CASE Program(j, s)[k].tag # BarrierTag
  <2>1. QueueBound(j, s, d, k) = Cardinality(data) + 1
    BY <1>7, <1>9
  <2> QED
    BY <1>2, <1>6, <2>1
<1> QED
  BY <1>8, <1>9

LEMMA PairsShort ==
  ASSUME NEW j \in JobsOfPairs, j.size = 2, 2 * WindowSize + 1 <= MaxQueued
  PROVE  Short(j)
<1>1. ASSUME NEW s \in Members(2), NEW d \in Members(2), NEW k \in DOMAIN Program(j, s)
      PROVE  QueueBound(j, s, d, k) <= MaxQueued
  <2>1. QueueBound(j, s, d, k) \in Int /\ QueueBound(j, s, d, k) <= 2 * WindowSize + 1
    BY PairQueueBound
  <2> QED
    BY <2>1, QueueAssumption, PairAssumption
<1> QED
  BY <1>1 DEF Short, Members

-----------------------------------------------------------------------------

(***************************************************************************)
(* Every point-to-point benchmark, with any number of message sizes and    *)
(* iterations and any window: each call returns one message of the other   *)
(* rank for each of its receives, and none of another call.                *)
(***************************************************************************)
THEOREM PairsTakeTheirOwn ==
  Spec => [](job \in JobsOfPairs => OneMessageOfEachPeer)
<1>1. job \in JobsOfPairs => job \in OrderedJobs \/ job \notin MatchedJobs
  BY PairOrdered, ThirdRankFacts
<1>2. job \notin MatchedJobs => OneMessageOfEachPeer
  BY DEF OneMessageOfEachPeer
<1> QED
  BY <1>1, <1>2, OrderedCallsTakeTheirOwn, PTL

(***************************************************************************)
(* ... although no send of a latency benchmark is waited for, the buffer it*)
(* was sent from is not given to a later send before the message has been  *)
(* taken, but for the next one ...                                         *)
(***************************************************************************)
LEMMA PairsReuse ==
  IInv => PairBuffersNotReusedEarly
<1> SUFFICES ASSUME IInv, job \in JobsOfPairs, NEW s \in Ranks, NEW d \in Ranks,
                    NEW i \in DOMAIN chan[s][d], chan[s][d][i].tag # BarrierTag,
                    Passed(s, chan[s][d][i].call + 1)
             PROVE  FALSE
  BY DEF PairBuffersNotReusedEarly
<1>1. TypeOK /\ NothingFromNowhere /\ BarriersSeparate
  BY DEF IInv, Accounts
<1>2. job.size = 2
  BY <1>1, ThirdRankWaits
<1>3. Ranks = Members(2)
  BY <1>2 DEF Ranks, Members
<1>4. PICK c : c = chan[s][d][i].call
  OBVIOUS
<1>5. /\ c \in 1 .. at[s] /\ c \in DOMAIN Program(job, s) /\ chan[s][d][i] = MessageOf(s, c)
      /\ at[s] \in Nat /\ at[s] <= Len(Program(job, s)) /\ chan[s][d] \in Seq(Message)
      /\ DOMAIN Program(job, s) = 1 .. Len(Program(job, s)) /\ Len(Program(job, s)) \in Nat
  <2>1. job \in Jobs
    BY <1>1, StateFacts
  <2> QED
    BY <1>1, <1>4, <2>1, StateFacts, ProgramFacts
<1>6. c + 1 \in DOMAIN Program(job, s)
  BY <1>4, <1>5 DEF Passed
<1>7. CallAt(s, c).tag # BarrierTag
  BY <1>5 DEF MessageOf, CallAt
<1>8. Due(s, d, c) > 0
  <2>1. Waiting(s, d, c) > 0
    BY <1>5, CountPositive DEF Waiting
  <2>2. /\ Waiting(s, d, c) \in Nat /\ Sent(s, d, c) \in Nat /\ Due(s, d, c) \in Nat
        /\ Sent(s, d, c) <= Due(s, d, c)
    BY <1>1, <1>5, CountFacts
  <2>3. Waiting(s, d, c) <= Sent(s, d, c)
    BY <1>1, <1>5 DEF NothingFromNowhere
  <2> QED
    BY <2>1, <2>2, <2>3
<1>9. AnsweredIn(job, s, c, d) = c + 1
  BY <1>2, <1>3, <1>5, <1>6, <1>7, <1>8, PairAnswers DEF CallAt, Due
<1>10. SendBuffersNotReusedEarly
  BY <1>2, IInvBuffers, PairOrdered
<1> QED
  BY <1>4, <1>9, <1>10 DEF SendBuffersNotReusedEarly

THEOREM PairsReuseNoBufferEarly ==
  Spec => []PairBuffersNotReusedEarly
  BY InductiveInvariant, PairsReuse, PTL

(***************************************************************************)
(* ... two ranks never both wait for each other, rendezvous or not ...     *)
(***************************************************************************)
THEOREM PairsNeverStuck ==
  Spec => [](job \in JobsOfPairs /\ job.size = 2 => NeverStuck)
<1>1. job \in JobsOfPairs /\ job.size = 2 => job \in MatchedJobs /\ job \in OrderedJobs
  BY PairOrdered
<1> QED
  BY <1>1, MatchedJobsNeverStuck, PTL

(***************************************************************************)
(* ... while of three or more no run ends: ranks 0 and 1 stay in the       *)
(* barrier to which the others, which have returned, never come ...        *)
(***************************************************************************)
THEOREM ThirdRankHangs ==
  Spec => [](job \in JobsOfPairs /\ job.size # 2 => ~Done)
<1>1. Accounts => (job \in JobsOfPairs /\ job.size # 2 => ~Done)
  <2> SUFFICES ASSUME Accounts, job \in JobsOfPairs, job.size # 2, Done
               PROVE  FALSE
    OBVIOUS
  <2>1. TypeOK /\ NothingFromNowhere /\ BarriersSeparate
    BY DEF Accounts
  <2>2. /\ 0 \in Ranks /\ Starts(Program(job, 0), 0, job.size) /\ at[0] \in {0, 1}
        /\ at[0] = 1 => inside[0]
    BY <2>1, ThirdRankFacts, ThirdRankWaits DEF Members, Ranks
  <2>3. at[0] = Len(Program(job, 0)) /\ ~inside[0]
    BY <2>2 DEF Done, Finished
  <2>4. at[0] = 0
    BY <2>2, <2>3
  <2>5. Program(job, 0) = <<>>
    <3>1. \E S : Program(job, 0) \in Seq(S)
      BY <2>1, <2>2, StateFacts, ProgramFacts
    <3> QED
      BY <2>3, <2>4, <3>1
  <2>6. DOMAIN Program(job, 0) = {}
    BY <2>5
  <2> QED
    BY <2>2, <2>6 DEF Starts
<1> QED
  BY <1>1, AccountsBalance, PTL

(* ... so no message is left for a later benchmark or teardown ... *)
THEOREM PairsLeaveNothing ==
  Spec => [](job \in JobsOfPairs => NothingLeftBehind)
<1>1. job \in JobsOfPairs => job \in MatchedJobs \/ job.size # 2
  BY PairFacts
<1>2. ~Done => NothingLeftBehind
  BY DEF NothingLeftBehind
<1> QED
  BY <1>1, <1>2, ThirdRankHangs, MatchedJobsLeaveNothing, PTL

(***************************************************************************)
(* ... and two windows and a barrier's message are all that ever waits,    *)
(* however many sizes and iterations the benchmark runs.                   *)
(***************************************************************************)
THEOREM PairsKeepQueuesShort ==
  Spec => [](job \in JobsOfPairs /\ 2 * WindowSize + 1 <= MaxQueued => QueuesStayShort)
<1>1. job \in JobsOfPairs /\ 2 * WindowSize + 1 <= MaxQueued =>
        (job \in MatchedJobs /\ Short(job)) \/ job.size # 2
  BY PairFacts, PairsShort
<1>2. Accounts => (job \in JobsOfPairs /\ job.size # 2 /\ 2 * WindowSize + 1 <= MaxQueued =>
                     QueuesStayShort)
  <2> SUFFICES ASSUME Accounts, job \in JobsOfPairs, job.size # 2,
                      2 * WindowSize + 1 <= MaxQueued, NEW s \in Ranks, NEW d \in Ranks
               PROVE  Len(chan[s][d]) <= MaxQueued
    BY DEF QueuesStayShort
  <2>1. TypeOK /\ NothingFromNowhere /\ BarriersSeparate
    BY DEF Accounts
  <2>2. Len(chan[s][d]) <= 1
    BY <2>1, ThirdRankWaits
  <2>3. Len(chan[s][d]) \in Nat
    <3>1. chan[s][d] \in Seq(Message)
      BY <2>1, StateFacts
    <3> QED
      BY <3>1
  <2> QED
    BY <2>2, <2>3, PairAssumption, QueueAssumption
<1> QED
  BY <1>1, <1>2, AccountsBalance, ShortJobsKeepQueuesShort, PTL
=============================================================================
