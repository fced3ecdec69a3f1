-------------------------- MODULE CollectiveProofs --------------------------
(***************************************************************************)
(* Theorems about the programs of CollectiveBenchmarks, for every number of*)
(* ranks and message sizes: the ranks make the same calls at each other, no*)
(* two calls of one tag are without a barrier in between, and who sends    *)
(* soon hears from the receiver.  So the theorems about such jobs of Job   *)
(* are theorems about these benchmarks.  Then about the programs of        *)
(* NonBlockingBenchmarks, which have no barriers in the warm-up but wait   *)
(* for no send.  The rings are not among them: rank 0 does not find its    *)
(* left neighbor.                                                          *)
(***************************************************************************)
EXTENDS MatchedProofs, CollectiveBenchmarks, NonBlockingBenchmarks

-----------------------------------------------------------------------------
(* Programs kept in order by barriers. *)

Fenced(q) == \E k \in DOMAIN q : q[k].tag = BarrierTag

(* What calls take before the first barrier, and after the last. *)
TakenEarly(q, tag) ==
  \E l \in DOMAIN q : q[l].takes = tag /\ \A b \in 1 .. l : q[b].tag # BarrierTag

TakenLate(q, tag) ==
  \E k \in DOMAIN q : q[k].takes = tag /\ \A b \in k .. Len(q) : q[b].tag # BarrierTag

(* Two calls that take the same tag have a barrier in between. *)
Apart(q) ==
  \A k, l \in DOMAIN q :
    k < l /\ q[k].takes = q[l].takes => \E b \in k .. l : q[b].tag = BarrierTag

(* A call that hears from every other rank. *)
Loud(call, r, n) == \A d \in Members(n) \ {r} : CountIn(call.from, d) > 0

(* Of two calls in a row one is loud, and so is the last. *)
Heard(q, r, n) ==
  /\ \A k \in DOMAIN q : k + 1 \in DOMAIN q => Loud(q[k], r, n) \/ Loud(q[k + 1], r, n)
  /\ Len(q) \in DOMAIN q => Loud(q[Len(q)], r, n)

(***************************************************************************)
(* Programs of n ranks that agree, and in each of which calls of one tag   *)
(* are kept apart by barriers: only tags of E are taken before the first   *)
(* barrier, only tags of L after the last.                                 *)
(***************************************************************************)
Orderly(n, E, L) ==
  {p \in Agreeing(n, 1) :
     \A r \in Members(n) :
       /\ Apart(p[r]) /\ Heard(p[r], r, n)
       /\ \A tag : (TakenEarly(p[r], tag) => tag \in E) /\ (TakenLate(p[r], tag) => tag \in L)}

-----------------------------------------------------------------------------
(* One program after another. *)

(* A barrier keeps what comes after it from what came before. *)
LEMMA JoinApart ==
  ASSUME NEW S, NEW a \in Seq(S), NEW b \in Seq(S), Apart(a), Apart(b),
         \A tag : ~(TakenLate(a, tag) /\ TakenEarly(b, tag))
  PROVE  Apart(a \o b)
<1> SUFFICES ASSUME NEW k \in DOMAIN (a \o b), NEW l \in DOMAIN (a \o b), k < l,
                    (a \o b)[k].takes = (a \o b)[l].takes
             PROVE  \E c \in k .. l : (a \o b)[c].tag = BarrierTag
  BY DEF Apart
<1>1. PICK m, n : m = Len(a) /\ n = Len(b)
  OBVIOUS
<1>2. /\ m \in Nat /\ n \in Nat /\ DOMAIN a = 1 .. m /\ DOMAIN b = 1 .. n
      /\ DOMAIN (a \o b) = 1 .. m + n
      /\ \A i \in 1 .. m : (a \o b)[i] = a[i]
      /\ \A i \in 1 .. n : (a \o b)[i + m] = b[i]
  BY <1>1, Concatenated
<1>0. k \in 1 .. m + n /\ l \in 1 .. m + n /\ k \in Nat /\ l \in Nat
  BY <1>2
<1>3. CASE l <= m
  <2>1. k \in DOMAIN a /\ l \in DOMAIN a /\ a[k].takes = a[l].takes
    BY <1>2, <1>3
  <2>2. PICK c \in k .. l : a[c].tag = BarrierTag
    BY <2>1 DEF Apart
  <2> QED
    BY <1>2, <1>3, <2>1, <2>2
<1>4. CASE k > m
  <2>1. PICK i, j : i = k - m /\ j = l - m
    OBVIOUS
  <2>2. i \in 1 .. n /\ j \in 1 .. n /\ i < j /\ k = i + m /\ l = j + m
    BY <1>0, <1>2, <1>4, <2>1
  <2>3. b[i].takes = b[j].takes
    BY <1>2, <2>2
  <2>4. PICK c \in i .. j : b[c].tag = BarrierTag
    BY <1>2, <2>2, <2>3 DEF Apart
  <2>5. c + m \in k .. l /\ (a \o b)[c + m] = b[c]
    BY <1>2, <2>2, <2>4
  <2> QED
    BY <2>4, <2>5
<1>5. CASE k <= m /\ l > m
  <2>1. PICK j : j = l - m
    OBVIOUS
  <2>2. k \in 1 .. m /\ j \in 1 .. n /\ l = j + m /\ a[k].takes = b[j].takes
    <3>1. k \in 1 .. m /\ j \in 1 .. n /\ l = j + m
      BY <1>0, <1>2, <1>5, <2>1
    <3> QED
      BY <1>2, <3>1
  <2>3. CASE \E c \in k .. m : a[c].tag = BarrierTag
    BY <1>2, <2>2, <2>3
  <2>4. CASE \E c \in 1 .. j : b[c].tag = BarrierTag
    <3>1. PICK c \in 1 .. j : b[c].tag = BarrierTag
      BY <2>4
    <3>2. c + m \in k .. l /\ (a \o b)[c + m] = b[c]
      BY <1>2, <2>2, <3>1
    <3> QED
      BY <3>1, <3>2
  <2>5. ASSUME ~\E c \in k .. m : a[c].tag = BarrierTag, ~\E c \in 1 .. j : b[c].tag = BarrierTag
        PROVE  FALSE
    <3>1. TakenLate(a, a[k].takes)
      BY <1>1, <1>2, <2>2, <2>5 DEF TakenLate
    <3>2. TakenEarly(b, b[j].takes)
      BY <1>2, <2>2, <2>5 DEF TakenEarly
    <3> QED
      BY <2>2, <3>1, <3>2
  <2> QED
    BY <2>3, <2>4, <2>5
<1> QED
  BY <1>2, <1>3, <1>4, <1>5

LEMMA JoinEnds ==
  ASSUME NEW S, NEW a \in Seq(S), NEW b \in Seq(S), NEW tag
  PROVE  /\ TakenEarly(a \o b, tag) => TakenEarly(a, tag) \/ (~Fenced(a) /\ TakenEarly(b, tag))
         /\ TakenLate(a \o b, tag) => TakenLate(b, tag) \/ (~Fenced(b) /\ TakenLate(a, tag))
         /\ Fenced(a) \/ Fenced(b) <=> Fenced(a \o b)
<1>1. PICK m, n : m = Len(a) /\ n = Len(b)
  OBVIOUS
<1>2. /\ m \in Nat /\ n \in Nat /\ DOMAIN a = 1 .. m /\ DOMAIN b = 1 .. n
      /\ DOMAIN (a \o b) = 1 .. m + n /\ Len(a \o b) = m + n
      /\ \A i \in 1 .. m : (a \o b)[i] = a[i]
      /\ \A i \in 1 .. n : (a \o b)[i + m] = b[i]
  BY <1>1, Concatenated
<1>3. \A i \in 1 .. m + n : i \in 1 .. m \/ \E j \in 1 .. n : i = j + m
  <2> TAKE i \in 1 .. m + n
  <2>1. i > m => i - m \in 1 .. n /\ i = (i - m) + m
    BY <1>2
  <2> QED
    BY <1>2, <2>1
<1>4. ASSUME TakenEarly(a \o b, tag)
      PROVE  TakenEarly(a, tag) \/ (~Fenced(a) /\ TakenEarly(b, tag))
  <2>1. PICK l \in 1 .. m + n : /\ (a \o b)[l].takes = tag
                                /\ \A c \in 1 .. l : (a \o b)[c].tag # BarrierTag
    BY <1>2, <1>4 DEF TakenEarly
  <2>2. CASE l \in 1 .. m
    BY <1>2, <2>1, <2>2 DEF TakenEarly
  <2>3. CASE l \notin 1 .. m
    <3>1. PICK j \in 1 .. n : l = j + m
      BY <1>3, <2>3
    <3>2. ~Fenced(a)
      BY <1>2, <2>1, <3>1 DEF Fenced
    <3>3. \A c \in 1 .. j : c + m \in 1 .. l /\ (a \o b)[c + m] = b[c]
      BY <1>2, <3>1
    <3>4. TakenEarly(b, tag)
      BY <1>2, <2>1, <3>1, <3>3 DEF TakenEarly
    <3> QED
      BY <3>2, <3>4
  <2> QED
    BY <2>2, <2>3
<1>5. ASSUME TakenLate(a \o b, tag)
      PROVE  TakenLate(b, tag) \/ (~Fenced(b) /\ TakenLate(a, tag))
  <2>1. PICK k \in 1 .. m + n : /\ (a \o b)[k].takes = tag
                                /\ \A c \in k .. m + n : (a \o b)[c].tag # BarrierTag
    BY <1>2, <1>5 DEF TakenLate
  <2>2. CASE k \in 1 .. m
    <3>1. \A c \in 1 .. n : c + m \in k .. m + n /\ (a \o b)[c + m] = b[c]
      BY <1>2, <2>2
    <3>2. ~Fenced(b)
      BY <1>2, <2>1, <3>1 DEF Fenced
    <3>3. \A c \in k .. m : c \in k .. m + n /\ (a \o b)[c] = a[c]
      BY <1>2, <2>2
    <3>4. TakenLate(a, tag)
      BY <1>1, <1>2, <2>1, <2>2, <3>3 DEF TakenLate
    <3> QED
      BY <3>2, <3>4
  <2>3. CASE k \notin 1 .. m
    <3>1. PICK j \in 1 .. n : k = j + m
      BY <1>3, <2>3
    <3>2. \A c \in j .. n : c \in 1 .. n /\ c + m \in k .. m + n /\ (a \o b)[c + m] = b[c]
      BY <1>2, <3>1
    <3>3. \A c \in j .. n : b[c].tag # BarrierTag
      BY <2>1, <3>2
    <3>4. j \in j .. n /\ b[j].takes = tag
      BY <1>2, <2>1, <3>1
    <3>5. TakenLate(b, tag)
      BY <1>1, <1>2, <3>1, <3>3, <3>4 DEF TakenLate
    <3> QED
      BY <3>5
  <2> QED
    BY <2>2, <2>3
<1>6. Fenced(a) \/ Fenced(b) => Fenced(a \o b)
  <2>1. Fenced(a) => Fenced(a \o b)
    BY <1>2 DEF Fenced
  <2>2. ASSUME Fenced(b)
        PROVE  Fenced(a \o b)
    <3>1. PICK j \in 1 .. n : b[j].tag = BarrierTag
      BY <1>2, <2>2 DEF Fenced
    <3>2. j + m \in 1 .. m + n /\ (a \o b)[j + m] = b[j]
      BY <1>2
    <3> QED
      BY <1>2, <3>1, <3>2 DEF Fenced
  <2> QED
    BY <2>1, <2>2
<1>7. Fenced(a \o b) => Fenced(a) \/ Fenced(b)
  BY <1>2, <1>3 DEF Fenced
<1> QED
  BY <1>4, <1>5, <1>6, <1>7

LEMMA JoinHeard ==
  ASSUME NEW S, NEW a \in Seq(S), NEW b \in Seq(S), NEW r, NEW n, Heard(a, r, n), Heard(b, r, n)
  PROVE  Heard(a \o b, r, n)
<1>1. PICK m, l : m = Len(a) /\ l = Len(b)
  OBVIOUS
<1>2. /\ m \in Nat /\ l \in Nat /\ DOMAIN a = 1 .. m /\ DOMAIN b = 1 .. l
      /\ DOMAIN (a \o b) = 1 .. m + l /\ Len(a \o b) = m + l
      /\ \A i \in 1 .. m : (a \o b)[i] = a[i]
      /\ \A i \in 1 .. l : (a \o b)[i + m] = b[i]
  BY <1>1, Concatenated
<1>3. /\ \A k \in 1 .. m : k + 1 \in 1 .. m => Loud(a[k], r, n) \/ Loud(a[k + 1], r, n)
      /\ \A k \in 1 .. l : k + 1 \in 1 .. l => Loud(b[k], r, n) \/ Loud(b[k + 1], r, n)
      /\ m > 0 => Loud(a[m], r, n)
      /\ l > 0 => Loud(b[l], r, n)
  <2>1. (m > 0 => m \in DOMAIN a) /\ (l > 0 => l \in DOMAIN b)
    BY <1>2
  <2> QED
    BY <1>1, <1>2, <2>1 DEF Heard
<1>4. ASSUME NEW k \in 1 .. m + l, k + 1 \in 1 .. m + l
      PROVE  Loud((a \o b)[k], r, n) \/ Loud((a \o b)[k + 1], r, n)
  <2>1. CASE k < m
    <3>1. k \in 1 .. m /\ k + 1 \in 1 .. m
      BY <1>2, <2>1
    <3> QED
      BY <1>2, <1>3, <3>1
  <2>2. CASE k = m
    <3>1. k \in 1 .. m /\ m > 0
      BY <1>2, <2>2
    <3> QED
      BY <1>2, <1>3, <2>2, <3>1
  <2>3. CASE k > m
    <3>1. PICK j : j = k - m
      OBVIOUS
    <3>2. j \in 1 .. l /\ j + 1 \in 1 .. l /\ k = j + m /\ k + 1 = (j + 1) + m
      BY <1>2, <1>4, <2>3, <3>1
    <3>3. (a \o b)[k] = b[j] /\ (a \o b)[k + 1] = b[j + 1]
      BY <1>2, <3>2
    <3> QED
      BY <1>3, <3>2, <3>3
  <2>4. k < m \/ k = m \/ k > m
    BY <1>2, <1>4
  <2> QED
    BY <2>1, <2>2, <2>3, <2>4
<1>5. ASSUME m + l \in 1 .. m + l
      PROVE  Loud((a \o b)[m + l], r, n)
  <2>1. CASE l > 0
    <3>1. l \in 1 .. l /\ l + m = m + l
      BY <1>2, <2>1
    <3>2. (a \o b)[m + l] = b[l]
      BY <1>2, <3>1
    <3> QED
      BY <1>3, <2>1, <3>2
  <2>2. CASE ~(l > 0)
    <3>1. l = 0 /\ m > 0 /\ m \in 1 .. m /\ m + l = m
      BY <1>2, <1>5, <2>2
    <3>2. (a \o b)[m + l] = a[m]
      BY <1>2, <3>1
    <3> QED
      BY <1>3, <3>1, <3>2
  <2> QED
    BY <2>1, <2>2
<1> QED
  BY <1>2, <1>4, <1>5 DEF Heard

(***************************************************************************)
(* Orderly programs, one after the other: the second takes none of the     *)
(* first's late tags early; a barrier in one of them hides ends of the     *)
(* other.                                                                  *)
(***************************************************************************)
LEMMA JoinOrderly ==
  ASSUME NEW n, NEW E1, NEW L1, NEW E2, NEW L2, NEW E, NEW L,
         NEW p \in Orderly(n, E1, L1), NEW q \in Orderly(n, E2, L2),
         L1 \cap E2 = {}, E1 \subseteq E, L2 \subseteq L,
         E2 \subseteq E \/ \A r \in Members(n) : Fenced(p[r]),
         L1 \subseteq L \/ \A r \in Members(n) : Fenced(q[r])
  PROVE  /\ Join(n, p, q) \in Orderly(n, E, L)
         /\ \A r \in Members(n) : Fenced(Join(n, p, q)[r]) <=> Fenced(p[r]) \/ Fenced(q[r])
<1>1. p \in Agreeing(n, 1) /\ q \in Agreeing(n, 1)
  BY DEF Orderly
<1>2. ASSUME NEW r \in Members(n)
      PROVE  /\ Join(n, p, q)[r] = p[r] \o q[r]
             /\ p[r] \in Seq(CallsOf(n, 1)) /\ q[r] \in Seq(CallsOf(n, 1))
             /\ Apart(p[r]) /\ Heard(p[r], r, n) /\ Apart(q[r]) /\ Heard(q[r], r, n)
             /\ \A tag : (TakenEarly(p[r], tag) => tag \in E1) /\ (TakenLate(p[r], tag) => tag \in L1)
             /\ \A tag : (TakenEarly(q[r], tag) => tag \in E2) /\ (TakenLate(q[r], tag) => tag \in L2)
  <2>1. p[r] \in Seq(CallsOf(n, 1)) /\ q[r] \in Seq(CallsOf(n, 1))
    BY <1>1 DEF Agreeing
  <2>2. Join(n, p, q)[r] = p[r] \o q[r]
    BY DEF Join
  <2> QED
    BY <2>1, <2>2 DEF Orderly
<1>3. Join(n, p, q) \in Agreeing(n, 1)
  BY <1>1, JoinAgrees
<1>6. ASSUME NEW r \in Members(n)
      PROVE  /\ Apart(Join(n, p, q)[r]) /\ Heard(Join(n, p, q)[r], r, n)
             /\ Fenced(Join(n, p, q)[r]) <=> Fenced(p[r]) \/ Fenced(q[r])
  <2>1. Apart(p[r] \o q[r])
    <3>1. \A tag : ~(TakenLate(p[r], tag) /\ TakenEarly(q[r], tag))
      BY <1>2
    <3> QED
      BY <1>2, <3>1, JoinApart
  <2>2. Heard(p[r] \o q[r], r, n)
    BY <1>2, JoinHeard
  <2>3. Fenced(p[r] \o q[r]) <=> Fenced(p[r]) \/ Fenced(q[r])
    BY <1>2, JoinEnds
  <2> QED
    BY <1>2, <2>1, <2>2, <2>3
<1>7. ASSUME NEW r \in Members(n), NEW tag
      PROVE  /\ TakenEarly(Join(n, p, q)[r], tag) => tag \in E
             /\ TakenLate(Join(n, p, q)[r], tag) => tag \in L
  <2>1. /\ TakenEarly(p[r] \o q[r], tag) => TakenEarly(p[r], tag) \/ (~Fenced(p[r]) /\ TakenEarly(q[r], tag))
        /\ TakenLate(p[r] \o q[r], tag) => TakenLate(q[r], tag) \/ (~Fenced(q[r]) /\ TakenLate(p[r], tag))
    BY <1>2, JoinEnds
  <2> QED
    BY <1>2, <2>1
<1> QED
  BY <1>3, <1>6, <1>7 DEF Orderly

(* Programs that take none of the same tags, neither with a barrier. *)
LEMMA JoinOthers ==
  ASSUME NEW n, NEW A, NEW B,
         NEW p \in Orderly(n, A, A), NEW q \in Orderly(n, B, B), A \cap B = {}
  PROVE  Join(n, p, q) \in Orderly(n, A \cup B, A \cup B)
<1>1. PICK C : C = A \cup B
  OBVIOUS
<1>2. A \subseteq C /\ B \subseteq C
  BY <1>1
<1>3. Join(n, p, q) \in Orderly(n, C, C)
  BY <1>2, JoinOrderly
<1> QED
  BY <1>1, <1>3

-----------------------------------------------------------------------------
(* The calls of a collective fit. *)

(* One call of every rank, all with the same tag. *)
Regular(n, tag) ==
  {c \in Meeting(n, 1) : \A r \in Members(n) : c[r].tag = tag /\ c[r].takes = tag}

LEMMA ToAllRegular ==
  ASSUME NEW n \in Nat \ {0}, NEW tag \in Tags
  PROVE  /\ [r \in Members(n) |-> ToAll(tag, r, n)] \in Regular(n, tag)
         /\ \A r \in Members(n) : Loud(ToAll(tag, r, n), r, n)
<1>1. 1 \in Nat \ {0}
  OBVIOUS
<1>2. /\ [r \in Members(n) |-> ToAll(tag, r, n)] \in Meeting(n, 1)
      /\ \A r \in Members(n) : ToAll(tag, r, n).tag = tag /\ ToAll(tag, r, n).takes = tag
  BY <1>1, ToAllMeets
<1>3. \A r \in Members(n) : \A d \in Members(n) \ {r} : CountIn(ToAll(tag, r, n).from, d) > 0
  BY <1>1, ToAllMeets
<1> QED
  BY <1>2, <1>3 DEF Regular, Loud

LEMMA RootSendsRegular ==
  ASSUME NEW n \in Nat \ {0}, NEW tag \in Tags, NEW root \in Members(n)
  PROVE  [r \in Members(n) |-> RootSends(tag, r, n, root)] \in Regular(n, tag)
<1> DEFINE c(r) == RootSends(tag, r, n, root)
<1>1. ASSUME NEW r \in Members(n)
      PROVE  /\ c(r) \in CallsOf(n, 1) /\ c(r).tag = tag /\ c(r).takes = tag
             /\ r = root => c(r).to = PeersOf(r, n) /\ c(r).from = <<>>
             /\ r # root => c(r).to = <<>> /\ c(r).from = <<root>>
  <2>1. <<>> \in Seq(Members(n)) /\ <<root>> \in Seq(Members(n)) /\ PeersOf(r, n) \in Seq(Members(n))
    BY EveryPeerOnce
  <2>2. ASSUME NEW d \in Members(n)
        PROVE  /\ CountIn(<<>>, d) \in 0 .. 1 /\ CountIn(<<root>>, d) \in 0 .. 1
               /\ CountIn(PeersOf(r, n), d) \in 0 .. 1
    <3>1. CountIn(PeersOf(r, n), d) = 0 \/ CountIn(PeersOf(r, n), d) = 1
      BY EveryPeerOnce
    <3>2. CountIn(<<root>>, d) = 0 \/ CountIn(<<root>>, d) = 1
      BY CountOne
    <3>3. CountIn(<<>>, d) = 0
      BY CountEmpty
    <3> QED
      BY <3>1, <3>2, <3>3
  <2> QED
    BY <2>1, <2>2 DEF RootSends, Exchange, NoPeers, CallsOf, Waits
<1>2. ASSUME NEW s \in Members(n), NEW d \in Members(n)
      PROVE  Fits(s, d, c(s), c(d))
  <2> HIDE DEF c
  <2>1. CountIn(PeersOf(s, n), s) = 0 /\ (s # d => CountIn(PeersOf(s, n), d) = 1)
    BY EveryPeerOnce
  <2>2. CountIn(<<>>, s) = 0 /\ CountIn(<<>>, d) = 0
    BY CountEmpty
  <2>3. (root = s => CountIn(<<root>>, s) = 1) /\ (root # s => CountIn(<<root>>, s) = 0)
    BY CountOne
  <2>4. (s = root => c(s).to = PeersOf(s, n)) /\ (s # root => c(s).to = <<>>) /\ c(s).tag = tag
    BY <1>1
  <2>5. (d = root => c(d).from = <<>>) /\ (d # root => c(d).from = <<root>>) /\ c(d).takes = tag
    BY <1>1
  <2> QED
    BY <2>1, <2>2, <2>3, <2>4, <2>5 DEF Fits
<1>3. [r \in Members(n) |-> c(r)] \in Regular(n, tag)
  <2> HIDE DEF c
  <2> QED
    BY <1>1, <1>2 DEF Regular, Meeting
<1> QED
  BY <1>3

LEMMA RootReceivesRegular ==
  ASSUME NEW n \in Nat \ {0}, NEW tag \in Tags, NEW root \in Members(n)
  PROVE  [r \in Members(n) |-> RootReceives(tag, r, n, root)] \in Regular(n, tag)
<1> DEFINE c(r) == RootReceives(tag, r, n, root)
<1>1. ASSUME NEW r \in Members(n)
      PROVE  /\ c(r) \in CallsOf(n, 1) /\ c(r).tag = tag /\ c(r).takes = tag
             /\ r = root => c(r).to = <<>> /\ c(r).from = PeersOf(r, n)
             /\ r # root => c(r).to = <<root>> /\ c(r).from = <<>>
  <2>1. <<>> \in Seq(Members(n)) /\ <<root>> \in Seq(Members(n)) /\ PeersOf(r, n) \in Seq(Members(n))
    BY EveryPeerOnce
  <2>2. ASSUME NEW d \in Members(n)
        PROVE  /\ CountIn(<<>>, d) \in 0 .. 1 /\ CountIn(<<root>>, d) \in 0 .. 1
               /\ CountIn(PeersOf(r, n), d) \in 0 .. 1
    <3>1. CountIn(PeersOf(r, n), d) = 0 \/ CountIn(PeersOf(r, n), d) = 1
      BY EveryPeerOnce
    <3>2. CountIn(<<root>>, d) = 0 \/ CountIn(<<root>>, d) = 1
      BY CountOne
    <3>3. CountIn(<<>>, d) = 0
      BY CountEmpty
    <3> QED
      BY <3>1, <3>2, <3>3
  <2> QED
    BY <2>1, <2>2 DEF RootReceives, Exchange, NoPeers, CallsOf, Waits
<1>2. ASSUME NEW s \in Members(n), NEW d \in Members(n)
      PROVE  Fits(s, d, c(s), c(d))
  <2> HIDE DEF c
  <2>1. CountIn(PeersOf(d, n), d) = 0 /\ (s # d => CountIn(PeersOf(d, n), s) = 1)
    BY EveryPeerOnce
  <2>2. CountIn(<<>>, s) = 0 /\ CountIn(<<>>, d) = 0
    BY CountEmpty
  <2>3. (root = d => CountIn(<<root>>, d) = 1) /\ (root # d => CountIn(<<root>>, d) = 0)
    BY CountOne
  <2>4. (s = root => c(s).to = <<>>) /\ (s # root => c(s).to = <<root>>) /\ c(s).tag = tag
    BY <1>1
  <2>5. (d = root => c(d).from = PeersOf(d, n)) /\ (d # root => c(d).from = <<>>) /\ c(d).takes = tag
    BY <1>1
  <2> QED
    BY <2>1, <2>2, <2>3, <2>4, <2>5 DEF Fits
<1>3. [r \in Members(n) |-> c(r)] \in Regular(n, tag)
  <2> HIDE DEF c
  <2> QED
    BY <1>1, <1>2 DEF Regular, Meeting
<1> QED
  BY <1>3

(* Whether sends are waited for, or what is received is kept, is nothing to the peers. *)
LEMMA SameTraffic ==
  ASSUME NEW n, NEW tag, NEW c \in Regular(n, tag), NEW b \in [Members(n) -> CallsOf(n, 1)],
         \A r \in Members(n) : /\ b[r].tag = c[r].tag /\ b[r].takes = c[r].takes
                               /\ b[r].to = c[r].to /\ b[r].from = c[r].from
  PROVE  b \in Regular(n, tag)
  BY DEF Regular, Meeting, Fits

LEMMA AwaitedRegular ==
  ASSUME NEW n, NEW tag, NEW c \in Regular(n, tag)
  PROVE  [r \in Members(n) |-> Awaited(c[r])] \in Regular(n, tag)
<1>1. c \in [Members(n) -> CallsOf(n, 1)]
  BY DEF Regular, Meeting
<1>2. ASSUME NEW r \in Members(n)
      PROVE  /\ Awaited(c[r]) \in CallsOf(n, 1)
             /\ Awaited(c[r]).tag = c[r].tag /\ Awaited(c[r]).takes = c[r].takes
             /\ Awaited(c[r]).to = c[r].to /\ Awaited(c[r]).from = c[r].from
  <2>1. c[r] \in CallsOf(n, 1)
    BY <1>1
  <2> QED
    BY <2>1 DEF Awaited, CallsOf, Waits
<1> DEFINE b == [r \in Members(n) |-> Awaited(c[r])]
<1>3. /\ b \in [Members(n) -> CallsOf(n, 1)]
      /\ \A r \in Members(n) : /\ b[r].tag = c[r].tag /\ b[r].takes = c[r].takes
                               /\ b[r].to = c[r].to /\ b[r].from = c[r].from
  BY <1>2
<1>4. b \in Regular(n, tag)
  <2> HIDE DEF b
  <2> QED
    BY <1>3, SameTraffic
<1> QED
  BY <1>4

-----------------------------------------------------------------------------
(* The pieces of a benchmark. *)

(* A call that hears from everyone is orderly by itself; a barrier is a fence, too. *)
LEMMA OneCall ==
  ASSUME NEW n, NEW tag, NEW c \in Regular(n, tag), \A r \in Members(n) : Loud(c[r], r, n)
  PROVE  /\ [r \in Members(n) |-> <<c[r]>>] \in Orderly(n, {tag} \ {BarrierTag}, {tag} \ {BarrierTag})
         /\ tag = BarrierTag => \A r \in Members(n) : Fenced(<<c[r]>>)
<1> DEFINE p == [r \in Members(n) |-> <<c[r]>>]
<1>1. ASSUME NEW r \in Members(n)
      PROVE  /\ p[r] = <<c[r]>> /\ p[r] \in Seq(CallsOf(n, 1)) /\ c[r].tag = tag /\ c[r].takes = tag
             /\ Len(p[r]) = 1 /\ DOMAIN p[r] = {1} /\ p[r][1] = c[r]
  BY DEF Regular, Meeting
<1>2. p \in Agreeing(n, 1)
  BY CallAgrees DEF Regular
<1> HIDE DEF p
<1>5. ASSUME NEW r \in Members(n)
      PROVE  /\ Apart(p[r]) /\ Heard(p[r], r, n)
             /\ \A t : /\ TakenEarly(p[r], t) => t \in {tag} \ {BarrierTag}
                       /\ TakenLate(p[r], t) => t \in {tag} \ {BarrierTag}
             /\ tag = BarrierTag => Fenced(p[r])
  <2>1. /\ DOMAIN p[r] = {1} /\ Len(p[r]) = 1 /\ p[r][1] = c[r]
        /\ c[r].tag = tag /\ c[r].takes = tag /\ Loud(c[r], r, n)
    BY <1>1
  <2>2. Apart(p[r])
    BY <2>1 DEF Apart
  <2>3. Heard(p[r], r, n)
    BY <2>1 DEF Heard
  <2>4. ASSUME NEW t
        PROVE  /\ TakenEarly(p[r], t) => t \in {tag} \ {BarrierTag}
               /\ TakenLate(p[r], t) => t \in {tag} \ {BarrierTag}
    <3>1. 1 \in 1 .. 1
      OBVIOUS
    <3> QED
      BY <2>1, <3>1 DEF TakenEarly, TakenLate
  <2>5. tag = BarrierTag => Fenced(p[r])
    BY <2>1 DEF Fenced
  <2> QED
    BY <2>2, <2>3, <2>4, <2>5
<1>6. p \in Orderly(n, {tag} \ {BarrierTag}, {tag} \ {BarrierTag})
  BY <1>2, <1>5 DEF Orderly
<1> QED
  BY <1>1, <1>5, <1>6 DEF p

LEMMA BarrierCall ==
  ASSUME NEW n \in Nat \ {0}
  PROVE  /\ [r \in Members(n) |-> Barrier(r, n)] \in Regular(n, BarrierTag)
         /\ [r \in Members(n) |-> <<Barrier(r, n)>>] \in Orderly(n, {}, {})
         /\ \A r \in Members(n) : /\ Loud(Barrier(r, n), r, n)
                                  /\ Fenced(<<Barrier(r, n)>>) /\ Barrier(r, n).tag = BarrierTag
<1> DEFINE b == [r \in Members(n) |-> Barrier(r, n)]
<1>1. b \in Regular(n, BarrierTag) /\ \A r \in Members(n) : Loud(Barrier(r, n), r, n)
  <2>1. BarrierTag \in Tags /\ BarrierTag = "BEEFCAFE"
    BY DEF Tags, BarrierTag
  <2> QED
    BY <2>1, ToAllRegular DEF Barrier
<1>2. \A r \in Members(n) : b[r] = Barrier(r, n)
  OBVIOUS
<1>3. [r \in Members(n) |-> <<b[r]>>] = [r \in Members(n) |-> <<Barrier(r, n)>>]
  OBVIOUS
<1> HIDE DEF b
<1>4. /\ [r \in Members(n) |-> <<b[r]>>] \in Orderly(n, {BarrierTag} \ {BarrierTag}, {BarrierTag} \ {BarrierTag})
      /\ \A r \in Members(n) : Fenced(<<b[r]>>)
  BY <1>1, <1>2, OneCall
<1>5. {BarrierTag} \ {BarrierTag} = {}
  OBVIOUS
<1>6. \A r \in Members(n) : b[r].tag = BarrierTag
  BY <1>1 DEF Regular
<1> QED
  BY <1>1, <1>2, <1>3, <1>4, <1>5, <1>6 DEF b

(* An iteration: the collective, heard or not, and a barrier. *)
LEMMA OneIteration ==
  ASSUME NEW n \in Nat \ {0}, NEW tag, NEW c \in Regular(n, tag)
  PROVE  /\ [r \in Members(n) |-> <<c[r], Barrier(r, n)>>] \in Orderly(n, {tag}, {})
         /\ \A r \in Members(n) : Fenced(<<c[r], Barrier(r, n)>>)
<1> DEFINE p == [r \in Members(n) |-> <<c[r], Barrier(r, n)>>]
<1>1. ASSUME NEW r \in Members(n)
      PROVE  /\ p[r] = <<c[r], Barrier(r, n)>> /\ p[r] \in Seq(CallsOf(n, 1))
             /\ Len(p[r]) = 2 /\ DOMAIN p[r] = {1, 2}
             /\ p[r][1] = c[r] /\ p[r][2] = Barrier(r, n)
             /\ c[r].takes = tag /\ Barrier(r, n).tag = BarrierTag
             /\ Loud(Barrier(r, n), r, n)
  <2>1. c[r] \in CallsOf(n, 1) /\ c[r].takes = tag
    BY DEF Regular, Meeting
  <2>2. Barrier(r, n) \in CallsOf(n, 1)
    BY BarrierCall DEF Regular, Meeting
  <2>3. Barrier(r, n).tag = BarrierTag /\ Loud(Barrier(r, n), r, n)
    BY BarrierCall
  <2>4. DOMAIN <<c[r], Barrier(r, n)>> = {1, 2}
    OBVIOUS
  <2> QED
    BY <2>1, <2>2, <2>3, <2>4
<1>2. p \in [Members(n) -> Seq(CallsOf(n, 1))]
  BY <1>1
<1> HIDE DEF p
<1>3. Agree(n, p)
  <2> SUFFICES ASSUME NEW s \in Members(n), NEW d \in Members(n)
               PROVE  Len(p[s]) = Len(p[d]) /\ \A k \in DOMAIN p[s] : Fits(s, d, p[s][k], p[d][k])
    BY DEF Agree
  <2>1. Fits(s, d, c[s], c[d])
    BY DEF Regular, Meeting
  <2>2. Fits(s, d, Barrier(s, n), Barrier(d, n))
    BY BarrierCall DEF Regular, Meeting
  <2>3. /\ Len(p[s]) = 2 /\ DOMAIN p[s] = {1, 2} /\ p[s][1] = c[s] /\ p[s][2] = Barrier(s, n)
        /\ Len(p[d]) = 2 /\ p[d][1] = c[d] /\ p[d][2] = Barrier(d, n)
    BY <1>1
  <2> QED
    BY <2>1, <2>2, <2>3
<1>4. ASSUME NEW r \in Members(n)
      PROVE  /\ Apart(p[r]) /\ Heard(p[r], r, n) /\ Fenced(p[r])
             /\ \A t : (TakenEarly(p[r], t) => t \in {tag}) /\ ~TakenLate(p[r], t)
  <2>1. /\ DOMAIN p[r] = {1, 2} /\ Len(p[r]) = 2 /\ p[r][1] = c[r] /\ p[r][2] = Barrier(r, n)
        /\ c[r].takes = tag /\ Barrier(r, n).tag = BarrierTag /\ Loud(Barrier(r, n), r, n)
    BY <1>1
  <2>2. Apart(p[r])
    BY <2>1 DEF Apart
  <2>3. Heard(p[r], r, n)
    BY <2>1 DEF Heard
  <2>4. Fenced(p[r])
    BY <2>1 DEF Fenced
  <2>5. ASSUME NEW t, TakenEarly(p[r], t)
        PROVE  t = tag
    <3>1. PICK l \in {1, 2} : p[r][l].takes = t /\ \A b \in 1 .. l : p[r][b].tag # BarrierTag
      BY <2>1, <2>5 DEF TakenEarly
    <3>2. l # 2
      BY <2>1, <3>1
    <3> QED
      BY <2>1, <3>1, <3>2
  <2>6. ASSUME NEW t, TakenLate(p[r], t)
        PROVE  FALSE
    <3>1. PICK k \in {1, 2} : \A b \in k .. 2 : p[r][b].tag # BarrierTag
      BY <2>1, <2>6 DEF TakenLate
    <3>2. 2 \in k .. 2
      BY <3>1
    <3> QED
      BY <2>1, <3>1, <3>2
  <2> QED
    BY <2>2, <2>3, <2>4, <2>5, <2>6
<1>5. p \in Orderly(n, {tag}, {})
  BY <1>2, <1>3, <1>4 DEF Orderly, Agreeing
<1> QED
  BY <1>1, <1>4, <1>5 DEF p

(* The allreduces over the timings. *)
StatisticsTags == {"DEADBEEF", "DEAD0001", "DEAD0002", "DEAD0003"}

LEMMA StatisticsOrderly ==
  ASSUME NEW n \in Nat \ {0}
  PROVE  [r \in Members(n) |-> Statistics(r, n)] \in Orderly(n, StatisticsTags, StatisticsTags)
<1> DEFINE one(tag) == [r \in Members(n) |-> <<ToAll(tag, r, n)>>]
<1>1. ASSUME NEW tag \in StatisticsTags
      PROVE  one(tag) \in Orderly(n, {tag}, {tag})
  <2>1. tag \in Tags /\ tag # BarrierTag
    BY DEF Tags, StatisticsTags, BarrierTag
  <2> DEFINE c == [r \in Members(n) |-> ToAll(tag, r, n)]
  <2>2. c \in Regular(n, tag) /\ \A r \in Members(n) : Loud(c[r], r, n)
    BY <2>1, ToAllRegular
  <2>3. one(tag) = [r \in Members(n) |-> <<c[r]>>]
    OBVIOUS
  <2>4. {tag} \ {BarrierTag} = {tag}
    BY <2>1
  <2> HIDE DEF c, one
  <2> QED
    BY <2>2, <2>3, <2>4, OneCall
<1>2. /\ one("DEADBEEF") \in Orderly(n, {"DEADBEEF"}, {"DEADBEEF"})
      /\ one("DEAD0001") \in Orderly(n, {"DEAD0001"}, {"DEAD0001"})
      /\ one("DEAD0002") \in Orderly(n, {"DEAD0002"}, {"DEAD0002"})
      /\ one("DEAD0003") \in Orderly(n, {"DEAD0003"}, {"DEAD0003"})
  <2> HIDE DEF one
  <2> QED
    BY <1>1 DEF StatisticsTags
<1>3. PICK A, B, C : /\ A = {"DEADBEEF"} \cup {"DEAD0001"}
                     /\ B = A \cup {"DEAD0002"} /\ C = B \cup {"DEAD0003"}
  OBVIOUS
<1>4. C = StatisticsTags
  BY <1>3 DEF StatisticsTags
<1> DEFINE p == Join(n, one("DEADBEEF"), one("DEAD0001"))
           q == Join(n, p, one("DEAD0002"))
           s == Join(n, q, one("DEAD0003"))
<1>5. s = [r \in Members(n) |-> Statistics(r, n)]
  <2>1. ASSUME NEW r \in Members(n)
        PROVE  s[r] = Statistics(r, n)
    <3>1. p[r] = AllreduceMin(r, n)
      <4>1. p[r] = <<ToAll("DEADBEEF", r, n)>> \o <<ToAll("DEAD0001", r, n)>>
        BY DEF Join
      <4> HIDE DEF p
      <4> QED
        BY <4>1, Pair DEF AllreduceMin, AllreduceU64
    <3>2. q[r] = AllreduceMin(r, n) \o AllreduceMax(r, n)
      <4> HIDE DEF p
      <4> QED
        BY <3>1 DEF Join, AllreduceMax
    <3>3. s[r] = (AllreduceMin(r, n) \o AllreduceMax(r, n)) \o AllreduceSum(r, n)
      <4> HIDE DEF q
      <4> QED
        BY <3>2 DEF Join, AllreduceSum
    <3> HIDE DEF s
    <3> QED
      BY <3>3 DEF Statistics
  <2>2. s = [r \in Members(n) |-> s[r]]
    BY DEF Join
  <2> HIDE DEF s
  <2> QED
    BY <2>1, <2>2
<1> HIDE DEF one
<1>6. p \in Orderly(n, A, A)
  <2>1. {"DEADBEEF"} \cap {"DEAD0001"} = {}
    OBVIOUS
  <2>2. p \in Orderly(n, {"DEADBEEF"} \cup {"DEAD0001"}, {"DEADBEEF"} \cup {"DEAD0001"})
    BY <1>2, <2>1, JoinOthers
  <2> QED
    BY <1>3, <2>2
<1> HIDE DEF p
<1>7. q \in Orderly(n, B, B)
  <2>1. A \cap {"DEAD0002"} = {}
    BY <1>3
  <2>2. q \in Orderly(n, A \cup {"DEAD0002"}, A \cup {"DEAD0002"})
    BY <1>2, <1>6, <2>1, JoinOthers
  <2> QED
    BY <1>3, <2>2
<1> HIDE DEF q
<1>8. s \in Orderly(n, C, C)
  <2>1. B \cap {"DEAD0003"} = {}
    BY <1>3
  <2>2. s \in Orderly(n, B \cup {"DEAD0003"}, B \cup {"DEAD0003"})
    BY <1>2, <1>7, <2>1, JoinOthers
  <2> QED
    BY <1>3, <2>2
<1> HIDE DEF s
<1> QED
  BY <1>4, <1>5, <1>8

(* Nothing at all. *)
LEMMA NoCalls ==
  ASSUME NEW n, NEW E, NEW L
  PROVE  [r \in Members(n) |-> <<>>] \in Orderly(n, E, L)
<1> DEFINE p == [r \in Members(n) |-> <<>>]
<1>1. \A r \in Members(n) : p[r] = <<>>
  OBVIOUS
<1>2. p \in Agreeing(n, 1)
  BY NothingAgrees
<1> HIDE DEF p
<1>4. \A r \in Members(n) : /\ Apart(p[r]) /\ Heard(p[r], r, n)
                            /\ \A tag : ~TakenEarly(p[r], tag) /\ ~TakenLate(p[r], tag)
  BY <1>1 DEF Apart, Heard, TakenEarly, TakenLate
<1>5. p \in Orderly(n, E, L)
  BY <1>2, <1>4 DEF Orderly
<1> QED
  BY <1>5 DEF p

(* The iterations of one message size. *)
LEMMA IterationsOrderly ==
  ASSUME NEW n \in Nat \ {0}, Iterations > 0, NEW tag, NEW c \in Regular(n, tag)
  PROVE  /\ [r \in Members(n) |-> Repeat(Iterations, <<c[r], Barrier(r, n)>>)]
               \in Orderly(n, {tag}, {})
         /\ \A r \in Members(n) : Fenced(Repeat(Iterations, <<c[r], Barrier(r, n)>>))
<1> DEFINE one == [r \in Members(n) |-> <<c[r], Barrier(r, n)>>]
           Z == {p \in Orderly(n, {tag}, {}) : \A r \in Members(n) : Fenced(p[r])}
           f == [i \in 1 .. Iterations |-> one]
           loop == Loop(n, Iterations, f)
<1>1. one \in Z
  <2>1. one \in Orderly(n, {tag}, {}) /\ \A r \in Members(n) : Fenced(one[r])
    BY OneIteration
  <2> HIDE DEF one
  <2> QED
    BY <2>1
<1>2. \A p \in Z, q \in Z : Join(n, p, q) \in Z
  BY JoinOrderly
<1>3. Closed(n, Z)
  <2>1. \A p \in Z : p = [r \in Members(n) |-> p[r]]
    BY DEF Orderly, Agreeing
  <2> HIDE DEF Z
  <2> QED
    BY <1>2, <2>1 DEF Closed
<1>4. loop \in Z
  <2>1. Iterations \in Nat \ {0}
    BY LoopAssumption
  <2>2. \A i \in 1 .. Iterations : f[i] \in Z
    <3> HIDE DEF Z, one
    <3> QED
      BY <1>1
  <2> HIDE DEF Z, f
  <2> QED
    BY <1>3, <2>1, <2>2, FlattenKeeps
<1>5. ASSUME NEW r \in Members(n)
      PROVE  loop[r] = Repeat(Iterations, <<c[r], Barrier(r, n)>>)
  <2>1. [i \in 1 .. Iterations |-> f[i][r]] = [i \in 1 .. Iterations |-> <<c[r], Barrier(r, n)>>]
    OBVIOUS
  <2>2. loop[r] = FlattenSeq([i \in 1 .. Iterations |-> f[i][r]])
    <3> HIDE DEF f
    <3> QED
      BY DEF Loop
  <2> HIDE DEF loop, f
  <2> QED
    BY <2>1, <2>2 DEF Repeat
<1>6. loop = [r \in Members(n) |-> Repeat(Iterations, <<c[r], Barrier(r, n)>>)]
  <2>1. loop = [r \in Members(n) |-> loop[r]]
    <3> HIDE DEF f
    <3> QED
      BY DEF Loop
  <2> HIDE DEF loop
  <2> QED
    BY <1>5, <2>1
<1>7. loop \in Orderly(n, {tag}, {}) /\ \A r \in Members(n) : Fenced(loop[r])
  <2> HIDE DEF loop
  <2> QED
    BY <1>4
<1> HIDE DEF loop
<1> QED
  BY <1>5, <1>6, <1>7

(* The iterations of one message size, and the statistics after them. *)
LEMMA BlockOrderly ==
  ASSUME NEW n \in Nat \ {0}, Iterations > 0, NEW tag, tag \notin StatisticsTags,
         NEW c \in Regular(n, tag)
  PROVE  [r \in Members(n) |-> Repeat(Iterations, <<c[r], Barrier(r, n)>>) \o Statistics(r, n)]
           \in Orderly(n, {tag}, StatisticsTags)
<1> DEFINE loop == [r \in Members(n) |-> Repeat(Iterations, <<c[r], Barrier(r, n)>>)]
           after == [r \in Members(n) |-> Statistics(r, n)]
<1>1. ASSUME NEW r \in Members(n)
      PROVE  loop[r] = Repeat(Iterations, <<c[r], Barrier(r, n)>>) /\ after[r] = Statistics(r, n)
  OBVIOUS
<1>2. loop \in Orderly(n, {tag}, {}) /\ \A r \in Members(n) : Fenced(loop[r])
  <2>1. loop \in Orderly(n, {tag}, {})
    BY IterationsOrderly
  <2>2. \A r \in Members(n) : Fenced(Repeat(Iterations, <<c[r], Barrier(r, n)>>))
    BY IterationsOrderly
  <2> HIDE DEF loop
  <2> QED
    BY <1>1, <2>1, <2>2
<1>3. after \in Orderly(n, StatisticsTags, StatisticsTags)
  BY StatisticsOrderly
<1> HIDE DEF loop, after
<1>4. Join(n, loop, after) \in Orderly(n, {tag}, StatisticsTags)
  BY <1>2, <1>3, JoinOrderly
<1>5. Join(n, loop, after) =
        [r \in Members(n) |-> Repeat(Iterations, <<c[r], Barrier(r, n)>>) \o Statistics(r, n)]
  BY <1>1 DEF Join
<1> QED
  BY <1>4, <1>5

Block(r, n, call) == Repeat(Iterations, <<call, Barrier(r, n)>>) \o Statistics(r, n)

(* The barrier at the start, then the blocks of all sizes. *)
Blocks(n, m, f) ==
  [r \in Members(n) |-> <<Barrier(r, n)>> \o FlattenSeq([i \in 1 .. m |-> f[i][r]])]

LEMMA BlocksOrderly ==
  ASSUME NEW n \in Nat \ {0}, NEW tag, tag \notin StatisticsTags, NEW m \in Nat,
         NEW f, \A i \in 1 .. m : f[i] \in Orderly(n, {tag}, StatisticsTags)
  PROVE  Blocks(n, m, f) \in Orderly(n, {}, StatisticsTags)
<1> DEFINE Z == Orderly(n, {tag}, StatisticsTags)
           first == [r \in Members(n) |-> <<Barrier(r, n)>>]
           rest == Loop(n, m, f)
<1>1. Closed(n, Z)
  <2>1. StatisticsTags \cap {tag} = {}
    OBVIOUS
  <2>2. \A p \in Z, q \in Z : Join(n, p, q) \in Z
    BY <2>1, JoinOrderly
  <2>3. \A p \in Z : p = [r \in Members(n) |-> p[r]]
    BY DEF Orderly, Agreeing
  <2> HIDE DEF Z
  <2> QED
    BY <2>2, <2>3 DEF Closed
<1>2. rest \in Z
  <2>1. CASE m = 0
    <3>1. \A r \in Members(n) : FlattenSeq([i \in 1 .. m |-> f[i][r]]) = <<>>
      <4> TAKE r \in Members(n)
      <4>1. [i \in 1 .. m |-> f[i][r]] = <<>>
        BY <2>1
      <4> QED
        BY <4>1 DEF FlattenSeq
    <3>2. rest = [r \in Members(n) |-> <<>>]
      BY <3>1 DEF Loop
    <3> HIDE DEF rest
    <3> QED
      BY <3>2, NoCalls
  <2>2. CASE m # 0
    <3>1. \A i \in 1 .. m : f[i] \in Z
      OBVIOUS
    <3> HIDE DEF Z
    <3> QED
      BY <1>1, <2>2, <3>1, FlattenKeeps
  <2> QED
    BY <2>1, <2>2
<1>3. first \in Orderly(n, {}, {}) /\ \A r \in Members(n) : Fenced(first[r])
  BY BarrierCall
<1>4. Join(n, first, rest) \in Orderly(n, {}, StatisticsTags)
  <2>1. rest \in Orderly(n, {tag}, StatisticsTags)
    <3> HIDE DEF rest
    <3> QED
      BY <1>2
  <2> HIDE DEF rest, first
  <2>3. PICK E, L : E = {} /\ L = {tag}
    OBVIOUS
  <2>4. E \cap L = {} /\ E \subseteq E /\ E \subseteq StatisticsTags
    BY <2>3
  <2>5. /\ first \in Orderly(n, E, E) /\ rest \in Orderly(n, L, StatisticsTags)
        /\ \A r \in Members(n) : Fenced(first[r])
    BY <1>3, <2>1, <2>3
  <2>6. Join(n, first, rest) \in Orderly(n, E, StatisticsTags)
    BY <2>4, <2>5, JoinOrderly
  <2> QED
    BY <2>3, <2>6
<1>5. Join(n, first, rest) = Blocks(n, m, f)
  <2>1. ASSUME NEW r \in Members(n)
        PROVE  first[r] = <<Barrier(r, n)>> /\ rest[r] = FlattenSeq([i \in 1 .. m |-> f[i][r]])
    BY DEF Loop
  <2> HIDE DEF first, rest
  <2> QED
    BY <2>1 DEF Join, Blocks
<1> QED
  BY <1>4, <1>5

LEMMA TimedOrderly ==
  ASSUME NEW n \in Nat \ {0}, Iterations > 0, NEW tag, tag \notin StatisticsTags,
         NEW c \in Regular(n, tag)
  PROVE  /\ [r \in Members(n) |-> Timed(r, n, c[r])] \in Orderly(n, {}, StatisticsTags)
         /\ [r \in Members(n) |-> TimedIfDivisible(r, n, c[r])] \in Orderly(n, {}, StatisticsTags)
<1> DEFINE m == Len(Sizes)
           block == [r \in Members(n) |-> Block(r, n, c[r])]
           none == [r \in Members(n) |-> <<>>]
           f == [i \in 1 .. m |-> block]
           g == [i \in 1 .. m |-> IF Sizes[i] % n = 0 THEN block ELSE none]
<1>1. m \in Nat /\ DOMAIN Sizes = 1 .. m
  BY LoopAssumption
<1>2. block \in Orderly(n, {tag}, StatisticsTags)
  BY BlockOrderly DEF Block
<1>3. none \in Orderly(n, {tag}, StatisticsTags)
  BY NoCalls
<1>4. ASSUME NEW r \in Members(n)
      PROVE  block[r] = Block(r, n, c[r]) /\ none[r] = <<>>
  OBVIOUS
<1> HIDE DEF block, none, m
<1>5. [r \in Members(n) |-> Timed(r, n, c[r])] = Blocks(n, m, f)
  <2>1. ASSUME NEW r \in Members(n)
        PROVE  Timed(r, n, c[r]) = <<Barrier(r, n)>> \o FlattenSeq([i \in 1 .. m |-> f[i][r]])
    <3>1. [i \in 1 .. m |-> f[i][r]] = [i \in 1 .. m |-> Block(r, n, c[r])]
      BY <1>4
    <3>2. Timed(r, n, c[r]) = <<Barrier(r, n)>> \o FlattenSeq([i \in 1 .. m |-> Block(r, n, c[r])])
      BY DEF Timed, Repeat, Block, m
    <3> HIDE DEF f
    <3> QED
      BY <3>1, <3>2
  <2> HIDE DEF f
  <2> QED
    BY <2>1 DEF Blocks
<1>6. [r \in Members(n) |-> TimedIfDivisible(r, n, c[r])] = Blocks(n, m, g)
  <2>1. ASSUME NEW r \in Members(n)
        PROVE  TimedIfDivisible(r, n, c[r]) =
                 <<Barrier(r, n)>> \o FlattenSeq([i \in 1 .. m |-> g[i][r]])
    <3>1. [i \in 1 .. m |-> g[i][r]] =
            [i \in 1 .. m |-> IF Sizes[i] % n = 0 THEN Block(r, n, c[r]) ELSE <<>>]
      BY <1>4
    <3>2. TimedIfDivisible(r, n, c[r]) = <<Barrier(r, n)>> \o
            FlattenSeq([i \in 1 .. m |-> IF Sizes[i] % n = 0 THEN Block(r, n, c[r]) ELSE <<>>])
      BY <1>1 DEF TimedIfDivisible, Block
    <3> HIDE DEF g
    <3> QED
      BY <3>1, <3>2
  <2> HIDE DEF g
  <2> QED
    BY <2>1 DEF Blocks
<1>7. \A i \in 1 .. m : /\ f[i] \in Orderly(n, {tag}, StatisticsTags)
                         /\ g[i] \in Orderly(n, {tag}, StatisticsTags)
  BY <1>2, <1>3
<1> HIDE DEF f, g
<1>8. /\ Blocks(n, m, f) \in Orderly(n, {}, StatisticsTags)
      /\ Blocks(n, m, g) \in Orderly(n, {}, StatisticsTags)
  BY <1>1, <1>7, BlocksOrderly
<1> QED
  BY <1>5, <1>6, <1>8

-----------------------------------------------------------------------------
(* The benchmarks. *)

LEMMA CollectivesRegular ==
  ASSUME NEW n \in Nat \ {0}
  PROVE  /\ [r \in Members(n) |-> Bcast(r, n, 0)] \in Regular(n, "BADC0DE0")
         /\ [r \in Members(n) |-> Reduce(r, n, 0)] \in Regular(n, "BADC0DE1")
         /\ [r \in Members(n) |-> Gather(r, n, 0)] \in Regular(n, "BADC0DE4")
         /\ [r \in Members(n) |-> Gatherv(r, n, 0)] \in Regular(n, "BADC0DE6")
         /\ [r \in Members(n) |-> Scatter(r, n, 0)] \in Regular(n, "BADC0DE5")
         /\ [r \in Members(n) |-> Scatterv(r, n, 0)] \in Regular(n, "BADC0DE7")
         /\ [r \in Members(n) |-> Allgather(r, n)] \in Regular(n, "BADC0DE2")
         /\ [r \in Members(n) |-> Allgatherv(r, n)] \in Regular(n, "BADC0DE8")
         /\ [r \in Members(n) |-> Alltoall(r, n)] \in Regular(n, "BADC0DE3")
         /\ [r \in Members(n) |-> Alltoallv(r, n)] \in Regular(n, "BADC0DEA")
         /\ [r \in Members(n) |-> Reducescatter(r, n)] \in Regular(n, "BADC0DE9")
         /\ [r \in Members(n) |-> ReduceScatterBlock(r, n)] \in Regular(n, "BADC0DEB")
<1>0. 0 \in Members(n)
  BY DEF Members
<1>1. /\ "BADC0DE0" \in Tags /\ "BADC0DE1" \in Tags /\ "BADC0DE2" \in Tags /\ "BADC0DE3" \in Tags
      /\ "BADC0DE4" \in Tags /\ "BADC0DE5" \in Tags /\ "BADC0DE6" \in Tags /\ "BADC0DE7" \in Tags
      /\ "BADC0DE8" \in Tags /\ "BADC0DE9" \in Tags /\ "BADC0DEA" \in Tags /\ "BADC0DEB" \in Tags
  BY DEF Tags
<1>2. ASSUME NEW tag \in Tags
      PROVE  /\ [r \in Members(n) |-> ToAll(tag, r, n)] \in Regular(n, tag)
             /\ [r \in Members(n) |-> RootSends(tag, r, n, 0)] \in Regular(n, tag)
             /\ [r \in Members(n) |-> RootReceives(tag, r, n, 0)] \in Regular(n, tag)
             /\ [r \in Members(n) |-> Awaited(ToAll(tag, r, n))] \in Regular(n, tag)
             /\ [r \in Members(n) |-> Awaited(RootSends(tag, r, n, 0))] \in Regular(n, tag)
             /\ [r \in Members(n) |-> Awaited(RootReceives(tag, r, n, 0))] \in Regular(n, tag)
  <2>1. [r \in Members(n) |-> ToAll(tag, r, n)] \in Regular(n, tag)
    BY ToAllRegular
  <2>2. [r \in Members(n) |-> RootSends(tag, r, n, 0)] \in Regular(n, tag)
    BY <1>0, RootSendsRegular
  <2>3. [r \in Members(n) |-> RootReceives(tag, r, n, 0)] \in Regular(n, tag)
    BY <1>0, RootReceivesRegular
  <2>4. [r \in Members(n) |-> Awaited(ToAll(tag, r, n))] \in Regular(n, tag)
    <3>1. PICK c : c = [r \in Members(n) |-> ToAll(tag, r, n)]
      OBVIOUS
    <3>2. [r \in Members(n) |-> Awaited(c[r])] \in Regular(n, tag)
      BY <2>1, <3>1, AwaitedRegular
    <3>3. [r \in Members(n) |-> Awaited(c[r])] = [r \in Members(n) |-> Awaited(ToAll(tag, r, n))]
      BY <3>1
    <3> QED
      BY <3>2, <3>3
  <2>5. [r \in Members(n) |-> Awaited(RootSends(tag, r, n, 0))] \in Regular(n, tag)
    <3>1. PICK c : c = [r \in Members(n) |-> RootSends(tag, r, n, 0)]
      OBVIOUS
    <3>2. [r \in Members(n) |-> Awaited(c[r])] \in Regular(n, tag)
      BY <2>2, <3>1, AwaitedRegular
    <3>3. [r \in Members(n) |-> Awaited(c[r])] = [r \in Members(n) |-> Awaited(RootSends(tag, r, n, 0))]
      BY <3>1
    <3> QED
      BY <3>2, <3>3
  <2>6. [r \in Members(n) |-> Awaited(RootReceives(tag, r, n, 0))] \in Regular(n, tag)
    <3>1. PICK c : c = [r \in Members(n) |-> RootReceives(tag, r, n, 0)]
      OBVIOUS
    <3>2. [r \in Members(n) |-> Awaited(c[r])] \in Regular(n, tag)
      BY <2>3, <3>1, AwaitedRegular
    <3>3. [r \in Members(n) |-> Awaited(c[r])] = [r \in Members(n) |-> Awaited(RootReceives(tag, r, n, 0))]
      BY <3>1
    <3> QED
      BY <3>2, <3>3
  <2> QED
    BY <2>1, <2>2, <2>3, <2>4, <2>5, <2>6
<1>3. [r \in Members(n) |-> Bcast(r, n, 0)] \in Regular(n, "BADC0DE0")
  BY <1>1, <1>2 DEF Bcast
<1>4. [r \in Members(n) |-> Gather(r, n, 0)] \in Regular(n, "BADC0DE4")
  BY <1>1, <1>2 DEF Gather
<1>5. [r \in Members(n) |-> Gatherv(r, n, 0)] \in Regular(n, "BADC0DE6")
  BY <1>1, <1>2 DEF Gatherv
<1>6. [r \in Members(n) |-> Scatter(r, n, 0)] \in Regular(n, "BADC0DE5")
  BY <1>1, <1>2 DEF Scatter
<1>7. [r \in Members(n) |-> Scatterv(r, n, 0)] \in Regular(n, "BADC0DE7")
  BY <1>1, <1>2 DEF Scatterv
<1>8. [r \in Members(n) |-> Allgather(r, n)] \in Regular(n, "BADC0DE2")
  BY <1>1, <1>2 DEF Allgather
<1>9. [r \in Members(n) |-> Allgatherv(r, n)] \in Regular(n, "BADC0DE8")
  BY <1>1, <1>2 DEF Allgatherv
<1>10. [r \in Members(n) |-> Alltoall(r, n)] \in Regular(n, "BADC0DE3")
  BY <1>1, <1>2 DEF Alltoall
<1>11. [r \in Members(n) |-> Alltoallv(r, n)] \in Regular(n, "BADC0DEA")
  BY <1>1, <1>2 DEF Alltoallv
<1>12. [r \in Members(n) |-> Reducescatter(r, n)] \in Regular(n, "BADC0DE9")
  BY <1>1, <1>2 DEF Reducescatter
<1>13. [r \in Members(n) |-> ReduceScatterBlock(r, n)] \in Regular(n, "BADC0DEB")
  BY <1>1, <1>2 DEF ReduceScatterBlock
<1>14. [r \in Members(n) |-> Reduce(r, n, 0)] \in Regular(n, "BADC0DE1")
  <2>1. PICK c, b : /\ c = [r \in Members(n) |-> ToAll("BADC0DE1", r, n)]
                    /\ b = [r \in Members(n) |-> Reduce(r, n, 0)]
    OBVIOUS
  <2>2. c \in Regular(n, "BADC0DE1")
    BY <1>1, <1>2, <2>1
  <2>3. ASSUME NEW r \in Members(n)
        PROVE  /\ b[r] \in CallsOf(n, 1)
               /\ b[r].tag = c[r].tag /\ b[r].takes = c[r].takes
               /\ b[r].to = c[r].to /\ b[r].from = c[r].from
    <3>1. c[r] \in CallsOf(n, 1) /\ c[r] = ToAll("BADC0DE1", r, n)
      BY <2>1, <2>2 DEF Regular, Meeting
    <3>2. b[r] = [c[r] EXCEPT !.keep = (r = 0)]
      BY <2>1, <3>1 DEF Reduce
    <3> QED
      BY <3>1, <3>2 DEF CallsOf
  <2>4. b \in [Members(n) -> CallsOf(n, 1)]
    BY <2>1, <2>3
  <2>5. b \in Regular(n, "BADC0DE1")
    BY <2>2, <2>3, <2>4, SameTraffic
  <2> QED
    BY <2>1, <2>5
<1> QED
  BY <1>3, <1>4, <1>5, <1>6, <1>7, <1>8, <1>9, <1>10, <1>11, <1>12, <1>13, <1>14

(***************************************************************************)
(* The programs of the blocking collective benchmarks but for the rings;   *)
(* of the ranks that reduce with UCC it takes all or none.                 *)
(***************************************************************************)
CollectivePrograms(n) ==
  {[r \in Members(n) |-> osu_barrier(r, n)],
   [r \in Members(n) |-> osu_bcast(r, n)],
   [r \in Members(n) |-> osu_reduce(r, n)],
   [r \in Members(n) |-> osu_gather(r, n)],
   [r \in Members(n) |-> osu_gatherv(r, n)],
   [r \in Members(n) |-> osu_scatter(r, n)],
   [r \in Members(n) |-> osu_scatterv(r, n)],
   [r \in Members(n) |-> osu_allgather(r, n)],
   [r \in Members(n) |-> osu_allgatherv(r, n)],
   [r \in Members(n) |-> osu_alltoall(r, n)],
   [r \in Members(n) |-> osu_alltoallv(r, n)],
   [r \in Members(n) |-> osu_alltoallw(r, n)],
   [r \in Members(n) |-> osu_reduce_scatter(r, n)],
   [r \in Members(n) |-> osu_reduce_scatter_block(r, n)],
   [r \in Members(n) |-> osu_allreduce(r, n, FALSE)],
   [r \in Members(n) |-> osu_allreduce(r, n, TRUE)],
   [r \in Members(n) |-> osu_allreduce_bw(r, n)],
   [r \in Members(n) |-> osu_allreduce_latency(r, n)]}

LEMMA ProgramsOrderly ==
  ASSUME NEW n \in Nat \ {0}, Iterations > 0, NEW p \in CollectivePrograms(n)
  PROVE  p \in Orderly(n, {}, StatisticsTags)
<1>1. ASSUME NEW tag, tag \notin StatisticsTags, NEW c \in Regular(n, tag)
      PROVE  /\ [r \in Members(n) |-> Timed(r, n, c[r])] \in Orderly(n, {}, StatisticsTags)
             /\ [r \in Members(n) |-> TimedIfDivisible(r, n, c[r])] \in Orderly(n, {}, StatisticsTags)
  BY <1>1, TimedOrderly
<1>2. ASSUME NEW tag \in {"ABCDEF00", "UCC", "BADDEF00", "BADDEF01"}
      PROVE  [r \in Members(n) |-> ToAll(tag, r, n)] \in Regular(n, tag)
  BY ToAllRegular DEF Tags
<1>3. [r \in Members(n) |-> osu_bcast(r, n)] \in Orderly(n, {}, StatisticsTags)
  <2>1. PICK c : c = [r \in Members(n) |-> Bcast(r, n, 0)]
    OBVIOUS
  <2>2. c \in Regular(n, "BADC0DE0")
    BY <2>1, CollectivesRegular
  <2>3. "BADC0DE0" \notin StatisticsTags
    BY DEF StatisticsTags
  <2>4. [r \in Members(n) |-> Timed(r, n, c[r])] \in Orderly(n, {}, StatisticsTags)
    BY <1>1, <2>2, <2>3
  <2>5. [r \in Members(n) |-> Timed(r, n, c[r])] = [r \in Members(n) |-> osu_bcast(r, n)]
    BY <2>1 DEF osu_bcast
  <2> QED
    BY <2>4, <2>5
<1>4. [r \in Members(n) |-> osu_reduce(r, n)] \in Orderly(n, {}, StatisticsTags)
  <2>1. PICK c : c = [r \in Members(n) |-> Reduce(r, n, 0)]
    OBVIOUS
  <2>2. c \in Regular(n, "BADC0DE1")
    BY <2>1, CollectivesRegular
  <2>3. "BADC0DE1" \notin StatisticsTags
    BY DEF StatisticsTags
  <2>4. [r \in Members(n) |-> Timed(r, n, c[r])] \in Orderly(n, {}, StatisticsTags)
    BY <1>1, <2>2, <2>3
  <2>5. [r \in Members(n) |-> Timed(r, n, c[r])] = [r \in Members(n) |-> osu_reduce(r, n)]
    BY <2>1 DEF osu_reduce
  <2> QED
    BY <2>4, <2>5
<1>5. [r \in Members(n) |-> osu_gather(r, n)] \in Orderly(n, {}, StatisticsTags)
  <2>1. PICK c : c = [r \in Members(n) |-> Gather(r, n, 0)]
    OBVIOUS
  <2>2. c \in Regular(n, "BADC0DE4")
    BY <2>1, CollectivesRegular
  <2>3. "BADC0DE4" \notin StatisticsTags
    BY DEF StatisticsTags
  <2>4. [r \in Members(n) |-> Timed(r, n, c[r])] \in Orderly(n, {}, StatisticsTags)
    BY <1>1, <2>2, <2>3
  <2>5. [r \in Members(n) |-> Timed(r, n, c[r])] = [r \in Members(n) |-> osu_gather(r, n)]
    BY <2>1 DEF osu_gather
  <2> QED
    BY <2>4, <2>5
<1>6. [r \in Members(n) |-> osu_gatherv(r, n)] \in Orderly(n, {}, StatisticsTags)
  <2>1. PICK c : c = [r \in Members(n) |-> Gatherv(r, n, 0)]
    OBVIOUS
  <2>2. c \in Regular(n, "BADC0DE6")
    BY <2>1, CollectivesRegular
  <2>3. "BADC0DE6" \notin StatisticsTags
    BY DEF StatisticsTags
  <2>4. [r \in Members(n) |-> Timed(r, n, c[r])] \in Orderly(n, {}, StatisticsTags)
    BY <1>1, <2>2, <2>3
  <2>5. [r \in Members(n) |-> Timed(r, n, c[r])] = [r \in Members(n) |-> osu_gatherv(r, n)]
    BY <2>1 DEF osu_gatherv
  <2> QED
    BY <2>4, <2>5
<1>7. [r \in Members(n) |-> osu_scatter(r, n)] \in Orderly(n, {}, StatisticsTags)
  <2>1. PICK c : c = [r \in Members(n) |-> Scatter(r, n, 0)]
    OBVIOUS
  <2>2. c \in Regular(n, "BADC0DE5")
    BY <2>1, CollectivesRegular
  <2>3. "BADC0DE5" \notin StatisticsTags
    BY DEF StatisticsTags
  <2>4. [r \in Members(n) |-> Timed(r, n, c[r])] \in Orderly(n, {}, StatisticsTags)
    BY <1>1, <2>2, <2>3
  <2>5. [r \in Members(n) |-> Timed(r, n, c[r])] = [r \in Members(n) |-> osu_scatter(r, n)]
    BY <2>1 DEF osu_scatter
  <2> QED
    BY <2>4, <2>5
<1>8. [r \in Members(n) |-> osu_scatterv(r, n)] \in Orderly(n, {}, StatisticsTags)
  <2>1. PICK c : c = [r \in Members(n) |-> Scatterv(r, n, 0)]
    OBVIOUS
  <2>2. c \in Regular(n, "BADC0DE7")
    BY <2>1, CollectivesRegular
  <2>3. "BADC0DE7" \notin StatisticsTags
    BY DEF StatisticsTags
  <2>4. [r \in Members(n) |-> Timed(r, n, c[r])] \in Orderly(n, {}, StatisticsTags)
    BY <1>1, <2>2, <2>3
  <2>5. [r \in Members(n) |-> Timed(r, n, c[r])] = [r \in Members(n) |-> osu_scatterv(r, n)]
    BY <2>1 DEF osu_scatterv
  <2> QED
    BY <2>4, <2>5
<1>9. [r \in Members(n) |-> osu_allgather(r, n)] \in Orderly(n, {}, StatisticsTags)
  <2>1. PICK c : c = [r \in Members(n) |-> Allgather(r, n)]
    OBVIOUS
  <2>2. c \in Regular(n, "BADC0DE2")
    BY <2>1, CollectivesRegular
  <2>3. "BADC0DE2" \notin StatisticsTags
    BY DEF StatisticsTags
  <2>4. [r \in Members(n) |-> Timed(r, n, c[r])] \in Orderly(n, {}, StatisticsTags)
    BY <1>1, <2>2, <2>3
  <2>5. [r \in Members(n) |-> Timed(r, n, c[r])] = [r \in Members(n) |-> osu_allgather(r, n)]
    BY <2>1 DEF osu_allgather
  <2> QED
    BY <2>4, <2>5
<1>10. [r \in Members(n) |-> osu_allgatherv(r, n)] \in Orderly(n, {}, StatisticsTags)
  <2>1. PICK c : c = [r \in Members(n) |-> Allgatherv(r, n)]
    OBVIOUS
  <2>2. c \in Regular(n, "BADC0DE8")
    BY <2>1, CollectivesRegular
  <2>3. "BADC0DE8" \notin StatisticsTags
    BY DEF StatisticsTags
  <2>4. [r \in Members(n) |-> Timed(r, n, c[r])] \in Orderly(n, {}, StatisticsTags)
    BY <1>1, <2>2, <2>3
  <2>5. [r \in Members(n) |-> Timed(r, n, c[r])] = [r \in Members(n) |-> osu_allgatherv(r, n)]
    BY <2>1 DEF osu_allgatherv
  <2> QED
    BY <2>4, <2>5
<1>11. [r \in Members(n) |-> osu_alltoall(r, n)] \in Orderly(n, {}, StatisticsTags)
  <2>1. PICK c : c = [r \in Members(n) |-> Alltoall(r, n)]
    OBVIOUS
  <2>2. c \in Regular(n, "BADC0DE3")
    BY <2>1, CollectivesRegular
  <2>3. "BADC0DE3" \notin StatisticsTags
    BY DEF StatisticsTags
  <2>4. [r \in Members(n) |-> Timed(r, n, c[r])] \in Orderly(n, {}, StatisticsTags)
    BY <1>1, <2>2, <2>3
  <2>5. [r \in Members(n) |-> Timed(r, n, c[r])] = [r \in Members(n) |-> osu_alltoall(r, n)]
    BY <2>1 DEF osu_alltoall
  <2> QED
    BY <2>4, <2>5
<1>12. [r \in Members(n) |-> osu_alltoallv(r, n)] \in Orderly(n, {}, StatisticsTags)
  <2>1. PICK c : c = [r \in Members(n) |-> Alltoallv(r, n)]
    OBVIOUS
  <2>2. c \in Regular(n, "BADC0DEA")
    BY <2>1, CollectivesRegular
  <2>3. "BADC0DEA" \notin StatisticsTags
    BY DEF StatisticsTags
  <2>4. [r \in Members(n) |-> Timed(r, n, c[r])] \in Orderly(n, {}, StatisticsTags)
    BY <1>1, <2>2, <2>3
  <2>5. [r \in Members(n) |-> Timed(r, n, c[r])] = [r \in Members(n) |-> osu_alltoallv(r, n)]
    BY <2>1 DEF osu_alltoallv
  <2> QED
    BY <2>4, <2>5
<1>13. [r \in Members(n) |-> osu_alltoallw(r, n)] \in Orderly(n, {}, StatisticsTags)
  <2>1. PICK c : c = [r \in Members(n) |-> Alltoallw(r, n)]
    OBVIOUS
  <2>2. c \in Regular(n, "BADC0DEA")
    BY <2>1, CollectivesRegular DEF Alltoallw
  <2>3. "BADC0DEA" \notin StatisticsTags
    BY DEF StatisticsTags
  <2>4. [r \in Members(n) |-> Timed(r, n, c[r])] \in Orderly(n, {}, StatisticsTags)
    BY <1>1, <2>2, <2>3
  <2>5. [r \in Members(n) |-> Timed(r, n, c[r])] = [r \in Members(n) |-> osu_alltoallw(r, n)]
    BY <2>1 DEF osu_alltoallw
  <2> QED
    BY <2>4, <2>5
<1>14. [r \in Members(n) |-> osu_reduce_scatter(r, n)] \in Orderly(n, {}, StatisticsTags)
  <2>1. PICK c : c = [r \in Members(n) |-> Reducescatter(r, n)]
    OBVIOUS
  <2>2. c \in Regular(n, "BADC0DE9")
    BY <2>1, CollectivesRegular
  <2>3. "BADC0DE9" \notin StatisticsTags
    BY DEF StatisticsTags
  <2>4. [r \in Members(n) |-> TimedIfDivisible(r, n, c[r])] \in Orderly(n, {}, StatisticsTags)
    BY <1>1, <2>2, <2>3
  <2>5. [r \in Members(n) |-> TimedIfDivisible(r, n, c[r])] = [r \in Members(n) |-> osu_reduce_scatter(r, n)]
    BY <2>1 DEF osu_reduce_scatter
  <2> QED
    BY <2>4, <2>5
<1>15. [r \in Members(n) |-> osu_reduce_scatter_block(r, n)] \in Orderly(n, {}, StatisticsTags)
  <2>1. PICK c : c = [r \in Members(n) |-> ReduceScatterBlock(r, n)]
    OBVIOUS
  <2>2. c \in Regular(n, "BADC0DEB")
    BY <2>1, CollectivesRegular
  <2>3. "BADC0DEB" \notin StatisticsTags
    BY DEF StatisticsTags
  <2>4. [r \in Members(n) |-> TimedIfDivisible(r, n, c[r])] \in Orderly(n, {}, StatisticsTags)
    BY <1>1, <2>2, <2>3
  <2>5. [r \in Members(n) |-> TimedIfDivisible(r, n, c[r])] = [r \in Members(n) |-> osu_reduce_scatter_block(r, n)]
    BY <2>1 DEF osu_reduce_scatter_block
  <2> QED
    BY <2>4, <2>5
<1>16. [r \in Members(n) |-> osu_allreduce(r, n, FALSE)] \in Orderly(n, {}, StatisticsTags)
  <2>1. PICK c : c = [r \in Members(n) |-> AllreduceFallback(r, n)]
    OBVIOUS
  <2>2. c \in Regular(n, "ABCDEF00")
    BY <1>2, <2>1 DEF AllreduceFallback
  <2>3. "ABCDEF00" \notin StatisticsTags
    BY DEF StatisticsTags
  <2>4. [r \in Members(n) |-> Timed(r, n, c[r])] \in Orderly(n, {}, StatisticsTags)
    BY <1>1, <2>2, <2>3
  <2>5. [r \in Members(n) |-> Timed(r, n, c[r])] = [r \in Members(n) |-> osu_allreduce(r, n, FALSE)]
    BY <2>1 DEF osu_allreduce
  <2> QED
    BY <2>4, <2>5
<1>17. [r \in Members(n) |-> osu_allreduce(r, n, TRUE)] \in Orderly(n, {}, StatisticsTags)
  <2>1. PICK c : c = [r \in Members(n) |-> UccAllreduce(r, n)]
    OBVIOUS
  <2>2. c \in Regular(n, "UCC")
    BY <1>2, <2>1 DEF UccAllreduce
  <2>3. "UCC" \notin StatisticsTags
    BY DEF StatisticsTags
  <2>4. [r \in Members(n) |-> Timed(r, n, c[r])] \in Orderly(n, {}, StatisticsTags)
    BY <1>1, <2>2, <2>3
  <2>5. [r \in Members(n) |-> Timed(r, n, c[r])] = [r \in Members(n) |-> osu_allreduce(r, n, TRUE)]
    BY <2>1 DEF osu_allreduce
  <2> QED
    BY <2>4, <2>5
<1>18. [r \in Members(n) |-> osu_allreduce_bw(r, n)] \in Orderly(n, {}, StatisticsTags)
  <2>1. PICK c : c = [r \in Members(n) |-> AllreduceBw(r, n)]
    OBVIOUS
  <2>2. c \in Regular(n, "BADDEF00")
    BY <1>2, <2>1 DEF AllreduceBw
  <2>3. "BADDEF00" \notin StatisticsTags
    BY DEF StatisticsTags
  <2>4. [r \in Members(n) |-> Timed(r, n, c[r])] \in Orderly(n, {}, StatisticsTags)
    BY <1>1, <2>2, <2>3
  <2>5. [r \in Members(n) |-> Timed(r, n, c[r])] = [r \in Members(n) |-> osu_allreduce_bw(r, n)]
    BY <2>1 DEF osu_allreduce_bw
  <2> QED
    BY <2>4, <2>5
<1>19. [r \in Members(n) |-> osu_allreduce_latency(r, n)] \in Orderly(n, {}, StatisticsTags)
  <2>1. PICK c : c = [r \in Members(n) |-> AllreduceLatency(r, n)]
    OBVIOUS
  <2>2. c \in Regular(n, "BADDEF01")
    BY <1>2, <2>1 DEF AllreduceLatency
  <2>3. "BADDEF01" \notin StatisticsTags
    BY DEF StatisticsTags
  <2>4. [r \in Members(n) |-> Timed(r, n, c[r])] \in Orderly(n, {}, StatisticsTags)
    BY <1>1, <2>2, <2>3
  <2>5. [r \in Members(n) |-> Timed(r, n, c[r])] = [r \in Members(n) |-> osu_allreduce_latency(r, n)]
    BY <2>1 DEF osu_allreduce_latency
  <2> QED
    BY <2>4, <2>5
<1>20. [r \in Members(n) |-> osu_barrier(r, n)] \in Orderly(n, {}, StatisticsTags)
  <2>1. PICK a, b, c : /\ a = [r \in Members(n) |-> <<Barrier(r, n)>>]
                       /\ b = [r \in Members(n) |-> Repeat(Iterations, <<Barrier(r, n), Barrier(r, n)>>)]
                       /\ c = [r \in Members(n) |-> Statistics(r, n)]
    OBVIOUS
  <2>2. a \in Orderly(n, {}, {}) /\ \A r \in Members(n) : Fenced(a[r])
    BY <2>1, BarrierCall
  <2>3. b \in Orderly(n, {BarrierTag}, {}) /\ \A r \in Members(n) : Fenced(b[r])
    <3>1. PICK d : d = [r \in Members(n) |-> Barrier(r, n)]
      OBVIOUS
    <3>2. d \in Regular(n, BarrierTag)
      BY <3>1, BarrierCall
    <3>3. /\ [r \in Members(n) |-> Repeat(Iterations, <<d[r], Barrier(r, n)>>)]
                \in Orderly(n, {BarrierTag}, {})
          /\ \A r \in Members(n) : Fenced(Repeat(Iterations, <<d[r], Barrier(r, n)>>))
      BY <3>2, IterationsOrderly
    <3>4. b = [r \in Members(n) |-> Repeat(Iterations, <<d[r], Barrier(r, n)>>)]
      BY <2>1, <3>1
    <3> QED
      BY <3>3, <3>4
  <2>4. c \in Orderly(n, StatisticsTags, StatisticsTags)
    BY <2>1, StatisticsOrderly
  <2>5. PICK E : E = {}
    OBVIOUS
  <2>6. E \cap {BarrierTag} = {} /\ E \cap StatisticsTags = {} /\ E \subseteq StatisticsTags /\ E \subseteq E
    BY <2>5
  <2>7. Join(n, a, b) \in Orderly(n, E, E) /\ \A r \in Members(n) : Fenced(Join(n, a, b)[r])
    <3>1. a \in Orderly(n, E, E) /\ b \in Orderly(n, {BarrierTag}, E)
      BY <2>2, <2>3, <2>5
    <3> QED
      BY <2>2, <2>6, <3>1, JoinOrderly
  <2>8. PICK ab : ab = Join(n, a, b)
    OBVIOUS
  <2>9. Join(n, ab, c) \in Orderly(n, E, StatisticsTags)
    <3>1. ab \in Orderly(n, E, E) /\ \A r \in Members(n) : Fenced(ab[r])
      BY <2>7, <2>8
    <3>2. StatisticsTags \subseteq StatisticsTags
      OBVIOUS
    <3>3. E \cap StatisticsTags = {} /\ E \subseteq StatisticsTags /\ E \subseteq E
      BY <2>6
    <3> QED
      BY <2>4, <3>1, <3>2, <3>3, JoinOrderly
  <2>10. Join(n, ab, c) = [r \in Members(n) |-> osu_barrier(r, n)]
    <3>1. ASSUME NEW r \in Members(n)
          PROVE  ab[r] \o c[r] = osu_barrier(r, n)
      BY <2>1, <2>8 DEF Join, osu_barrier
    <3> QED
      BY <3>1 DEF Join
  <2> QED
    BY <2>5, <2>9, <2>10
<1> QED
  BY <1>3, <1>4, <1>5, <1>6, <1>7, <1>8, <1>9, <1>10, <1>11, <1>12, <1>13, <1>14, <1>15, <1>16, <1>17, <1>18, <1>19, <1>20 DEF CollectivePrograms

-----------------------------------------------------------------------------
(* The jobs that run them. *)

(* A job of one of these benchmarks, with at least one iteration. *)
CollectiveJob(j) ==
  /\ Iterations > 0
  /\ \E p \in CollectivePrograms(j.size) : \A r \in Members(j.size) : Program(j, r) = p[r]

LEMMA CollectiveFacts ==
  ASSUME NEW j \in Jobs, CollectiveJob(j)
  PROVE  /\ j.size \in Nat \ {0} /\ j \in MatchedJobs
         /\ \A s, d \in Members(j.size) :
              \A k \in DOMAIN Program(j, s) : Fits(s, d, Program(j, s)[k], Program(j, d)[k])
         /\ \A r \in Members(j.size) :
              /\ Program(j, r) \in Seq(CallsOf(j.size, 1))
              /\ Apart(Program(j, r)) /\ Heard(Program(j, r), r, j.size)
<1>1. j.size \in Nat \ {0}
  BY ProgramAssumption
<1>2. PICK p \in CollectivePrograms(j.size) : \A r \in Members(j.size) : Program(j, r) = p[r]
  BY DEF CollectiveJob
<1>3. p \in Orderly(j.size, {}, StatisticsTags)
  BY <1>1, ProgramsOrderly DEF CollectiveJob
<1>4. /\ p \in Agreeing(j.size, 1)
      /\ \A r \in Members(j.size) : Apart(p[r]) /\ Heard(p[r], r, j.size)
  BY <1>3 DEF Orderly
<1>5. /\ j \in MatchedJobs
      /\ \A s, d \in Members(j.size) :
           \A k \in DOMAIN Program(j, s) : Fits(s, d, Program(j, s)[k], Program(j, d)[k])
      /\ \A r \in Members(j.size) : Program(j, r) \in Seq(CallsOf(j.size, 1))
  BY <1>2, <1>4, AgreeingMatched
<1> QED
  BY <1>1, <1>2, <1>4, <1>5

LEMMA CollectiveAnswers ==
  ASSUME NEW j \in Jobs, CollectiveJob(j), NEW s \in Members(j.size), NEW d \in Members(j.size),
         s # d, NEW k \in DOMAIN Program(j, s)
  PROVE  /\ AnsweredIn(j, s, k, d) \in {k + 1, k + 2}
         /\ AnsweredIn(j, s, k, d) \in DOMAIN Program(j, s) => Hears(j, s, AnsweredIn(j, s, k, d), d)
<1>1. PICK q : q = Program(j, s)
  OBVIOUS
<1>2. /\ q \in Seq(CallsOf(j.size, 1)) /\ Heard(q, s, j.size)
      /\ DOMAIN q = 1 .. Len(q) /\ Len(q) \in Nat /\ k \in DOMAIN q
  BY <1>1, CollectiveFacts
<1>3. CASE Hears(j, s, k + 1, d)
  BY <1>3 DEF AnsweredIn
<1>4. CASE ~Hears(j, s, k + 1, d)
  <2>1. AnsweredIn(j, s, k, d) = k + 2
    BY <1>4 DEF AnsweredIn
  <2>2. ASSUME k + 2 \in DOMAIN q
        PROVE  CountIn(q[k + 2].from, d) > 0
    <3>1. PICK l : l = k + 1
      OBVIOUS
    <3>2. l \in DOMAIN q /\ l + 1 = k + 2 /\ l + 1 \in DOMAIN q
      BY <1>2, <2>2, <3>1
    <3>3. ~(CountIn(q[l].from, d) > 0)
      BY <1>1, <1>4, <3>1, <3>2 DEF Hears
    <3>4. Loud(q[l], s, j.size) \/ Loud(q[l + 1], s, j.size)
      BY <1>2, <3>2 DEF Heard
    <3>5. Loud(q[l + 1], s, j.size)
      BY <3>3, <3>4 DEF Loud
    <3> QED
      BY <3>2, <3>5 DEF Loud
  <2> QED
    BY <1>1, <2>1, <2>2 DEF Hears
<1> QED
  BY <1>3, <1>4

LEMMA CollectiveJobsOrdered ==
  ASSUME NEW j \in Jobs, CollectiveJob(j)
  PROVE  j \in MatchedJobs /\ j \in OrderedJobs /\ Answered(j)
<1>1. j \in MatchedJobs
  BY CollectiveFacts
<1>2. Ordered(j)
  <2> SUFFICES ASSUME NEW r \in Members(j.size)
               PROVE  \A k, l \in DOMAIN Program(j, r) :
                        k < l /\ Program(j, r)[k].takes = Program(j, r)[l].takes =>
                          \E b \in k .. l : Program(j, r)[b].tag = BarrierTag
    BY DEF Ordered, Members
  <2> QED
    BY CollectiveFacts DEF Apart
<1>3. Answered(j)
  <2> SUFFICES ASSUME NEW s \in Members(j.size), NEW d \in Members(j.size),
                      NEW k \in DOMAIN Program(j, s), CountIn(Program(j, s)[k].to, d) > 0,
                      AnsweredIn(j, s, k, d) \in DOMAIN Program(j, s)
               PROVE  Hears(j, s, AnsweredIn(j, s, k, d), d)
    BY DEF Answered, Members
  <2>1. s # d
    <3> SUFFICES ASSUME s = d
                 PROVE  FALSE
      OBVIOUS
    <3>1. CountIn(Program(j, s)[k].to, d) = 0
      BY CollectiveFacts DEF Fits
    <3> QED
      BY <3>1
  <2> QED
    BY <2>1, CollectiveAnswers
<1> QED
  BY <1>1, <1>2, <1>3 DEF OrderedJobs

(* Of three calls in a row at most, two of them before a barrier. *)
LEMMA CollectiveQueueBound ==
  ASSUME NEW j \in Jobs, CollectiveJob(j), NEW s \in Members(j.size), NEW d \in Members(j.size),
         NEW k \in DOMAIN Program(j, s)
  PROVE  QueueBound(j, s, d, k) \in Int /\ QueueBound(j, s, d, k) <= j.size + 2
<1> DEFINE two == {<<k - 2, 1>>} \cup {<<k - 1, 1>>}
           three == two \cup {<<k, 1>>}
           data == LingeringData(j, s, d, k)
<1>1. j.size \in Nat /\ DOMAIN Program(j, s) = 1 .. Len(Program(j, s))
  <2>1. Program(j, s) \in Seq(CallsOf(j.size, 1)) /\ j.size \in Nat
    BY CollectiveFacts
  <2> QED
    BY <2>1
<1>2. /\ IsFiniteSet(two) /\ IsFiniteSet(three)
      /\ Cardinality(two) \in Nat /\ Cardinality(three) \in Nat
      /\ Cardinality(two) <= 2 /\ Cardinality(three) <= 3
  <2>1. IsFiniteSet({<<k - 2, 1>>}) /\ Cardinality({<<k - 2, 1>>}) = 1
    BY FS_Singleton
  <2>2. IsFiniteSet(two) /\ Cardinality(two) <= 2 /\ Cardinality(two) \in Nat
    <3>1. /\ IsFiniteSet(two)
          /\ \/ Cardinality(two) = Cardinality({<<k - 2, 1>>})
             \/ Cardinality(two) = Cardinality({<<k - 2, 1>>}) + 1
      BY <2>1, FS_AddElement
    <3> HIDE DEF two
    <3> QED
      BY <2>1, <3>1
  <2>3. /\ IsFiniteSet(three)
        /\ \/ Cardinality(three) = Cardinality(two)
           \/ Cardinality(three) = Cardinality(two) + 1
    <3> HIDE DEF two
    <3> QED
      BY <2>2, FS_AddElement
  <2> HIDE DEF two, three
  <2> QED
    BY <2>2, <2>3
<1>3. ASSUME NEW m \in data
      PROVE  m \in three /\ (Program(j, s)[k].tag = BarrierTag => m \in two)
  <2>1. PICK c \in Lingering(j, s, d, k) : m \in {<<c, i>> : i \in 1 .. CountIn(Program(j, s)[c].to, d)}
    BY <1>3 DEF LingeringData
  <2>2. PICK i \in 1 .. CountIn(Program(j, s)[c].to, d) : m = <<c, i>>
    BY <2>1
  <2>3. /\ c \in 1 .. k /\ Program(j, s)[c].tag # BarrierTag
        /\ j \in OrderedJobs /\ Answered(j) => k <= AnsweredIn(j, s, c, d)
    BY <2>1 DEF Lingering
  <2>4. k \in Nat /\ c \in Nat /\ c <= k /\ c \in DOMAIN Program(j, s)
    BY <1>1, <2>3
  <2>5. /\ CountIn(Program(j, s)[c].to, d) \in 0 .. 1
        /\ s = d => CountIn(Program(j, s)[c].to, d) = 0
    <3>1. Program(j, s)[c] \in CallsOf(j.size, 1)
      BY <1>1, <2>4, CollectiveFacts
    <3>2. Fits(s, d, Program(j, s)[c], Program(j, d)[c])
      BY <2>4, CollectiveFacts
    <3> QED
      BY <3>1, <3>2 DEF CallsOf, Fits
  <2>6. i = 1 /\ s # d
    BY <2>2, <2>5
  <2>7. k <= c + 2
    <3>1. AnsweredIn(j, s, c, d) \in {c + 1, c + 2}
      BY <2>4, <2>6, CollectiveAnswers
    <3>2. k <= AnsweredIn(j, s, c, d)
      BY <2>3, CollectiveJobsOrdered
    <3> QED
      BY <2>4, <3>1, <3>2
  <2>8. c = k \/ c = k - 1 \/ c = k - 2
    BY <2>4, <2>7
  <2>9. Program(j, s)[k].tag = BarrierTag => c # k
    BY <2>3
  <2> QED
    BY <2>2, <2>6, <2>8, <2>9
<1>4. /\ Cardinality(data) \in Nat /\ Cardinality(data) <= 3
      /\ Program(j, s)[k].tag = BarrierTag => Cardinality(data) <= 2
  <2> HIDE DEF data, two, three
  <2>1. data \in SUBSET three /\ (Program(j, s)[k].tag = BarrierTag => data \in SUBSET two)
    BY <1>3
  <2>2. IsFiniteSet(data) /\ Cardinality(data) <= Cardinality(three)
    BY <1>2, <2>1, FS_Subset
  <2>3. Program(j, s)[k].tag = BarrierTag => Cardinality(data) <= Cardinality(two)
    BY <1>2, <2>1, FS_Subset
  <2>4. Cardinality(data) \in Nat
    BY <2>2, FS_CardinalityType
  <2> QED
    BY <1>2, <2>2, <2>3, <2>4
<1> HIDE DEF data
<1> QED
  BY <1>1, <1>4 DEF QueueBound, data

-----------------------------------------------------------------------------

(***************************************************************************)
(* Every blocking collective benchmark but the rings, with any number of   *)
(* ranks, message sizes and iterations: each call returns one message of   *)
(* every peer it names and none of another call.                           *)
(***************************************************************************)
THEOREM CollectivesTakeTheirOwn ==
  Spec => [](CollectiveJob(job) => OneMessageOfEachPeer)
<1>1. TypeOK => (CollectiveJob(job) => job \in OrderedJobs)
  BY CollectiveJobsOrdered DEF TypeOK
<1> QED
  BY <1>1, TypeCorrect, OrderedCallsTakeTheirOwn, PTL

(***************************************************************************)
(* ... although nobody waits for its sends, no buffer is filled again      *)
(* while a message sent from it waits, but for the next of its calls ...   *)
(***************************************************************************)
THEOREM CollectivesReuseNoBufferEarly ==
  Spec => [](CollectiveJob(job) => SendBuffersNotReusedEarly)
<1>1. TypeOK => (CollectiveJob(job) => job \in OrderedJobs /\ Answered(job))
  BY CollectiveJobsOrdered DEF TypeOK
<1> QED
  BY <1>1, TypeCorrect, AnsweredSendsAreTaken, PTL

(* ... no message is left for a later benchmark or teardown ... *)
THEOREM CollectivesLeaveNothing ==
  Spec => [](CollectiveJob(job) => NothingLeftBehind)
<1>1. TypeOK => (CollectiveJob(job) => job \in MatchedJobs)
  BY CollectiveJobsOrdered DEF TypeOK
<1> QED
  BY <1>1, TypeCorrect, MatchedJobsLeaveNothing, PTL

(* ... the ranks never all wait for each other, rendezvous or not ... *)
THEOREM CollectivesNeverStuck ==
  Spec => [](CollectiveJob(job) => NeverStuck)
<1>1. TypeOK => (CollectiveJob(job) => job \in MatchedJobs /\ job \in OrderedJobs)
  BY CollectiveJobsOrdered DEF TypeOK
<1> QED
  BY <1>1, TypeCorrect, MatchedJobsNeverStuck, PTL

(***************************************************************************)
(* ... and at most n + 2 messages of one rank wait at another, however many*)
(* sizes and iterations the benchmark runs.                                *)
(***************************************************************************)
THEOREM CollectivesKeepQueuesShort ==
  Spec => [](CollectiveJob(job) /\ job.size + 2 <= MaxQueued => QueuesStayShort)
<1>1. TypeOK => (CollectiveJob(job) /\ job.size + 2 <= MaxQueued => job \in MatchedJobs /\ Short(job))
  <2> SUFFICES ASSUME job \in Jobs, CollectiveJob(job), job.size + 2 <= MaxQueued
               PROVE  job \in MatchedJobs /\ Short(job)
    BY DEF TypeOK
  <2>1. job.size \in Nat
    BY CollectiveFacts
  <2>2. ASSUME NEW s \in Members(job.size), NEW d \in Members(job.size),
               NEW k \in DOMAIN Program(job, s)
        PROVE  QueueBound(job, s, d, k) <= MaxQueued
    <3>1. QueueBound(job, s, d, k) \in Int /\ QueueBound(job, s, d, k) <= job.size + 2
      BY CollectiveQueueBound
    <3> QED
      BY <2>1, <3>1, QueueAssumption
  <2>3. Short(job)
    BY <2>2 DEF Short, Members
  <2> QED
    BY <2>3, CollectiveJobsOrdered
<1> QED
  BY <1>1, TypeCorrect, ShortJobsKeepQueuesShort, PTL

-----------------------------------------------------------------------------
(* The non-blocking benchmarks: how much is sent between two barriers. *)

(* Calls with no barrier among them: at most m in a row, at most l at the end. *)
Bursts(q, m, l) ==
  /\ \A c, k \in DOMAIN q : c <= k /\ (\A b \in c .. k : q[b].tag # BarrierTag) => k - c < m
  /\ \A c \in DOMAIN q : (\A b \in c .. Len(q) : q[b].tag # BarrierTag) => Len(q) - c < l

LEMMA ShortBursts ==
  ASSUME NEW S, NEW q \in Seq(S), NEW m \in Nat, Len(q) <= m
  PROVE  Bursts(q, m, m)
<1>1. PICK n : n = Len(q) /\ n \in Nat /\ DOMAIN q = 1 .. n
  OBVIOUS
<1>2. \A c, k \in 1 .. n : k - c < m /\ n - c < m
  BY <1>1
<1> QED
  BY <1>1, <1>2 DEF Bursts

LEMMA JoinBursts ==
  ASSUME NEW S, NEW a \in Seq(S), NEW b \in Seq(S),
         NEW m1 \in Nat, NEW l1 \in Nat, NEW m2 \in Nat, NEW l2 \in Nat,
         NEW m \in Nat, NEW l \in Nat,
         Bursts(a, m1, l1), Bursts(b, m2, l2),
         m1 <= m, m2 <= m, l1 + m2 <= m, l1 + l2 <= l \/ (Fenced(b) /\ l2 <= l)
  PROVE  Bursts(a \o b, m, l)
<1>1. PICK x, y, q : x = Len(a) /\ y = Len(b) /\ q = a \o b
  OBVIOUS
<1>2. /\ x \in Nat /\ y \in Nat /\ DOMAIN a = 1 .. x /\ DOMAIN b = 1 .. y
      /\ DOMAIN q = 1 .. x + y /\ Len(q) = x + y
      /\ \A i \in 1 .. x : q[i] = a[i]
      /\ \A i \in 1 .. y : q[i + x] = b[i]
  BY <1>1, Concatenated
<1>3. /\ \A c, k \in 1 .. x : c <= k /\ (\A i \in c .. k : a[i].tag # BarrierTag) => k - c < m1
      /\ \A c \in 1 .. x : (\A i \in c .. x : a[i].tag # BarrierTag) => x - c < l1
      /\ \A c, k \in 1 .. y : c <= k /\ (\A i \in c .. k : b[i].tag # BarrierTag) => k - c < m2
      /\ \A c \in 1 .. y : (\A i \in c .. y : b[i].tag # BarrierTag) => y - c < l2
  BY <1>1, <1>2 DEF Bursts
<1>4. ASSUME NEW c \in 1 .. x + y, NEW k \in 1 .. x + y, c <= k,
             \A i \in c .. k : q[i].tag # BarrierTag
      PROVE  /\ c <= x /\ k > x => x - c < l1 /\ (k - x) - 1 < m2
             /\ k <= x => k - c < m1
             /\ c > x => k - c < m2
             /\ c > x /\ k = x + y => k - c < l2
             /\ c <= x /\ k = x + y /\ y > 0 => ~Fenced(b) /\ y - 1 < l2
             /\ c <= x /\ k = x => x - c < l1
  <2>1. ASSUME c <= x, k >= x
        PROVE  x - c < l1
    <3>1. c \in 1 .. x /\ \A i \in c .. x : i \in c .. k /\ i \in 1 .. x
      BY <1>2, <1>4, <2>1
    <3>2. \A i \in c .. x : a[i].tag # BarrierTag
      BY <1>2, <1>4, <3>1
    <3> QED
      BY <1>3, <3>1, <3>2
  <2>2. ASSUME c <= x, k > x
        PROVE  /\ (k - x) - 1 < m2
               /\ k = x + y => ~Fenced(b) /\ y - 1 < l2
    <3>1. PICK j : j = k - x
      OBVIOUS
    <3>2. 1 \in 1 .. y /\ j \in 1 .. y /\ \A i \in 1 .. j : i + x \in c .. k /\ i \in 1 .. y
      BY <1>2, <1>4, <2>2, <3>1
    <3>3. \A i \in 1 .. j : b[i].tag # BarrierTag
      BY <1>2, <1>4, <3>2
    <3>4. j - 1 < m2
      BY <1>3, <3>2, <3>3
    <3>5. k = x + y => j = y
      BY <1>2, <3>1
    <3>6. k = x + y => ~Fenced(b) /\ y - 1 < l2
      BY <1>2, <1>3, <3>2, <3>3, <3>5 DEF Fenced
    <3> QED
      BY <3>1, <3>4, <3>6
  <2>3. ASSUME k <= x
        PROVE  k - c < m1
    <3>1. c \in 1 .. x /\ k \in 1 .. x /\ \A i \in c .. k : i \in 1 .. x
      BY <1>2, <1>4, <2>3
    <3>2. \A i \in c .. k : a[i].tag # BarrierTag
      BY <1>2, <1>4, <3>1
    <3> QED
      BY <1>3, <1>4, <3>1, <3>2
  <2>4. ASSUME c > x
        PROVE  k - c < m2 /\ (k = x + y => k - c < l2)
    <3>1. PICK i, j : i = c - x /\ j = k - x
      OBVIOUS
    <3>2. /\ i \in 1 .. y /\ j \in 1 .. y /\ i <= j /\ k - c = j - i
          /\ \A e \in i .. j : e + x \in c .. k /\ e \in 1 .. y
      BY <1>2, <1>4, <2>4, <3>1
    <3>3. \A e \in i .. j : b[e].tag # BarrierTag
      BY <1>2, <1>4, <3>2
    <3>4. j - i < m2
      BY <1>3, <3>2, <3>3
    <3>5. k = x + y => j = y
      BY <1>2, <3>1
    <3>6. k = x + y => j - i < l2
      BY <1>3, <3>2, <3>3, <3>5
    <3> QED
      BY <3>2, <3>4, <3>6
  <2> QED
    BY <1>2, <1>4, <2>1, <2>2, <2>3, <2>4
<1>5. ASSUME NEW c \in DOMAIN q, NEW k \in DOMAIN q, c <= k, \A i \in c .. k : q[i].tag # BarrierTag
      PROVE  k - c < m
  <2>1. c \in 1 .. x + y /\ k \in 1 .. x + y /\ c \in Nat /\ k \in Nat
    BY <1>2
  <2>2. CASE k <= x
    <3>1. k - c < m1
      BY <1>4, <1>5, <2>1, <2>2
    <3> QED
      BY <2>1, <3>1
  <2>3. CASE c > x
    <3>1. k - c < m2
      BY <1>4, <1>5, <2>1, <2>3
    <3> QED
      BY <2>1, <3>1
  <2>4. CASE c <= x /\ k > x
    <3>1. x - c < l1 /\ (k - x) - 1 < m2
      BY <1>4, <1>5, <2>1, <2>4
    <3> QED
      BY <1>2, <2>1, <3>1
  <2> QED
    BY <1>2, <2>1, <2>2, <2>3, <2>4
<1>6. ASSUME NEW c \in DOMAIN q, \A i \in c .. Len(q) : q[i].tag # BarrierTag
      PROVE  Len(q) - c < l
  <2>1. c \in 1 .. x + y /\ x + y \in 1 .. x + y /\ c <= x + y /\ c \in Nat
    BY <1>2
  <2>2. \A i \in c .. x + y : q[i].tag # BarrierTag
    BY <1>2, <1>6
  <2>3. PICK k : k = x + y
    OBVIOUS
  <2>4. /\ c <= x /\ k > x => x - c < l1 /\ (k - x) - 1 < m2
        /\ c > x => k - c < l2
        /\ c <= x /\ y > 0 => ~Fenced(b) /\ y - 1 < l2
        /\ c <= x /\ k = x => x - c < l1
    BY <1>4, <2>1, <2>2, <2>3
  <2>5. k - c < l
    <3>1. CASE c > x
      BY <1>2, <2>1, <2>3, <2>4, <3>1
    <3>2. CASE c <= x /\ y > 0
      <4>1. ~Fenced(b) /\ y - 1 < l2 /\ x - c < l1
        BY <1>2, <2>3, <2>4, <3>2
      <4>2. l1 + l2 <= l
        BY <4>1
      <4> QED
        BY <1>2, <2>1, <2>3, <4>1, <4>2
    <3>3. CASE c <= x /\ y = 0
      <4>1. k = x /\ x - c < l1
        BY <1>2, <2>3, <2>4, <3>3
      <4>2. ~Fenced(b)
        BY <1>2, <3>3 DEF Fenced
      <4> QED
        BY <1>2, <2>1, <4>1, <4>2
    <3> QED
      BY <1>2, <2>1, <3>1, <3>2, <3>3
  <2> QED
    BY <1>2, <2>3, <2>5
<1>7. Bursts(q, m, l)
  BY <1>5, <1>6 DEF Bursts
<1> QED
  BY <1>1, <1>7

(* One call of every rank, none of which waits for a send. *)
Unawaited(n) == {c \in Meeting(n, 1) : \A r \in Members(n) : c[r].waits = "never"}

(* Programs of such calls, with barriers so often. *)
Loose(n, m, l) ==
  {p \in Agreeing(n, 1) :
     \A r \in Members(n) : /\ Bursts(p[r], m, l)
                           /\ \A k \in DOMAIN p[r] : p[r][k].waits = "never"}

LEMMA JoinLoose ==
  ASSUME NEW n, NEW m1 \in Nat, NEW l1 \in Nat, NEW m2 \in Nat, NEW l2 \in Nat,
         NEW m \in Nat, NEW l \in Nat,
         NEW p \in Loose(n, m1, l1), NEW q \in Loose(n, m2, l2),
         m1 <= m, m2 <= m, l1 + m2 <= m,
         l1 + l2 <= l \/ (l2 <= l /\ \A r \in Members(n) : Fenced(q[r]))
  PROVE  Join(n, p, q) \in Loose(n, m, l)
<1>1. p \in Agreeing(n, 1) /\ q \in Agreeing(n, 1)
  BY DEF Loose
<1>2. Join(n, p, q) \in Agreeing(n, 1) /\ \A r \in Members(n) : Join(n, p, q)[r] = p[r] \o q[r]
  <2>1. Join(n, p, q) \in Agreeing(n, 1)
    BY <1>1, JoinAgrees
  <2> QED
    BY <2>1 DEF Join
<1>3. ASSUME NEW r \in Members(n)
      PROVE  /\ Bursts(p[r] \o q[r], m, l)
             /\ \A k \in DOMAIN (p[r] \o q[r]) : (p[r] \o q[r])[k].waits = "never"
  <2>1. PICK a, b : a = p[r] /\ b = q[r]
    OBVIOUS
  <2>2. a \in Seq(CallsOf(n, 1)) /\ b \in Seq(CallsOf(n, 1))
    BY <1>1, <2>1 DEF Agreeing
  <2>3. /\ Bursts(a, m1, l1) /\ Bursts(b, m2, l2)
        /\ \A k \in DOMAIN a : a[k].waits = "never"
        /\ \A k \in DOMAIN b : b[k].waits = "never"
    BY <2>1 DEF Loose
  <2>4. Bursts(a \o b, m, l)
    BY <2>1, <2>2, <2>3, JoinBursts
  <2>5. ASSUME NEW k \in DOMAIN (a \o b)
        PROVE  (a \o b)[k].waits = "never"
    <3>1. CASE k \in DOMAIN a
      BY <2>2, <2>3, <3>1, Concatenated
    <3>2. CASE k \notin DOMAIN a
      <4>1. PICK i : i = k - Len(a)
        OBVIOUS
      <4>2. i \in DOMAIN b /\ k = i + Len(a)
        BY <2>2, <2>5, <3>2, <4>1, Concatenated
      <4>3. (a \o b)[k] = b[i]
        BY <2>2, <4>2, Concatenated
      <4> QED
        BY <2>3, <4>2, <4>3
    <3> QED
      BY <3>1, <3>2
  <2> QED
    BY <2>1, <2>4, <2>5
<1> QED
  BY <1>2, <1>3 DEF Loose

LEMMA CallLoose ==
  ASSUME NEW n, NEW c \in Unawaited(n)
  PROVE  [r \in Members(n) |-> <<c[r]>>] \in Loose(n, 1, 1)
<1> DEFINE p == [r \in Members(n) |-> <<c[r]>>]
<1>1. c \in Meeting(n, 1) /\ p \in Agreeing(n, 1)
  BY CallAgrees DEF Unawaited
<1>2. ASSUME NEW r \in Members(n)
      PROVE  Bursts(p[r], 1, 1) /\ \A k \in DOMAIN p[r] : p[r][k].waits = "never"
  <2>1. /\ p[r] = <<c[r]>> /\ p[r] \in Seq(CallsOf(n, 1)) /\ Len(p[r]) = 1
        /\ DOMAIN p[r] = {1} /\ p[r][1] = c[r] /\ c[r].waits = "never"
    BY <1>1 DEF Unawaited, Meeting
  <2>2. PICK q : q = p[r] /\ q \in Seq(CallsOf(n, 1)) /\ Len(q) = 1
    BY <2>1
  <2>3. Bursts(q, 1, 1)
    <3>1. 1 \in Nat /\ Len(q) <= 1
      BY <2>2
    <3> QED
      BY <2>2, <3>1, ShortBursts
  <2> HIDE DEF p
  <2> QED
    BY <2>1, <2>2, <2>3
<1> HIDE DEF p
<1>3. p \in Loose(n, 1, 1)
  BY <1>1, <1>2 DEF Loose
<1> QED
  BY <1>3 DEF p

LEMMA BarrierLoose ==
  ASSUME NEW n \in Nat \ {0}
  PROVE  /\ [r \in Members(n) |-> Barrier(r, n)] \in Unawaited(n)
         /\ [r \in Members(n) |-> <<Barrier(r, n)>>] \in Loose(n, 0, 0)
<1> DEFINE c == [r \in Members(n) |-> Barrier(r, n)]
           p == [r \in Members(n) |-> <<c[r]>>]
<1>1. c \in Unawaited(n)
  <2>1. c \in Meeting(n, 1)
    BY BarrierCall DEF Regular
  <2>2. \A r \in Members(n) : c[r].waits = "never"
    BY DEF Barrier, ToAll, Exchange
  <2> HIDE DEF c
  <2> QED
    BY <2>1, <2>2 DEF Unawaited
<1>2. \A r \in Members(n) : p[r] = <<Barrier(r, n)>> /\ Barrier(r, n).tag = BarrierTag
  BY BarrierCall
<1>3. p = [r \in Members(n) |-> <<Barrier(r, n)>>]
  OBVIOUS
<1> HIDE DEF c
<1>4. p \in Loose(n, 1, 1)
  BY <1>1, CallLoose
<1> HIDE DEF p
<1>5. ASSUME NEW r \in Members(n)
      PROVE  Bursts(p[r], 0, 0)
  <2>1. PICK x, q : x = Barrier(r, n) /\ q = p[r]
    OBVIOUS
  <2>2. q = <<x>> /\ x.tag = BarrierTag
    BY <1>2, <2>1
  <2>3. DOMAIN q = {1} /\ Len(q) = 1 /\ q[1].tag = BarrierTag /\ 1 \in 1 .. 1
    BY <2>2
  <2>4. Bursts(q, 0, 0)
    BY <2>3 DEF Bursts
  <2> QED
    BY <2>1, <2>4
<1>6. p \in Loose(n, 0, 0)
  BY <1>4, <1>5 DEF Loose
<1> QED
  BY <1>1, <1>3, <1>6 DEF c

LEMMA ToAllUnawaited ==
  ASSUME NEW n \in Nat \ {0}, NEW tag \in Tags
  PROVE  [r \in Members(n) |-> ToAll(tag, r, n)] \in Unawaited(n)
<1> DEFINE c == [r \in Members(n) |-> ToAll(tag, r, n)]
<1>1. c \in Meeting(n, 1)
  BY ToAllRegular DEF Regular
<1>2. \A r \in Members(n) : c[r].waits = "never"
  BY DEF ToAll, Exchange
<1> HIDE DEF c
<1>3. c \in Unawaited(n)
  BY <1>1, <1>2 DEF Unawaited
<1> QED
  BY <1>3 DEF c

(* The warm-up: Skip calls with no barrier. *)
LEMMA WarmUpLoose ==
  ASSUME NEW n, NEW c \in Unawaited(n)
  PROVE  [r \in Members(n) |-> Repeat(Skip, <<c[r]>>)] \in Loose(n, Skip, Skip)
<1>1. PICK Z, one : /\ Z = {p \in Agreeing(n, 1) :
                              \A r \in Members(n) : \A k \in DOMAIN p[r] : p[r][k].waits = "never"}
                    /\ one = [r \in Members(n) |-> <<c[r]>>]
  OBVIOUS
<1>2. one \in Z
  BY <1>1, CallLoose DEF Loose
<1>3. ASSUME NEW p \in Z, NEW q \in Z
      PROVE  Join(n, p, q) \in Z
  <2>1. p \in Agreeing(n, 1) /\ q \in Agreeing(n, 1)
    BY <1>1
  <2>2. Join(n, p, q) \in Agreeing(n, 1)
    BY <2>1, JoinAgrees
  <2>3. ASSUME NEW r \in Members(n), NEW k \in DOMAIN Join(n, p, q)[r]
        PROVE  Join(n, p, q)[r][k].waits = "never"
    <3>1. PICK a, b : a = p[r] /\ b = q[r]
      OBVIOUS
    <3>2. a \in Seq(CallsOf(n, 1)) /\ b \in Seq(CallsOf(n, 1)) /\ Join(n, p, q)[r] = a \o b
      BY <2>1, <3>1 DEF Agreeing, Join
    <3>3. /\ \A i \in DOMAIN a : a[i].waits = "never"
          /\ \A i \in DOMAIN b : b[i].waits = "never"
      BY <1>1, <3>1
    <3>4. CASE k \in DOMAIN a
      BY <3>2, <3>3, <3>4, Concatenated
    <3>5. CASE k \notin DOMAIN a
      <4>1. PICK i : i = k - Len(a)
        OBVIOUS
      <4>2. i \in DOMAIN b /\ k = i + Len(a)
        BY <2>3, <3>2, <3>5, <4>1, Concatenated
      <4>3. (a \o b)[k] = b[i]
        BY <3>2, <4>2, Concatenated
      <4> QED
        BY <3>2, <3>3, <4>2, <4>3
    <3> QED
      BY <3>4, <3>5
  <2> QED
    BY <1>1, <2>2, <2>3
<1>4. Closed(n, Z)
  <2>1. ASSUME NEW p \in Z
        PROVE  p = [r \in Members(n) |-> p[r]]
    BY <1>1 DEF Agreeing
  <2> QED
    BY <1>3, <2>1 DEF Closed
<1>5. [r \in Members(n) |-> <<>>] \in Z
  <2>1. PICK e : e = [r \in Members(n) |-> <<>>]
    OBVIOUS
  <2>2. e \in Agreeing(n, 1) /\ \A r \in Members(n) : DOMAIN e[r] = {}
    BY <2>1, NothingAgrees
  <2> QED
    BY <1>1, <2>1, <2>2
<1>6. PICK all : all = Repeated(n, Skip, one)
  OBVIOUS
<1>7. all \in Z
  BY <1>2, <1>4, <1>5, <1>6, RepeatKeeps, SkipAssumption
<1>8. ASSUME NEW r \in Members(n)
      PROVE  all[r] = Repeat(Skip, <<c[r]>>)
  BY <1>1, <1>6 DEF Repeated, Repeat
<1>9. ASSUME NEW r \in Members(n)
      PROVE  Bursts(all[r], Skip, Skip)
  <2>1. c[r] \in CallsOf(n, 1)
    BY DEF Unawaited, Meeting
  <2>2. PICK q : q = Repeat(Skip, <<c[r]>>)
    OBVIOUS
  <2>3. q \in Seq(CallsOf(n, 1)) /\ Len(q) = Skip
    BY <2>1, <2>2, RepeatedCall, SkipAssumption DEF Repeat
  <2>4. Len(q) <= Skip
    BY <2>3, SkipAssumption
  <2>5. Bursts(q, Skip, Skip)
    BY <2>3, <2>4, ShortBursts, SkipAssumption
  <2> QED
    BY <1>8, <2>2, <2>5
<1>10. all \in Loose(n, Skip, Skip)
  BY <1>1, <1>7, <1>9 DEF Loose
<1>11. all = [r \in Members(n) |-> Repeat(Skip, <<c[r]>>)]
  <2>1. all = [r \in Members(n) |-> all[r]]
    BY <1>6 DEF Repeated
  <2> QED
    BY <1>8, <2>1
<1> QED
  BY <1>10, <1>11

(* The timed iterations: a barrier after each call. *)
LEMMA TimedLoose ==
  ASSUME NEW n \in Nat \ {0}, NEW c \in Unawaited(n)
  PROVE  [r \in Members(n) |-> Repeat(Iterations, <<c[r], Barrier(r, n)>>)] \in Loose(n, 1, 0)
<1>1. PICK a, b, one : /\ a = [r \in Members(n) |-> <<c[r]>>]
                       /\ b = [r \in Members(n) |-> <<Barrier(r, n)>>]
                       /\ one = [r \in Members(n) |-> <<c[r], Barrier(r, n)>>]
  OBVIOUS
<1>2. a \in Loose(n, 1, 1) /\ b \in Loose(n, 0, 0) /\ \A r \in Members(n) : Fenced(b[r])
  BY <1>1, CallLoose, BarrierLoose, BarrierCall
<1>3. one \in Loose(n, 1, 0)
  <2>1. Join(n, a, b) \in Loose(n, 1, 0)
    <3>1. PICK u, v : u = 0 /\ v = 1
      OBVIOUS
    <3>2. /\ u \in Nat /\ v \in Nat /\ v <= v /\ u <= v /\ v + u <= v /\ u <= u
          /\ a \in Loose(n, v, v) /\ b \in Loose(n, u, u)
          /\ \A r \in Members(n) : Fenced(b[r])
      BY <1>2, <3>1
    <3>3. Join(n, a, b) \in Loose(n, v, u)
      BY <3>2, JoinLoose
    <3> QED
      BY <3>1, <3>3
  <2>2. Join(n, a, b) = one
    BY <1>1, Pair DEF Join
  <2> QED
    BY <2>1, <2>2
<1>4. PICK Z : Z = Loose(n, 1, 0)
  OBVIOUS
<1>5. ASSUME NEW p \in Z, NEW q \in Z
      PROVE  Join(n, p, q) \in Z
  <2>1. PICK u, v : u = 0 /\ v = 1
    OBVIOUS
  <2>2. /\ u \in Nat /\ v \in Nat /\ v <= v /\ u + v <= v /\ u + u <= u
        /\ p \in Loose(n, v, u) /\ q \in Loose(n, v, u)
    BY <1>4, <2>1
  <2>3. Join(n, p, q) \in Loose(n, v, u)
    BY <2>2, JoinLoose
  <2> QED
    BY <1>4, <2>1, <2>3
<1>6. Closed(n, Z)
  <2>1. ASSUME NEW p \in Z
        PROVE  p = [r \in Members(n) |-> p[r]]
    BY <1>4 DEF Loose, Agreeing
  <2> QED
    BY <1>5, <2>1 DEF Closed
<1>7. [r \in Members(n) |-> <<>>] \in Z
  <2>1. PICK e : e = [r \in Members(n) |-> <<>>]
    OBVIOUS
  <2>2. e \in Agreeing(n, 1) /\ \A r \in Members(n) : e[r] = <<>>
    BY <2>1, NothingAgrees
  <2>3. e \in Loose(n, 1, 0)
    BY <2>2 DEF Loose, Bursts
  <2> QED
    BY <1>4, <2>1, <2>3
<1>8. PICK all : all = Repeated(n, Iterations, one)
  OBVIOUS
<1>9. all \in Z
  BY <1>3, <1>4, <1>6, <1>7, <1>8, RepeatKeeps, LoopAssumption
<1>10. all = [r \in Members(n) |-> Repeat(Iterations, <<c[r], Barrier(r, n)>>)]
  BY <1>1, <1>8 DEF Repeated, Repeat
<1> QED
  BY <1>4, <1>9, <1>10

LEMMA MinAndMaxLoose ==
  ASSUME NEW n \in Nat \ {0}
  PROVE  [r \in Members(n) |-> MinAndMax(r, n)] \in Loose(n, 3, 3)
<1> DEFINE one(tag) == [r \in Members(n) |-> <<ToAll(tag, r, n)>>]
<1>1. ASSUME NEW tag \in Tags
      PROVE  one(tag) \in Loose(n, 1, 1)
  <2>1. PICK c : c = [r \in Members(n) |-> ToAll(tag, r, n)]
    OBVIOUS
  <2>2. c \in Unawaited(n)
    BY <2>1, ToAllUnawaited
  <2>3. [r \in Members(n) |-> <<c[r]>>] \in Loose(n, 1, 1)
    BY <2>2, CallLoose
  <2>4. [r \in Members(n) |-> <<c[r]>>] = one(tag)
    BY <2>1
  <2> QED
    BY <2>3, <2>4
<1>2. PICK a, b, c : a = one("DEADBEEF") /\ b = one("DEAD0001") /\ c = one("DEAD0002")
  OBVIOUS
<1>3. a \in Loose(n, 1, 1) /\ b \in Loose(n, 1, 1) /\ c \in Loose(n, 1, 1)
  <2> HIDE DEF one
  <2> QED
    BY <1>1, <1>2 DEF Tags
<1>4. PICK d : d = Join(n, a, b)
  OBVIOUS
<1>5. PICK u, v, w : u = 1 /\ v = 2 /\ w = 3
  OBVIOUS
<1>6. Join(n, d, c) \in Loose(n, w, w)
  <2>1. /\ u \in Nat /\ v \in Nat /\ w \in Nat
        /\ u <= v /\ u <= w /\ v <= w /\ u + u <= v /\ v + u <= w
    BY <1>5
  <2>2. a \in Loose(n, u, u) /\ b \in Loose(n, u, u) /\ c \in Loose(n, u, u)
    BY <1>3, <1>5
  <2>3. d \in Loose(n, v, v)
    BY <1>4, <2>1, <2>2, JoinLoose
  <2> QED
    BY <2>1, <2>2, <2>3, JoinLoose
<1>7. Join(n, d, c) = [r \in Members(n) |-> MinAndMax(r, n)]
  <2>1. ASSUME NEW r \in Members(n)
        PROVE  d[r] \o c[r] = MinAndMax(r, n)
    <3>1. d[r] = AllreduceMin(r, n)
      BY <1>2, <1>4, Pair DEF Join, AllreduceMin, AllreduceU64
    <3>2. c[r] = AllreduceMax(r, n)
      BY <1>2 DEF AllreduceMax
    <3> QED
      BY <3>1, <3>2 DEF MinAndMax
  <2> QED
    BY <2>1 DEF Join
<1> QED
  BY <1>5, <1>6, <1>7

(* At most the warm-up, the first timed call or the statistics are between two barriers. *)
LEMMA TimedOnceLoose ==
  ASSUME NEW n \in Nat \ {0}, NEW c \in Unawaited(n)
  PROVE  [r \in Members(n) |-> TimedOnce(r, n, c[r])] \in Loose(n, Skip + 3, Skip + 3)
<1>1. PICK a, b, d, e : /\ a = [r \in Members(n) |-> <<Barrier(r, n)>>]
                        /\ b = [r \in Members(n) |-> Repeat(Skip, <<c[r]>>)]
                        /\ d = [r \in Members(n) |-> Repeat(Iterations, <<c[r], Barrier(r, n)>>)]
                        /\ e = [r \in Members(n) |-> MinAndMax(r, n)]
  OBVIOUS
<1>2. /\ a \in Loose(n, 0, 0) /\ b \in Loose(n, Skip, Skip)
      /\ d \in Loose(n, 1, 0) /\ e \in Loose(n, 3, 3)
  BY <1>1, BarrierLoose, WarmUpLoose, TimedLoose, MinAndMaxLoose
<1>3. PICK x, y, z : x = Join(n, b, d) /\ y = Join(n, x, e) /\ z = Join(n, a, y)
  OBVIOUS
<1>4. PICK u, v, w, k, l : u = 0 /\ v = 1 /\ w = 3 /\ k = Skip + 1 /\ l = Skip + 3
  OBVIOUS
<1>5. z \in Loose(n, l, l)
  <2>1. /\ u \in Nat /\ v \in Nat /\ w \in Nat /\ k \in Nat /\ l \in Nat /\ Skip \in Nat
        /\ Skip <= k /\ v <= k /\ Skip + v <= k /\ Skip + u <= Skip
        /\ k <= l /\ w <= l /\ Skip + w <= l
        /\ u <= l /\ l <= l /\ u + l <= l
    BY <1>4, SkipAssumption
  <2>2. /\ a \in Loose(n, u, u) /\ b \in Loose(n, Skip, Skip)
        /\ d \in Loose(n, v, u) /\ e \in Loose(n, w, w)
    BY <1>2, <1>4
  <2>3. x \in Loose(n, k, Skip)
    BY <1>3, <2>1, <2>2, JoinLoose
  <2>4. y \in Loose(n, l, l)
    BY <1>3, <2>1, <2>2, <2>3, JoinLoose
  <2>5. u \in Nat /\ l \in Nat /\ u <= l /\ l <= l /\ u + l <= l
    BY <2>1
  <2>6. a \in Loose(n, u, u) /\ z = Join(n, a, y)
    BY <1>3, <2>2
  <2> QED
    BY <2>4, <2>5, <2>6, JoinLoose
<1>6. z \in Loose(n, Skip + 3, Skip + 3)
  BY <1>4, <1>5
<1>7. z = [r \in Members(n) |-> TimedOnce(r, n, c[r])]
  <2>1. ASSUME NEW r \in Members(n)
        PROVE  a[r] \o y[r] = TimedOnce(r, n, c[r])
    <3>1. y[r] = (b[r] \o d[r]) \o e[r]
      BY <1>3 DEF Join
    <3>2. y[r] = TimedLoop(r, n, c[r])
      BY <1>1, <3>1 DEF TimedLoop
    <3> QED
      BY <1>1, <3>2 DEF TimedOnce
  <2> QED
    BY <1>3, <2>1 DEF Join
<1> QED
  BY <1>6, <1>7

-----------------------------------------------------------------------------
(* What the non-blocking benchmarks are made of. *)

LEMMA DroppedUnawaited ==
  ASSUME NEW n, NEW c \in Unawaited(n)
  PROVE  [r \in Members(n) |-> Dropped(c[r])] \in Unawaited(n)
<1> DEFINE b == [r \in Members(n) |-> Dropped(c[r])]
<1>1. ASSUME NEW r \in Members(n)
      PROVE  /\ b[r] \in CallsOf(n, 1) /\ b[r].waits = "never"
             /\ b[r].tag = c[r].tag /\ b[r].takes = c[r].takes
             /\ b[r].to = c[r].to /\ b[r].from = c[r].from
  <2>1. c[r] \in CallsOf(n, 1) /\ c[r].waits = "never"
    BY DEF Unawaited, Meeting
  <2>2. b[r] = [c[r] EXCEPT !.keep = FALSE]
    BY DEF Dropped
  <2> HIDE DEF b
  <2> QED
    BY <2>1, <2>2 DEF CallsOf
<1>2. b \in [Members(n) -> CallsOf(n, 1)]
  BY <1>1
<1> HIDE DEF b
<1>3. ASSUME NEW s \in Members(n), NEW d \in Members(n)
      PROVE  Fits(s, d, b[s], b[d])
  <2>1. Fits(s, d, c[s], c[d])
    BY DEF Unawaited, Meeting
  <2> QED
    BY <1>1, <2>1 DEF Fits
<1>4. b \in Unawaited(n)
  BY <1>1, <1>2, <1>3 DEF Unawaited, Meeting
<1> QED
  BY <1>4 DEF b

LEMMA RootedUnawaited ==
  ASSUME NEW n \in Nat \ {0}, NEW tag \in Tags
  PROVE  /\ [r \in Members(n) |-> RootSends(tag, r, n, 0)] \in Unawaited(n)
         /\ [r \in Members(n) |-> RootReceives(tag, r, n, 0)] \in Unawaited(n)
<1>1. PICK c, b : /\ c = [r \in Members(n) |-> RootSends(tag, r, n, 0)]
                  /\ b = [r \in Members(n) |-> RootReceives(tag, r, n, 0)]
  OBVIOUS
<1>2. 0 \in Members(n)
  BY DEF Members
<1>3. c \in Meeting(n, 1) /\ b \in Meeting(n, 1)
  BY <1>1, <1>2, RootSendsRegular, RootReceivesRegular DEF Regular
<1>4. ASSUME NEW r \in Members(n)
      PROVE  c[r].waits = "never" /\ b[r].waits = "never"
  <2>1. RootSends(tag, r, n, 0).waits = "never"
    BY DEF RootSends, Exchange
  <2>2. RootReceives(tag, r, n, 0).waits = "never"
    BY DEF RootReceives, Exchange
  <2> QED
    BY <1>1, <2>1, <2>2
<1> QED
  BY <1>1, <1>3, <1>4 DEF Unawaited

LEMMA NonBlockingUnawaited ==
  ASSUME NEW n \in Nat \ {0}
  PROVE  /\ [r \in Members(n) |-> Ibarrier(r, n)] \in Unawaited(n)
         /\ [r \in Members(n) |-> Ibcast(r, n, 0)] \in Unawaited(n)
         /\ [r \in Members(n) |-> Ireduce(r, n)] \in Unawaited(n)
         /\ [r \in Members(n) |-> Iallreduce(r, n)] \in Unawaited(n)
         /\ [r \in Members(n) |-> Igather(r, n, 0)] \in Unawaited(n)
         /\ [r \in Members(n) |-> Igatherv(r, n, 0)] \in Unawaited(n)
         /\ [r \in Members(n) |-> Iscatter(r, n, 0)] \in Unawaited(n)
         /\ [r \in Members(n) |-> Iscatterv(r, n, 0)] \in Unawaited(n)
         /\ [r \in Members(n) |-> Iallgather(r, n)] \in Unawaited(n)
         /\ [r \in Members(n) |-> Iallgatherv(r, n)] \in Unawaited(n)
         /\ [r \in Members(n) |-> Ialltoall(r, n)] \in Unawaited(n)
         /\ [r \in Members(n) |-> Ialltoallv(r, n)] \in Unawaited(n)
         /\ [r \in Members(n) |-> IreduceScatter(r, n)] \in Unawaited(n)
         /\ [r \in Members(n) |-> IreduceScatterBlock(r, n)] \in Unawaited(n)
<1>1. ASSUME NEW tag \in Tags
      PROVE  /\ [r \in Members(n) |-> Dropped(ToAll(tag, r, n))] \in Unawaited(n)
             /\ [r \in Members(n) |-> RootSends(tag, r, n, 0)] \in Unawaited(n)
             /\ [r \in Members(n) |-> Dropped(RootSends(tag, r, n, 0))] \in Unawaited(n)
             /\ [r \in Members(n) |-> Dropped(RootReceives(tag, r, n, 0))] \in Unawaited(n)
  <2>1. PICK a, b, c : /\ a = [r \in Members(n) |-> ToAll(tag, r, n)]
                       /\ b = [r \in Members(n) |-> RootSends(tag, r, n, 0)]
                       /\ c = [r \in Members(n) |-> RootReceives(tag, r, n, 0)]
    OBVIOUS
  <2>2. a \in Unawaited(n) /\ b \in Unawaited(n) /\ c \in Unawaited(n)
    BY <2>1, ToAllUnawaited, RootedUnawaited
  <2>3. /\ [r \in Members(n) |-> Dropped(a[r])] \in Unawaited(n)
        /\ [r \in Members(n) |-> Dropped(b[r])] \in Unawaited(n)
        /\ [r \in Members(n) |-> Dropped(c[r])] \in Unawaited(n)
    BY <2>2, DroppedUnawaited
  <2>4. /\ [r \in Members(n) |-> Dropped(a[r])] = [r \in Members(n) |-> Dropped(ToAll(tag, r, n))]
        /\ [r \in Members(n) |-> Dropped(b[r])] = [r \in Members(n) |-> Dropped(RootSends(tag, r, n, 0))]
        /\ [r \in Members(n) |-> Dropped(c[r])] = [r \in Members(n) |-> Dropped(RootReceives(tag, r, n, 0))]
    BY <2>1
  <2> QED
    BY <2>1, <2>2, <2>3, <2>4
<1>2. {"BADC0DE0", "BADC0DE1", "BADC0DE2", "BADC0DE3", "BADC0DE4", "BADC0DE5", "BADC0DE6", "BADC0DE7",
       "BADC0DE8", "BADC0DE9", "BADC0DEA", "BADC0DEB", "DEADBEEF", "BEEFCAFE"} \subseteq Tags
  BY DEF Tags, BarrierTag
<1>3. [r \in Members(n) |-> Ibarrier(r, n)] \in Unawaited(n)
  BY <1>1, <1>2 DEF Ibarrier, Barrier
<1>4. [r \in Members(n) |-> Ibcast(r, n, 0)] \in Unawaited(n)
  BY <1>1, <1>2 DEF Ibcast
<1>5. [r \in Members(n) |-> Ireduce(r, n)] \in Unawaited(n)
  BY <1>1, <1>2 DEF Ireduce
<1>6. [r \in Members(n) |-> Iallreduce(r, n)] \in Unawaited(n)
  BY <1>1, <1>2 DEF Iallreduce, AllreduceU64
<1>7. [r \in Members(n) |-> Igather(r, n, 0)] \in Unawaited(n)
  BY <1>1, <1>2 DEF Igather
<1>8. [r \in Members(n) |-> Igatherv(r, n, 0)] \in Unawaited(n)
  BY <1>1, <1>2 DEF Igatherv
<1>9. [r \in Members(n) |-> Iscatter(r, n, 0)] \in Unawaited(n)
  BY <1>1, <1>2 DEF Iscatter
<1>10. [r \in Members(n) |-> Iscatterv(r, n, 0)] \in Unawaited(n)
  BY <1>1, <1>2 DEF Iscatterv
<1>11. [r \in Members(n) |-> Iallgather(r, n)] \in Unawaited(n)
  BY <1>1, <1>2 DEF Iallgather
<1>12. [r \in Members(n) |-> Iallgatherv(r, n)] \in Unawaited(n)
  BY <1>1, <1>2 DEF Iallgatherv
<1>13. [r \in Members(n) |-> Ialltoall(r, n)] \in Unawaited(n)
  BY <1>1, <1>2 DEF Ialltoall
<1>14. [r \in Members(n) |-> Ialltoallv(r, n)] \in Unawaited(n)
  BY <1>1, <1>2 DEF Ialltoallv
<1>15. [r \in Members(n) |-> IreduceScatter(r, n)] \in Unawaited(n)
  BY <1>1, <1>2 DEF IreduceScatter
<1>16. [r \in Members(n) |-> IreduceScatterBlock(r, n)] \in Unawaited(n)
  BY <1>1, <1>2 DEF IreduceScatterBlock
<1> QED
  BY <1>3, <1>4, <1>5, <1>6, <1>7, <1>8, <1>9, <1>10, <1>11, <1>12, <1>13, <1>14, <1>15, <1>16

(* The programs of the non-blocking collective benchmarks but for the rings. *)
NonBlockingPrograms(n) ==
  {[r \in Members(n) |-> osu_ibarrier(r, n)],
   [r \in Members(n) |-> osu_ibcast(r, n)],
   [r \in Members(n) |-> osu_ireduce(r, n)],
   [r \in Members(n) |-> osu_iallreduce(r, n)],
   [r \in Members(n) |-> osu_igather(r, n)],
   [r \in Members(n) |-> osu_igatherv(r, n)],
   [r \in Members(n) |-> osu_iscatter(r, n)],
   [r \in Members(n) |-> osu_iscatterv(r, n)],
   [r \in Members(n) |-> osu_iallgather(r, n)],
   [r \in Members(n) |-> osu_iallgatherv(r, n)],
   [r \in Members(n) |-> osu_ialltoall(r, n)],
   [r \in Members(n) |-> osu_ialltoallv(r, n)],
   [r \in Members(n) |-> osu_ialltoallw(r, n)],
   [r \in Members(n) |-> osu_ireduce_scatter(r, n)],
   [r \in Members(n) |-> osu_ireduce_scatter_block(r, n)]}

LEMMA NonBlockingLoose ==
  ASSUME NEW n \in Nat \ {0}, NEW p \in NonBlockingPrograms(n)
  PROVE  p \in Loose(n, Skip + 3, Skip + 3)
<1> DEFINE Z == Loose(n, Skip + 3, Skip + 3)
<1>1. ASSUME NEW c \in Unawaited(n)
      PROVE  [r \in Members(n) |-> TimedOnce(r, n, c[r])] \in Z
  BY TimedOnceLoose
<1> HIDE DEF Z
<1>2. [r \in Members(n) |-> osu_ibarrier(r, n)] \in Z
  <2>1. PICK c : c = [r \in Members(n) |-> Ibarrier(r, n)]
    OBVIOUS
  <2>2. c \in Unawaited(n)
    BY <2>1, NonBlockingUnawaited
  <2>3. [r \in Members(n) |-> TimedOnce(r, n, c[r])] \in Z
    BY <1>1, <2>2
  <2>4. [r \in Members(n) |-> TimedOnce(r, n, c[r])] = [r \in Members(n) |-> osu_ibarrier(r, n)]
    BY <2>1 DEF osu_ibarrier
  <2> QED
    BY <2>3, <2>4
<1>3. [r \in Members(n) |-> osu_ibcast(r, n)] \in Z
  <2>1. PICK c : c = [r \in Members(n) |-> Ibcast(r, n, 0)]
    OBVIOUS
  <2>2. c \in Unawaited(n)
    BY <2>1, NonBlockingUnawaited
  <2>3. [r \in Members(n) |-> TimedOnce(r, n, c[r])] \in Z
    BY <1>1, <2>2
  <2>4. [r \in Members(n) |-> TimedOnce(r, n, c[r])] = [r \in Members(n) |-> osu_ibcast(r, n)]
    BY <2>1 DEF osu_ibcast
  <2> QED
    BY <2>3, <2>4
<1>4. [r \in Members(n) |-> osu_ireduce(r, n)] \in Z
  <2>1. PICK c : c = [r \in Members(n) |-> Ireduce(r, n)]
    OBVIOUS
  <2>2. c \in Unawaited(n)
    BY <2>1, NonBlockingUnawaited
  <2>3. [r \in Members(n) |-> TimedOnce(r, n, c[r])] \in Z
    BY <1>1, <2>2
  <2>4. [r \in Members(n) |-> TimedOnce(r, n, c[r])] = [r \in Members(n) |-> osu_ireduce(r, n)]
    BY <2>1 DEF osu_ireduce
  <2> QED
    BY <2>3, <2>4
<1>5. [r \in Members(n) |-> osu_iallreduce(r, n)] \in Z
  <2>1. PICK c : c = [r \in Members(n) |-> Iallreduce(r, n)]
    OBVIOUS
  <2>2. c \in Unawaited(n)
    BY <2>1, NonBlockingUnawaited
  <2>3. [r \in Members(n) |-> TimedOnce(r, n, c[r])] \in Z
    BY <1>1, <2>2
  <2>4. [r \in Members(n) |-> TimedOnce(r, n, c[r])] = [r \in Members(n) |-> osu_iallreduce(r, n)]
    BY <2>1 DEF osu_iallreduce
  <2> QED
    BY <2>3, <2>4
<1>6. [r \in Members(n) |-> osu_igather(r, n)] \in Z
  <2>1. PICK c : c = [r \in Members(n) |-> Igather(r, n, 0)]
    OBVIOUS
  <2>2. c \in Unawaited(n)
    BY <2>1, NonBlockingUnawaited
  <2>3. [r \in Members(n) |-> TimedOnce(r, n, c[r])] \in Z
    BY <1>1, <2>2
  <2>4. [r \in Members(n) |-> TimedOnce(r, n, c[r])] = [r \in Members(n) |-> osu_igather(r, n)]
    BY <2>1 DEF osu_igather
  <2> QED
    BY <2>3, <2>4
<1>7. [r \in Members(n) |-> osu_igatherv(r, n)] \in Z
  <2>1. PICK c : c = [r \in Members(n) |-> Igatherv(r, n, 0)]
    OBVIOUS
  <2>2. c \in Unawaited(n)
    BY <2>1, NonBlockingUnawaited
  <2>3. [r \in Members(n) |-> TimedOnce(r, n, c[r])] \in Z
    BY <1>1, <2>2
  <2>4. [r \in Members(n) |-> TimedOnce(r, n, c[r])] = [r \in Members(n) |-> osu_igatherv(r, n)]
    BY <2>1 DEF osu_igatherv
  <2> QED
    BY <2>3, <2>4
<1>8. [r \in Members(n) |-> osu_iscatter(r, n)] \in Z
  <2>1. PICK c : c = [r \in Members(n) |-> Iscatter(r, n, 0)]
    OBVIOUS
  <2>2. c \in Unawaited(n)
    BY <2>1, NonBlockingUnawaited
  <2>3. [r \in Members(n) |-> TimedOnce(r, n, c[r])] \in Z
    BY <1>1, <2>2
  <2>4. [r \in Members(n) |-> TimedOnce(r, n, c[r])] = [r \in Members(n) |-> osu_iscatter(r, n)]
    BY <2>1 DEF osu_iscatter
  <2> QED
    BY <2>3, <2>4
<1>9. [r \in Members(n) |-> osu_iscatterv(r, n)] \in Z
  <2>1. PICK c : c = [r \in Members(n) |-> Iscatterv(r, n, 0)]
    OBVIOUS
  <2>2. c \in Unawaited(n)
    BY <2>1, NonBlockingUnawaited
  <2>3. [r \in Members(n) |-> TimedOnce(r, n, c[r])] \in Z
    BY <1>1, <2>2
  <2>4. [r \in Members(n) |-> TimedOnce(r, n, c[r])] = [r \in Members(n) |-> osu_iscatterv(r, n)]
    BY <2>1 DEF osu_iscatterv
  <2> QED
    BY <2>3, <2>4
<1>10. [r \in Members(n) |-> osu_iallgather(r, n)] \in Z
  <2>1. PICK c : c = [r \in Members(n) |-> Iallgather(r, n)]
    OBVIOUS
  <2>2. c \in Unawaited(n)
    BY <2>1, NonBlockingUnawaited
  <2>3. [r \in Members(n) |-> TimedOnce(r, n, c[r])] \in Z
    BY <1>1, <2>2
  <2>4. [r \in Members(n) |-> TimedOnce(r, n, c[r])] = [r \in Members(n) |-> osu_iallgather(r, n)]
    BY <2>1 DEF osu_iallgather
  <2> QED
    BY <2>3, <2>4
<1>11. [r \in Members(n) |-> osu_iallgatherv(r, n)] \in Z
  <2>1. PICK c : c = [r \in Members(n) |-> Iallgatherv(r, n)]
    OBVIOUS
  <2>2. c \in Unawaited(n)
    BY <2>1, NonBlockingUnawaited
  <2>3. [r \in Members(n) |-> TimedOnce(r, n, c[r])] \in Z
    BY <1>1, <2>2
  <2>4. [r \in Members(n) |-> TimedOnce(r, n, c[r])] = [r \in Members(n) |-> osu_iallgatherv(r, n)]
    BY <2>1 DEF osu_iallgatherv
  <2> QED
    BY <2>3, <2>4
<1>12. [r \in Members(n) |-> osu_ialltoall(r, n)] \in Z
  <2>1. PICK c : c = [r \in Members(n) |-> Ialltoall(r, n)]
    OBVIOUS
  <2>2. c \in Unawaited(n)
    BY <2>1, NonBlockingUnawaited
  <2>3. [r \in Members(n) |-> TimedOnce(r, n, c[r])] \in Z
    BY <1>1, <2>2
  <2>4. [r \in Members(n) |-> TimedOnce(r, n, c[r])] = [r \in Members(n) |-> osu_ialltoall(r, n)]
    BY <2>1 DEF osu_ialltoall
  <2> QED
    BY <2>3, <2>4
<1>13. [r \in Members(n) |-> osu_ialltoallv(r, n)] \in Z
  <2>1. PICK c : c = [r \in Members(n) |-> Ialltoallv(r, n)]
    OBVIOUS
  <2>2. c \in Unawaited(n)
    BY <2>1, NonBlockingUnawaited
  <2>3. [r \in Members(n) |-> TimedOnce(r, n, c[r])] \in Z
    BY <1>1, <2>2
  <2>4. [r \in Members(n) |-> TimedOnce(r, n, c[r])] = [r \in Members(n) |-> osu_ialltoallv(r, n)]
    BY <2>1 DEF osu_ialltoallv
  <2> QED
    BY <2>3, <2>4
<1>14. [r \in Members(n) |-> osu_ialltoallw(r, n)] \in Z
  <2>1. PICK c : c = [r \in Members(n) |-> Ialltoallv(r, n)]
    OBVIOUS
  <2>2. c \in Unawaited(n)
    BY <2>1, NonBlockingUnawaited
  <2>3. [r \in Members(n) |-> TimedOnce(r, n, c[r])] \in Z
    BY <1>1, <2>2
  <2>4. [r \in Members(n) |-> TimedOnce(r, n, c[r])] = [r \in Members(n) |-> osu_ialltoallw(r, n)]
    BY <2>1 DEF osu_ialltoallw, Ialltoallw
  <2> QED
    BY <2>3, <2>4
<1>15. [r \in Members(n) |-> osu_ireduce_scatter(r, n)] \in Z
  <2>1. PICK c : c = [r \in Members(n) |-> IreduceScatter(r, n)]
    OBVIOUS
  <2>2. c \in Unawaited(n)
    BY <2>1, NonBlockingUnawaited
  <2>3. [r \in Members(n) |-> TimedOnce(r, n, c[r])] \in Z
    BY <1>1, <2>2
  <2>4. [r \in Members(n) |-> TimedOnce(r, n, c[r])] = [r \in Members(n) |-> osu_ireduce_scatter(r, n)]
    BY <2>1 DEF osu_ireduce_scatter
  <2> QED
    BY <2>3, <2>4
<1>16. [r \in Members(n) |-> osu_ireduce_scatter_block(r, n)] \in Z
  <2>1. PICK c : c = [r \in Members(n) |-> IreduceScatterBlock(r, n)]
    OBVIOUS
  <2>2. c \in Unawaited(n)
    BY <2>1, NonBlockingUnawaited
  <2>3. [r \in Members(n) |-> TimedOnce(r, n, c[r])] \in Z
    BY <1>1, <2>2
  <2>4. [r \in Members(n) |-> TimedOnce(r, n, c[r])] = [r \in Members(n) |-> osu_ireduce_scatter_block(r, n)]
    BY <2>1 DEF osu_ireduce_scatter_block
  <2> QED
    BY <2>3, <2>4
<1> QED
  BY <1>2, <1>3, <1>4, <1>5, <1>6, <1>7, <1>8, <1>9, <1>10, <1>11, <1>12, <1>13, <1>14, <1>15, <1>16 DEF NonBlockingPrograms, Z

-----------------------------------------------------------------------------
(* The jobs that run them. *)

NonBlockingJob(j) ==
  \E p \in NonBlockingPrograms(j.size) : \A r \in Members(j.size) : Program(j, r) = p[r]

LEMMA NonBlockingFacts ==
  ASSUME NEW j \in Jobs, NonBlockingJob(j)
  PROVE  /\ j.size \in Nat \ {0} /\ j \in MatchedJobs /\ ~WaitsForSends(j)
         /\ \A s, d \in Members(j.size) :
              \A k \in DOMAIN Program(j, s) : Fits(s, d, Program(j, s)[k], Program(j, d)[k])
         /\ \A r \in Members(j.size) : /\ Program(j, r) \in Seq(CallsOf(j.size, 1))
                                       /\ Bursts(Program(j, r), Skip + 3, Skip + 3)
<1>1. j.size \in Nat \ {0}
  BY ProgramAssumption
<1>2. PICK p \in NonBlockingPrograms(j.size) : \A r \in Members(j.size) : Program(j, r) = p[r]
  BY DEF NonBlockingJob
<1>3. p \in Loose(j.size, Skip + 3, Skip + 3)
  BY <1>1, NonBlockingLoose
<1>4. /\ p \in Agreeing(j.size, 1)
      /\ \A r \in Members(j.size) : /\ Bursts(p[r], Skip + 3, Skip + 3)
                                    /\ \A k \in DOMAIN p[r] : p[r][k].waits = "never"
  BY <1>3 DEF Loose
<1>5. /\ j \in MatchedJobs
      /\ \A s, d \in Members(j.size) :
           \A k \in DOMAIN Program(j, s) : Fits(s, d, Program(j, s)[k], Program(j, d)[k])
      /\ \A r \in Members(j.size) : Program(j, r) \in Seq(CallsOf(j.size, 1))
  BY <1>2, <1>4, AgreeingMatched
<1>6. ~WaitsForSends(j)
  BY <1>2, <1>4 DEF WaitsForSends, Members
<1> QED
  BY <1>1, <1>2, <1>4, <1>5, <1>6

(* One message of each call since the last barrier, at most Skip + 3 of them. *)
LEMMA NonBlockingQueueBound ==
  ASSUME NEW j \in Jobs, NonBlockingJob(j), NEW s \in Members(j.size), NEW d \in Members(j.size),
         NEW k \in DOMAIN Program(j, s)
  PROVE  QueueBound(j, s, d, k) \in Int /\ QueueBound(j, s, d, k) <= Skip + j.size + 3
<1>1. PICK q, data, last : /\ q = Program(j, s) /\ data = LingeringData(j, s, d, k)
                           /\ last = IF q[k].tag = BarrierTag THEN k - 1 ELSE k
  OBVIOUS
<1>2. /\ q \in Seq(CallsOf(j.size, 1)) /\ Bursts(q, Skip + 3, Skip + 3)
      /\ DOMAIN q = 1 .. Len(q) /\ k \in Nat /\ last \in Int /\ j.size \in Nat /\ Skip \in Nat
  <2>1. q \in Seq(CallsOf(j.size, 1)) /\ Bursts(q, Skip + 3, Skip + 3) /\ j.size \in Nat
    BY <1>1, NonBlockingFacts
  <2>2. k \in Nat /\ DOMAIN q = 1 .. Len(q)
    BY <1>1, <2>1
  <2> QED
    BY <1>1, <2>1, <2>2, SkipAssumption
<1>3. PICK I : I = (last - Skip - 2) .. last
  OBVIOUS
<1>4. ASSUME NEW m \in data
      PROVE  m = <<m[1], 1>> /\ m[1] \in I
  <2>1. PICK c \in Lingering(j, s, d, k) : m \in {<<c, i>> : i \in 1 .. CountIn(Program(j, s)[c].to, d)}
    BY <1>1, <1>4 DEF LingeringData
  <2>2. PICK i \in 1 .. CountIn(Program(j, s)[c].to, d) : m = <<c, i>>
    BY <2>1
  <2>3. c \in 1 .. k /\ q[c].tag # BarrierTag /\ \A b \in c .. k - 1 : q[b].tag # BarrierTag
    BY <1>1, <2>1 DEF Lingering
  <2>4. c \in Nat /\ c <= k /\ c \in DOMAIN q /\ k \in DOMAIN q
    BY <1>1, <1>2, <2>3
  <2>5. i = 1
    <3>1. Program(j, s)[c] \in CallsOf(j.size, 1)
      BY <1>1, <1>2, <2>4, ElementOfSeq
    <3>2. CountIn(Program(j, s)[c].to, d) \in 0 .. 1
      BY <3>1 DEF CallsOf
    <3> QED
      BY <3>2
  <2>6. c <= last /\ last \in DOMAIN q /\ \A b \in c .. last : q[b].tag # BarrierTag
    <3>1. CASE q[k].tag = BarrierTag
      <4>1. last = k - 1 /\ c # k
        BY <1>1, <2>3, <3>1
      <4>2. c <= last /\ last \in DOMAIN q
        BY <1>2, <2>4, <4>1
      <4> QED
        BY <2>3, <4>1, <4>2
    <3>2. CASE q[k].tag # BarrierTag
      <4>1. last = k
        BY <1>1, <3>2
      <4>2. ASSUME NEW b \in c .. k
            PROVE  q[b].tag # BarrierTag
        <5>1. CASE b = k
          BY <3>2, <5>1
        <5>2. CASE b # k
          <6>1. b \in c .. k - 1
            BY <1>2, <2>4, <5>2
          <6> QED
            BY <2>3, <6>1
        <5> QED
          BY <5>1, <5>2
      <4> QED
        BY <2>4, <4>1, <4>2
    <3> QED
      BY <3>1, <3>2
  <2>7. last - c < Skip + 3
    BY <1>2, <2>4, <2>6 DEF Bursts
  <2>8. c \in I
    BY <1>2, <1>3, <2>4, <2>6, <2>7
  <2> QED
    BY <2>2, <2>5, <2>8
<1>5. IsFiniteSet(I) /\ Cardinality(I) = Skip + 3
  <2>1. PICK lo : lo = last - Skip - 2
    OBVIOUS
  <2>2. lo \in Int /\ last \in Int /\ ~(lo > last) /\ last - lo + 1 = Skip + 3
    BY <1>2, <2>1
  <2>3. I = lo .. last
    BY <1>3, <2>1
  <2> QED
    BY <2>2, <2>3, FS_Interval
<1>6. IsFiniteSet(data) /\ Cardinality(data) \in Nat /\ Cardinality(data) <= Skip + 3
  <2> DEFINE h == [m \in data |-> m[1]]
  <2>1. h \in [data -> I]
    BY <1>4
  <2>2. ASSUME NEW m \in data, NEW l \in data, h[m] = h[l]
        PROVE  m = l
    <3>1. m[1] = l[1]
      BY <2>2
    <3> QED
      BY <1>4, <3>1
  <2> HIDE DEF h
  <2>3. h \in Injection(data, I)
    BY <2>1, <2>2 DEF Injection, IsInjective
  <2>4. IsFiniteSet(data) /\ Cardinality(data) <= Cardinality(I)
    BY <1>5, <2>3, FS_Injection
  <2>5. Cardinality(data) \in Nat
    BY <2>4, FS_CardinalityType
  <2> QED
    BY <1>5, <2>4, <2>5
<1>7. QueueBound(j, s, d, k)
        = Cardinality(data) + (IF Program(j, s)[k].tag = BarrierTag THEN j.size ELSE j.size - 1)
  BY <1>1 DEF QueueBound
<1> QED
  BY <1>2, <1>6, <1>7

-----------------------------------------------------------------------------

(***************************************************************************)
(* Every non-blocking collective benchmark but the rings, with any number  *)
(* of ranks, warm-up and timed iterations: no message is left when it is   *)
(* done ...                                                                *)
(***************************************************************************)
THEOREM NonBlockingLeaveNothing ==
  Spec => [](NonBlockingJob(job) => NothingLeftBehind)
<1>1. TypeOK => (NonBlockingJob(job) => job \in MatchedJobs)
  BY NonBlockingFacts DEF TypeOK
<1> QED
  BY <1>1, TypeCorrect, MatchedJobsLeaveNothing, PTL

(***************************************************************************)
(* ... messages of iterations mix in the warm-up, where nothing separates  *)
(* them, but not in an iteration between two barriers ...                  *)
(***************************************************************************)
THEOREM NonBlockingDoNotMix ==
  Spec => [](NonBlockingJob(job) => FencedCallsDoNotMix)
<1>1. TypeOK => (NonBlockingJob(job) => job \in MatchedJobs)
  BY NonBlockingFacts DEF TypeOK
<1> QED
  BY <1>1, TypeCorrect, BarriersFence, PTL

(* ... the ranks never all wait for each other, although in the warm-up a *)
(* receive may take a message of another iteration ...                     *)
THEOREM NonBlockingNeverStuck ==
  Spec => [](NonBlockingJob(job) => NeverStuck)
<1>1. TypeOK => (NonBlockingJob(job) => job \in MatchedJobs /\ ~WaitsForSends(job))
  BY NonBlockingFacts DEF TypeOK
<1> QED
  BY <1>1, TypeCorrect, MatchedJobsNeverStuck, PTL

(***************************************************************************)
(* ... and what waits of one rank at another grows with the warm-up but no *)
(* further, however many iterations are timed.                             *)
(***************************************************************************)
THEOREM NonBlockingKeepQueuesShort ==
  Spec => [](NonBlockingJob(job) /\ Skip + job.size + 3 <= MaxQueued => QueuesStayShort)
<1>1. TypeOK => (NonBlockingJob(job) /\ Skip + job.size + 3 <= MaxQueued
                   => job \in MatchedJobs /\ Short(job))
  <2> SUFFICES ASSUME job \in Jobs, NonBlockingJob(job), Skip + job.size + 3 <= MaxQueued
               PROVE  job \in MatchedJobs /\ Short(job)
    BY DEF TypeOK
  <2>1. job.size \in Nat /\ job \in MatchedJobs
    BY NonBlockingFacts
  <2>2. ASSUME NEW s \in Members(job.size), NEW d \in Members(job.size),
               NEW k \in DOMAIN Program(job, s)
        PROVE  QueueBound(job, s, d, k) <= MaxQueued
    <3>1. QueueBound(job, s, d, k) \in Int /\ QueueBound(job, s, d, k) <= Skip + job.size + 3
      BY NonBlockingQueueBound
    <3> QED
      BY <2>1, <3>1, QueueAssumption, SkipAssumption
  <2>3. Short(job)
    BY <2>2 DEF Short, Members
  <2> QED
    BY <2>1, <2>3
<1> QED
  BY <1>1, TypeCorrect, ShortJobsKeepQueuesShort, PTL
=============================================================================
