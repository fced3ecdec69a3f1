----------------------------- MODULE JobLemmas -----------------------------
(***************************************************************************)
(* Lemmas for the theorems about jobs: how often an element occurs in a    *)
(* queue when some are appended or one is taken out, how programs are put  *)
(* together from pieces, and what each step of a job does to the counts of *)
(* JobInvariant.                                                           *)
(***************************************************************************)
EXTENDS JobInvariant, Collectives, SequencesExt, FiniteSetTheorems, FunctionTheorems,
        SequenceTheorems, WellFoundedInduction, TLAPS

-----------------------------------------------------------------------------
(* Queues. *)

(* The positions of x in a sequence are finitely many. *)
LEMMA CountType ==
  ASSUME NEW S, NEW q \in Seq(S), NEW x
  PROVE  /\ IsFiniteSet({i \in DOMAIN q : q[i] = x})
         /\ CountIn(q, x) \in Nat
         /\ CountIn(q, x) <= Len(q)
<1> DEFINE P == {i \in DOMAIN q : q[i] = x}
<1>1. Len(q) \in Nat /\ DOMAIN q = 1 .. Len(q)
  OBVIOUS
<1>2. IsFiniteSet(1 .. Len(q)) /\ Cardinality(1 .. Len(q)) = Len(q)
  BY <1>1, FS_Interval
<1>3. P \in SUBSET (1 .. Len(q))
  BY <1>1
<1>4. IsFiniteSet(P) /\ Cardinality(P) <= Len(q)
  BY <1>2, <1>3, FS_Subset
<1> QED
  BY <1>4, FS_CardinalityType DEF CountIn

(* Something counted is somewhere in the sequence, and conversely. *)
LEMMA CountPositive ==
  ASSUME NEW S, NEW q \in Seq(S), NEW x
  PROVE  CountIn(q, x) > 0 <=> \E i \in DOMAIN q : q[i] = x
<1> DEFINE P == {i \in DOMAIN q : q[i] = x}
<1>1. IsFiniteSet(P)
  BY CountType
<1>2. Cardinality(P) \in Nat /\ (Cardinality(P) = 0 <=> P = {})
  BY <1>1, FS_CardinalityType, FS_EmptySet
<1> QED
  BY <1>2 DEF CountIn

(* A sequence without elements has none of x. *)
LEMMA CountEmpty ==
  ASSUME NEW x
  PROVE  CountIn(<<>>, x) = 0
<1>1. {i \in DOMAIN <<>> : <<>>[i] = x} = {}
  OBVIOUS
<1> QED
  BY <1>1, FS_EmptySet DEF CountIn

(* m copies of one element. *)
LEMMA Copies ==
  ASSUME NEW S, NEW y \in S, NEW m \in Nat
  PROVE  /\ [i \in 1 .. m |-> y] \in Seq(S)
         /\ Len([i \in 1 .. m |-> y]) = m
         /\ \A j \in 1 .. m : [i \in 1 .. m |-> y][j] = y
  OBVIOUS

(* Copies of y make as many more of y and no more of anything else. *)
LEMMA CountCopies ==
  ASSUME NEW S, NEW q \in Seq(S), NEW y \in S,
         NEW c \in Seq(S), \A i \in 1 .. Len(c) : c[i] = y
  PROVE  /\ CountIn(q \o c, y) = CountIn(q, y) + Len(c)
         /\ \A x \in S : x # y => CountIn(q \o c, x) = CountIn(q, x)
<1>0. PICK p : p = q \o c
  OBVIOUS
<1> DEFINE m == Len(c)
           New == Len(q) + 1 .. Len(q) + m
<1>1. m \in Nat
  OBVIOUS
<1>2. p \in Seq(S) /\ Len(p) = Len(q) + m /\ Len(q) \in Nat
  BY <1>0
<1>3. \A i \in 1 .. Len(p) : p[i] = IF i <= Len(q) THEN q[i] ELSE y
  BY <1>0, <1>1, <1>2
<1>4. ASSUME NEW x \in S
      PROVE  /\ x = y => CountIn(p, x) = CountIn(q, x) + m
             /\ x # y => CountIn(p, x) = CountIn(q, x)
  <2> DEFINE Old == {i \in DOMAIN q : q[i] = x}
  <2>1. IsFiniteSet(Old) /\ Cardinality(Old) \in Nat
    BY CountType, FS_CardinalityType
  <2>2. IsFiniteSet(New) /\ Cardinality(New) = m
    <3>1. Len(q) + 1 \in Int /\ Len(q) + m \in Int
      BY <1>2
    <3>2. IsFiniteSet(New)
           /\ Cardinality(New) = IF Len(q) + 1 > Len(q) + m THEN 0
                                 ELSE (Len(q) + m) - (Len(q) + 1) + 1
      BY <3>1, FS_Interval
    <3> QED
      BY <1>2, <3>2
  <2>3. Old \cap New = {} /\ DOMAIN q = 1 .. Len(q) /\ DOMAIN p = 1 .. Len(p)
    BY <1>2
  <2>4. CASE x = y
    <3>1. {i \in DOMAIN p : p[i] = x} = Old \cup New
      BY <1>2, <1>3, <2>3, <2>4
    <3>2. Cardinality(Old \cup New)
            = Cardinality(Old) + Cardinality(New) - Cardinality(Old \cap New)
      BY <2>1, <2>2, FS_Union
    <3>3. Cardinality(Old \cap New) = 0
      BY <2>3, FS_EmptySet
    <3>4. CountIn(p, x) = Cardinality(Old \cup New)
      BY <3>1 DEF CountIn
    <3>5. CountIn(q, x) = Cardinality(Old)
      BY DEF CountIn
    <3> HIDE DEF Old, New
    <3> QED
      BY <2>1, <2>2, <2>4, <3>2, <3>3, <3>4, <3>5
  <2>5. CASE x # y
    <3>1. {i \in DOMAIN p : p[i] = x} = Old
      BY <1>2, <1>3, <2>3, <2>5
    <3>2. CountIn(p, x) = Cardinality(Old) /\ CountIn(q, x) = Cardinality(Old)
      BY <3>1 DEF CountIn
    <3> HIDE DEF Old
    <3> QED
      BY <2>1, <2>5, <3>2
  <2> QED
    BY <2>4, <2>5
<1> QED
  BY <1>0, <1>2, <1>3, <1>4

(* One more element at the end. *)
LEMMA CountAppend ==
  ASSUME NEW S, NEW q \in Seq(S), NEW y \in S
  PROVE  /\ Append(q, y) \in Seq(S)
         /\ Len(Append(q, y)) = Len(q) + 1
         /\ \A i \in 1 .. Len(q) : Append(q, y)[i] = q[i]
         /\ Append(q, y)[Len(q) + 1] = y
         /\ CountIn(Append(q, y), y) = CountIn(q, y) + 1
         /\ \A x \in S : x # y => CountIn(Append(q, y), x) = CountIn(q, x)
<1> DEFINE c == <<y>>
<1>1. c \in Seq(S) /\ Len(c) = 1 /\ \A i \in 1 .. Len(c) : c[i] = y
  OBVIOUS
<1>2. Append(q, y) = q \o c
  BY AppendIsConcat
<1> HIDE DEF c
<1>3. /\ CountIn(q \o c, y) = CountIn(q, y) + Len(c)
      /\ \A x \in S : x # y => CountIn(q \o c, x) = CountIn(q, x)
  BY <1>1, CountCopies
<1> QED
  BY <1>1, <1>2, <1>3, AppendProperties

(* Taking the element at position i out shifts those behind it. *)
LEMMA CountWithout ==
  ASSUME NEW S, NEW q \in Seq(S), NEW i \in DOMAIN q
  PROVE  /\ Without(q, i) \in Seq(S)
         /\ Len(Without(q, i)) = Len(q) - 1
         /\ \A j \in 1 .. Len(q) - 1 :
              Without(q, i)[j] = IF j < i THEN q[j] ELSE q[j + 1]
         /\ CountIn(Without(q, i), q[i]) = CountIn(q, q[i]) - 1
         /\ \A x \in S : x # q[i] => CountIn(Without(q, i), x) = CountIn(q, x)
<1> DEFINE a == SubSeq(q, 1, i - 1)
           b == SubSeq(q, i + 1, Len(q))
<1>1. Len(q) \in Nat /\ i \in 1 .. Len(q) /\ DOMAIN q = 1 .. Len(q)
  OBVIOUS
<1>2. a \in Seq(S) /\ Len(a) = i - 1 /\ \A j \in 1 .. i - 1 : a[j] = q[j]
  BY <1>1
<1>3. b \in Seq(S) /\ Len(b) = Len(q) - i /\ \A j \in 1 .. Len(q) - i : b[j] = q[i + j]
  BY <1>1
<1>0. PICK p : p = Without(q, i) /\ p = a \o b
  BY DEF Without
<1> HIDE DEF a, b
<1>4. p \in Seq(S) /\ Len(p) = Len(q) - 1 /\ DOMAIN p = 1 .. Len(q) - 1
  <2>1. p \in Seq(S)
    BY <1>0, <1>2, <1>3
  <2>2. Len(p) = Len(a) + Len(b)
    BY <1>0, <1>2, <1>3
  <2>3. DOMAIN p = 1 .. Len(p)
    BY <2>1
  <2> QED
    BY <1>1, <1>2, <1>3, <2>1, <2>2, <2>3
<1>5. ASSUME NEW j \in 1 .. Len(p)
      PROVE  p[j] = IF j < i THEN q[j] ELSE q[j + 1]
  <2>1. DOMAIN a = 1 .. i - 1 /\ DOMAIN b = 1 .. Len(q) - i
    BY <1>1, <1>2, <1>3
  <2>0. Len(a) \in Nat /\ Len(b) \in Nat /\ j \in 1 .. Len(a) + Len(b)
    BY <1>1, <1>2, <1>3, <1>4
  <2>4. p[j] = IF j <= Len(a) THEN a[j] ELSE b[j - Len(a)]
    <3>1. (a \o b)[j] = IF j <= Len(a) THEN a[j] ELSE b[j - Len(a)]
      BY <1>2, <1>3, <2>0, ConcatProperties
    <3> QED
      BY <1>0, <3>1
  <2>2. CASE j < i
    <3>1. p[j] = a[j]
      BY <1>1, <1>2, <1>4, <2>2, <2>4
    <3> QED
      BY <1>1, <1>2, <1>4, <2>2, <3>1
  <2>3. CASE ~(j < i)
    <3>1. p[j] = b[j - (i - 1)]
      BY <1>1, <1>2, <1>4, <2>3, <2>4
    <3>2. j - (i - 1) \in 1 .. Len(q) - i /\ i + (j - (i - 1)) = j + 1
      BY <1>1, <1>4, <2>3
    <3>3. b[j - (i - 1)] = q[i + (j - (i - 1))]
      BY <1>3, <3>2
    <3> QED
      BY <2>3, <3>1, <3>2, <3>3
  <2> QED
    BY <2>2, <2>3
<1>6. ASSUME NEW x \in S
      PROVE  /\ x = q[i] => CountIn(p, x) = CountIn(q, x) - 1
             /\ x # q[i] => CountIn(p, x) = CountIn(q, x)
  <2> DEFINE Old == {j \in DOMAIN q : q[j] = x}
             Left == {j \in DOMAIN p : p[j] = x}
             F == [j \in Left |-> IF j < i THEN j ELSE j + 1]
  <2>1. IsFiniteSet(Old) /\ Cardinality(Old) \in Nat /\ IsFiniteSet(Left)
    BY <1>4, CountType, FS_CardinalityType
  <2>2. F \in [Left -> Old \ {i}]
    BY <1>1, <1>4, <1>5
  <2>3. \A j, k \in Left : F[j] = F[k] => j = k
    BY <1>1, <1>4
  <2>4. \A k \in Old \ {i} : \E j \in Left : F[j] = k
    <3> SUFFICES ASSUME NEW k \in Old \ {i}
                 PROVE  \E j \in Left : F[j] = k
      OBVIOUS
    <3>1. CASE k < i
      <4>1. k \in Left /\ F[k] = k
        BY <1>1, <1>4, <1>5, <3>1
      <4> QED
        BY <4>1
    <3>2. CASE k > i
      <4>1. k - 1 \in Left /\ F[k - 1] = k
        BY <1>1, <1>4, <1>5, <3>2
      <4> QED
        BY <4>1
    <3> QED
      BY <1>1, <3>1, <3>2
  <2>5. F \in Bijection(Left, Old \ {i})
    BY <2>2, <2>3, <2>4, Fun_IsBij
  <2>6. Cardinality(Old \ {i}) = Cardinality(Left)
    BY <2>1, <2>5, FS_Bijection DEF ExistsBijection
  <2>7. Cardinality(Old \ {i}) = IF i \in Old THEN Cardinality(Old) - 1 ELSE Cardinality(Old)
    BY <2>1, FS_RemoveElement
  <2>8. i \in Old <=> x = q[i]
    BY <1>1
  <2> QED
    BY <2>1, <2>6, <2>7, <2>8 DEF CountIn
<1> QED
  BY <1>0, <1>4, <1>5, <1>6

(* The tail is what is left when the head is taken out. *)
LEMMA CountTail ==
  ASSUME NEW S, NEW q \in Seq(S), q # <<>>
  PROVE  /\ Tail(q) \in Seq(S)
         /\ Head(q) \in S
         /\ CountIn(Tail(q), Head(q)) = CountIn(q, Head(q)) - 1
         /\ \A x \in S : x # Head(q) => CountIn(Tail(q), x) = CountIn(q, x)
<1>1. 1 \in DOMAIN q /\ Head(q) = q[1]
  OBVIOUS
<1>2. Tail(q) = Without(q, 1)
  BY DEF Without
<1>3. /\ CountIn(Without(q, 1), q[1]) = CountIn(q, q[1]) - 1
      /\ \A x \in S : x # q[1] => CountIn(Without(q, 1), x) = CountIn(q, x)
  BY <1>1, CountWithout
<1> QED
  BY <1>1, <1>2, <1>3, HeadTailProperties

(* The number of an element of a sequence among those that equal it. *)
NumberOf(q, i) == Cardinality({j \in 1 .. i : q[j] = q[i]})

(* It tells equal elements apart, and there is one for each of them. *)
LEMMA Numbered ==
  ASSUME NEW S, NEW q \in Seq(S), NEW i \in DOMAIN q
  PROVE  /\ NumberOf(q, i) \in 1 .. CountIn(q, q[i])
         /\ \A j \in DOMAIN q : j < i /\ q[j] = q[i] => NumberOf(q, j) < NumberOf(q, i)
<1>1. Len(q) \in Nat /\ DOMAIN q = 1 .. Len(q) /\ i \in 1 .. Len(q)
  BY LenProperties
<1> DEFINE P(k) == {j \in 1 .. k : q[j] = q[i]}
<1>2. /\ IsFiniteSet({j \in DOMAIN q : q[j] = q[i]})
      /\ CountIn(q, q[i]) = Cardinality({j \in DOMAIN q : q[j] = q[i]})
  BY CountType DEF CountIn
<1>3. P(i) \in SUBSET {j \in DOMAIN q : q[j] = q[i]} /\ i \in P(i)
  BY <1>1
<1>4. IsFiniteSet(P(i)) /\ Cardinality(P(i)) <= CountIn(q, q[i])
  <2> HIDE DEF P
  <2> QED
    BY <1>2, <1>3, FS_Subset
<1>5. Cardinality(P(i)) \in Nat /\ Cardinality(P(i)) > 0 /\ CountIn(q, q[i]) \in Nat
  <2>1. P(i) # {}
    BY <1>3
  <2> HIDE DEF P
  <2>2. Cardinality(P(i)) \in Nat /\ Cardinality(P(i)) # 0
    BY <1>4, <2>1, FS_CardinalityType, FS_EmptySet
  <2>3. CountIn(q, q[i]) \in Nat
    BY CountType
  <2> QED
    BY <2>2, <2>3
<1>6. NumberOf(q, i) = Cardinality(P(i))
  BY DEF NumberOf
<1>7. ASSUME NEW j \in DOMAIN q, j < i, q[j] = q[i]
      PROVE  NumberOf(q, j) < NumberOf(q, i)
  <2>1. NumberOf(q, j) = Cardinality(P(j))
    BY <1>7 DEF NumberOf
  <2>2. P(j) \in SUBSET P(i) /\ i \notin P(j)
    BY <1>1, <1>7
  <2>3. P(j) # P(i)
    BY <1>3, <2>2
  <2> HIDE DEF P
  <2>4. /\ IsFiniteSet(P(j)) /\ Cardinality(P(j)) <= Cardinality(P(i))
        /\ Cardinality(P(j)) # Cardinality(P(i))
    BY <1>4, <2>2, <2>3, FS_Subset
  <2>5. Cardinality(P(j)) \in Nat
    BY <2>4, FS_CardinalityType
  <2> QED
    BY <1>5, <1>6, <2>1, <2>4, <2>5
<1> QED
  BY <1>4, <1>5, <1>6, <1>7

-----------------------------------------------------------------------------
(* Programs. *)

LEMMA LeastOf ==
  ASSUME NEW T, T \subseteq Nat, T # {}
  PROVE  \E x \in T : \A y \in T : x <= y
<1> DEFINE Less == {p \in Nat \X Nat : p[1] < p[2]}
<1>1. IsWellFoundedOn(Less, Nat)
  BY NatLessThanWellFounded, Zenon DEF OpToRel
<1>2. PICK x \in T : \A y \in T : <<y, x>> \notin Less
  <2> HIDE DEF Less
  <2> QED
    BY <1>1, WFMin
<1>3. ASSUME NEW y \in T
      PROVE  x <= y
  <2>1. x \in Nat /\ y \in Nat
    OBVIOUS
  <2>2. ~(y < x)
    BY <1>2, <2>1
  <2> QED
    BY <2>1, <2>2
<1> QED
  BY <1>3

(* FlattenSeq is defined by a recursive function, which exists. *)

Joins(g, seqs, m) ==
  g = [i \in 1 .. m |-> IF i = 1 THEN seqs[i] ELSE g[i - 1] \o seqs[i]]

LEMMA JoinsExist ==
  ASSUME NEW seqs, NEW m \in Nat
  PROVE  \E g : Joins(g, seqs, m)
<1> DEFINE T == {k \in Nat : ~\E g : Joins(g, seqs, k)}
<1> SUFFICES ASSUME T # {}
             PROVE  FALSE
  OBVIOUS
<1>1. T \subseteq Nat
  OBVIOUS
<1>2. PICK x \in T : \A y \in T : x <= y
  <2> HIDE DEF T
  <2> QED
    BY <1>1, LeastOf
<1>3. x # 0
  <2>1. Joins(<<>>, seqs, 0)
    BY DEF Joins
  <2> QED
    BY <1>2, <2>1
<1>4. x - 1 \in Nat /\ x - 1 \notin T /\ x \in Nat
  BY <1>2, <1>3
<1>5. PICK g : Joins(g, seqs, x - 1)
  BY <1>4
<1> DEFINE last == IF x = 1 THEN seqs[x] ELSE g[x - 1] \o seqs[x]
           h == [i \in 1 .. x |-> IF i = x THEN last ELSE g[i]]
<1>6. ASSUME NEW i \in 1 .. x
      PROVE  h[i] = IF i = 1 THEN seqs[i] ELSE h[i - 1] \o seqs[i]
  <2>1. CASE i = x
    <3>1. i # 1 => h[i - 1] = g[i - 1]
      BY <1>4, <2>1
    <3> QED
      BY <2>1, <3>1
  <2>2. CASE i # x
    <3>1. i \in 1 .. x - 1 /\ h[i] = g[i] /\ (i # 1 => i - 1 \in 1 .. x /\ i - 1 # x)
      BY <1>4, <2>2
    <3>2. i # 1 => h[i - 1] = g[i - 1]
      BY <3>1
    <3>3. g[i] = IF i = 1 THEN seqs[i] ELSE g[i - 1] \o seqs[i]
      BY <1>5, <3>1 DEF Joins
    <3> QED
      BY <3>1, <3>2, <3>3
  <2> QED
    BY <2>1, <2>2
<1>7. Joins(h, seqs, x)
  <2>1. h = [i \in 1 .. x |-> h[i]]
    OBVIOUS
  <2>2. [i \in 1 .. x |-> h[i]] =
          [i \in 1 .. x |-> IF i = 1 THEN seqs[i] ELSE h[i - 1] \o seqs[i]]
    <3> HIDE DEF h
    <3> QED
      BY <1>6
  <2> HIDE DEF h
  <2> QED
    BY <2>1, <2>2 DEF Joins
<1> QED
  BY <1>2, <1>7

LEMMA Flattened ==
  ASSUME NEW m \in Nat \ {0}, NEW seqs, Len(seqs) = m
  PROVE  \E g : /\ g[1] = seqs[1]
                /\ \A i \in 1 .. m - 1 : g[i + 1] = g[i] \o seqs[i + 1]
                /\ FlattenSeq(seqs) = g[m]
<1> DEFINE g == CHOOSE g : g = [i \in 1 .. m |-> IF i = 1 THEN seqs[i] ELSE g[i - 1] \o seqs[i]]
<1>1. FlattenSeq(seqs) = g[m]
  BY DEF FlattenSeq
<1>2. Joins(g, seqs, m)
  <2>1. PICK h : Joins(h, seqs, m)
    BY JoinsExist
  <2> QED
    BY <2>1 DEF Joins
<1>3. \A i \in 1 .. m : g[i] = IF i = 1 THEN seqs[i] ELSE g[i - 1] \o seqs[i]
  <2> HIDE DEF g
  <2> QED
    BY <1>2 DEF Joins
<1>4. g[1] = seqs[1]
  <2> HIDE DEF g
  <2> QED
    BY <1>3
<1>5. \A i \in 1 .. m - 1 : g[i + 1] = g[i] \o seqs[i + 1]
  <2> HIDE DEF g
  <2> TAKE i \in 1 .. m - 1
  <2>1. i + 1 \in 1 .. m /\ i + 1 # 1 /\ (i + 1) - 1 = i
    OBVIOUS
  <2> QED
    BY <1>3, <2>1
<1> HIDE DEF g
<1> QED
  BY <1>1, <1>4, <1>5

(* Programs side by side: what the ranks of a job do together. *)

Members(n) == 0 .. n - 1

Tags ==
  {BarrierTag, "DEADBEEF", "DEAD0001", "DEAD0002", "DEAD0003", "ABCDEF00", "BADDEF00",
   "BADDEF01", "UCC", "BADC0DE0", "BADC0DE1", "BADC0DE2", "BADC0DE3", "BADC0DE4",
   "BADC0DE5", "BADC0DE6", "BADC0DE7", "BADC0DE8", "BADC0DE9", "BADC0DEA", "BADC0DEB",
   "123456789ABCDEF0", "1", "10", "100", "101"}

(* Calls that send w messages to a rank at most. *)
CallsOf(n, w) ==
  {call \in [tag : Tags, takes : Tags, to : Seq(Members(n)), from : Seq(Members(n)),
             waits : Waits, keep : BOOLEAN] :
     \A d \in Members(n) : CountIn(call.to, d) \in 0 .. w}

(* A call of s and the same call of d: s sends d what d expects. *)
Fits(s, d, a, b) ==
  /\ IF s = d THEN CountIn(a.to, d) = 0 ELSE a.tag = b.takes
  /\ CountIn(a.to, d) = CountIn(b.from, s)

(* One call of every rank, and they fit. *)
Meeting(n, w) ==
  {c \in [Members(n) -> CallsOf(n, w)] : \A s, d \in Members(n) : Fits(s, d, c[s], c[d])}

Agree(n, p) ==
  \A s, d \in Members(n) :
    /\ Len(p[s]) = Len(p[d])
    /\ \A k \in DOMAIN p[s] : Fits(s, d, p[s][k], p[d][k])

(* One program of every rank, whose calls fit one by one. *)
Agreeing(n, w) == {p \in [Members(n) -> Seq(CallsOf(n, w))] : Agree(n, p)}

(* One program after the other. *)
Join(n, p, q) == [r \in Members(n) |-> p[r] \o q[r]]

LEMMA Concatenated ==
  ASSUME NEW S, NEW a \in Seq(S), NEW b \in Seq(S)
  PROVE  /\ a \o b \in Seq(S)
         /\ Len(a) \in Nat /\ Len(b) \in Nat /\ Len(a \o b) = Len(a) + Len(b)
         /\ DOMAIN a = 1 .. Len(a) /\ DOMAIN b = 1 .. Len(b)
         /\ DOMAIN (a \o b) = 1 .. Len(a) + Len(b)
         /\ \A k \in DOMAIN a : k \in DOMAIN (a \o b) /\ (a \o b)[k] = a[k]
         /\ \A k \in DOMAIN b : k + Len(a) \in DOMAIN (a \o b) /\ (a \o b)[k + Len(a)] = b[k]
         /\ \A k \in DOMAIN (a \o b) :
              (k \in DOMAIN a) \/ (k - Len(a) \in DOMAIN b /\ k > Len(a) /\ k = (k - Len(a)) + Len(a))
  OBVIOUS

LEMMA JoinAgrees ==
  ASSUME NEW n, NEW w, NEW p \in Agreeing(n, w), NEW q \in Agreeing(n, w)
  PROVE  /\ Join(n, p, q) \in Agreeing(n, w)
         /\ \A r \in Members(n) : Join(n, p, q)[r] = p[r] \o q[r]
<1>1. /\ p \in [Members(n) -> Seq(CallsOf(n, w))] /\ q \in [Members(n) -> Seq(CallsOf(n, w))]
      /\ Agree(n, p) /\ Agree(n, q)
  BY DEF Agreeing
<1>2. ASSUME NEW r \in Members(n)
      PROVE  /\ Join(n, p, q)[r] = p[r] \o q[r]
             /\ p[r] \in Seq(CallsOf(n, w)) /\ q[r] \in Seq(CallsOf(n, w))
  BY <1>1, <1>2 DEF Join
<1>3. Join(n, p, q) \in [Members(n) -> Seq(CallsOf(n, w))]
  <2>1. \A r \in Members(n) : p[r] \o q[r] \in Seq(CallsOf(n, w))
    BY <1>2, Concatenated
  <2> QED
    BY <2>1 DEF Join
<1>4. ASSUME NEW s \in Members(n), NEW d \in Members(n)
      PROVE  /\ Len(Join(n, p, q)[s]) = Len(Join(n, p, q)[d])
             /\ \A k \in DOMAIN Join(n, p, q)[s] :
                  Fits(s, d, Join(n, p, q)[s][k], Join(n, p, q)[d][k])
  <2>1. PICK a, b, c, e : a = p[s] /\ b = q[s] /\ c = p[d] /\ e = q[d]
    OBVIOUS
  <2>2. /\ a \in Seq(CallsOf(n, w)) /\ b \in Seq(CallsOf(n, w))
        /\ c \in Seq(CallsOf(n, w)) /\ e \in Seq(CallsOf(n, w))
        /\ Join(n, p, q)[s] = a \o b /\ Join(n, p, q)[d] = c \o e
    BY <1>2, <2>1
  <2>3. /\ Len(a) = Len(c) /\ Len(b) = Len(e)
        /\ \A k \in DOMAIN a : Fits(s, d, a[k], c[k])
        /\ \A k \in DOMAIN b : Fits(s, d, b[k], e[k])
    BY <1>1, <2>1 DEF Agree
  <2>4. PICK m, l : m = Len(a) /\ l = Len(b)
    OBVIOUS
  <2>5. /\ m \in Nat /\ l \in Nat /\ DOMAIN a = 1 .. m /\ DOMAIN b = 1 .. l
        /\ DOMAIN (a \o b) = 1 .. m + l /\ Len(a \o b) = m + l /\ Len(c \o e) = m + l
        /\ \A k \in 1 .. m : (a \o b)[k] = a[k] /\ (c \o e)[k] = c[k]
        /\ \A k \in 1 .. l : (a \o b)[k + m] = b[k] /\ (c \o e)[k + m] = e[k]
    <3>1. /\ m \in Nat /\ l \in Nat /\ DOMAIN a = 1 .. m /\ DOMAIN b = 1 .. l
          /\ DOMAIN (a \o b) = 1 .. m + l /\ Len(a \o b) = m + l
          /\ \A k \in 1 .. m : (a \o b)[k] = a[k]
          /\ \A k \in 1 .. l : (a \o b)[k + m] = b[k]
      BY <2>2, <2>4, Concatenated
    <3>2. /\ DOMAIN c = 1 .. m /\ DOMAIN e = 1 .. l /\ Len(c \o e) = m + l
          /\ \A k \in 1 .. m : (c \o e)[k] = c[k]
          /\ \A k \in 1 .. l : (c \o e)[k + m] = e[k]
      BY <2>2, <2>3, <2>4, Concatenated
    <3> QED
      BY <3>1, <3>2
  <2>6. ASSUME NEW k \in 1 .. m + l
        PROVE  Fits(s, d, (a \o b)[k], (c \o e)[k])
    <3>1. CASE k \in 1 .. m
      BY <2>3, <2>5, <3>1
    <3>2. CASE k \notin 1 .. m
      <4>1. PICK j : j = k - m
        OBVIOUS
      <4>2. j \in 1 .. l /\ k = j + m
        BY <2>5, <2>6, <3>2, <4>1
      <4> QED
        BY <2>3, <2>5, <4>2
    <3> QED
      BY <3>1, <3>2
  <2> QED
    BY <2>2, <2>5, <2>6
<1>5. Agree(n, Join(n, p, q))
  BY <1>4 DEF Agree
<1> QED
  BY <1>2, <1>3, <1>5 DEF Agreeing

LEMMA Pair ==
  ASSUME NEW a, NEW b
  PROVE  <<a>> \o <<b>> = <<a, b>>
<1>1. <<a>> \in Seq({a, b}) /\ <<b>> \in Seq({a, b})
  OBVIOUS
<1>2. PICK s : s = <<a>> \o <<b>>
  OBVIOUS
<1>3. s \in Seq({a, b}) /\ Len(s) = 2 /\ s[1] = a /\ s[2] = b
  BY <1>1, <1>2
<1>4. s = <<a, b>>
  BY <1>3
<1> QED
  BY <1>2, <1>4

LEMMA NothingAgrees ==
  ASSUME NEW n, NEW w
  PROVE  [r \in Members(n) |-> <<>>] \in Agreeing(n, w)
<1> DEFINE p == [r \in Members(n) |-> <<>>]
<1>1. /\ p \in [Members(n) -> Seq(CallsOf(n, w))]
      /\ \A r \in Members(n) : p[r] = <<>>
  OBVIOUS
<1> HIDE DEF p
<1>2. p \in Agreeing(n, w)
  BY <1>1 DEF Agreeing, Agree
<1> QED
  BY <1>2 DEF p

LEMMA CallAgrees ==
  ASSUME NEW n, NEW w, NEW c \in Meeting(n, w)
  PROVE  [r \in Members(n) |-> <<c[r]>>] \in Agreeing(n, w)
<1> DEFINE p == [r \in Members(n) |-> <<c[r]>>]
<1>1. ASSUME NEW r \in Members(n)
      PROVE  /\ p[r] = <<c[r]>> /\ p[r] \in Seq(CallsOf(n, w))
             /\ Len(p[r]) = 1 /\ DOMAIN p[r] = {1} /\ p[r][1] = c[r]
  BY DEF Meeting
<1>2. p \in [Members(n) -> Seq(CallsOf(n, w))]
  BY <1>1
<1> HIDE DEF p
<1>3. Agree(n, p)
  <2> SUFFICES ASSUME NEW s \in Members(n), NEW d \in Members(n)
               PROVE  Len(p[s]) = Len(p[d]) /\ \A k \in DOMAIN p[s] : Fits(s, d, p[s][k], p[d][k])
    BY DEF Agree
  <2>1. Fits(s, d, c[s], c[d])
    BY DEF Meeting
  <2>2. /\ Len(p[s]) = 1 /\ DOMAIN p[s] = {1} /\ p[s][1] = c[s]
        /\ Len(p[d]) = 1 /\ p[d][1] = c[d]
    BY <1>1
  <2> QED
    BY <2>1, <2>2
<1>4. p \in Agreeing(n, w)
  BY <1>2, <1>3 DEF Agreeing
<1> QED
  BY <1>4 DEF p

(* The pieces f[1], .. f[m], one after the other. *)
Loop(n, m, f) == [r \in Members(n) |-> FlattenSeq([i \in 1 .. m |-> f[i][r]])]

(* Sets of programs that one program after another does not leave. *)
Closed(n, Z) ==
  /\ \A p \in Z, q \in Z : Join(n, p, q) \in Z
  /\ \A p \in Z : p = [r \in Members(n) |-> p[r]]

(***************************************************************************)
(* What holds of the body of a loop, and of one piece after another if it  *)
(* holds of both, holds of the loop.                                       *)
(***************************************************************************)
LEMMA FlattenKeeps ==
  ASSUME NEW n, NEW Z, Closed(n, Z),
         NEW m \in Nat \ {0}, NEW f, \A i \in 1 .. m : f[i] \in Z
  PROVE  Loop(n, m, f) \in Z
<1> DEFINE seqs(r) == [i \in 1 .. m |-> f[i][r]]
           Flattens(r, g) == /\ g[1] = seqs(r)[1]
                             /\ \A i \in 1 .. m - 1 : g[i + 1] = g[i] \o seqs(r)[i + 1]
                             /\ FlattenSeq(seqs(r)) = g[m]
           G == [r \in Members(n) |-> CHOOSE g : Flattens(r, g)]
           part(k) == [r \in Members(n) |-> G[r][k]]
           T == {k \in 1 .. m : part(k) \notin Z}
<1>1. ASSUME NEW r \in Members(n)
      PROVE  Flattens(r, G[r])
  <2>1. seqs(r) \in Seq({f[i][r] : i \in 1 .. m}) /\ Len(seqs(r)) = m
    OBVIOUS
  <2>2. \E g : Flattens(r, g)
    BY <2>1, Flattened
  <2>3. G[r] = CHOOSE g : Flattens(r, g)
    BY <1>1
  <2> HIDE DEF Flattens, G
  <2> QED
    BY <2>2, <2>3
<1> HIDE DEF G
<1>2. 1 \in 1 .. m /\ part(1) \in Z
  <2>1. ASSUME NEW r \in Members(n)
        PROVE  G[r][1] = f[1][r]
    <3>1. G[r][1] = seqs(r)[1]
      BY <1>1
    <3> QED
      BY <3>1
  <2>2. part(1) = [r \in Members(n) |-> f[1][r]]
    BY <2>1
  <2>3. f[1] \in Z /\ f[1] = [r \in Members(n) |-> f[1][r]]
    BY DEF Closed
  <2> HIDE DEF part
  <2> QED
    BY <2>2, <2>3
<1>3. ASSUME NEW i \in 1 .. m - 1, part(i) \in Z
      PROVE  part(i + 1) \in Z
  <2>1. ASSUME NEW r \in Members(n)
        PROVE  G[r][i + 1] = G[r][i] \o f[i + 1][r]
    <3>1. G[r][i + 1] = G[r][i] \o seqs(r)[i + 1]
      BY <1>1
    <3>2. i + 1 \in 1 .. m
      OBVIOUS
    <3> QED
      BY <3>1, <3>2
  <2>2. part(i + 1) = Join(n, part(i), f[i + 1])
    BY <2>1 DEF Join
  <2>3. f[i + 1] \in Z
    OBVIOUS
  <2> HIDE DEF part
  <2> QED
    BY <1>3, <2>2, <2>3 DEF Closed
<1>4. T = {}
  <2> SUFFICES ASSUME T # {}
               PROVE  FALSE
    OBVIOUS
  <2>1. T \subseteq Nat
    <3> HIDE DEF part
    <3> QED
      OBVIOUS
  <2>2. PICK x \in T : \A y \in T : x <= y
    <3> HIDE DEF T
    <3> QED
      BY <2>1, LeastOf
  <2>3. x \in 1 .. m /\ part(x) \notin Z /\ x # 1
    <3> HIDE DEF part
    <3> QED
      BY <1>2
  <2>4. x - 1 \in 1 .. m - 1 /\ x - 1 \in 1 .. m /\ x - 1 < x /\ (x - 1) + 1 = x
    <3> HIDE DEF part, T
    <3> QED
      BY <2>3
  <2>5. x - 1 \notin T
    <3> HIDE DEF T
    <3> QED
      BY <2>2, <2>4
  <2>6. part(x - 1) \in Z
    <3> HIDE DEF part
    <3> QED
      BY <2>4, <2>5
  <2>7. PICK i : i = x - 1
    OBVIOUS
  <2>8. i \in 1 .. m - 1 /\ part(i) \in Z /\ i + 1 = x
    <3> HIDE DEF part, T
    <3> QED
      BY <2>4, <2>6, <2>7
  <2> HIDE DEF part, T
  <2> QED
    BY <1>3, <2>3, <2>8
<1>5. part(m) \in Z
  <2> HIDE DEF part
  <2>1. m \in 1 .. m
    OBVIOUS
  <2> QED
    BY <1>4, <2>1
<1>6. \A r \in Members(n) : G[r][m] = FlattenSeq(seqs(r))
  BY <1>1
<1>7. part(m) = [r \in Members(n) |-> FlattenSeq(seqs(r))]
  <2> HIDE DEF seqs
  <2> QED
    BY <1>6
<1> QED
  BY <1>5, <1>7 DEF Loop

(* A body any number of times, or not at all. *)
Repeated(n, m, p) == [r \in Members(n) |-> FlattenSeq([i \in 1 .. m |-> p[r]])]

LEMMA RepeatKeeps ==
  ASSUME NEW n, NEW Z, Closed(n, Z), [r \in Members(n) |-> <<>>] \in Z,
         NEW m \in Nat, NEW p \in Z
  PROVE  Repeated(n, m, p) \in Z
<1> DEFINE loop == [r \in Members(n) |-> FlattenSeq([i \in 1 .. m |-> p[r]])]
           f == [i \in 1 .. m |-> p]
<1>1. CASE m = 0
  <2>1. ASSUME NEW r \in Members(n)
        PROVE  FlattenSeq([i \in 1 .. m |-> p[r]]) = <<>>
    <3>1. [i \in 1 .. m |-> p[r]] = <<>>
      BY <1>1
    <3> QED
      BY <3>1 DEF FlattenSeq
  <2>2. loop = [r \in Members(n) |-> <<>>]
    BY <2>1
  <2> HIDE DEF loop
  <2>3. loop \in Z
    BY <2>2
  <2> QED
    BY <2>3 DEF loop, Repeated
<1>2. CASE m # 0
  <2>1. m \in Nat \ {0} /\ \A i \in 1 .. m : f[i] \in Z
    BY <1>2
  <2>2. Loop(n, m, f) \in Z
    <3> HIDE DEF f
    <3> QED
      BY <2>1, FlattenKeeps
  <2>3. ASSUME NEW r \in Members(n)
        PROVE  [i \in 1 .. m |-> f[i][r]] = [i \in 1 .. m |-> p[r]]
    OBVIOUS
  <2>4. Loop(n, m, f) = loop
    <3> HIDE DEF f
    <3> QED
      BY <2>3 DEF Loop
  <2> HIDE DEF f, loop
  <2>5. loop \in Z
    BY <2>2, <2>4
  <2> QED
    BY <2>5 DEF loop, Repeated
<1> QED
  BY <1>1, <1>2

(* One call m times is m calls. *)
LEMMA RepeatedCall ==
  ASSUME NEW S, NEW x \in S, NEW m \in Nat
  PROVE  /\ FlattenSeq([i \in 1 .. m |-> <<x>>]) \in Seq(S)
         /\ Len(FlattenSeq([i \in 1 .. m |-> <<x>>])) = m
<1>0. PICK seqs : seqs = [i \in 1 .. m |-> <<x>>]
  OBVIOUS
<1>1. CASE m = 0
  <2>1. seqs = <<>>
    BY <1>0, <1>1
  <2>2. FlattenSeq(seqs) = <<>>
    BY <2>1 DEF FlattenSeq
  <2>3. FlattenSeq(seqs) \in Seq(S) /\ Len(FlattenSeq(seqs)) = m
    BY <1>1, <2>2
  <2> QED
    BY <1>0, <2>3
<1>2. CASE m # 0
  <2>1. m \in Nat \ {0} /\ Len(seqs) = m /\ \A i \in 1 .. m : seqs[i] = <<x>>
    BY <1>0, <1>2
  <2> DEFINE Flattens(g) == /\ g[1] = seqs[1]
                            /\ \A i \in 1 .. m - 1 : g[i + 1] = g[i] \o seqs[i + 1]
                            /\ FlattenSeq(seqs) = g[m]
  <2>0. \E g : Flattens(g)
    <3>1. m \in Nat \ {0} /\ Len(seqs) = m
      BY <2>1
    <3> QED
      BY <3>1, Flattened
  <2>2. PICK g : Flattens(g)
    BY <2>0
  <2> DEFINE T == {k \in 1 .. m : ~(g[k] \in Seq(S) /\ Len(g[k]) = k)}
  <2>3. 1 \in 1 .. m /\ g[1] \in Seq(S) /\ Len(g[1]) = 1
    <3>1. g[1] = <<x>> /\ 1 \in 1 .. m
      BY <2>1, <2>2
    <3> QED
      BY <3>1
  <2>4. ASSUME NEW i \in 1 .. m - 1, g[i] \in Seq(S), Len(g[i]) = i
        PROVE  g[i + 1] \in Seq(S) /\ Len(g[i + 1]) = i + 1
    <3>0. i + 1 \in 1 .. m
      BY <2>1
    <3>1. g[i + 1] = g[i] \o <<x>>
      BY <2>1, <2>2, <3>0
    <3>2. PICK a, b : a = g[i] /\ b = <<x>>
      OBVIOUS
    <3>3. a \in Seq(S) /\ b \in Seq(S) /\ Len(a) = i /\ Len(b) = 1
      BY <2>4, <3>2
    <3>4. a \o b \in Seq(S) /\ Len(a \o b) = Len(a) + Len(b)
      BY <3>3, Concatenated
    <3>5. a \o b \in Seq(S) /\ Len(a \o b) = i + 1
      BY <3>3, <3>4
    <3> QED
      BY <3>1, <3>2, <3>5
  <2>5. T = {}
    <3> SUFFICES ASSUME T # {}
                 PROVE  FALSE
      OBVIOUS
    <3>1. T \subseteq Nat
      OBVIOUS
    <3>2. PICK y \in T : \A z \in T : y <= z
      <4> HIDE DEF T
      <4> QED
        BY <3>1, LeastOf
    <3>3. y \in 1 .. m /\ ~(g[y] \in Seq(S) /\ Len(g[y]) = y) /\ y # 1
      BY <2>3
    <3>4. PICK i : i = y - 1
      OBVIOUS
    <3>5. i \in 1 .. m - 1 /\ i \in 1 .. m /\ i + 1 = y /\ ~(y <= i)
      BY <3>3, <3>4
    <3>6. g[i] \in Seq(S) /\ Len(g[i]) = i
      BY <3>2, <3>5
    <3> QED
      BY <2>4, <3>3, <3>5, <3>6
  <2>6. g[m] \in Seq(S) /\ Len(g[m]) = m
    BY <2>1, <2>5
  <2>7. FlattenSeq(seqs) \in Seq(S) /\ Len(FlattenSeq(seqs)) = m
    BY <2>2, <2>6
  <2> QED
    BY <1>0, <2>7
<1> QED
  BY <1>1, <1>2

(* The job of programs that agree is matched. *)
LEMMA AgreeingMatched ==
  ASSUME NEW j \in Jobs, NEW w, NEW p \in Agreeing(j.size, w),
         \A r \in Members(j.size) : Program(j, r) = p[r]
  PROVE  /\ j \in MatchedJobs
         /\ \A s, d \in Members(j.size) :
              /\ Len(Program(j, s)) = Len(Program(j, d))
              /\ \A k \in DOMAIN Program(j, s) : Fits(s, d, Program(j, s)[k], Program(j, d)[k])
         /\ \A r \in Members(j.size) : Program(j, r) \in Seq(CallsOf(j.size, w))
<1>1. \A s, d \in Members(j.size) :
        /\ Len(p[s]) = Len(p[d])
        /\ \A k \in DOMAIN p[s] : Fits(s, d, p[s][k], p[d][k])
  BY DEF Agreeing, Agree
<1>2. \A s, d \in Members(j.size) :
        /\ Len(Program(j, s)) = Len(Program(j, d))
        /\ \A k \in DOMAIN Program(j, s) : Fits(s, d, Program(j, s)[k], Program(j, d)[k])
  BY <1>1
<1>3. \A r \in Members(j.size) : Program(j, r) \in Seq(CallsOf(j.size, w))
  BY DEF Agreeing
<1>4. Matched(j)
  <2> SUFFICES ASSUME NEW s \in Members(j.size), NEW d \in Members(j.size)
               PROVE  /\ Len(Program(j, s)) = Len(Program(j, d))
                      /\ \A k \in DOMAIN Program(j, s) :
                           /\ IF s = d THEN CountIn(Program(j, s)[k].to, d) = 0
                                       ELSE Program(j, s)[k].tag = Program(j, d)[k].takes
                           /\ CountIn(Program(j, s)[k].to, d) = CountIn(Program(j, d)[k].from, s)
    BY DEF Matched, Members
  <2> QED
    BY <1>2 DEF Fits
<1> QED
  BY <1>2, <1>3, <1>4 DEF MatchedJobs

LEMMA CountOne ==
  ASSUME NEW x, NEW y
  PROVE  /\ x = y => CountIn(<<x>>, y) = 1
         /\ x # y => CountIn(<<x>>, y) = 0
<1>1. ASSUME x = y
      PROVE  CountIn(<<x>>, y) = 1
  <2>1. {i \in DOMAIN <<x>> : <<x>>[i] = y} = {1}
    BY <1>1
  <2> QED
    BY <2>1, FS_Singleton DEF CountIn
<1>2. ASSUME x # y
      PROVE  CountIn(<<x>>, y) = 0
  <2>1. {i \in DOMAIN <<x>> : <<x>>[i] = y} = {}
    BY <1>2
  <2> QED
    BY <2>1, FS_EmptySet DEF CountIn
<1> QED
  BY <1>1, <1>2

(* The loop over all peers names each of them once. *)
LEMMA EveryPeerOnce ==
  ASSUME NEW n \in Nat \ {0}, NEW r \in Members(n)
  PROVE  /\ PeersOf(r, n) \in Seq(Members(n)) /\ Len(PeersOf(r, n)) = n - 1
         /\ CountIn(PeersOf(r, n), r) = 0
         /\ \A d \in Members(n) : d # r => CountIn(PeersOf(r, n), d) = 1
<1>1. r \in Nat /\ r < n
  BY DEF Members
<1>2. /\ PeersOf(r, n) = [k \in 1 .. n - 1 |-> IF k - 1 < r THEN k - 1 ELSE k]
      /\ DOMAIN PeersOf(r, n) = 1 .. n - 1
  BY DEF PeersOf
<1>3. ASSUME NEW k \in 1 .. n - 1
      PROVE  /\ k - 1 < r => PeersOf(r, n)[k] = k - 1
             /\ ~(k - 1 < r) => PeersOf(r, n)[k] = k
             /\ PeersOf(r, n)[k] \in Members(n)
  BY <1>1, <1>2 DEF Members
<1>4. PeersOf(r, n) \in Seq(Members(n)) /\ Len(PeersOf(r, n)) = n - 1
  <2>1. PeersOf(r, n) \in [1 .. n - 1 -> Members(n)] /\ n - 1 \in Nat
    BY <1>2, <1>3
  <2> QED
    BY <2>1
<1>5. CountIn(PeersOf(r, n), r) = 0
  <2>1. \A k \in 1 .. n - 1 : PeersOf(r, n)[k] # r
    BY <1>1, <1>3
  <2>2. {k \in DOMAIN PeersOf(r, n) : PeersOf(r, n)[k] = r} = {}
    BY <1>2, <2>1
  <2> QED
    BY <2>2, FS_EmptySet DEF CountIn
<1>6. ASSUME NEW d \in Members(n), d # r
      PROVE  CountIn(PeersOf(r, n), d) = 1
  <2>1. d \in Nat /\ d < n
    BY DEF Members
  <2>2. PICK j : (d < r => j = d + 1) /\ (~(d < r) => j = d)
    OBVIOUS
  <2>3. j \in 1 .. n - 1
    BY <1>1, <1>6, <2>1, <2>2
  <2>4. \A k \in 1 .. n - 1 : PeersOf(r, n)[k] = d <=> k = j
    <3> TAKE k \in 1 .. n - 1
    <3>1. /\ k - 1 < r => PeersOf(r, n)[k] = k - 1
          /\ ~(k - 1 < r) => PeersOf(r, n)[k] = k
      BY <1>3
    <3> QED
      BY <1>1, <1>6, <2>1, <2>2, <3>1
  <2>5. {k \in DOMAIN PeersOf(r, n) : PeersOf(r, n)[k] = d} = {j}
    BY <1>2, <2>3, <2>4
  <2> QED
    BY <2>5, FS_Singleton DEF CountIn
<1> QED
  BY <1>4, <1>5, <1>6

(* Every rank calls every other. *)
LEMMA ToAllMeets ==
  ASSUME NEW n \in Nat \ {0}, NEW w \in Nat \ {0}, NEW tag \in Tags
  PROVE  /\ [r \in Members(n) |-> ToAll(tag, r, n)] \in Meeting(n, w)
         /\ \A r \in Members(n) :
              /\ ToAll(tag, r, n).tag = tag /\ ToAll(tag, r, n).takes = tag
              /\ \A d \in Members(n) \ {r} : CountIn(ToAll(tag, r, n).from, d) > 0
<1>1. ASSUME NEW r \in Members(n)
      PROVE  /\ ToAll(tag, r, n) \in CallsOf(n, w)
             /\ ToAll(tag, r, n).tag = tag /\ ToAll(tag, r, n).takes = tag
             /\ ToAll(tag, r, n).to = PeersOf(r, n) /\ ToAll(tag, r, n).from = PeersOf(r, n)
  <2>1. PeersOf(r, n) \in Seq(Members(n))
    BY EveryPeerOnce
  <2>2. ASSUME NEW d \in Members(n)
        PROVE  CountIn(PeersOf(r, n), d) \in 0 .. w
    <3>1. CountIn(PeersOf(r, n), d) = 0 \/ CountIn(PeersOf(r, n), d) = 1
      BY EveryPeerOnce
    <3> QED
      BY <3>1
  <2> QED
    BY <2>1, <2>2 DEF ToAll, Exchange, CallsOf, Waits
<1>2. ASSUME NEW s \in Members(n), NEW d \in Members(n)
      PROVE  Fits(s, d, ToAll(tag, s, n), ToAll(tag, d, n))
  <2>1. /\ CountIn(PeersOf(s, n), s) = 0
        /\ s # d => CountIn(PeersOf(s, n), d) = 1
    BY EveryPeerOnce
  <2>2. /\ CountIn(PeersOf(d, n), d) = 0
        /\ s # d => CountIn(PeersOf(d, n), s) = 1
    BY EveryPeerOnce
  <2>3. /\ ToAll(tag, s, n).tag = tag /\ ToAll(tag, s, n).to = PeersOf(s, n)
        /\ ToAll(tag, d, n).takes = tag /\ ToAll(tag, d, n).from = PeersOf(d, n)
    BY <1>1
  <2> QED
    BY <2>1, <2>2, <2>3 DEF Fits
<1>3. ASSUME NEW r \in Members(n), NEW d \in Members(n) \ {r}
      PROVE  CountIn(ToAll(tag, r, n).from, d) > 0
  <2>1. ToAll(tag, r, n).from = PeersOf(r, n)
    BY <1>1
  <2>2. CountIn(PeersOf(r, n), d) = 1
    BY EveryPeerOnce
  <2> QED
    BY <2>1, <2>2
<1> QED
  BY <1>1, <1>2, <1>3 DEF Meeting

Message == [tag : STRING, call : Nat]

Arrival == [src : Ranks, call : Nat]

CallRecord == [tag : STRING, takes : STRING, to : Seq(Ranks), from : Seq(Ranks),
               waits : Waits, keep : BOOLEAN]

-----------------------------------------------------------------------------
(* The programs of the job that runs. *)

(* What ProgramAssumption says of the job that runs. *)
LEMMA ProgramFacts ==
  ASSUME job \in Jobs
  PROVE  /\ job.size \in Nat \ {0}
         /\ IsFiniteSet(Ranks) /\ Cardinality(Ranks) = job.size
         /\ \A r \in Ranks : /\ Program(job, r) \in Seq(CallRecord)
                             /\ Len(Program(job, r)) \in Nat
                             /\ DOMAIN Program(job, r) = 1 .. Len(Program(job, r))
         /\ \A r \in Ranks : \A k \in DOMAIN Program(job, r) : CallAt(r, k) \in CallRecord
<1>1. job.size \in Nat \ {0}
  BY ProgramAssumption
<1>2. IsFiniteSet(Ranks) /\ Cardinality(Ranks) = job.size
  <2>1. 0 \in Int /\ job.size - 1 \in Int
    BY <1>1
  <2>2. IsFiniteSet(0 .. job.size - 1)
         /\ Cardinality(0 .. job.size - 1) =
              IF 0 > job.size - 1 THEN 0 ELSE (job.size - 1) - 0 + 1
    BY <2>1, FS_Interval
  <2> QED
    BY <1>1, <2>2 DEF Ranks
<1>3. \A r \in Ranks : Program(job, r) \in Seq(CallRecord)
  BY ProgramAssumption DEF Ranks, CallRecord
<1>4. ASSUME NEW r \in Ranks
      PROVE  /\ Len(Program(job, r)) \in Nat
             /\ DOMAIN Program(job, r) = 1 .. Len(Program(job, r))
             /\ \A k \in DOMAIN Program(job, r) : CallAt(r, k) \in CallRecord
  <2>1. Program(job, r) \in Seq(CallRecord)
    BY <1>3
  <2>2. Len(Program(job, r)) \in Nat /\ DOMAIN Program(job, r) = 1 .. Len(Program(job, r))
    BY <2>1, LenProperties
  <2>3. \A k \in DOMAIN Program(job, r) : Program(job, r)[k] \in CallRecord
    BY <2>1, <2>2, ElementOfSeq
  <2> QED
    BY <2>2, <2>3 DEF CallAt
<1> QED
  BY <1>1, <1>2, <1>3, <1>4

(* The fields of a call. *)
LEMMA CallFacts ==
  ASSUME job \in Jobs, NEW r \in Ranks, NEW k \in DOMAIN Program(job, r)
  PROVE  /\ CallAt(r, k).tag \in STRING /\ CallAt(r, k).takes \in STRING
         /\ CallAt(r, k).to \in Seq(Ranks)
         /\ CallAt(r, k).from \in Seq(Ranks) /\ Len(CallAt(r, k).from) \in Nat
         /\ \A d : Due(r, d, k) \in Nat
         /\ MessageOf(r, k) = [tag |-> CallAt(r, k).tag, call |-> k]
         /\ MessageOf(r, k) \in Message
<1>1. CallAt(r, k) \in CallRecord /\ k \in Nat
  BY ProgramFacts
<1>2. /\ CallAt(r, k).tag \in STRING /\ CallAt(r, k).takes \in STRING
      /\ CallAt(r, k).to \in Seq(Ranks) /\ CallAt(r, k).from \in Seq(Ranks)
  BY <1>1 DEF CallRecord
<1>3. Len(CallAt(r, k).from) \in Nat
  BY <1>2, LenProperties
<1>4. \A d : Due(r, d, k) \in Nat
  BY <1>2, CountType DEF Due
<1>5. MessageOf(r, k) = [tag |-> CallAt(r, k).tag, call |-> k]
  BY DEF MessageOf, CallAt
<1> QED
  BY <1>1, <1>2, <1>3, <1>4, <1>5 DEF Message

(* Nothing but a barrier takes the barrier's tag. *)
LEMMA BarrierFacts ==
  ASSUME job \in Jobs, NEW r \in Ranks, NEW k \in DOMAIN Program(job, r)
  PROVE  /\ IsBarrier(r, k) <=> CallAt(r, k).tag = BarrierTag
         /\ IsBarrier(r, k) <=> CallAt(r, k).takes = BarrierTag
         /\ IsBarrier(r, k) =>
              /\ Len(CallAt(r, k).from) = job.size - 1
              /\ \A d \in Ranks : Due(r, d, k) = IF d = r THEN 0 ELSE 1
<1>1. CallAt(r, k).tag = BarrierTag \/ CallAt(r, k).takes = BarrierTag =>
        BarrierShape(CallAt(r, k), r, job.size)
  BY ProgramAssumption DEF Ranks, CallAt
<1>2. IsBarrier(r, k) <=> CallAt(r, k).tag = BarrierTag
  BY DEF IsBarrier, CallAt
<1> QED
  BY <1>1, <1>2 DEF BarrierShape, Due, Ranks

(* A step keeps the job, and with it everything that depends on it alone. *)
LEMMA SameProgram ==
  ASSUME job' = job
  PROVE  /\ Ranks' = Ranks
         /\ \A r, k : CallAt(r, k)' = CallAt(r, k)
         /\ \A r, k : MessageOf(r, k)' = MessageOf(r, k)
         /\ \A s, d, c : Due(s, d, c)' = Due(s, d, c)
         /\ \A r, k : IsBarrier(r, k)' = IsBarrier(r, k)
         /\ \A r : (DOMAIN Program(job, r))' = DOMAIN Program(job, r)
  BY DEF Ranks, CallAt, MessageOf, Due, IsBarrier

(* The state as the types describe it. *)
LEMMA StateFacts ==
  ASSUME TypeOK
  PROVE  /\ job \in Jobs
         /\ \A r \in Ranks :
              /\ at[r] \in Nat /\ at[r] <= Len(Program(job, r))
              /\ at[r] > 0 => at[r] \in DOMAIN Program(job, r)
              /\ \A c \in 1 .. at[r] : c \in DOMAIN Program(job, r)
              /\ inside[r] \in BOOLEAN
              /\ todo[r] \in Seq(Ranks)
              /\ got[r] \in Seq(Arrival) /\ Len(got[r]) \in Nat
         /\ \A s, d \in Ranks :
              /\ chan[s][d] \in Seq(Message)
              /\ \A i \in DOMAIN chan[s][d] :
                   /\ chan[s][d][i].call \in 1 .. at[s]
                   /\ chan[s][d][i] = MessageOf(s, chan[s][d][i].call)
<1>1. job \in Jobs
  BY DEF TypeOK
<1>2. ASSUME NEW r \in Ranks
      PROVE  /\ at[r] \in Nat /\ at[r] <= Len(Program(job, r))
             /\ at[r] > 0 => at[r] \in DOMAIN Program(job, r)
             /\ \A c \in 1 .. at[r] : c \in DOMAIN Program(job, r)
             /\ inside[r] \in BOOLEAN
             /\ todo[r] \in Seq(Ranks)
             /\ got[r] \in Seq(Arrival) /\ Len(got[r]) \in Nat
  <2>1. at[r] \in Nat /\ at[r] <= Len(Program(job, r)) /\ inside[r] \in BOOLEAN
    BY DEF TypeOK
  <2>2. todo[r] \in Seq(Ranks) /\ got[r] \in Seq(Arrival)
    BY DEF TypeOK, Arrival
  <2>3. Len(got[r]) \in Nat
    BY <2>2, LenProperties
  <2>4. \A c \in 1 .. at[r] : c \in DOMAIN Program(job, r)
    BY <1>1, <2>1, ProgramFacts
  <2> QED
    BY <2>1, <2>2, <2>3, <2>4
<1>3. \A s, d \in Ranks :
        /\ chan[s][d] \in Seq(Message)
        /\ \A i \in DOMAIN chan[s][d] :
             /\ chan[s][d][i].call \in 1 .. at[s]
             /\ chan[s][d][i] = MessageOf(s, chan[s][d][i].call)
  BY DEF TypeOK, Message
<1> QED
  BY <1>1, <1>2, <1>3

(* No call waits in a channel before it is begun. *)
LEMMA NotWaitingYet ==
  ASSUME TypeOK, NEW s \in Ranks, NEW d \in Ranks,
         NEW c \in DOMAIN Program(job, s), c > at[s]
  PROVE  Waiting(s, d, c) = 0 /\ Sent(s, d, c) = 0 /\ Taken(s, d, c) = 0
<1>1. MessageOf(s, c).call = c /\ c \in Nat /\ at[s] \in Nat
  BY StateFacts, ProgramFacts, CallFacts
<1>2. chan[s][d] \in Seq(Message) /\ \A i \in DOMAIN chan[s][d] : chan[s][d][i].call <= at[s]
  BY StateFacts
<1>3. ~ \E i \in DOMAIN chan[s][d] : chan[s][d][i] = MessageOf(s, c)
  BY <1>1, <1>2
<1>4. Waiting(s, d, c) = 0
  <2>1. CountIn(chan[s][d], MessageOf(s, c)) \in Nat
    BY <1>2, CountType
  <2>2. ~(CountIn(chan[s][d], MessageOf(s, c)) > 0)
    BY <1>2, <1>3, CountPositive
  <2> QED
    BY <2>1, <2>2 DEF Waiting
<1>5. Sent(s, d, c) = 0
  BY <1>1 DEF Sent
<1> QED
  BY <1>4, <1>5 DEF Taken

(* The counts are integers, and nothing is taken that was not sent. *)
LEMMA CountFacts ==
  ASSUME TypeOK, NothingFromNowhere,
         NEW s \in Ranks, NEW d \in Ranks, NEW c \in DOMAIN Program(job, s)
  PROVE  /\ Due(s, d, c) \in Nat /\ Waiting(s, d, c) \in Nat
         /\ Sent(s, d, c) \in Nat /\ Taken(s, d, c) \in Nat
         /\ Sent(s, d, c) <= Due(s, d, c) /\ Taken(s, d, c) <= Sent(s, d, c)
         /\ Taken(s, d, c) = Sent(s, d, c) - Waiting(s, d, c)
         /\ c > at[s] => Taken(s, d, c) = 0
<1>1. c \in Nat /\ at[s] \in Nat /\ Due(s, d, c) \in Nat
  BY StateFacts, ProgramFacts, CallFacts
<1>2. Waiting(s, d, c) \in Nat
  BY StateFacts, CountType DEF Waiting
<1>3. CASE c > at[s]
  BY <1>1, <1>2, <1>3, NotWaitingYet DEF Taken
<1>4. CASE c <= at[s]
  <2>1. c \in 1 .. at[s]
    BY <1>1, <1>4, StateFacts, ProgramFacts
  <2>2. Waiting(s, d, c) <= Sent(s, d, c)
    BY <2>1 DEF NothingFromNowhere
  <2>3. Ahead(s, d, c) \in Nat
    BY StateFacts, CountType DEF Ahead
  <2>4. Sent(s, d, c) = Due(s, d, c) - Ahead(s, d, c)
    BY <2>1 DEF Sent
  <2> QED
    BY <1>1, <1>2, <1>4, <2>2, <2>3, <2>4 DEF Taken
<1> QED
  BY <1>1, <1>3, <1>4

(* A step that neither sends nor receives nor begins a call keeps the counts. *)
LEMMA SameCounts ==
  ASSUME job' = job, at' = at, todo' = todo, chan' = chan
  PROVE  \A s, d, c : /\ Sent(s, d, c)' = Sent(s, d, c)
                      /\ Waiting(s, d, c)' = Waiting(s, d, c)
                      /\ Taken(s, d, c)' = Taken(s, d, c)
  BY SameProgram DEF Sent, Ahead, Waiting, Taken

(* A send loop appends its messages to the channels of the sender. *)
LEMMA SendToEffect ==
  ASSUME TypeOK, NEW r \in Ranks, NEW to \in Seq(Ranks),
         NEW k \in DOMAIN Program(job, r), chan' = SendTo(r, to, k)
  PROVE  /\ chan' \in [Ranks -> [Ranks -> Seq(Message)]]
         /\ \A s, d \in Ranks : s # r => chan'[s][d] = chan[s][d]
         /\ \A d \in Ranks :
              /\ Len(chan'[r][d]) = Len(chan[r][d]) + CountIn(to, d)
              /\ \A i \in DOMAIN chan'[r][d] :
                   IF i <= Len(chan[r][d]) THEN chan'[r][d][i] = chan[r][d][i]
                                           ELSE chan'[r][d][i] = MessageOf(r, k)
              /\ CountIn(chan'[r][d], MessageOf(r, k))
                   = CountIn(chan[r][d], MessageOf(r, k)) + CountIn(to, d)
              /\ \A x \in Message : x # MessageOf(r, k) =>
                   CountIn(chan'[r][d], x) = CountIn(chan[r][d], x)
<1> DEFINE y == MessageOf(r, k)
           copies(d) == [i \in 1 .. CountIn(to, d) |-> y]
<1>1. y \in Message /\ chan \in [Ranks -> [Ranks -> Seq(Message)]]
  BY StateFacts, CallFacts DEF TypeOK, Message
<1>2. \A s, d \in Ranks : s # r => chan'[s][d] = chan[s][d]
  BY <1>1 DEF SendTo
<1>3. ASSUME NEW d \in Ranks
      PROVE  chan'[r][d] = chan[r][d] \o copies(d)
  BY <1>1 DEF SendTo
<1>4. chan' = [chan EXCEPT ![r] = chan'[r]] /\ DOMAIN chan'[r] = Ranks
  BY <1>1 DEF SendTo
<1>5. ASSUME NEW d \in Ranks
      PROVE  /\ chan'[r][d] \in Seq(Message)
             /\ Len(chan'[r][d]) = Len(chan[r][d]) + CountIn(to, d)
             /\ \A i \in DOMAIN chan'[r][d] :
                  IF i <= Len(chan[r][d]) THEN chan'[r][d][i] = chan[r][d][i]
                                          ELSE chan'[r][d][i] = y
             /\ CountIn(chan'[r][d], y) = CountIn(chan[r][d], y) + CountIn(to, d)
             /\ \A x \in Message : x # y => CountIn(chan'[r][d], x) = CountIn(chan[r][d], x)
  <2> DEFINE q == chan[r][d]
             p == chan'[r][d]
             m == CountIn(to, d)
             c == copies(d)
  <2>1. q \in Seq(Message) /\ m \in Nat
    BY <1>1, CountType
  <2>2. c \in Seq(Message) /\ Len(c) = m /\ \A i \in 1 .. Len(c) : c[i] = y
    <3> HIDE DEF y
    <3> QED
      BY <1>1, <2>1, Copies
  <2>3. p = q \o c
    BY <1>3
  <2> HIDE DEF q, p, m, c, y
  <2>4. p \in Seq(Message) /\ Len(p) = Len(q) + m /\ Len(q) \in Nat
    BY <2>1, <2>2, <2>3, ConcatProperties, LenProperties
  <2>5. \A i \in 1 .. Len(p) : p[i] = IF i <= Len(q) THEN q[i] ELSE c[i - Len(q)]
    BY <2>1, <2>2, <2>3, <2>4, ConcatProperties
  <2>6. DOMAIN p = 1 .. Len(p)
    BY <2>4, LenProperties
  <2>7. ASSUME NEW i \in DOMAIN p
        PROVE  IF i <= Len(q) THEN p[i] = q[i] ELSE p[i] = y
    <3>1. i \in 1 .. Len(q) + m
      BY <2>4, <2>6
    <3>2. ~(i <= Len(q)) => i - Len(q) \in 1 .. m
      BY <2>1, <2>4, <3>1
    <3> QED
      BY <2>2, <2>4, <2>5, <3>1, <3>2
  <2>8. /\ CountIn(p, y) = CountIn(q, y) + m
        /\ \A x \in Message : x # y => CountIn(p, x) = CountIn(q, x)
    BY <1>1, <2>1, <2>2, <2>3, CountCopies
  <2> QED
    BY <2>4, <2>7, <2>8 DEF q, p, m
<1>6. chan' \in [Ranks -> [Ranks -> Seq(Message)]]
  <2>1. chan'[r] \in [Ranks -> Seq(Message)]
    <3>1. \A d \in Ranks : chan'[r][d] \in Seq(Message)
      BY <1>5
    <3>2. chan'[r] = [d \in Ranks |-> chan'[r][d]]
      BY <1>1 DEF SendTo
    <3> QED
      BY <3>1, <3>2
  <2> QED
    BY <1>1, <1>4, <2>1
<1> QED
  BY <1>2, <1>5, <1>6

-----------------------------------------------------------------------------
(* The steps, said with the operators of JobInvariant. *)

(* A call begins: its sends are made, or kept for a loop that waits for each. *)
LEMMA BeginEffect ==
  ASSUME TypeOK, NEW r \in Ranks, Begin(r)
  PROVE  /\ ~inside[r] /\ at[r] + 1 \in DOMAIN Program(job, r)
         /\ job' = job
         /\ at' = [at EXCEPT ![r] = at[r] + 1]
         /\ inside' = [inside EXCEPT ![r] = TRUE]
         /\ got' = [got EXCEPT ![r] = <<>>]
         /\ \/ todo' = [todo EXCEPT ![r] = CallAt(r, at[r] + 1).to] /\ chan' = chan
            \/ todo' = todo /\ chan' = SendTo(r, CallAt(r, at[r] + 1).to, at[r] + 1)
<1>1. at[r] \in Nat /\ job \in Jobs
  BY StateFacts
<1>2. at[r] + 1 \in DOMAIN Program(job, r)
  BY <1>1, ProgramFacts DEF Begin
<1> QED
  BY <1>1, <1>2 DEF Begin, CallAt

(* One send of a loop that waits for each. *)
LEMMA SendEffect ==
  ASSUME TypeOK, Settled, NEW r \in Ranks, SendAwaited(r)
  PROVE  /\ inside[r] /\ todo[r] # <<>> /\ at[r] \in DOMAIN Program(job, r) /\ at[r] > 0
         /\ job' = job /\ at' = at /\ inside' = inside /\ got' = got
         /\ todo' = [todo EXCEPT ![r] = Tail(todo[r])]
         /\ chan' = SendTo(r, <<Head(todo[r])>>, at[r])
<1>1. inside[r] /\ at[r] \in Nat
  BY StateFacts DEF SendAwaited
<1>2. at[r] > 0 /\ at[r] \in DOMAIN Program(job, r)
  BY <1>1, StateFacts DEF Settled
<1> QED
  BY <1>1, <1>2 DEF SendAwaited

(* A posted receive takes the first message with its tag of some sender. *)
LEMMA ReceiveEffect ==
  ASSUME TypeOK, Settled, NEW r \in Ranks, Receive(r)
  PROVE  /\ inside[r] /\ at[r] \in DOMAIN Program(job, r) /\ at[r] > 0
         /\ Len(got[r]) < Len(CallAt(r, at[r]).from)
         /\ job' = job /\ at' = at /\ inside' = inside /\ todo' = todo
         /\ \E s \in Ranks, i \in Nat, c \in Nat :
              /\ i \in DOMAIN chan[s][r] /\ c \in 1 .. at[s]
              /\ c \in DOMAIN Program(job, s)
              /\ chan[s][r][i] = MessageOf(s, c)
              /\ CallAt(s, c).tag = CallAt(r, at[r]).takes
              /\ \A j \in DOMAIN chan[s][r] :
                   chan[s][r][j].tag = CallAt(r, at[r]).takes => i <= j
              /\ got' = [got EXCEPT ![r] = Append(got[r], [src |-> s, call |-> c])]
              /\ chan' = [chan EXCEPT ![s][r] = Without(chan[s][r], i)]
<1>0. Posted(r) > 0
  BY DEF Receive
<1>1. inside[r] /\ Len(got[r]) \in Nat /\ at[r] \in Nat /\ job \in Jobs
  <2>1. CASE ~inside[r]
    <3>1. Posted(r) = 0
      BY <2>1 DEF Posted
    <3> QED
      BY <1>0, <3>1
  <2> QED
    BY <2>1, StateFacts
<1>2. at[r] > 0 /\ at[r] \in DOMAIN Program(job, r)
  BY <1>1, StateFacts DEF Settled
<1>3. Len(got[r]) < Len(CallAt(r, at[r]).from)
  <2>1. Len(CallAt(r, at[r]).from) \in Nat
    BY <1>1, <1>2, CallFacts
  <2>2. Len(CallAt(r, at[r]).from) - Len(got[r]) > 0
    BY <1>0, <1>1 DEF Posted, CallOf, CallAt
  <2>3. \A a, b \in Nat : a - b > 0 => b < a
    OBVIOUS
  <2> QED
    BY <1>1, <2>1, <2>2, <2>3
<1>4. PICK s \in Ranks : \E i \in Candidates(s, r) :
        /\ \A j \in Candidates(s, r) : i <= j
        /\ got' = [got EXCEPT ![r] = Append(@, [src |-> s, call |-> chan[s][r][i].call])]
        /\ chan' = [chan EXCEPT ![s][r] = Without(@, i)]
  BY DEF Receive
<1>5. PICK i \in Candidates(s, r) :
        /\ \A j \in Candidates(s, r) : i <= j
        /\ got' = [got EXCEPT ![r] = Append(@, [src |-> s, call |-> chan[s][r][i].call])]
        /\ chan' = [chan EXCEPT ![s][r] = Without(@, i)]
  BY <1>4
<1>6. /\ i \in DOMAIN chan[s][r]
      /\ chan[s][r][i].tag = CallAt(r, at[r]).takes
      /\ \A j \in DOMAIN chan[s][r] : chan[s][r][j].tag = CallAt(r, at[r]).takes => i <= j
  BY <1>5 DEF Candidates, CallOf, CallAt
<1>7. PICK c \in 1 .. at[s] : chan[s][r][i] = MessageOf(s, c) /\ c = chan[s][r][i].call
  BY <1>6, StateFacts
<1>8. c \in DOMAIN Program(job, s)
  BY StateFacts
<1>9. CallAt(s, c).tag = CallAt(r, at[r]).takes
  BY <1>1, <1>6, <1>7, <1>8, CallFacts
<1>10. /\ got' = [got EXCEPT ![r] = Append(got[r], [src |-> s, call |-> c])]
       /\ chan' = [chan EXCEPT ![s][r] = Without(chan[s][r], i)]
  <2>1. got \in [Ranks -> Seq(Arrival)] /\ chan \in [Ranks -> [Ranks -> Seq(Message)]]
    BY DEF TypeOK, Arrival, Message
  <2> QED
    BY <1>5, <1>7, <2>1
<1>11. job' = job /\ at' = at /\ inside' = inside /\ todo' = todo
  BY DEF Receive
<1>12. i \in Nat /\ c \in Nat
  <2>1. chan[s][r] \in Seq(Message)
    BY StateFacts
  <2>2. DOMAIN chan[s][r] = 1 .. Len(chan[s][r])
    BY <2>1, LenProperties
  <2> QED
    BY <1>6, <2>2, StateFacts
<1>13. \E j \in Nat, k \in Nat :
              /\ j \in DOMAIN chan[s][r] /\ k \in 1 .. at[s]
              /\ k \in DOMAIN Program(job, s)
              /\ chan[s][r][j] = MessageOf(s, k)
              /\ CallAt(s, k).tag = CallAt(r, at[r]).takes
              /\ \A l \in DOMAIN chan[s][r] :
                   chan[s][r][l].tag = CallAt(r, at[r]).takes => j <= l
              /\ got' = [got EXCEPT ![r] = Append(got[r], [src |-> s, call |-> k])]
              /\ chan' = [chan EXCEPT ![s][r] = Without(chan[s][r], j)]
  BY <1>6, <1>7, <1>8, <1>9, <1>10, <1>12
<1> QED
  BY <1>1, <1>2, <1>3, <1>11, <1>13

(* A rank leaves a call when its sends and its receives are done. *)
LEMMA ReturnEffect ==
  ASSUME TypeOK, Settled, NEW r \in Ranks, Return(r)
  PROVE  /\ inside[r] /\ at[r] \in DOMAIN Program(job, r) /\ at[r] > 0
         /\ todo[r] = <<>> /\ Len(got[r]) = Len(CallAt(r, at[r]).from)
         /\ job' = job /\ at' = at /\ todo' = todo /\ chan' = chan /\ got' = got
         /\ inside' = [inside EXCEPT ![r] = FALSE]
<1>1. inside[r] /\ Len(got[r]) \in Nat /\ at[r] \in Nat /\ job \in Jobs
  BY StateFacts DEF Return
<1>2. at[r] > 0 /\ at[r] \in DOMAIN Program(job, r)
  BY <1>1, StateFacts DEF Settled
<1>3. Len(CallAt(r, at[r]).from) \in Nat
  BY <1>1, <1>2, CallFacts
<1>4. Len(CallAt(r, at[r]).from) - Len(got[r]) = 0
  BY <1>1 DEF Return, Posted, CallOf, CallAt
<1> QED
  BY <1>1, <1>2, <1>3, <1>4 DEF Return

-----------------------------------------------------------------------------
(* What a step does to the number of messages taken. *)

(* Messages of different calls are different. *)
LEMMA MessagesDiffer ==
  ASSUME job \in Jobs, NEW s \in Ranks,
         NEW c \in DOMAIN Program(job, s), NEW k \in DOMAIN Program(job, s), c # k
  PROVE  MessageOf(s, c) # MessageOf(s, k) /\ MessageOf(s, c) \in Message
<1>1. MessageOf(s, c).call = c /\ MessageOf(s, k).call = k
  BY CallFacts
<1> QED
  BY <1>1, CallFacts

(* What a call sends at once is sent and waits, and none of it is taken. *)
LEMMA BeginCounts ==
  ASSUME TypeOK, Settled, NEW r \in Ranks, Begin(r)
  PROVE  \A s, d \in Ranks : \A c \in DOMAIN Program(job, s) :
           Taken(s, d, c)' = Taken(s, d, c)
<1>0. PICK k : k = at[r] + 1
  OBVIOUS
<1>1. /\ ~inside[r] /\ k \in DOMAIN Program(job, r) /\ job' = job
      /\ at' = [at EXCEPT ![r] = k]
      /\ \/ todo' = [todo EXCEPT ![r] = CallAt(r, k).to] /\ chan' = chan
         \/ todo' = todo /\ chan' = SendTo(r, CallAt(r, k).to, k)
  BY <1>0, BeginEffect
<1>2. /\ job \in Jobs /\ at[r] \in Nat /\ k \in Nat /\ todo[r] = <<>>
      /\ at \in [Ranks -> Nat] /\ todo \in [Ranks -> Seq(Ranks)]
  BY <1>0, <1>1, StateFacts DEF Settled, TypeOK
<1>3. CallAt(r, k).to \in Seq(Ranks)
  BY <1>1, <1>2, CallFacts
<1>4. at'[r] = k /\ \A s \in Ranks : s # r => at'[s] = at[s] /\ todo'[s] = todo[s]
  BY <1>1, <1>2
<1>5. \A s, d \in Ranks : s # r => chan'[s][d] = chan[s][d]
  BY <1>1, <1>2, <1>3, SendToEffect
<1>6. ASSUME NEW s \in Ranks, NEW d \in Ranks, NEW c \in DOMAIN Program(job, s), s # r
      PROVE  Taken(s, d, c)' = Taken(s, d, c)
  <2>1. Sent(s, d, c)' = Sent(s, d, c)
    BY <1>1, <1>4, <1>6, SameProgram DEF Sent, Ahead
  <2>2. Waiting(s, d, c)' = Waiting(s, d, c)
    BY <1>1, <1>5, <1>6, SameProgram DEF Waiting
  <2> QED
    BY <2>1, <2>2 DEF Taken
<1>7. ASSUME NEW d \in Ranks, NEW c \in DOMAIN Program(job, r), c # k
      PROVE  Taken(r, d, c)' = Taken(r, d, c)
  <2>1. Waiting(r, d, c)' = Waiting(r, d, c)
    <3>1. MessageOf(r, c) # MessageOf(r, k) /\ MessageOf(r, c) \in Message
      BY <1>1, <1>2, <1>7, MessagesDiffer
    <3>2. CountIn(chan'[r][d], MessageOf(r, c)) = CountIn(chan[r][d], MessageOf(r, c))
      BY <1>1, <1>3, <3>1, SendToEffect
    <3> QED
      BY <1>1, <3>2, SameProgram DEF Waiting
  <2>2. Sent(r, d, c)' = Sent(r, d, c)
    <3>1. c \in Nat /\ (c \in 1 .. at'[r] <=> c \in 1 .. at[r])
      BY <1>0, <1>2, <1>4, <1>7, ProgramFacts
    <3>2. Ahead(r, d, c)' = 0
      BY <1>4, <1>7 DEF Ahead
    <3>3. Ahead(r, d, c) = 0
      BY <1>2, CountEmpty DEF Ahead
    <3> QED
      BY <1>1, <3>1, <3>2, <3>3, SameProgram DEF Sent
  <2> QED
    BY <2>1, <2>2 DEF Taken
<1>8. ASSUME NEW d \in Ranks
      PROVE  Taken(r, d, k)' = Taken(r, d, k)
  <2>1. Taken(r, d, k) = 0 /\ Waiting(r, d, k) = 0
    BY <1>0, <1>1, <1>2, NotWaitingYet
  <2>2. Due(r, d, k) \in Nat /\ Due(r, d, k)' = Due(r, d, k) /\ MessageOf(r, k)' = MessageOf(r, k)
    BY <1>1, <1>2, CallFacts, SameProgram
  <2>3. k \in 1 .. at'[r]
    BY <1>0, <1>2, <1>4
  <2>4. Sent(r, d, k)' = Due(r, d, k) - CountIn(todo'[r], d)
    BY <1>4, <2>2, <2>3 DEF Sent, Ahead
  <2>5. CASE todo' = [todo EXCEPT ![r] = CallAt(r, k).to] /\ chan' = chan
    <3>1. CountIn(todo'[r], d) = Due(r, d, k)
      BY <1>2, <2>5 DEF Due
    <3>2. Waiting(r, d, k)' = 0
      BY <2>1, <2>2, <2>5 DEF Waiting
    <3> QED
      BY <2>1, <2>2, <2>4, <3>1, <3>2 DEF Taken
  <2>6. CASE todo' = todo /\ chan' = SendTo(r, CallAt(r, k).to, k)
    <3>1. CountIn(todo'[r], d) = 0
      BY <1>2, <2>6, CountEmpty
    <3>2. CountIn(chan'[r][d], MessageOf(r, k))
            = CountIn(chan[r][d], MessageOf(r, k)) + CountIn(CallAt(r, k).to, d)
      BY <1>1, <1>3, <2>6, SendToEffect
    <3>3. Waiting(r, d, k)' = Due(r, d, k)
      BY <2>1, <2>2, <3>2 DEF Waiting, Due
    <3> QED
      BY <2>1, <2>2, <2>4, <3>1, <3>3 DEF Taken
  <2> QED
    BY <1>1, <2>5, <2>6
<1> QED
  BY <1>6, <1>7, <1>8

(* So it is with one send of a loop. *)
LEMMA SendCounts ==
  ASSUME TypeOK, Settled, NEW r \in Ranks, SendAwaited(r)
  PROVE  \A s, d \in Ranks : \A c \in DOMAIN Program(job, s) :
           Taken(s, d, c)' = Taken(s, d, c)
<1>0. PICK k, to : k = at[r] /\ to = <<Head(todo[r])>>
  OBVIOUS
<1>1. /\ todo[r] # <<>> /\ k \in DOMAIN Program(job, r) /\ job' = job /\ at' = at
      /\ todo' = [todo EXCEPT ![r] = Tail(todo[r])]
      /\ chan' = SendTo(r, to, k)
  BY <1>0, SendEffect
<1>2. /\ job \in Jobs /\ at[r] \in Nat /\ k \in Nat /\ todo[r] \in Seq(Ranks)
      /\ todo \in [Ranks -> Seq(Ranks)]
  BY <1>0, StateFacts DEF TypeOK
<1>3. Head(todo[r]) \in Ranks /\ to \in Seq(Ranks)
  BY <1>0, <1>1, <1>2, HeadTailProperties
<1>4. ASSUME NEW d \in Ranks
      PROVE  CountIn(Tail(todo[r]), d) = CountIn(todo[r], d) - CountIn(to, d)
  <2>0. CountIn(todo[r], d) \in Nat
    BY <1>2, CountType
  <2>1. {i \in DOMAIN to : to[i] = d} = IF d = Head(todo[r]) THEN {1} ELSE {}
    BY <1>0
  <2>2. CASE d = Head(todo[r])
    <3>1. CountIn(to, d) = 1
      BY <2>1, <2>2, FS_Singleton DEF CountIn
    <3>2. CountIn(Tail(todo[r]), d) = CountIn(todo[r], d) - 1
      BY <1>1, <1>2, <2>2, CountTail
    <3> QED
      BY <3>1, <3>2
  <2>3. CASE d # Head(todo[r])
    <3>1. CountIn(to, d) = 0
      BY <2>1, <2>3, FS_EmptySet DEF CountIn
    <3>2. CountIn(Tail(todo[r]), d) = CountIn(todo[r], d)
      BY <1>1, <1>2, <2>3, CountTail
    <3> QED
      BY <2>0, <3>1, <3>2
  <2> QED
    BY <2>2, <2>3
<1>5. \A s, d \in Ranks : s # r => chan'[s][d] = chan[s][d]
  BY <1>1, <1>2, <1>3, SendToEffect
<1>6. ASSUME NEW s \in Ranks, NEW d \in Ranks, NEW c \in DOMAIN Program(job, s), s # r
      PROVE  Taken(s, d, c)' = Taken(s, d, c)
  <2>1. Sent(s, d, c)' = Sent(s, d, c)
    BY <1>1, <1>2, <1>6, SameProgram DEF Sent, Ahead
  <2>2. Waiting(s, d, c)' = Waiting(s, d, c)
    BY <1>1, <1>5, <1>6, SameProgram DEF Waiting
  <2> QED
    BY <2>1, <2>2 DEF Taken
<1>7. ASSUME NEW d \in Ranks, NEW c \in DOMAIN Program(job, r), c # k
      PROVE  Taken(r, d, c)' = Taken(r, d, c)
  <2>1. Waiting(r, d, c)' = Waiting(r, d, c)
    <3>1. MessageOf(r, c) # MessageOf(r, k) /\ MessageOf(r, c) \in Message
      BY <1>1, <1>2, <1>7, MessagesDiffer
    <3>2. CountIn(chan'[r][d], MessageOf(r, c)) = CountIn(chan[r][d], MessageOf(r, c))
      BY <1>1, <1>3, <3>1, SendToEffect
    <3> QED
      BY <1>1, <3>2, SameProgram DEF Waiting
  <2>2. Sent(r, d, c)' = Sent(r, d, c)
    BY <1>0, <1>1, <1>7, SameProgram DEF Sent, Ahead
  <2> QED
    BY <2>1, <2>2 DEF Taken
<1>8. ASSUME NEW d \in Ranks
      PROVE  Taken(r, d, k)' = Taken(r, d, k)
  <2>1. Due(r, d, k) \in Nat /\ Due(r, d, k)' = Due(r, d, k) /\ MessageOf(r, k)' = MessageOf(r, k)
    BY <1>1, <1>2, CallFacts, SameProgram
  <2>2. /\ CountIn(todo[r], d) \in Nat /\ CountIn(to, d) \in Nat
        /\ CountIn(chan[r][d], MessageOf(r, k)) \in Nat
    BY <1>2, <1>3, StateFacts, CountType
  <2>3. k \in 1 .. at[r]
    BY <1>0, <1>1, <1>2, ProgramFacts
  <2>4. Sent(r, d, k) = Due(r, d, k) - CountIn(todo[r], d)
    BY <1>0, <2>3 DEF Sent, Ahead
  <2>5. Sent(r, d, k)' = Due(r, d, k) - CountIn(todo'[r], d)
    BY <1>0, <1>1, <2>1, <2>3 DEF Sent, Ahead
  <2>6. CountIn(todo'[r], d) = CountIn(todo[r], d) - CountIn(to, d)
    BY <1>1, <1>2, <1>4
  <2>7. CountIn(chan'[r][d], MessageOf(r, k))
          = CountIn(chan[r][d], MessageOf(r, k)) + CountIn(to, d)
    BY <1>1, <1>3, SendToEffect
  <2>8. Waiting(r, d, k)' = Waiting(r, d, k) + CountIn(to, d) /\ Waiting(r, d, k) \in Nat
    BY <2>1, <2>2, <2>7 DEF Waiting
  <2> QED
    BY <2>1, <2>2, <2>4, <2>5, <2>6, <2>8 DEF Taken
<1> QED
  BY <1>6, <1>7, <1>8

(* A receive takes one message of one call of one sender. *)
LEMMA ReceiveCounts ==
  ASSUME TypeOK, NEW r \in Ranks, NEW s \in Ranks, NEW c \in DOMAIN Program(job, s),
         NEW i \in DOMAIN chan[s][r], chan[s][r][i] = MessageOf(s, c),
         job' = job, at' = at, todo' = todo,
         chan' = [chan EXCEPT ![s][r] = Without(chan[s][r], i)]
  PROVE  Taken(s, r, c)' = Taken(s, r, c) + 1 /\ Waiting(s, r, c) > 0
<1>1. /\ job \in Jobs /\ chan[s][r] \in Seq(Message)
      /\ chan \in [Ranks -> [Ranks -> Seq(Message)]]
  BY StateFacts DEF TypeOK, Message
<1>2. \A p, d, k : Sent(p, d, k)' = Sent(p, d, k) /\ MessageOf(p, k)' = MessageOf(p, k)
  BY SameProgram DEF Sent, Ahead
<1>3. chan'[s][r] = Without(chan[s][r], i)
  BY <1>1
<1>4. CountIn(chan'[s][r], MessageOf(s, c)) = CountIn(chan[s][r], MessageOf(s, c)) - 1
  BY <1>1, <1>3, CountWithout
<1>5. Waiting(s, r, c) > 0 /\ Waiting(s, r, c) \in Nat
  BY <1>1, CountPositive, CountType DEF Waiting
<1>6. Waiting(s, r, c)' = Waiting(s, r, c) - 1
  BY <1>2, <1>4 DEF Waiting
<1>7. Sent(s, r, c) \in Int
  <2>1. Due(s, r, c) \in Nat /\ CountIn(todo[s], r) \in Nat
    BY <1>1, CallFacts, StateFacts, CountType
  <2> QED
    BY <2>1 DEF Sent, Ahead
<1> QED
  BY <1>2, <1>5, <1>6, <1>7 DEF Taken

(* And no other. *)
LEMMA ReceiveKeeps ==
  ASSUME TypeOK, NEW r \in Ranks, NEW s \in Ranks, NEW c \in DOMAIN Program(job, s),
         NEW i \in DOMAIN chan[s][r], chan[s][r][i] = MessageOf(s, c),
         job' = job, at' = at, todo' = todo,
         chan' = [chan EXCEPT ![s][r] = Without(chan[s][r], i)],
         NEW p \in Ranks, NEW d \in Ranks, NEW k \in DOMAIN Program(job, p),
         p # s \/ d # r \/ k # c
  PROVE  Taken(p, d, k)' = Taken(p, d, k)
<1>1. /\ job \in Jobs /\ chan[s][r] \in Seq(Message)
      /\ chan \in [Ranks -> [Ranks -> Seq(Message)]]
  BY StateFacts DEF TypeOK, Message
<1>2. Sent(p, d, k)' = Sent(p, d, k) /\ MessageOf(p, k)' = MessageOf(p, k)
  BY SameProgram DEF Sent, Ahead
<1>3. CASE p # s \/ d # r
  <2>1. chan'[p][d] = chan[p][d]
    BY <1>1, <1>3
  <2> QED
    BY <1>2, <2>1 DEF Waiting, Taken
<1>4. CASE p = s /\ d = r /\ k # c
  <2>1. MessageOf(s, k) # MessageOf(s, c) /\ MessageOf(s, k) \in Message
    BY <1>1, <1>4, MessagesDiffer
  <2>2. CountIn(chan'[s][r], MessageOf(s, k)) = CountIn(chan[s][r], MessageOf(s, k))
    <3>1. chan'[s][r] = Without(chan[s][r], i)
      BY <1>1
    <3> QED
      BY <1>1, <2>1, <3>1, CountWithout
  <2> QED
    BY <1>2, <1>4, <2>2 DEF Waiting, Taken
<1> QED
  BY <1>3, <1>4

-----------------------------------------------------------------------------
(* Membership in the sets that are counted. *)

LEMMA TakenMembers ==
  \A r, tag :
    /\ \A m \in TakenMessages(r, tag) :
         \E s \in Ranks : \E c \in 1 .. at[s] : \E i \in 1 .. Taken(s, r, c) :
           CallAt(s, c).tag = tag /\ m = <<s, c, i>>
    /\ \A s, c, i :
         <<s, c, i>> \in TakenMessages(r, tag) <=>
           /\ s \in Ranks /\ c \in 1 .. at[s] /\ i \in 1 .. Taken(s, r, c)
           /\ CallAt(s, c).tag = tag
<1> SUFFICES ASSUME NEW r, NEW tag
             PROVE  /\ \A m \in TakenMessages(r, tag) :
                         \E s \in Ranks : \E c \in 1 .. at[s] : \E i \in 1 .. Taken(s, r, c) :
                           CallAt(s, c).tag = tag /\ m = <<s, c, i>>
                    /\ \A s, c, i :
                         <<s, c, i>> \in TakenMessages(r, tag) <=>
                           /\ s \in Ranks /\ c \in 1 .. at[s] /\ i \in 1 .. Taken(s, r, c)
                           /\ CallAt(s, c).tag = tag
  OBVIOUS
<1>1. \A m, s : m \in TakenFrom(s, r, tag) <=>
        \E c \in 1 .. at[s] : \E i \in 1 .. Taken(s, r, c) :
          CallAt(s, c).tag = tag /\ m = <<s, c, i>>
  BY DEF TakenFrom
<1>2. \A m : m \in TakenMessages(r, tag) <=> \E s \in Ranks : m \in TakenFrom(s, r, tag)
  BY DEF TakenMessages
<1> QED
  BY <1>1, <1>2

LEMMA FilledMembers ==
  \A r, tag :
    /\ \A m \in FilledReceives(r, tag) :
         \E c \in 1 .. at[r] : \E i \in 1 .. Filled(r, c) :
           CallAt(r, c).takes = tag /\ m = <<c, i>>
    /\ \A c, i :
         <<c, i>> \in FilledReceives(r, tag) <=>
           c \in 1 .. at[r] /\ i \in 1 .. Filled(r, c) /\ CallAt(r, c).takes = tag
<1> SUFFICES ASSUME NEW r, NEW tag
             PROVE  \A m : m \in FilledReceives(r, tag) <=>
                      \E c \in 1 .. at[r] : \E i \in 1 .. Filled(r, c) :
                        CallAt(r, c).takes = tag /\ m = <<c, i>>
  OBVIOUS
<1> QED
  BY DEF FilledReceives
=============================================================================
