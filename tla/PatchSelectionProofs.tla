------------------------ MODULE PatchSelectionProofs ------------------------
(***************************************************************************)
(* The order of the candidates is total and strict, so a finite set of     *)
(* them has a best one; what that means for releases and for kernels.      *)
(***************************************************************************)
EXTENDS PatchSelection, FiniteSetTheorems, SequenceTheorems, TLAPS

-----------------------------------------------------------------------------
(* Python's order of tuples, for tuples of any length.                     *)

(* Two sequences that differ differ somewhere first: the order of the      *)
(* finite sets 1..i is well-founded.                                       *)
LEMMA FirstPlace ==
  ASSUME NEW D, D \subseteq Nat \ {0}, D # {}
  PROVE  \E i \in D : \A j \in 1..(i - 1) : j \notin D
<1>. DEFINE segments == {1..i : i \in D}
<1>1. \A i \in Nat : IsFiniteSet(1..i)
  BY FS_Interval
<1>2. segments \subseteq FiniteSubsetsOf(Nat)
  BY <1>1 DEF FiniteSubsetsOf
<1>3. segments # {}
  OBVIOUS
<1>4. PICK s \in segments : \A t \in segments : <<t, s>> \notin StrictSubsetOrdering(Nat)
  <2>. HIDE DEF segments
  <2>. QED BY <1>2, <1>3, FS_StrictSubsetOrderingWellFounded, WFMin
<1>5. PICK i \in D : s = 1..i
  OBVIOUS
<1>6. ASSUME NEW j \in 1..(i - 1), j \in D PROVE FALSE
  <2>1. 1..j \subseteq 1..i /\ i \in 1..i /\ i \notin 1..j
    BY <1>6
  <2>2. <<1..j, 1..i>> \in StrictSubsetOrdering(Nat)
    BY <2>1 DEF StrictSubsetOrdering
  <2>. QED BY <1>4, <1>5, <1>6, <2>2
<1>. QED BY <1>6

LEMMA TupleIrreflexive == ASSUME NEW a \in Seq(Int) PROVE ~TupleLess(a, a)
  BY DEF TupleLess

LEMMA TupleTransitive ==
  ASSUME NEW a \in Seq(Int), NEW b \in Seq(Int), NEW c \in Seq(Int),
         TupleLess(a, b), TupleLess(b, c)
  PROVE  TupleLess(a, c)
<1>1. PICK i \in 1..Len(b) :
        /\ \A j \in 1..(i - 1) : j <= Len(a) /\ a[j] = b[j]
        /\ i = Len(a) + 1 \/ (i <= Len(a) /\ a[i] < b[i])
  BY DEF TupleLess
<1>2. PICK m \in 1..Len(c) :
        /\ \A j \in 1..(m - 1) : j <= Len(b) /\ b[j] = c[j]
        /\ m = Len(b) + 1 \/ (m <= Len(b) /\ b[m] < c[m])
  BY DEF TupleLess
<1>0. \A j \in 1..Len(a) : a[j] \in Int
  OBVIOUS
<1>3. /\ \A j \in 1..Len(b) : b[j] \in Int
      /\ \A j \in 1..Len(c) : c[j] \in Int
      /\ Len(a) \in Nat /\ Len(b) \in Nat /\ Len(c) \in Nat
  OBVIOUS
<1>4. CASE i < m
  <2>1. i \in 1..Len(c) /\ b[i] = c[i]
    BY <1>2, <1>3, <1>4
  <2>2. ASSUME NEW j \in 1..(i - 1) PROVE j <= Len(a) /\ a[j] = c[j]
    <3>1. j \in 1..(m - 1)
      BY <1>3, <1>4
    <3>. QED BY <1>1, <1>2, <3>1
  <2>. QED BY <1>1, <2>1, <2>2 DEF TupleLess
<1>5. CASE m < i
  <2>1. m <= Len(a) /\ a[m] = b[m] /\ m <= Len(b)
    BY <1>1, <1>3, <1>5
  <2>2. a[m] < c[m]
    BY <1>2, <1>3, <2>1
  <2>3. \A j \in 1..(m - 1) : j <= Len(a) /\ a[j] = c[j]
    BY <1>1, <1>2, <1>3, <1>5
  <2>. QED BY <2>1, <2>2, <2>3 DEF TupleLess
<1>6. CASE i = m
  <2>1. b[i] < c[i]
    BY <1>2, <1>3, <1>6
  <2>2. i <= Len(a) => a[i] < c[i]
    BY <1>0, <1>1, <1>2, <1>3, <1>6, <2>1
  <2>3. \A j \in 1..(i - 1) : j <= Len(a) /\ a[j] = c[j]
    BY <1>1, <1>2, <1>3, <1>6
  <2>. QED BY <1>1, <1>3, <1>6, <2>2, <2>3 DEF TupleLess
<1>. QED BY <1>3, <1>4, <1>5, <1>6

LEMMA TupleTotal ==
  ASSUME NEW a \in Seq(Int), NEW b \in Seq(Int), a # b
  PROVE  TupleLess(a, b) \/ TupleLess(b, a)
<1>0. /\ Len(a) \in Nat /\ Len(b) \in Nat
      /\ \A j \in 1..Len(a) : a[j] \in Int
      /\ \A j \in 1..Len(b) : b[j] \in Int
  OBVIOUS
<1>. DEFINE D == {i \in Nat \ {0} : i > Len(a) \/ i > Len(b) \/ a[i] # b[i]}
<1>1. D # {}
  <2>1. Len(a) + 1 \in D
    BY <1>0
  <2>. QED BY <2>1
<1>2. PICK i \in D : \A j \in 1..(i - 1) : j \notin D
  <2>. HIDE DEF D
  <2>1. D \subseteq Nat \ {0}
    BY DEF D
  <2>. QED BY <1>1, <2>1, FirstPlace
<1>3. \A j \in 1..(i - 1) : j <= Len(a) /\ j <= Len(b) /\ a[j] = b[j]
  BY <1>0, <1>2
<1>4. i - 1 <= Len(a) /\ i - 1 <= Len(b)
  BY <1>0, <1>3
<1>5. CASE i > Len(a) /\ i > Len(b)
  <2>1. Len(a) = Len(b) /\ \A j \in 1..Len(a) : a[j] = b[j]
    BY <1>0, <1>3, <1>4, <1>5
  <2>. QED BY <2>1
<1>6. CASE i > Len(a) /\ i <= Len(b)
  BY <1>0, <1>3, <1>4, <1>6 DEF TupleLess
<1>7. CASE i <= Len(a) /\ i > Len(b)
  BY <1>0, <1>3, <1>4, <1>7 DEF TupleLess
<1>8. CASE i <= Len(a) /\ i <= Len(b)
  <2>1. i \in 1..Len(a) /\ i \in 1..Len(b) /\ a[i] # b[i]
    BY <1>0, <1>2, <1>8
  <2>2. CASE a[i] < b[i]
    BY <1>3, <1>8, <2>1, <2>2 DEF TupleLess
  <2>3. CASE b[i] < a[i]
    BY <1>3, <1>8, <2>1, <2>3 DEF TupleLess
  <2>. QED BY <1>0, <2>1, <2>2, <2>3
<1>. QED BY <1>0, <1>5, <1>6, <1>7, <1>8

LEMMA ScoreIrreflexive == ASSUME NEW s \in Seq(Seq(Int)) PROVE ~ScoreLess(s, s)
  BY TupleIrreflexive DEF ScoreLess

LEMMA ScoreTransitive ==
  ASSUME NEW s \in Seq(Seq(Int)), NEW t \in Seq(Seq(Int)), NEW u \in Seq(Seq(Int)),
         Len(s) = Len(t), Len(t) = Len(u), ScoreLess(s, t), ScoreLess(t, u)
  PROVE  ScoreLess(s, u)
<1>1. PICK i \in 1..Len(s) : (\A j \in 1..(i - 1) : s[j] = t[j]) /\ TupleLess(s[i], t[i])
  BY DEF ScoreLess
<1>2. PICK m \in 1..Len(t) : (\A j \in 1..(m - 1) : t[j] = u[j]) /\ TupleLess(t[m], u[m])
  BY DEF ScoreLess
<1>3. /\ \A j \in 1..Len(s) : s[j] \in Seq(Int) /\ t[j] \in Seq(Int) /\ u[j] \in Seq(Int)
      /\ Len(s) \in Nat
  OBVIOUS
<1>4. CASE i < m
  <2>1. t[i] = u[i] /\ \A j \in 1..(i - 1) : t[j] = u[j]
    BY <1>2, <1>3, <1>4
  <2>. QED BY <1>1, <2>1 DEF ScoreLess
<1>5. CASE m < i
  <2>1. s[m] = t[m] /\ \A j \in 1..(m - 1) : s[j] = t[j]
    BY <1>1, <1>3, <1>5
  <2>. QED BY <1>2, <2>1 DEF ScoreLess
<1>6. CASE i = m
  <2>1. TupleLess(s[i], u[i])
    BY <1>1, <1>2, <1>3, <1>6, TupleTransitive
  <2>. QED BY <1>1, <1>2, <1>3, <1>6, <2>1 DEF ScoreLess
<1>. QED BY <1>3, <1>4, <1>5, <1>6

LEMMA ScoreTotal ==
  ASSUME NEW s \in Seq(Seq(Int)), NEW t \in Seq(Seq(Int)), Len(s) = Len(t), s # t
  PROVE  ScoreLess(s, t) \/ ScoreLess(t, s)
<1>0. /\ \A j \in 1..Len(s) : s[j] \in Seq(Int) /\ t[j] \in Seq(Int)
      /\ Len(s) \in Nat
  OBVIOUS
<1>. DEFINE D == {i \in 1..Len(s) : s[i] # t[i]}
<1>1. D # {}
  <2>1. ASSUME \A j \in 1..Len(s) : s[j] = t[j] PROVE s = t
    BY <2>1, SeqEqual
  <2>. QED BY <2>1
<1>2. PICK i \in D : \A j \in 1..(i - 1) : j \notin D
  <2>1. D \subseteq Nat \ {0}
    BY <1>0
  <2>. HIDE DEF D
  <2>. QED BY <1>1, <2>1, FirstPlace
<1>3. \A j \in 1..(i - 1) : s[j] = t[j]
  BY <1>0, <1>2
<1>4. TupleLess(s[i], t[i]) \/ TupleLess(t[i], s[i])
  BY <1>0, <1>2, TupleTotal
<1>. QED BY <1>3, <1>4 DEF ScoreLess

-----------------------------------------------------------------------------
(* What the score of a candidate is made of.                               *)

LEMMA PoolFields ==
  ASSUME NEW c \in Pool
  PROVE  /\ c.id \in Nat /\ c.base \in Seq(Nat) /\ c.stage \in Stages /\ c.rev \in Nat
         /\ c.target \in Seq(Nat) /\ c.channel \in 0..2
         /\ c.target # <<>> => Len(c.target) \in 2..4
<1>1. c \in [id : Nat, base : Seq(Nat), stage : Stages, rev : Nat, target : Seq(Nat), channel : 0..2]
  BY PoolShape
<1>. QED BY <1>1, PoolShape

LEMMA KernelFields == ASSUME NEW k \in Kernels PROVE k \in Seq(Nat) /\ Len(k) \in 2..4 /\ k # <<>>
<1>1. k \in Seq(Nat) /\ Len(k) \in 2..4
  BY PoolShape
<1>2. ASSUME k = <<>> PROVE FALSE
  <2>1. Len(k) = 0
    BY <1>2, EmptySeq, Zenon
  <2>. QED BY <1>1, <2>1
<1>. QED BY <1>1, <1>2

LEMMA IntSequence == ASSUME NEW s \in Seq(Nat) PROVE s \in Seq(Int)
  OBVIOUS

LEMMA RankOK ==
  /\ StageRank("rc") = 1 /\ StageRank("final") = 2 /\ StageRank("r") = 3
  BY DEF StageRank

LEMMA AFunctionIsASeq ==
  ASSUME NEW S, NEW n \in Nat, NEW f \in [1..n -> S]
  PROVE  f \in Seq(S) /\ Len(f) = n
<1>1. f \in Seq(S)
  BY SeqDef
<1>2. DOMAIN f = 1..Len(f) /\ DOMAIN f = 1..n /\ Len(f) \in Nat
  BY <1>1, LenProperties
<1>. QED BY <1>1, <1>2

LEMMA NumbersOK ==
  ASSUME NEW c \in Pool
  PROVE  Numbers(c) \in [1..8 -> Nat] /\ Numbers(c) \in Seq(Int) /\ Len(Numbers(c)) = 8
<1>1. c.base \in Seq(Nat)
  BY PoolFields
<1>2. \A i \in 1..8 : (IF i <= Len(c.base) THEN c.base[i] ELSE 0) \in Nat
  BY <1>1
<1>3. Numbers(c) \in [1..8 -> Nat]
  BY <1>2 DEF Numbers
<1>4. Numbers(c) \in [1..8 -> Int]
  BY <1>3
<1>. QED BY <1>3, <1>4, AFunctionIsASeq

LEMMA ReleaseKeyOK ==
  ASSUME NEW c \in Pool
  PROVE  /\ ReleaseKey(c) \in Seq(Int) /\ Len(ReleaseKey(c)) = 10
         /\ \A i \in 1..8 : ReleaseKey(c)[i] = Numbers(c)[i]
         /\ ReleaseKey(c)[9] = StageRank(c.stage) /\ ReleaseKey(c)[10] = c.rev
<1>. DEFINE tail == <<StageRank(c.stage), c.rev>>
<1>1. tail \in Seq(Int) /\ Len(tail) = 2 /\ tail[1] = StageRank(c.stage) /\ tail[2] = c.rev
  BY PoolFields, RankOK DEF Stages
<1>2. Numbers(c) \in Seq(Int) /\ Len(Numbers(c)) = 8
  BY NumbersOK
<1>3. ReleaseKey(c) = Numbers(c) \o tail
  BY DEF ReleaseKey
<1>. HIDE DEF tail
<1>4. /\ Numbers(c) \o tail \in Seq(Int)
      /\ Len(Numbers(c) \o tail) = Len(Numbers(c)) + Len(tail)
      /\ \A i \in 1..Len(Numbers(c)) + Len(tail) :
           (Numbers(c) \o tail)[i] = IF i <= Len(Numbers(c)) THEN Numbers(c)[i]
                                    ELSE tail[i - Len(Numbers(c))]
  BY <1>1, <1>2, ConcatProperties
<1>5. Len(ReleaseKey(c)) = 10 /\ ReleaseKey(c) \in Seq(Int)
  BY <1>1, <1>2, <1>3, <1>4
<1>6. ASSUME NEW i \in 1..10
      PROVE  ReleaseKey(c)[i] = IF i <= 8 THEN Numbers(c)[i] ELSE tail[i - 8]
  <2>. HIDE DEF Numbers
  <2>1. Len(Numbers(c)) + Len(tail) = 10
    BY <1>1, <1>2
  <2>2. (Numbers(c) \o tail)[i] = IF i <= 8 THEN Numbers(c)[i] ELSE tail[i - 8]
    BY <1>2, <1>4, <2>1
  <2>. QED BY <1>3, <2>2
<1>7. \A i \in 1..8 : ReleaseKey(c)[i] = Numbers(c)[i]
  BY <1>6
<1>8. ReleaseKey(c)[9] = tail[1] /\ ReleaseKey(c)[10] = tail[2]
  BY <1>6
<1>. QED BY <1>1, <1>5, <1>7, <1>8

(* The key tells which release is the newer one.                           *)
LEMMA KeyIsRelease ==
  ASSUME NEW c \in Pool, NEW d \in Pool
  PROVE  NewerRelease(c, d) <=> TupleLess(ReleaseKey(d), ReleaseKey(c))
<1>. DEFINE cn == Numbers(c)  dn == Numbers(d)
<1>1. /\ cn \in [1..8 -> Nat] /\ dn \in [1..8 -> Nat]
      /\ c.stage \in Stages /\ d.stage \in Stages /\ c.rev \in Nat /\ d.rev \in Nat
  BY NumbersOK, PoolFields
<1>2. /\ Len(ReleaseKey(c)) = 10 /\ Len(ReleaseKey(d)) = 10
      /\ \A i \in 1..8 : ReleaseKey(c)[i] = cn[i] /\ ReleaseKey(d)[i] = dn[i]
      /\ ReleaseKey(c)[9] = StageRank(c.stage) /\ ReleaseKey(c)[10] = c.rev
      /\ ReleaseKey(d)[9] = StageRank(d.stage) /\ ReleaseKey(d)[10] = d.rev
  BY ReleaseKeyOK
<1>3. /\ StageRank(d.stage) < StageRank(c.stage)
           <=> c.stage # d.stage /\ (c.stage = "r" \/ d.stage = "rc")
      /\ StageRank(d.stage) = StageRank(c.stage) <=> c.stage = d.stage
  BY <1>1, RankOK DEF Stages
<1>. HIDE DEF cn, dn
<1>4. NewerRelease(c, d) <=>
        \/ \E i \in 1..8 : cn[i] > dn[i] /\ \A j \in 1..(i - 1) : cn[j] = dn[j]
        \/ cn = dn /\ StageRank(d.stage) < StageRank(c.stage)
        \/ cn = dn /\ c.stage = d.stage /\ c.rev > d.rev
  BY <1>3 DEF NewerRelease, cn, dn
<1>5. TupleLess(ReleaseKey(d), ReleaseKey(c)) <=>
        \E i \in 1..10 : /\ \A j \in 1..(i - 1) : ReleaseKey(d)[j] = ReleaseKey(c)[j]
                         /\ ReleaseKey(d)[i] < ReleaseKey(c)[i]
  BY <1>2 DEF TupleLess
<1>6. ASSUME NewerRelease(c, d) PROVE TupleLess(ReleaseKey(d), ReleaseKey(c))
  <2>1. CASE \E i \in 1..8 : cn[i] > dn[i] /\ \A j \in 1..(i - 1) : cn[j] = dn[j]
    <3>1. PICK i \in 1..8 : cn[i] > dn[i] /\ \A j \in 1..(i - 1) : cn[j] = dn[j]
      BY <2>1
    <3>2. i \in 1..10 /\ ReleaseKey(d)[i] < ReleaseKey(c)[i]
      BY <1>1, <1>2, <3>1
    <3>3. \A j \in 1..(i - 1) : ReleaseKey(d)[j] = ReleaseKey(c)[j]
      BY <1>2, <3>1
    <3>. QED BY <1>5, <3>2, <3>3
  <2>2. CASE cn = dn /\ StageRank(d.stage) < StageRank(c.stage)
    <3>1. \A j \in 1..(9 - 1) : ReleaseKey(d)[j] = ReleaseKey(c)[j]
      BY <1>2, <2>2
    <3>2. ReleaseKey(d)[9] < ReleaseKey(c)[9]
      BY <1>2, <2>2
    <3>. QED BY <1>5, <3>1, <3>2
  <2>3. CASE cn = dn /\ c.stage = d.stage /\ c.rev > d.rev
    <3>1. \A j \in 1..(10 - 1) : ReleaseKey(d)[j] = ReleaseKey(c)[j]
      <4>1. \A j \in 1..(10 - 1) : j \in 1..8 \/ j = 9
        OBVIOUS
      <4>. QED BY <1>2, <2>3, <4>1
    <3>2. ReleaseKey(d)[10] < ReleaseKey(c)[10]
      BY <1>1, <1>2, <2>3
    <3>. QED BY <1>5, <3>1, <3>2
  <2>. QED BY <1>4, <1>6, <2>1, <2>2, <2>3
<1>7. ASSUME TupleLess(ReleaseKey(d), ReleaseKey(c)) PROVE NewerRelease(c, d)
  <2>1. PICK i \in 1..10 : /\ \A j \in 1..(i - 1) : ReleaseKey(d)[j] = ReleaseKey(c)[j]
                           /\ ReleaseKey(d)[i] < ReleaseKey(c)[i]
    BY <1>5, <1>7
  <2>2. CASE i \in 1..8
    <3>1. cn[i] > dn[i]
      BY <1>1, <1>2, <2>1, <2>2
    <3>2. \A j \in 1..(i - 1) : cn[j] = dn[j]
      BY <1>2, <2>1, <2>2
    <3>. QED BY <1>4, <2>2, <3>1, <3>2
  <2>3. CASE i \in {9, 10}
    <3>1. \A j \in 1..8 : cn[j] = dn[j]
      <4>1. \A j \in 1..8 : j \in 1..(i - 1)
        BY <2>3
      <4>. QED BY <1>2, <2>1, <4>1
    <3>2. cn = dn
      BY <1>1, <3>1
    <3>3. CASE i = 9
      BY <1>2, <1>4, <2>1, <3>2, <3>3
    <3>4. CASE i = 10
      <4>1. 9 \in 1..(i - 1)
        BY <3>4
      <4>2. ReleaseKey(d)[9] = ReleaseKey(c)[9]
        BY <2>1, <4>1
      <4>3. c.stage = d.stage /\ c.rev > d.rev
        BY <1>1, <1>2, <1>3, <2>1, <3>4, <4>2
      <4>. QED BY <1>4, <3>2, <4>3
    <3>. QED BY <2>3, <3>3, <3>4
  <2>. QED BY <2>2, <2>3
<1>. QED BY <1>6, <1>7

LEMMA SameReleaseSameKey ==
  ASSUME NEW c \in Pool, NEW d \in Pool
  PROVE  SameRelease(c, d) <=> ReleaseKey(c) = ReleaseKey(d)
<1>1. ReleaseKey(c) \in Seq(Int) /\ ReleaseKey(d) \in Seq(Int)
  BY ReleaseKeyOK
<1>2. CASE ReleaseKey(c) = ReleaseKey(d)
  BY <1>1, <1>2, KeyIsRelease, TupleIrreflexive DEF SameRelease
<1>3. CASE ReleaseKey(c) # ReleaseKey(d)
  BY <1>1, <1>3, KeyIsRelease, TupleTotal DEF SameRelease
<1>. QED BY <1>2, <1>3

LEMMA PaddedOK ==
  ASSUME NEW v \in Seq(Nat), Len(v) \in 2..4
  PROVE  /\ Padded(v)[1] = v[1] /\ Padded(v)[2] = v[2] /\ Padded(v)[3] \in Nat
         /\ v[1] \in Nat /\ v[2] \in Nat
<1>1. v[1] \in Nat /\ v[2] \in Nat /\ Padded(v)[1] = v[1] /\ Padded(v)[2] = v[2]
  BY DEF Padded
<1>2. CASE 3 <= Len(v)
  BY <1>2 DEF Padded
<1>3. CASE ~(3 <= Len(v))
  BY <1>3 DEF Padded
<1>. QED BY <1>1, <1>2, <1>3

LEMMA OrdinalOK == ASSUME NEW v \in Seq(Nat), Len(v) \in 2..4 PROVE Ordinal(v) \in Nat
<1>1. Padded(v)[1] \in Nat /\ Padded(v)[2] \in Nat /\ Padded(v)[3] \in Nat
  BY PaddedOK
<1>. QED BY <1>1, SMT DEF Ordinal

LEMMA CompatibilityOK ==
  ASSUME NEW c \in Pool, NEW k \in Kernels
  PROVE  /\ Compatibility(c, k) \in Seq(Int)
         /\ c.target = <<>> => Compatibility(c, k) = <<4, 0>>
         /\ c.target = k => Compatibility(c, k) = <<6, 0>>
         /\ c.target # <<>> /\ c.target # k =>
              Compatibility(c, k) =
                <<IF Native(c, k) THEN 5 ELSE 3, -KernelDistance(c.target, k)>>
         /\ c.target # <<>> => KernelDistance(c.target, k) \in Nat
<1>1. k \in Seq(Nat) /\ Len(k) \in 2..4 /\ k # <<>>
  BY KernelFields
<1>2. c.target = <<>> => Compatibility(c, k) = <<4, 0>>
  BY <1>1 DEF Compatibility
<1>3. c.target = k => Compatibility(c, k) = <<6, 0>>
  BY <1>1 DEF Compatibility
<1>4. c.target # <<>> /\ c.target # k =>
        Compatibility(c, k) = <<IF Native(c, k) THEN 5 ELSE 3, -KernelDistance(c.target, k)>>
  BY <1>1 DEF Compatibility
<1>5. ASSUME c.target # <<>> PROVE KernelDistance(c.target, k) \in Nat
  <2>1. c.target \in Seq(Nat) /\ Len(c.target) \in 2..4
    BY <1>5, PoolFields
  <2>2. Ordinal(c.target) \in Nat /\ Ordinal(k) \in Nat
    BY <1>1, <2>1, OrdinalOK
  <2>. QED BY <2>2 DEF KernelDistance, Abs
<1>6. CASE c.target = <<>> \/ c.target = k
  <2>1. <<4, 0>> \in Seq(Int) /\ <<6, 0>> \in Seq(Int)
    OBVIOUS
  <2>2. Compatibility(c, k) \in Seq(Int)
    BY <1>2, <1>3, <1>6, <2>1
  <2>. QED BY <1>2, <1>3, <1>4, <1>5, <2>2
<1>7. CASE c.target # <<>> /\ c.target # k
  <2>1. -KernelDistance(c.target, k) \in Int /\ (IF Native(c, k) THEN 5 ELSE 3) \in Int
    BY <1>5, <1>7
  <2>2. \A x, y \in Int : <<x, y>> \in Seq(Int)
    OBVIOUS
  <2>3. Compatibility(c, k) \in Seq(Int)
    BY <1>4, <1>7, <2>1, <2>2
  <2>. QED BY <1>2, <1>3, <1>4, <1>5, <2>3
<1>. QED BY <1>2, <1>3, <1>4, <1>5, <1>6, <1>7

LEMMA FitOK ==
  ASSUME NEW c \in Pool, NEW k \in Kernels
  PROVE  /\ Fit(c, k) \in Seq(Seq(Int)) /\ Len(Fit(c, k)) = 4
         /\ Fit(c, k)[1] = Compatibility(c, k) /\ Fit(c, k)[4] = <<c.id>>
<1>1. Compatibility(c, k) \in Seq(Int)
  BY CompatibilityOK
<1>2. c.target \in Seq(Int) /\ <<c.channel>> \in Seq(Int) /\ <<c.id>> \in Seq(Int)
  BY PoolFields
<1>. QED BY <1>1, <1>2 DEF Fit

LEMMA LatestFirstOK ==
  ASSUME NEW c \in Pool, NEW k \in Kernels
  PROVE  /\ LatestFirst(c, k) \in Seq(Seq(Int)) /\ Len(LatestFirst(c, k)) = 6
         /\ LatestFirst(c, k)[1] = ReleaseKey(c)
         /\ LatestFirst(c, k)[2] = Flag(Native(c, k))
         /\ LatestFirst(c, k)[3] = Compatibility(c, k)
         /\ LatestFirst(c, k)[6] = <<c.id>>
<1>. DEFINE head == <<ReleaseKey(c), Flag(Native(c, k))>>
<1>1. ReleaseKey(c) \in Seq(Int)
  BY ReleaseKeyOK
<1>2. Flag(Native(c, k)) \in Seq(Int)
  BY DEF Flag
<1>3. /\ head \in Seq(Seq(Int)) /\ Len(head) = 2
      /\ head[1] = ReleaseKey(c) /\ head[2] = Flag(Native(c, k))
  BY <1>1, <1>2
<1>4. LatestFirst(c, k) = head \o Fit(c, k)
  BY DEF LatestFirst
<1>5. /\ Fit(c, k) \in Seq(Seq(Int)) /\ Len(Fit(c, k)) = 4
      /\ Fit(c, k)[1] = Compatibility(c, k) /\ Fit(c, k)[4] = <<c.id>>
  BY FitOK
<1>. HIDE DEF head
<1>. DEFINE both == head \o Fit(c, k)
<1>6. /\ both \in Seq(Seq(Int)) /\ Len(both) = Len(head) + Len(Fit(c, k))
      /\ \A i \in 1..Len(head) + Len(Fit(c, k)) :
           both[i] = IF i <= Len(head) THEN head[i] ELSE Fit(c, k)[i - Len(head)]
  BY <1>3, <1>5, ConcatProperties
<1>7. both = LatestFirst(c, k)
  BY <1>4
<1>. HIDE DEF both
<1>8. Len(both) = 6
  BY <1>3, <1>5, <1>6
<1>9. both[1] = head[1] /\ both[2] = head[2]
  BY <1>3, <1>5, <1>6
<1>10. both[3] = Fit(c, k)[1] /\ both[6] = Fit(c, k)[4]
  BY <1>3, <1>5, <1>6
<1>. QED BY <1>3, <1>5, <1>6, <1>7, <1>8, <1>9, <1>10

LEMMA ScoreOK ==
  ASSUME NEW c \in Pool, NEW d \in Pool, NEW k \in Kernels
  PROVE  /\ Score(c, k) \in Seq(Seq(Int)) /\ Len(Score(c, k)) = Len(Score(d, k))
         /\ c # d => Score(c, k) # Score(d, k)
<1>1. c # d => <<c.id>> # <<d.id>>
  BY PoolShape
<1>2. CASE versioned
  BY <1>1, <1>2, LatestFirstOK DEF Score
<1>3. CASE ~versioned
  BY <1>1, <1>3, FitOK DEF Score
<1>. QED BY <1>2, <1>3

(* max() finds a best candidate among finitely many: those that are better *)
(* than a candidate are fewer and fewer as it gets better.                 *)
LEMMA BestExists ==
  ASSUME NEW S \in SUBSET Pool, IsFiniteSet(S), S # {}, NEW k \in Kernels
  PROVE  \E c \in S : \A d \in S \ {c} : ScoreLess(Score(d, k), Score(c, k))
<1>. DEFINE better(c) == {d \in S : ScoreLess(Score(c, k), Score(d, k))}
            betters == {better(c) : c \in S}
<1>1. \A c \in S : IsFiniteSet(better(c))
  BY FS_Subset
<1>2. betters \subseteq FiniteSubsetsOf(S)
  BY <1>1 DEF FiniteSubsetsOf
<1>3. betters # {}
  OBVIOUS
<1>4. PICK s \in betters : \A t \in betters : <<t, s>> \notin StrictSubsetOrdering(S)
  <2>. HIDE DEF betters
  <2>. QED BY <1>2, <1>3, FS_StrictSubsetOrderingWellFounded, WFMin
<1>5. PICK c \in S : s = better(c)
  OBVIOUS
<1>6. ASSUME NEW d \in better(c) PROVE FALSE
  <2>1. d \in S /\ ScoreLess(Score(c, k), Score(d, k))
    OBVIOUS
  <2>2. d \notin better(d)
    BY <2>1, ScoreOK, ScoreIrreflexive
  <2>3. better(d) \subseteq better(c)
    <3>1. ASSUME NEW e \in better(d) PROVE e \in better(c)
      <4>1. e \in S /\ ScoreLess(Score(d, k), Score(e, k))
        BY <3>1
      <4>2. ScoreLess(Score(c, k), Score(e, k))
        <5>1. /\ Score(c, k) \in Seq(Seq(Int)) /\ Score(d, k) \in Seq(Seq(Int))
              /\ Score(e, k) \in Seq(Seq(Int))
          BY <2>1, <4>1, ScoreOK
        <5>2. Len(Score(c, k)) = Len(Score(d, k)) /\ Len(Score(d, k)) = Len(Score(e, k))
          BY <2>1, <4>1, ScoreOK
        <5>. QED BY <2>1, <4>1, <5>1, <5>2, ScoreTransitive
      <4>. QED BY <4>1, <4>2
    <3>. QED BY <3>1
  <2>4. better(d) \in betters /\ <<better(d), better(c)>> \in StrictSubsetOrdering(S)
    BY <1>6, <2>1, <2>2, <2>3 DEF StrictSubsetOrdering
  <2>. QED BY <1>4, <1>5, <2>4
<1>7. ASSUME NEW d \in S \ {c} PROVE ScoreLess(Score(d, k), Score(c, k))
  <2>1. ~ScoreLess(Score(c, k), Score(d, k))
    BY <1>6
  <2>2. /\ Score(c, k) \in Seq(Seq(Int)) /\ Score(d, k) \in Seq(Seq(Int))
        /\ Len(Score(c, k)) = Len(Score(d, k)) /\ Score(c, k) # Score(d, k)
    BY ScoreOK
  <2>. QED BY <2>1, <2>2, ScoreTotal
<1>. QED BY <1>7

LEMMA BestOK ==
  ASSUME NEW S \in SUBSET Pool, IsFiniteSet(S), NEW k \in Kernels, NEW c, c = Best(S, k)
  PROVE  /\ c \in S \cup {Nothing}
         /\ c # Nothing => \A d \in S \ {c} : ScoreLess(Score(d, k), Score(c, k))
<1>1. CASE S = {} \/ Unreadable(S)
  BY <1>1 DEF Best
<1>2. CASE ~(S = {} \/ Unreadable(S))
  <2>1. c = CHOOSE b \in S : \A d \in S \ {b} : ScoreLess(Score(d, k), Score(b, k))
    BY <1>2 DEF Best
  <2>2. c \in S /\ \A d \in S \ {c} : ScoreLess(Score(d, k), Score(c, k))
    BY <1>2, <2>1, BestExists
  <2>. QED BY <2>2
<1>. QED BY <1>1, <1>2

-----------------------------------------------------------------------------
(* Every build takes the best candidate of what is published.              *)
Taken ==
  chosen # Nothing =>
    \A d \in published \ {chosen} : ScoreLess(Score(d, kernel), Score(chosen, kernel))

IInv == TypeOK /\ IsFiniteSet(published) /\ Taken

LEMMA BuildTakes ==
  ASSUME published' \in SUBSET Pool, IsFiniteSet(published'), kernel' \in Kernels,
         chosen' = Best(published', kernel'), UNCHANGED versioned, versioned \in BOOLEAN
  PROVE  IInv'
<1>1. /\ chosen' \in published' \cup {Nothing}
      /\ chosen' # Nothing => \A d \in published' \ {chosen'} :
                                ScoreLess(Score(d, kernel'), Score(chosen', kernel'))
  BY BestOK
<1>2. Taken'
  BY <1>1 DEF Taken, Score
<1>. QED BY <1>1, <1>2 DEF IInv, TypeOK

LEMMA InitOK == Init => IInv
<1>. SUFFICES ASSUME Init PROVE IInv
  OBVIOUS
<1>1. published \in SUBSET Pool /\ IsFiniteSet(published) /\ kernel \in Kernels
  BY FS_Singleton DEF Init
<1>2. /\ chosen \in published \cup {Nothing}
      /\ chosen # Nothing => \A d \in published \ {chosen} :
                               ScoreLess(Score(d, kernel), Score(chosen, kernel))
  BY <1>1, BestOK DEF Init
<1>. QED BY <1>1, <1>2 DEF Init, IInv, TypeOK, Taken

THEOREM Invariance == Spec => []IInv
<1>1. IInv /\ [Next]_vars => IInv'
  <2>. SUFFICES ASSUME IInv, [Next]_vars PROVE IInv'
    OBVIOUS
  <2>0. published \in SUBSET Pool /\ IsFiniteSet(published) /\ kernel \in Kernels
        /\ versioned \in BOOLEAN
    BY DEF IInv, TypeOK
  <2>1. CASE BuildAfterRelease
    <3>1. published' \in SUBSET Pool /\ IsFiniteSet(published')
      BY <2>0, <2>1, FS_AddElement DEF BuildAfterRelease
    <3>2. chosen' = Best(published', kernel') /\ UNCHANGED <<versioned, kernel>>
      BY <2>1 DEF BuildAfterRelease
    <3>. QED BY <2>0, <3>1, <3>2, BuildTakes
  <2>2. CASE BuildAfterRemoval
    <3>1. published' \in SUBSET Pool /\ IsFiniteSet(published')
      BY <2>0, <2>2, FS_Subset DEF BuildAfterRemoval
    <3>2. chosen' = Best(published', kernel') /\ UNCHANGED <<versioned, kernel>>
      BY <2>2 DEF BuildAfterRemoval
    <3>. QED BY <2>0, <3>1, <3>2, BuildTakes
  <2>3. CASE BuildOther
    BY <2>0, <2>3, BuildTakes DEF BuildOther
  <2>4. CASE UNCHANGED vars
    BY <2>4 DEF vars, IInv, TypeOK, Taken, Score
  <2>. QED BY <2>1, <2>2, <2>3, <2>4 DEF Next
<1>2. Init => IInv
  BY InitOK
<1>. QED BY <1>1, <1>2, PTL DEF Spec

(* A build takes something that is published, or nothing: max() has its    *)
(* maximum whatever upstream publishes.                                    *)
THEOREM TypeCorrect == Spec => []TypeOK
<1>1. IInv => TypeOK
  BY DEF IInv
<1>. QED BY Invariance, <1>1, PTL

(* The order decides at the first place that differs.                      *)
LEMMA NotAfter ==
  ASSUME NEW s \in Seq(Seq(Int)), NEW t \in Seq(Seq(Int)), Len(s) = Len(t),
         ScoreLess(s, t), NEW n \in 1..Len(s), \A j \in 1..(n - 1) : s[j] = t[j]
  PROVE  ~TupleLess(t[n], s[n])
<1>0. /\ \A j \in 1..Len(s) : s[j] \in Seq(Int) /\ t[j] \in Seq(Int)
      /\ Len(s) \in Nat
  OBVIOUS
<1>1. PICK i \in 1..Len(s) : (\A j \in 1..(i - 1) : s[j] = t[j]) /\ TupleLess(s[i], t[i])
  BY DEF ScoreLess
<1>2. CASE i < n
  BY <1>0, <1>1, <1>2, TupleIrreflexive
<1>3. CASE i = n
  BY <1>0, <1>1, <1>3, TupleTransitive, TupleIrreflexive
<1>4. CASE n < i
  <2>1. s[n] = t[n]
    BY <1>0, <1>1, <1>4
  <2>. QED BY <1>0, <2>1, TupleIrreflexive
<1>. QED BY <1>0, <1>2, <1>3, <1>4

(* What the best candidate is not worse than.                              *)
LEMMA BestIsNotWorse ==
  ASSUME IInv, chosen # Nothing, NEW c \in published, c # chosen
  PROVE  /\ c \in Pool /\ chosen \in Pool /\ kernel \in Kernels
         /\ versioned => ScoreLess(LatestFirst(c, kernel), LatestFirst(chosen, kernel))
         /\ ~versioned => ScoreLess(Fit(c, kernel), Fit(chosen, kernel))
  BY DEF IInv, TypeOK, Taken, Score

(* Nothing upstream has published, in any order and with any number of     *)
(* candidates, is of a newer release than what is taken.                   *)
THEOREM LatestIsTaken == Spec => []LatestRelease
<1>1. IInv => LatestRelease
  <2>. SUFFICES ASSUME IInv, chosen # Nothing, versioned, NEW c \in published,
                       NewerRelease(c, chosen)
                PROVE  FALSE
    BY DEF LatestRelease, Chosen
  <2>1. c \in Pool /\ chosen \in Pool /\ kernel \in Kernels
    BY DEF IInv, TypeOK
  <2>2. ReleaseKey(c) \in Seq(Int) /\ TupleLess(ReleaseKey(chosen), ReleaseKey(c))
    BY <2>1, ReleaseKeyOK, KeyIsRelease
  <2>3. c # chosen
    BY <2>2, TupleIrreflexive
  <2>. DEFINE s == LatestFirst(c, kernel)  t == LatestFirst(chosen, kernel)
  <2>4. ScoreLess(s, t)
    BY <2>3, BestIsNotWorse
  <2>5. /\ s \in Seq(Seq(Int)) /\ t \in Seq(Seq(Int)) /\ Len(s) = 6 /\ Len(t) = 6
        /\ s[1] = ReleaseKey(c) /\ t[1] = ReleaseKey(chosen)
    BY <2>1, LatestFirstOK
  <2>. HIDE DEF s, t
  <2>6. 1 \in 1..Len(s) /\ \A j \in 1..(1 - 1) : s[j] = t[j]
    BY <2>5
  <2>7. ~TupleLess(t[1], s[1])
    BY <2>4, <2>5, <2>6, NotAfter
  <2>. QED BY <2>2, <2>5, <2>7
<1>. QED BY Invariance, <1>1, PTL

-----------------------------------------------------------------------------
(* The nearest series.                                                     *)

LEMMA PairLess ==
  ASSUME NEW a \in Int, NEW b \in Int, NEW c \in Int, NEW d \in Int
  PROVE  TupleLess(<<a, b>>, <<c, d>>) <=> a < c \/ (a = c /\ b < d)
<1>1. CASE a < c
  <2>1. 1 \in 1..Len(<<c, d>>) /\ 1 <= Len(<<a, b>>) /\ <<a, b>>[1] < <<c, d>>[1]
    BY <1>1
  <2>. QED BY <1>1, <2>1 DEF TupleLess
<1>2. CASE a = c /\ b < d
  <2>1. 2 \in 1..Len(<<c, d>>) /\ 2 <= Len(<<a, b>>) /\ <<a, b>>[2] < <<c, d>>[2]
    BY <1>2
  <2>2. \A j \in 1..(2 - 1) : j <= Len(<<a, b>>) /\ <<a, b>>[j] = <<c, d>>[j]
    BY <1>2
  <2>. QED BY <1>2, <2>1, <2>2 DEF TupleLess
<1>3. ASSUME TupleLess(<<a, b>>, <<c, d>>) PROVE a < c \/ (a = c /\ b < d)
  <2>1. PICK i \in 1..2 : /\ \A j \in 1..(i - 1) : <<a, b>>[j] = <<c, d>>[j]
                          /\ i <= 2 /\ <<a, b>>[i] < <<c, d>>[i]
    BY <1>3 DEF TupleLess
  <2>. QED BY <2>1
<1>. QED BY <1>1, <1>2, <1>3

(* The weights of the ordinal hold numbers below 1000.                     *)
BelowThousand ==
  /\ \A c \in Pool : \A i \in 1..Len(c.target) : c.target[i] < 1000
  /\ \A k \in Kernels : \A i \in 1..Len(k) : k[i] < 1000

Weigh(a, b, p) == a * 1000000 + b * 1000 + p

LEMMA Weights ==
  ASSUME NEW a \in Nat, NEW b \in Nat, NEW p \in Nat, b < 1000, p < 1000,
         NEW c \in Nat, NEW d \in Nat, NEW q \in Nat, a < c \/ (a = c /\ b < d)
  PROVE  Weigh(a, b, p) < Weigh(c, d, q)
<1>1. CASE a < c
  BY <1>1, SMT DEF Weigh
<1>2. CASE a = c /\ b < d
  BY <1>2, SMT DEF Weigh
<1>. QED BY <1>1, <1>2

LEMMA SeriesOK == ASSUME NEW v \in Seq(Nat), Len(v) \in 2..4 PROVE Series(v) \in Seq(Int)
<1>1. v[1] \in Int /\ v[2] \in Int
  BY PaddedOK
<1>. QED BY <1>1 DEF Series

LEMMA SeriesOrder ==
  ASSUME NEW u \in Seq(Nat), Len(u) \in 2..4, \A i \in 1..Len(u) : u[i] < 1000,
         NEW v \in Seq(Nat), Len(v) \in 2..4, \A i \in 1..Len(v) : v[i] < 1000,
         TupleLess(Series(u), Series(v))
  PROVE  Ordinal(u) < Ordinal(v)
<1>1. /\ Padded(u)[1] = u[1] /\ Padded(u)[2] = u[2] /\ Padded(u)[3] \in Nat
      /\ u[1] \in Nat /\ u[2] \in Nat
  BY PaddedOK
<1>2. /\ Padded(v)[1] = v[1] /\ Padded(v)[2] = v[2] /\ Padded(v)[3] \in Nat
      /\ v[1] \in Nat /\ v[2] \in Nat
  BY PaddedOK
<1>3. u[1] < v[1] \/ (u[1] = v[1] /\ u[2] < v[2])
  BY <1>1, <1>2, PairLess DEF Series
<1>4. Padded(u)[3] < 1000 /\ u[2] < 1000
  <2>1. CASE 3 <= Len(u)
    BY <2>1 DEF Padded
  <2>2. CASE ~(3 <= Len(u))
    BY <2>2 DEF Padded
  <2>. QED BY <2>1, <2>2
<1>5. /\ Ordinal(u) = Weigh(u[1], u[2], Padded(u)[3])
      /\ Ordinal(v) = Weigh(v[1], v[2], Padded(v)[3])
  BY <1>1, <1>2, SMT DEF Ordinal, Weigh
<1>6. Weigh(u[1], u[2], Padded(u)[3]) < Weigh(v[1], v[2], Padded(v)[3])
  <2>. DEFINE a == u[1]  b == u[2]  p == Padded(u)[3]
              c == v[1]  d == v[2]  q == Padded(v)[3]
  <2>1. /\ a \in Nat /\ b \in Nat /\ p \in Nat /\ b < 1000 /\ p < 1000
        /\ c \in Nat /\ d \in Nat /\ q \in Nat /\ (a < c \/ (a = c /\ b < d))
    BY <1>1, <1>2, <1>3, <1>4
  <2>. HIDE DEF a, b, c, d, p, q
  <2>2. Weigh(a, b, p) < Weigh(c, d, q)
    BY <2>1, Weights
  <2>. QED BY <2>2 DEF a, b, c, d, p, q
<1>. QED BY <1>5, <1>6

(* A series between another one and the kernel's is nearer to it.          *)
LEMMA BetweenIsNearer ==
  ASSUME NEW u \in Seq(Nat), Len(u) \in 2..4, \A i \in 1..Len(u) : u[i] < 1000,
         NEW v \in Seq(Nat), Len(v) \in 2..4, \A i \in 1..Len(v) : v[i] < 1000,
         NEW k \in Seq(Nat), Len(k) \in 2..4, \A i \in 1..Len(k) : k[i] < 1000,
         \/ TupleLess(Series(u), Series(v)) /\ TupleLess(Series(v), Series(k))
         \/ TupleLess(Series(k), Series(v)) /\ TupleLess(Series(v), Series(u))
  PROVE  KernelDistance(v, k) < KernelDistance(u, k)
<1>1. Ordinal(u) \in Nat /\ Ordinal(v) \in Nat /\ Ordinal(k) \in Nat
  BY OrdinalOK
<1>2. \/ Ordinal(u) < Ordinal(v) /\ Ordinal(v) < Ordinal(k)
      \/ Ordinal(k) < Ordinal(v) /\ Ordinal(v) < Ordinal(u)
  <2>1. CASE TupleLess(Series(u), Series(v)) /\ TupleLess(Series(v), Series(k))
    <3>1. Ordinal(u) < Ordinal(v)
      BY <2>1, SeriesOrder
    <3>2. Ordinal(v) < Ordinal(k)
      BY <2>1, SeriesOrder
    <3>. QED BY <3>1, <3>2
  <2>2. CASE TupleLess(Series(k), Series(v)) /\ TupleLess(Series(v), Series(u))
    <3>1. Ordinal(k) < Ordinal(v)
      BY <2>2, SeriesOrder
    <3>2. Ordinal(v) < Ordinal(u)
      BY <2>2, SeriesOrder
    <3>. QED BY <3>1, <3>2
  <2>. QED BY <2>1, <2>2
<1>. QED BY <1>1, <1>2 DEF KernelDistance, Abs

(* A patch for the kernel's series scores above one for another series.    *)
LEMMA NativeBeats ==
  ASSUME NEW c \in Pool, NEW d \in Pool, NEW k \in Kernels,
         Native(c, k), ~Native(d, k), d.target # <<>>
  PROVE  TupleLess(Compatibility(d, k), Compatibility(c, k))
<1>1. d.target # k /\ c.target # <<>>
  BY DEF Native
<1>2. KernelDistance(d.target, k) \in Nat /\ KernelDistance(c.target, k) \in Nat
  BY <1>1, CompatibilityOK
<1>3. Compatibility(d, k) = <<3, -KernelDistance(d.target, k)>>
  BY <1>1, CompatibilityOK
<1>4. Compatibility(c, k) \in {<<6, 0>>, <<5, -KernelDistance(c.target, k)>>}
  BY <1>1, CompatibilityOK
<1>5. /\ TupleLess(<<3, -KernelDistance(d.target, k)>>, <<6, 0>>)
      /\ TupleLess(<<3, -KernelDistance(d.target, k)>>, <<5, -KernelDistance(c.target, k)>>)
  BY <1>2, PairLess
<1>. QED BY <1>3, <1>4, <1>5

(* Among patches for other series the nearer one scores higher.            *)
LEMMA NearerBeats ==
  ASSUME NEW c \in Pool, NEW d \in Pool, NEW k \in Kernels,
         ~Native(c, k), c.target # <<>>, ~Native(d, k), d.target # <<>>,
         KernelDistance(c.target, k) < KernelDistance(d.target, k)
  PROVE  TupleLess(Compatibility(d, k), Compatibility(c, k))
<1>1. c.target # k /\ d.target # k
  BY DEF Native
<1>2. KernelDistance(d.target, k) \in Nat /\ KernelDistance(c.target, k) \in Nat
  BY CompatibilityOK
<1>3. /\ Compatibility(d, k) = <<3, -KernelDistance(d.target, k)>>
      /\ Compatibility(c, k) = <<3, -KernelDistance(c.target, k)>>
  BY <1>1, CompatibilityOK
<1>4. TupleLess(<<3, -KernelDistance(d.target, k)>>, <<3, -KernelDistance(c.target, k)>>)
  BY <1>2, PairLess
<1>. QED BY <1>3, <1>4

(* What the order says of a candidate of the release that is taken.        *)
LEMMA NotOutscored ==
  ASSUME IInv, chosen # Nothing, NEW c \in published, c # chosen,
         versioned => SameRelease(c, chosen), c.target # <<>>, chosen.target # <<>>
  PROVE  /\ Native(c, kernel) => Native(chosen, kernel)
         /\ (Native(c, kernel) <=> Native(chosen, kernel)) =>
              ~TupleLess(Compatibility(chosen, kernel), Compatibility(c, kernel))
<1>0. c \in Pool /\ chosen \in Pool /\ kernel \in Kernels
  BY BestIsNotWorse
<1>1. CASE ~versioned
  <2>. DEFINE s == Fit(c, kernel)  t == Fit(chosen, kernel)
  <2>1. ScoreLess(s, t)
    BY <1>1, BestIsNotWorse
  <2>2. /\ s \in Seq(Seq(Int)) /\ t \in Seq(Seq(Int)) /\ Len(s) = 4 /\ Len(t) = 4
        /\ s[1] = Compatibility(c, kernel) /\ t[1] = Compatibility(chosen, kernel)
    BY <1>0, FitOK
  <2>. HIDE DEF s, t
  <2>3. 1 \in 1..Len(s) /\ \A j \in 1..(1 - 1) : s[j] = t[j]
    BY <2>2
  <2>4. ~TupleLess(Compatibility(chosen, kernel), Compatibility(c, kernel))
    BY <2>1, <2>2, <2>3, NotAfter
  <2>. QED BY <1>0, <2>4, NativeBeats
<1>2. CASE versioned
  <2>. DEFINE s == LatestFirst(c, kernel)  t == LatestFirst(chosen, kernel)
  <2>1. ScoreLess(s, t)
    BY <1>2, BestIsNotWorse
  <2>2. /\ s \in Seq(Seq(Int)) /\ t \in Seq(Seq(Int)) /\ Len(s) = 6 /\ Len(t) = 6
        /\ s[1] = ReleaseKey(c) /\ t[1] = ReleaseKey(chosen)
        /\ s[2] = Flag(Native(c, kernel)) /\ t[2] = Flag(Native(chosen, kernel))
        /\ s[3] = Compatibility(c, kernel) /\ t[3] = Compatibility(chosen, kernel)
    BY <1>0, LatestFirstOK
  <2>. HIDE DEF s, t
  <2>3. s[1] = t[1]
    BY <1>0, <1>2, <2>2, SameReleaseSameKey
  <2>4. 2 \in 1..Len(s) /\ \A j \in 1..(2 - 1) : s[j] = t[j]
    BY <2>2, <2>3
  <2>5. ~TupleLess(Flag(Native(chosen, kernel)), Flag(Native(c, kernel)))
    BY <2>1, <2>2, <2>4, NotAfter
  <2>6. ASSUME Native(c, kernel), ~Native(chosen, kernel) PROVE FALSE
    <3>1. Flag(Native(chosen, kernel)) = <<0>> /\ Flag(Native(c, kernel)) = <<1>>
      BY <2>6 DEF Flag
    <3>2. TupleLess(<<0>>, <<1>>)
      BY DEF TupleLess
    <3>. QED BY <2>5, <3>1, <3>2
  <2>7. ASSUME Native(c, kernel) <=> Native(chosen, kernel)
        PROVE  ~TupleLess(Compatibility(chosen, kernel), Compatibility(c, kernel))
    <3>1. s[2] = t[2]
      BY <2>2, <2>7 DEF Flag
    <3>2. 3 \in 1..Len(s) /\ \A j \in 1..(3 - 1) : s[j] = t[j]
      BY <2>2, <2>3, <3>1
    <3>. QED BY <2>1, <2>2, <3>2, NotAfter
  <2>. QED BY <2>6, <2>7
<1>. QED BY <1>1, <1>2

(* Of the patches of that release one for the kernel's series is taken if  *)
(* there is one, and none of another series lies nearer to the kernel, for *)
(* all version numbers below 1000.                                         *)
THEOREM NearestIsTaken == ASSUME BelowThousand PROVE Spec => []NearestSeries
<1>1. IInv => NearestSeries
  <2>. SUFFICES ASSUME IInv, chosen # Nothing, NEW c \in published,
                       versioned => SameRelease(c, chosen),
                       c.target # <<>>, chosen.target # <<>>
                PROVE  /\ Native(c, kernel) => Native(chosen, kernel)
                       /\ ~ \/ TupleLess(Series(chosen.target), Series(c.target))
                               /\ TupleLess(Series(c.target), Series(kernel))
                            \/ TupleLess(Series(kernel), Series(c.target))
                               /\ TupleLess(Series(c.target), Series(chosen.target))
    BY DEF NearestSeries, Chosen
  <2>. DEFINE Between == \/ TupleLess(Series(chosen.target), Series(c.target))
                            /\ TupleLess(Series(c.target), Series(kernel))
                         \/ TupleLess(Series(kernel), Series(c.target))
                            /\ TupleLess(Series(c.target), Series(chosen.target))
  <2>1. c \in Pool /\ chosen \in Pool /\ kernel \in Kernels
    BY DEF IInv, TypeOK
  <2>2. /\ c.target \in Seq(Nat) /\ Len(c.target) \in 2..4
        /\ chosen.target \in Seq(Nat) /\ Len(chosen.target) \in 2..4
        /\ kernel \in Seq(Nat) /\ Len(kernel) \in 2..4
    BY <2>1, PoolFields, KernelFields
  <2>3. /\ Series(c.target) \in Seq(Int) /\ Series(chosen.target) \in Seq(Int)
        /\ Series(kernel) \in Seq(Int)
    BY <2>2, SeriesOK
  <2>4. CASE c = chosen
    BY <2>3, <2>4, TupleIrreflexive
  <2>5. CASE c # chosen
    <3>1. /\ Native(c, kernel) => Native(chosen, kernel)
          /\ (Native(c, kernel) <=> Native(chosen, kernel)) =>
               ~TupleLess(Compatibility(chosen, kernel), Compatibility(c, kernel))
      BY <2>5, NotOutscored
    <3>2. ASSUME Between PROVE FALSE
      <4>1. Series(c.target) # Series(kernel) /\ Series(chosen.target) # Series(kernel)
        BY <2>3, <3>2, TupleIrreflexive, TupleTransitive
      <4>2. ~Native(c, kernel) /\ ~Native(chosen, kernel)
        BY <4>1 DEF Native
      <4>3. KernelDistance(c.target, kernel) < KernelDistance(chosen.target, kernel)
        <5>1. /\ \A i \in 1..Len(c.target) : c.target[i] < 1000
              /\ \A i \in 1..Len(chosen.target) : chosen.target[i] < 1000
              /\ \A i \in 1..Len(kernel) : kernel[i] < 1000
          BY <2>1 DEF BelowThousand
        <5>. QED BY <2>2, <3>2, <5>1, BetweenIsNearer
      <4>4. TupleLess(Compatibility(chosen, kernel), Compatibility(c, kernel))
        BY <2>1, <4>2, <4>3, NearerBeats
      <4>. QED BY <3>1, <4>2, <4>4
    <3>. QED BY <3>1, <3>2
  <2>. QED BY <2>4, <2>5
<1>. QED BY Invariance, <1>1, PTL
=============================================================================
