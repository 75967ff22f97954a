------------------------------ MODULE FoldProofs ------------------------------
(* What the proofs about loops rest on: induction by a smallest counterexample, *)
(* and the folds of the library.  A fold over a sequence chooses a function on  *)
(* the sets of its positions; a table that solves its equation is built by the  *)
(* number of positions, every solution is that table, and along it the fold     *)
(* goes one element at a time.  Then sequences that are cut into pieces, and    *)
(* what such pieces hold.                                                       *)
EXTENDS Integers, FiniteSets, SequencesExt, FiniteSetTheorems, WellFoundedInduction, TLAPS

\* A set of numbers that is not empty has a least one: induction by a smallest counterexample.
LEMMA LeastNat == ASSUME NEW T \in SUBSET Nat, T # {} PROVE \E m \in T : \A x \in T : m <= x
<1> DEFINE R == OpToRel(<, Nat)
<1>1. IsWellFoundedOn(R, Nat)
  BY NatLessThanWellFounded
<1>2. \A x, y \in Nat : x < y => <<x, y>> \in R
  BY DEF OpToRel
<1> HIDE DEF R
<1>3. PICK m \in T : \A y \in T : ~(<<y, m>> \in R)
  BY <1>1, WFMin
<1>4. \A x \in T : ~(x < m)
  BY <1>2, <1>3
<1> QED
  BY <1>3, <1>4

\* A set of positions that is not empty has a last one.
LEMMA LastOfSome ==
    ASSUME NEW n \in Nat, NEW s \in SUBSET (1..n), s # {}
    PROVE  Max(s) \in s /\ \A y \in s : y <= Max(s)
<1>0. \A x \in s : x \in Nat /\ n - x \in Nat
  OBVIOUS
<1>1. {n - x : x \in s} \in SUBSET Nat /\ {n - x : x \in s} # {}
  BY <1>0
<1>2. PICK m \in {n - x : x \in s} : \A y \in {n - x : x \in s} : m <= y
  BY <1>1, LeastNat
<1>3. PICK x \in s : m = n - x
  BY <1>2
<1>4. \A y \in s : x >= y
  <2>1. \A y \in s : n - x <= n - y
    BY <1>2, <1>3
  <2> QED BY <1>0, <2>1
<1>5. Max(s) \in s /\ \A y \in s : Max(s) >= y
  BY <1>4 DEF Max
<1> QED
  BY <1>5

\* What a fold from the left says of a set of positions.
FoldStep(w, op, base, seq, s) ==
    IF s = {} THEN base ELSE op[<<w[s \ {Max(s)}], seq[Max(s)]>>]
FoldTable(w, op, base, seq, acc, n) ==
    /\ w \in [SUBSET (1..n) -> acc]
    /\ \A s \in SUBSET (1..n) : w[s] = FoldStep(w, op, base, seq, s)

\* Such a table exists: sets of one position more are added to a table of the smaller ones.
LEMMA FoldExists ==
    ASSUME NEW n \in Nat, NEW elements, NEW acc, NEW seq \in [1..n -> elements],
           NEW base \in acc, NEW op \in [acc \X elements -> acc]
    PROVE  \E w : FoldTable(w, op, base, seq, acc, n)
<1> DEFINE Upto(k) == {s \in SUBSET (1..n) : Cardinality(s) <= k}
           Ok(w, k) == /\ w \in [SUBSET (1..n) -> acc]
                       /\ \A s \in Upto(k) : w[s] = FoldStep(w, op, base, seq, s)
           Failing == {k \in Nat : ~\E w : Ok(w, k)}
<1>1. ASSUME NEW s \in SUBSET (1..n)
      PROVE  IsFiniteSet(s) /\ Cardinality(s) \in 0..n
  <2>1. 1 \in Int /\ n \in Int
    OBVIOUS
  <2>2. IsFiniteSet(1..n) /\ Cardinality(1..n) = n
    BY <2>1, FS_Interval
  <2>3. IsFiniteSet(s) /\ Cardinality(s) <= Cardinality(1..n)
    BY <2>2, FS_Subset
  <2>4. Cardinality(s) \in Nat
    BY <2>3, FS_CardinalityType
  <2> QED BY <2>2, <2>3, <2>4
<1>2. Failing = {}
  <2> SUFFICES ASSUME Failing # {} PROVE FALSE
    OBVIOUS
  <2>1. PICK k \in Failing : \A j \in Failing : k <= j
    <3>1. Failing \in SUBSET Nat
      OBVIOUS
    <3> HIDE DEF Failing
    <3> QED BY <3>1, LeastNat
  <2>2. k # 0
    <3> DEFINE v == [s \in SUBSET (1..n) |-> base]
    <3>1. \A s \in Upto(0) : s = {}
      BY <1>1, FS_EmptySet
    <3>2. Ok(v, 0)
      BY <3>1 DEF FoldStep
    <3> QED BY <2>1, <3>2, ZenonT(40)
  <2>3. PICK v : Ok(v, k - 1)
    <3>1. k \in Nat /\ k - 1 \in Nat
      BY <2>1, <2>2
    <3>2. k - 1 \notin Failing
      <4>1. ASSUME k - 1 \in Failing PROVE FALSE
        <5>1. k <= k - 1
          BY <2>1, <4>1
        <5> QED BY <3>1, <5>1
      <4> QED BY <4>1
    <3> QED BY <3>1, <3>2
  <2> DEFINE w == [s \in SUBSET (1..n) |-> IF s \in Upto(k - 1) THEN v[s] ELSE FoldStep(v, op, base, seq, s)]
  <2>4. ASSUME NEW s \in SUBSET (1..n), s # {}
        PROVE  /\ Max(s) \in s /\ s \ {Max(s)} \in SUBSET (1..n)
               /\ s \in Upto(k) => s \ {Max(s)} \in Upto(k - 1)
    <3>1. Max(s) \in s
      BY <2>4, LastOfSome
    <3>2. Cardinality(s \ {Max(s)}) = Cardinality(s) - 1
      BY <1>1, <3>1, FS_RemoveElement
    <3>3. Cardinality(s) \in Nat /\ k \in Nat
      BY <1>1, <2>1
    <3>4. Cardinality(s) <= k => Cardinality(s \ {Max(s)}) <= k - 1
      BY <3>2, <3>3
    <3> QED BY <3>1, <3>4
  <2>5. \A s \in SUBSET (1..n) : FoldStep(v, op, base, seq, s) \in acc
    BY <2>3, <2>4 DEF FoldStep
  <2>6. w \in [SUBSET (1..n) -> acc]
    BY <2>3, <2>5
  <2>7. ASSUME NEW s \in Upto(k) PROVE w[s] = FoldStep(w, op, base, seq, s)
    <3>1. FoldStep(w, op, base, seq, s) = FoldStep(v, op, base, seq, s)
      <4>1. CASE s = {}
        BY <4>1 DEF FoldStep
      <4>2. CASE s # {}
        <5>1. s \ {Max(s)} \in Upto(k - 1)
          BY <2>4, <4>2
        <5>2. w[s \ {Max(s)}] = v[s \ {Max(s)}]
          BY <5>1
        <5> HIDE DEF w
        <5> QED BY <4>2, <5>2 DEF FoldStep
      <4> QED BY <4>1, <4>2
    <3>2. CASE s \in Upto(k - 1)
      BY <2>3, <3>1, <3>2
    <3>3. CASE s \notin Upto(k - 1)
      BY <3>1, <3>3
    <3> QED BY <3>2, <3>3
  <2>8. Ok(w, k)
    BY <2>6, <2>7
  <2> QED BY <2>1, <2>8
<1>3. PICK w : Ok(w, n)
  BY <1>2
<1>4. Upto(n) = SUBSET (1..n)
  BY <1>1
<1> QED
  BY <1>3, <1>4 DEF FoldTable

\* Along a table the fold goes one element at a time.
LEMMA FoldPrefix ==
    ASSUME NEW n \in Nat, NEW w, NEW op, NEW base, NEW seq, NEW acc,
           FoldTable(w, op, base, seq, acc, n)
    PROVE  /\ w[1..0] = base
           /\ \A i \in 1..n : /\ w[1..i] = op[<<w[1..(i - 1)], seq[i]>>]
                              /\ w[1..(i - 1)] \in acc
           /\ w[1..n] \in acc
<1>1. w[1..0] = base
  <2>1. 1..0 = {} /\ {} \in SUBSET (1..n)
    OBVIOUS
  <2> QED BY <2>1 DEF FoldTable, FoldStep
<1>2. ASSUME NEW i \in 1..n
      PROVE  w[1..i] = op[<<w[1..(i - 1)], seq[i]>>] /\ w[1..(i - 1)] \in acc
  <2>1. 1..i \in SUBSET (1..n) /\ 1..i # {} /\ i \in 1..i /\ 1..(i - 1) \in SUBSET (1..n)
    OBVIOUS
  <2>2. Max(1..i) \in 1..i /\ \A y \in 1..i : y <= Max(1..i)
    BY <2>1, LastOfSome
  <2>3. Max(1..i) = i
    BY <2>1, <2>2
  <2>4. (1..i) \ {i} = 1..(i - 1)
    OBVIOUS
  <2>5. w[1..i] = FoldStep(w, op, base, seq, 1..i)
    BY <2>1 DEF FoldTable
  <2> QED BY <2>1, <2>3, <2>4, <2>5 DEF FoldStep, FoldTable
<1>3. w[1..n] \in acc
  BY DEF FoldTable
<1> QED
  BY <1>1, <1>2, <1>3

\* What holds at the start and is handed on holds along the way.
HandedOn(Good, n) == 0 \in Good /\ \A i \in 1..n : i - 1 \in Good => i \in Good

LEMMA Along ==
    ASSUME NEW n \in Nat, NEW Good, HandedOn(Good, n)
    PROVE  0..n \subseteq Good
<1> DEFINE Bad == {i \in 0..n : i \notin Good}
<1> SUFFICES ASSUME Bad # {} PROVE FALSE
  OBVIOUS
<1>1. Bad \in SUBSET Nat
  OBVIOUS
<1>2. PICK m \in Bad : \A x \in Bad : m <= x
  <2> HIDE DEF Bad
  <2> QED BY <1>1, LeastNat
<1>3. m \in 1..n /\ m - 1 \in 0..n
  BY <1>2 DEF HandedOn
<1>4. m - 1 \in Good
  <2>1. CASE m - 1 \in Bad
    <3>1. m <= m - 1
      BY <1>2, <2>1
    <3> QED BY <1>3, <3>1
  <2>2. CASE m - 1 \notin Bad
    BY <1>3, <2>2
  <2> QED BY <2>1, <2>2
<1> QED
  BY <1>2, <1>3, <1>4 DEF HandedOn

\* Two tables that agree on a set when they agree on it without its last position are one.
HandOn(v, w, n) ==
    /\ v[{}] = w[{}]
    /\ \A s \in SUBSET (1..n) : s # {} /\ v[s \ {Max(s)}] = w[s \ {Max(s)}] => v[s] = w[s]

LEMMA SameTable ==
    ASSUME NEW n \in Nat, NEW v, NEW w, HandOn(v, w, n)
    PROVE  \A s \in SUBSET (1..n) : v[s] = w[s]
<1> DEFINE Wrong == {s \in SUBSET (1..n) : v[s] # w[s]}
           Sizes == {Cardinality(s) : s \in Wrong}
<1> SUFFICES ASSUME Wrong # {} PROVE FALSE
  OBVIOUS
<1>1. ASSUME NEW s \in SUBSET (1..n) PROVE IsFiniteSet(s) /\ Cardinality(s) \in Nat
  <2>1. 1 \in Int /\ n \in Int
    OBVIOUS
  <2>2. IsFiniteSet(1..n)
    BY <2>1, FS_Interval
  <2> QED BY <2>2, FS_Subset, FS_CardinalityType
<1>2. PICK s \in Wrong : \A t \in Wrong : Cardinality(s) <= Cardinality(t)
  <2>1. Sizes \in SUBSET Nat /\ Sizes # {}
    BY <1>1
  <2>2. PICK m \in Sizes : \A x \in Sizes : m <= x
    <3> HIDE DEF Sizes
    <3> QED BY <2>1, LeastNat
  <2> QED BY <2>2
<1>3. s # {}
  BY <1>2 DEF HandOn
<1>4. Max(s) \in s
  BY <1>2, <1>3, LastOfSome
<1>5. Cardinality(s \ {Max(s)}) = Cardinality(s) - 1
  BY <1>1, <1>2, <1>4, FS_RemoveElement
<1>6. s \ {Max(s)} \notin Wrong
  <2>1. ASSUME s \ {Max(s)} \in Wrong PROVE FALSE
    <3>1. Cardinality(s) <= Cardinality(s \ {Max(s)})
      BY <1>2, <2>1
    <3>2. Cardinality(s) \in Nat
      BY <1>1, <1>2
    <3> QED BY <1>5, <3>1, <3>2
  <2> QED BY <2>1
<1>7. v[s \ {Max(s)}] = w[s \ {Max(s)}]
  BY <1>2, <1>6
<1> QED
  BY <1>2, <1>3, <1>7 DEF HandOn

-----------------------------------------------------------------------------
(* Sequences *)

\* What a sequence says when one element more is added to it.
LEMMA OneMore ==
    ASSUME NEW S, NEW s \in Seq(S), NEW e \in S
    PROVE  /\ Append(s, e) \in Seq(S) /\ Len(s) \in Nat /\ DOMAIN s = 1..Len(s)
           /\ DOMAIN Append(s, e) = 1..(Len(s) + 1)
           /\ \A i \in 1..Len(s) : Append(s, e)[i] = s[i]
           /\ Append(s, e)[Len(s) + 1] = e
OBVIOUS

\* A function on the first numbers is a sequence.
LEMMA IsSequence == ASSUME NEW S, NEW n \in Nat, NEW f \in [1..n -> S] PROVE f \in Seq(S)
OBVIOUS

LEMMA SequenceIs ==
    ASSUME NEW S, NEW s \in Seq(S)
    PROVE  Len(s) \in Nat /\ DOMAIN s = 1..Len(s) /\ s \in [1..Len(s) -> S]
OBVIOUS

\* The beginning of a sequence.
LEMMA Beginning ==
    ASSUME NEW S, NEW s \in Seq(S), NEW m \in 0..Len(s)
    PROVE  /\ SubSeq(s, 1, m) \in Seq(S) /\ Len(SubSeq(s, 1, m)) = m
           /\ DOMAIN SubSeq(s, 1, m) = 1..m
           /\ \A i \in 1..m : SubSeq(s, 1, m)[i] = s[i]
OBVIOUS

\* The least of some positions.
LEMMA FirstOfSome ==
    ASSUME NEW s \in SUBSET Nat, s # {}
    PROVE  Min(s) \in s /\ \A y \in s : Min(s) <= y
<1>1. \E x \in s : \A y \in s : x <= y
  BY LeastNat
<1> QED
  BY <1>1 DEF Min

\* A sequence that is not empty has a position.
LEMMA HasFirst == ASSUME NEW S, NEW s \in Seq(S), s # <<>> PROVE DOMAIN s # {}
<1>1. Len(s) \in Nat /\ DOMAIN s = 1..Len(s) /\ Len(s) # 0
  OBVIOUS
<1>2. \A n \in Nat : n # 0 => 1 \in 1..n
  OBVIOUS
<1>3. 1 \in DOMAIN s
  BY <1>1, <1>2, Zenon
<1> QED
  BY <1>3

\* No two positions of the sequence hold the same.
Distinct(s) == \A a, b \in DOMAIN s : s[a] = s[b] => a = b

\* What two sequences say one after the other.
LEMMA InARow ==
    ASSUME NEW S, NEW s \in Seq(S), NEW t \in Seq(S)
    PROVE  /\ s \o t \in Seq(S) /\ DOMAIN s = 1..Len(s) /\ DOMAIN t = 1..Len(t)
           /\ Len(s) \in Nat /\ Len(t) \in Nat
           /\ DOMAIN (s \o t) = 1..(Len(s) + Len(t))
           /\ \A k \in DOMAIN s : k \in DOMAIN (s \o t) /\ (s \o t)[k] = s[k]
           /\ \A k \in DOMAIN t : Len(s) + k \in DOMAIN (s \o t) /\ (s \o t)[Len(s) + k] = t[k]
           /\ \A k \in DOMAIN (s \o t) :
                 \/ k \in DOMAIN s /\ (s \o t)[k] = s[k]
                 \/ \E j \in DOMAIN t : k = Len(s) + j /\ (s \o t)[k] = t[j]
<1>1. /\ s \o t \in Seq(S) /\ DOMAIN s = 1..Len(s) /\ DOMAIN t = 1..Len(t)
      /\ Len(s) \in Nat /\ Len(t) \in Nat /\ Len(s \o t) = Len(s) + Len(t)
      /\ DOMAIN (s \o t) = 1..(Len(s) + Len(t))
  OBVIOUS
<1>2. \A k \in DOMAIN s : k \in DOMAIN (s \o t) /\ (s \o t)[k] = s[k]
  BY <1>1
<1>3. \A k \in DOMAIN t : Len(s) + k \in DOMAIN (s \o t) /\ (s \o t)[Len(s) + k] = t[k]
  BY <1>1
<1>4. ASSUME NEW k \in DOMAIN (s \o t), k \notin DOMAIN s
      PROVE  \E j \in DOMAIN t : k = Len(s) + j /\ (s \o t)[k] = t[j]
  <2>1. k - Len(s) \in DOMAIN t /\ k = Len(s) + (k - Len(s))
    BY <1>1, <1>4
  <2> QED BY <1>3, <2>1
<1> QED
  BY <1>1, <1>2, <1>3, <1>4

\* Two sequences without repetition that share nothing make one without repetition.
LEMMA InARowDistinct ==
    ASSUME NEW S, NEW s \in Seq(S), NEW t \in Seq(S), Distinct(s), Distinct(t),
           \A a \in DOMAIN s, b \in DOMAIN t : s[a] # t[b]
    PROVE  Distinct(s \o t)
<1> DEFINE st == s \o t
<1>1. \A k \in DOMAIN st :
         \/ k \in DOMAIN s /\ st[k] = s[k]
         \/ \E j \in DOMAIN t : k = Len(s) + j /\ st[k] = t[j]
  BY InARow
<1> HIDE DEF st
<1>2. Distinct(st)
  BY <1>1 DEF Distinct
<1> QED BY <1>2 DEF st

\* The smaller of two numbers.
LEMMA MinOfTwo == ASSUME NEW m \in Nat, NEW n \in Nat PROVE Min({m, n}) = IF m <= n THEN m ELSE n
BY DEF Min

LEMMA LessOfTwo ==
    ASSUME NEW m \in Nat, NEW n \in Nat
    PROVE  /\ Min({m, n}) \in Nat /\ Min({m, n}) <= m /\ Min({m, n}) <= n
           /\ Min({m, n}) = m \/ Min({m, n}) = n
BY MinOfTwo

\* The first numbers are as many as the last of them.
LEMMA Segment == ASSUME NEW n \in Nat PROVE IsFiniteSet(1..n) /\ Cardinality(1..n) = n
<1>1. n \in Int /\ 1 \in Int
  OBVIOUS
<1>2. IsFiniteSet(1..n) /\ Cardinality(1..n) = IF 1 > n THEN 0 ELSE n - 1 + 1
  BY <1>1, FS_Interval
<1> QED
  BY <1>2

\* Positions among which there are all the earlier ones are the first so many.
LEMMA FirstSoMany ==
    ASSUME NEW n \in Nat, NEW P \in SUBSET (1..n), \A i \in P : \A j \in 1..i : j \in P
    PROVE  Cardinality(P) \in 0..n /\ P = 1..Cardinality(P)
<1>1. \E k \in 0..n : P = 1..k
  <2>1. CASE P = {}
    <3>1. P = 1..0 /\ 0 \in 0..n
      BY <2>1
    <3> QED BY <3>1
  <2>2. CASE P # {}
    <3>1. Max(P) \in P /\ \A y \in P : y <= Max(P)
      BY <2>2, LastOfSome
    <3> DEFINE k == Max(P)
    <3> HIDE DEF k
    <3>2. k \in 1..n /\ k \in P /\ \A y \in P : y <= k
      BY <3>1 DEF k
    <3>3. \A y \in P : y \in 1..k
      BY <3>2
    <3>4. \A y \in 1..k : y \in P
      BY <3>2
    <3>5. P = 1..k
      BY <3>3, <3>4, Zenon
    <3>6. k \in 0..n
      BY <3>2
    <3> QED BY <3>5, <3>6
  <2> QED BY <2>1, <2>2
<1>2. PICK k \in 0..n : P = 1..k
  BY <1>1
<1>3. Cardinality(1..k) = k
  BY Segment
<1> QED BY <1>2, <1>3

\* The members of two sequences one after the other.
LEMMA JoinedHas ==
    ASSUME NEW S, NEW s \in Seq(S), NEW t \in Seq(S)
    PROVE  ToSet(s \o t) = ToSet(s) \cup ToSet(t)
<1> DEFINE st == s \o t
<1>1. /\ \A k \in DOMAIN s : k \in DOMAIN st /\ st[k] = s[k]
      /\ \A k \in DOMAIN t : Len(s) + k \in DOMAIN st /\ st[Len(s) + k] = t[k]
      /\ \A k \in DOMAIN st :
            \/ k \in DOMAIN s /\ st[k] = s[k]
            \/ \E j \in DOMAIN t : k = Len(s) + j /\ st[k] = t[j]
  BY InARow
<1> HIDE DEF st
<1>2. ToSet(st) = ToSet(s) \cup ToSet(t)
  BY <1>1 DEF ToSet
<1> QED
  BY <1>2 DEF st

\* What a sequence of sequences says when one is put after the other.
Joins(f, seqs, n) == f[0] = <<>> /\ \A i \in 1..n : f[i] = f[i - 1] \o seqs[i]

LEMMA FlattenIs ==
    ASSUME NEW S, NEW n \in Nat, NEW seqs \in [1..n -> Seq(S)]
    PROVE  \E f \in [0..n -> Seq(S)] : Joins(f, seqs, n) /\ FlattenSeq(seqs) = f[n]
<1> DEFINE op == [p \in Seq(S) \X Seq(S) |-> p[1] \o p[2]]
           Body(g) == g = [i \in 1..n |-> IF i = 1 THEN seqs[i] ELSE g[i - 1] \o seqs[i]]
           it == CHOOSE g : Body(g)
<1>0. Len(seqs) = n
  OBVIOUS
<1>1. FlattenSeq(seqs) = IF n = 0 THEN seqs ELSE it[n]
  BY <1>0 DEF FlattenSeq
<1>2. op \in [Seq(S) \X Seq(S) -> Seq(S)] /\ <<>> \in Seq(S)
  OBVIOUS
<1>3. PICK w : FoldTable(w, op, <<>>, seqs, Seq(S), n)
  <2> DEFINE T == Seq(S)
  <2>1. <<>> \in T /\ seqs \in [1..n -> T] /\ op \in [T \X T -> T]
    BY <1>2
  <2> HIDE DEF op, T
  <2>2. \E w : FoldTable(w, op, <<>>, seqs, T, n)
    BY <2>1, FoldExists
  <2> QED BY <2>2 DEF T
<1>4. /\ w[1..0] = <<>>
      /\ \A i \in 1..n : w[1..i] = op[<<w[1..(i - 1)], seqs[i]>>] /\ w[1..(i - 1)] \in Seq(S)
      /\ w[1..n] \in Seq(S)
  <2> DEFINE T == Seq(S)
  <2>1. FoldTable(w, op, <<>>, seqs, T, n)
    BY <1>3
  <2> HIDE DEF op, T
  <2>2. /\ w[1..0] = <<>>
        /\ \A i \in 1..n : w[1..i] = op[<<w[1..(i - 1)], seqs[i]>>] /\ w[1..(i - 1)] \in T
        /\ w[1..n] \in T
    BY <2>1, FoldPrefix
  <2> QED BY <2>2 DEF T
<1> DEFINE h == [i \in 0..n |-> w[1..i]]
<1>5. h \in [0..n -> Seq(S)]
  <2>1. ASSUME NEW i \in 0..n PROVE w[1..i] \in Seq(S)
    <3>1. CASE i = n
      BY <1>4, <3>1
    <3>2. CASE i # n
      <4>1. i + 1 \in 1..n /\ (i + 1) - 1 = i
        BY <3>2
      <4> QED BY <1>4, <4>1
    <3> QED BY <3>1, <3>2
  <2> QED BY <2>1
<1>6. ASSUME NEW i \in 1..n PROVE h[i] = h[i - 1] \o seqs[i]
  <2>1. i \in 0..n /\ i - 1 \in 0..n
    OBVIOUS
  <2>2. w[1..i] = op[<<w[1..(i - 1)], seqs[i]>>] /\ w[1..(i - 1)] \in Seq(S) /\ seqs[i] \in Seq(S)
    BY <1>4
  <2>3. w[1..i] = w[1..(i - 1)] \o seqs[i]
    BY <2>2
  <2> QED BY <2>1, <2>3
<1>7. h[0] = <<>>
  BY <1>4
<1>8. Joins(h, seqs, n)
  BY <1>6, <1>7 DEF Joins
<1> HIDE DEF h
<1>9. FlattenSeq(seqs) = h[n]
  <2>1. CASE n = 0
    <3>1. seqs = <<>>
      BY <2>1
    <3> QED BY <1>1, <1>7, <2>1, <3>1
  <2>2. CASE n # 0
    <3> DEFINE v == [i \in 1..n |-> h[i]]
    <3>1. Body(v)
      <4>1. ASSUME NEW i \in 1..n PROVE v[i] = IF i = 1 THEN seqs[i] ELSE v[i - 1] \o seqs[i]
        <5>1. CASE i = 1
          <6>0. 1 \in 1..n /\ 1 - 1 = 0 /\ seqs[1] \in Seq(S)
            BY <5>1
          <6>1. h[1] = h[1 - 1] \o seqs[1]
            BY <1>8, <6>0 DEF Joins
          <6>3. h[1] = <<>> \o seqs[1]
            BY <1>8, <6>0, <6>1 DEF Joins
          <6>2. h[1] = seqs[1]
            BY <6>0, <6>3
          <6> QED BY <5>1, <6>2
        <5>2. CASE i # 1
          <6>1. i - 1 \in 1..n
            BY <5>2
          <6> QED BY <1>8, <5>2, <6>1 DEF Joins
        <5> QED BY <5>1, <5>2
      <4> QED BY <4>1
    <3> HIDE DEF Body
    <3>2. Body(it)
      BY <3>1
    <3> HIDE DEF it
    <3>3. \A i \in 1..n : it[i] = IF i = 1 THEN seqs[i] ELSE it[i - 1] \o seqs[i]
      BY <3>2 DEF Body
    <3>8. \A i \in 1..n : h[i] = IF i = 1 THEN seqs[i] ELSE h[i - 1] \o seqs[i]
      <4>1. \A i \in 1..n : v[i] = IF i = 1 THEN seqs[i] ELSE v[i - 1] \o seqs[i]
        BY <3>1 DEF Body
      <4>2. \A i \in 1..n : v[i] = h[i] /\ (i # 1 => i - 1 \in 1..n)
        OBVIOUS
      <4> QED BY <4>1, <4>2
    <3> DEFINE Good == {i \in 0..n : i = 0 \/ it[i] = h[i]}
    <3>4. ASSUME NEW i \in 1..n, i - 1 \in Good PROVE i \in Good
      <4>1. it[i] = h[i]
        BY <3>3, <3>4, <3>8
      <4> QED BY <4>1
    <3>5. HandedOn(Good, n)
      BY <3>4 DEF HandedOn
    <3>6. 0..n \subseteq Good
      <4> HIDE DEF Good
      <4> QED BY <3>5, Along
    <3>7. n \in 0..n
      OBVIOUS
    <3> QED BY <1>1, <2>2, <3>6, <3>7
  <2> QED BY <2>1, <2>2
<1> QED
  BY <1>5, <1>8, <1>9

\* The members of a sequence of sequences are those of its sequences.
LEMMA FlattenHas ==
    ASSUME NEW S, NEW n \in Nat, NEW seqs \in [1..n -> Seq(S)]
    PROVE  /\ FlattenSeq(seqs) \in Seq(S)
           /\ ToSet(FlattenSeq(seqs)) = UNION {ToSet(seqs[i]) : i \in 1..n}
<1>1. PICK f \in [0..n -> Seq(S)] : Joins(f, seqs, n) /\ FlattenSeq(seqs) = f[n]
  BY FlattenIs
<1> DEFINE Good == {k \in 0..n : \A x : x \in ToSet(f[k]) <=> \E i \in 1..k : x \in ToSet(seqs[i])}
<1>2. 0 \in Good
  BY <1>1 DEF Joins, ToSet
<1>3. ASSUME NEW k \in 1..n, k - 1 \in Good PROVE k \in Good
  <2> DEFINE T == Seq(S)
  <2>0. k \in 0..n /\ k - 1 \in 0..n
    OBVIOUS
  <2>1. f[k] = f[k - 1] \o seqs[k] /\ f[k - 1] \in T /\ seqs[k] \in T
    <3>1. f \in [0..n -> T] /\ seqs \in [1..n -> T]
      BY <1>1
    <3> HIDE DEF T
    <3> QED BY <1>1, <2>0, <3>1 DEF Joins
  <2>2. ToSet(f[k - 1] \o seqs[k]) = ToSet(f[k - 1]) \cup ToSet(seqs[k])
    BY <2>1, JoinedHas
  <2>3. 1..k = (1..(k - 1)) \cup {k}
    OBVIOUS
  <2> HIDE DEF T
  <2>4. \A x : x \in ToSet(f[k - 1]) <=> \E i \in 1..(k - 1) : x \in ToSet(seqs[i])
    BY <1>3
  <2>5. ToSet(f[k]) = ToSet(f[k - 1]) \cup ToSet(seqs[k])
    BY <2>1, <2>2
  <2>6. \A x : x \in ToSet(f[k]) <=> \E i \in 1..k : x \in ToSet(seqs[i])
    BY <2>3, <2>4, <2>5
  <2> QED BY <2>0, <2>6
<1>4. HandedOn(Good, n)
  BY <1>2, <1>3 DEF HandedOn
<1>5. 0..n \subseteq Good
  <2> HIDE DEF Good
  <2> QED BY <1>4, Along
<1>6. n \in 0..n
  OBVIOUS
<1>7. \A x : x \in ToSet(f[n]) <=> \E i \in 1..n : x \in ToSet(seqs[i])
  BY <1>5, <1>6
<1>8. f[n] \in Seq(S)
  BY <1>6
<1> QED
  BY <1>1, <1>7, <1>8

\* A sequence more is put after the others.
LEMMA FlattenMore ==
    ASSUME NEW S, NEW n \in Nat, NEW seqs \in [1..n -> Seq(S)], NEW s \in Seq(S)
    PROVE  FlattenSeq(Append(seqs, s)) = FlattenSeq(seqs) \o s
<1> DEFINE more == Append(seqs, s)
<1>1. more \in [1..(n + 1) -> Seq(S)] /\ (\A i \in 1..n : more[i] = seqs[i]) /\ more[n + 1] = s
  <2> DEFINE T == Seq(S)
  <2>0. seqs \in [1..n -> T] /\ s \in T
    OBVIOUS
  <2> HIDE DEF T
  <2>1. seqs \in Seq(T) /\ Len(seqs) = n
    BY <2>0
  <2>2. more \in Seq(T) /\ Len(more) = n + 1 /\ DOMAIN more = 1..(n + 1)
    BY <2>0, <2>1
  <2>3. (\A i \in 1..n : more[i] = seqs[i]) /\ more[n + 1] = s
    BY <2>0, <2>1
  <2> HIDE DEF more
  <2>4. more \in [1..(n + 1) -> T]
    BY <2>2
  <2> QED BY <2>3, <2>4 DEF T
<1>2. PICK f \in [0..n -> Seq(S)] : Joins(f, seqs, n) /\ FlattenSeq(seqs) = f[n]
  BY FlattenIs
<1> HIDE DEF more
<1>3. PICK g \in [0..(n + 1) -> Seq(S)] : Joins(g, more, n + 1) /\ FlattenSeq(more) = g[n + 1]
  <2>1. n + 1 \in Nat
    OBVIOUS
  <2> QED BY <1>1, <2>1, FlattenIs
<1> DEFINE Good == {k \in 0..n : g[k] = f[k]}
<1>4. 0 \in Good
  BY <1>2, <1>3 DEF Joins
<1>5. ASSUME NEW k \in 1..n, k - 1 \in Good PROVE k \in Good
  <2>1. k \in 0..n /\ k \in 1..(n + 1)
    OBVIOUS
  <2> QED BY <1>1, <1>2, <1>3, <1>5, <2>1 DEF Joins
<1>6. HandedOn(Good, n)
  BY <1>4, <1>5 DEF HandedOn
<1>7. 0..n \subseteq Good
  <2> HIDE DEF Good
  <2> QED BY <1>6, Along
<1>8. n \in 0..n /\ n + 1 \in 1..(n + 1) /\ (n + 1) - 1 = n
  OBVIOUS
<1>9. g[n + 1] = g[n] \o more[n + 1]
  BY <1>3, <1>8 DEF Joins
<1>10. g[n] = f[n]
  BY <1>7, <1>8
<1> QED
  BY <1>1, <1>2, <1>3, <1>9, <1>10 DEF more

\* A finite set is put into a sequence without repetition.
LEMMA Enumerated ==
    ASSUME NEW S, IsFiniteSet(S)
    PROVE  /\ Cardinality(S) \in Nat
           /\ SetToSeq(S) \in [1..Cardinality(S) -> S]
           /\ IsInjective(SetToSeq(S))
           /\ \A x \in S : \E i \in 1..Cardinality(S) : SetToSeq(S)[i] = x
<1>1. Cardinality(S) \in Nat /\ ExistsBijection(1..Cardinality(S), S)
  BY FS_CardinalityType
<1>2. \E f \in [1..Cardinality(S) -> S] : IsInjective(f)
  BY <1>1 DEF ExistsBijection, Bijection, Injection
<1> DEFINE f == SetToSeq(S)
<1>3. f \in [1..Cardinality(S) -> S] /\ IsInjective(f)
  BY <1>2 DEF SetToSeq
<1>4. f \in Injection(1..Cardinality(S), S)
  BY <1>3 DEF Injection
<1> HIDE DEF f
<1>5. Cardinality(1..Cardinality(S)) = Cardinality(S)
  BY <1>1, FS_Interval
<1>6. f \in Surjection(1..Cardinality(S), S)
  BY <1>4, <1>5, FS_Injection
<1>7. \A x \in S : \E i \in 1..Cardinality(S) : f[i] = x
  BY <1>6 DEF Surjection
<1> QED
  BY <1>1, <1>3, <1>7 DEF f

-----------------------------------------------------------------------------
(* Sums over sets are recursive functions: a solution of the recursion is      *)
(* given outright (a cardinality), and two solutions agree because a smallest  *)
(* set on which they differ would have a smaller one.                          *)

\* A family of finite sets that is not empty has a smallest member.
LEMMA Smallest ==
    ASSUME NEW F, F # {}, \A s \in F : IsFiniteSet(s)
    PROVE  \E s \in F : \A t \in F : Cardinality(s) <= Cardinality(t)
<1>1. {Cardinality(s) : s \in F} \in SUBSET Nat
  BY FS_CardinalityType
<1>2. PICK m \in {Cardinality(s) : s \in F} : \A x \in {Cardinality(s) : s \in F} : m <= x
  BY <1>1, LeastNat
<1> QED
  BY <1>2

\* What one step of the sum of F over a set is.
SumStep(F, w, s) == IF s = {} THEN 0 ELSE F[CHOOSE x \in s : TRUE] + w[s \ {CHOOSE x \in s : TRUE}]

Solves(w, F, S) == \A s \in SUBSET S : w[s] = SumStep(F, w, s)

\* Two solutions agree.
LEMMA SumUnique ==
    ASSUME NEW S, IsFiniteSet(S), NEW F, NEW v, NEW w,
           Solves(v, F, S), Solves(w, F, S)
    PROVE  \A s \in SUBSET S : v[s] = w[s]
<1> DEFINE Wrong == {s \in SUBSET S : v[s] # w[s]}
<1> SUFFICES ASSUME Wrong # {} PROVE FALSE
  OBVIOUS
<1>1. \A s \in Wrong : IsFiniteSet(s)
  BY FS_Subset
<1>2. PICK s \in Wrong : \A t \in Wrong : Cardinality(s) <= Cardinality(t)
  <2> HIDE DEF Wrong
  <2> QED BY <1>1, Smallest
<1>3. CASE s = {}
  BY <1>3, <1>2 DEF Solves, SumStep
<1>4. CASE s # {}
  <2> DEFINE x == CHOOSE x \in s : TRUE
  <2>1. x \in s
    BY <1>4
  <2> HIDE DEF x
  <2>2. Cardinality(s \ {x}) = Cardinality(s) - 1 /\ Cardinality(s) \in Nat
    BY <1>1, <2>1, FS_RemoveElement, FS_CardinalityType
  <2>3. s \ {x} \in SUBSET S /\ s \ {x} \notin Wrong
    <3>1. ASSUME s \ {x} \in Wrong PROVE FALSE
      <4>1. Cardinality(s) <= Cardinality(s \ {x})
        BY <3>1, <1>2
      <4> QED BY <4>1, <2>2
    <3> QED BY <3>1, <1>2
  <2>4. v[s \ {x}] = w[s \ {x}]
    BY <2>3
  <2>5. v[s] = F[x] + v[s \ {x}] /\ w[s] = F[x] + w[s \ {x}]
    BY <1>4, <1>2 DEF Solves, SumStep, x
  <2> QED BY <1>2, <2>4, <2>5
<1> QED BY <1>3, <1>4

\* The sum of F over S is what any solution says of S.
LEMMA SumIs ==
    ASSUME NEW S, IsFiniteSet(S), NEW F, NEW w, Solves(w, F, S)
    PROVE  SumFunctionOnSet(F, S) = w[S]
<1> DEFINE Body(g) == g = [s \in SUBSET S |-> SumStep(F, g, s)]
           v == [s \in SUBSET S |-> w[s]]
           it == CHOOSE g : Body(g)
<1>1. SumFunctionOnSet(F, S) = it[S]
  BY DEF SumFunctionOnSet, FoldFunctionOnSet, MapThenFoldSet, SumStep
<1>2. Body(v)
  <2>1. \A s \in SUBSET S : SumStep(F, w, s) = SumStep(F, v, s)
    BY DEF SumStep
  <2> QED BY <2>1 DEF Solves
<1> HIDE DEF Body
<1>3. Body(it)
  BY <1>2
<1>4. SUFFICES ASSUME NEW g, g = it, Body(g) PROVE g[S] = w[S]
  BY <1>1, <1>3
<1> HIDE DEF it
<1>5. Solves(g, F, S)
  BY <1>4 DEF Body, Solves
<1>6. \A s \in SUBSET S : g[s] = w[s]
  BY <1>5, SumUnique
<1> QED
  BY <1>6

\* F has the sizes of the finite sets in G, which have no elements in common.
Sizes(F, G, S) ==
    /\ \A x \in S : IsFiniteSet(G[x]) /\ F[x] = Cardinality(G[x])
    /\ \A x, y \in S : x # y => G[x] \cap G[y] = {}

\* The sum of the sizes is the size of the union.
LEMMA SumOfSizes ==
    ASSUME NEW S, IsFiniteSet(S), NEW F, NEW G, Sizes(F, G, S)
    PROVE  /\ IsFiniteSet(UNION {G[x] : x \in S})
           /\ SumFunctionOnSet(F, S) = Cardinality(UNION {G[x] : x \in S})
<1> DEFINE All(s) == UNION {G[x] : x \in s}
           w == [s \in SUBSET S |-> Cardinality(All(s))]
<1>0. /\ \A x \in S : IsFiniteSet(G[x]) /\ F[x] = Cardinality(G[x])
      /\ \A x, y \in S : x # y => G[x] \cap G[y] = {}
  BY DEF Sizes
<1>1. ASSUME NEW s \in SUBSET S PROVE IsFiniteSet(All(s))
  <2>1. IsFiniteSet(s)
    BY FS_Subset
  <2>2. IsFiniteSet({G[x] : x \in s})
    <3> DEFINE T == {G[x] : x \in s}
               h == [x \in s |-> G[x]]
    <3>1. h \in Surjection(s, T)
      BY DEF Surjection
    <3> HIDE DEF T, h
    <3>2. IsFiniteSet(T)
      BY <2>1, <3>1, FS_Surjection
    <3> QED BY <3>2 DEF T
  <2>3. \A g \in {G[x] : x \in s} : IsFiniteSet(g)
    BY <1>0
  <2> QED BY <2>2, <2>3, FS_UNION
<1>2. ASSUME NEW s \in SUBSET S PROVE w[s] = SumStep(F, w, s)
  <2>1. CASE s = {}
    <3>1. All({}) = {}
      OBVIOUS
    <3> QED BY <2>1, <3>1, FS_EmptySet DEF SumStep
  <2>2. CASE s # {}
    <3> DEFINE x == CHOOSE x \in s : TRUE
               rest == All(s \ {x})
    <3>1. x \in s
      BY <2>2
    <3> HIDE DEF x
    <3>2. All(s) = G[x] \cup rest /\ G[x] \cap rest = {} /\ s \ {x} \in SUBSET S
      BY <1>0, <3>1
    <3>3. IsFiniteSet(G[x]) /\ IsFiniteSet(rest) /\ F[x] = Cardinality(G[x])
      BY <1>0, <1>1, <3>1, <3>2
    <3>4. w[s] = Cardinality(All(s)) /\ w[s \ {x}] = Cardinality(rest)
      BY <3>2
    <3> HIDE DEF All, rest, w
    <3>5. Cardinality(G[x] \cup rest) = Cardinality(G[x]) + Cardinality(rest) - Cardinality({})
      BY <3>2, <3>3, FS_Union
    <3>6. Cardinality(G[x]) \in Nat /\ Cardinality(rest) \in Nat /\ Cardinality({}) = 0
      BY <3>3, FS_CardinalityType, FS_EmptySet
    <3>7. w[s] = F[x] + w[s \ {x}]
      BY <3>2, <3>3, <3>4, <3>5, <3>6
    <3> QED BY <2>2, <3>7 DEF SumStep, x
  <2> QED BY <2>1, <2>2
<1>3. w[S] = Cardinality(All(S)) /\ IsFiniteSet(All(S))
  BY <1>1
<1>4. Solves(w, F, S)
  BY <1>2 DEF Solves
<1> HIDE DEF w
<1>5. SumFunctionOnSet(F, S) = w[S]
  BY <1>4, SumIs
<1> QED
  BY <1>3, <1>5

-----------------------------------------------------------------------------
(* Pieces of a sequence *)

\* Two sequences that say the same are one.
LEMMA Extensional ==
    ASSUME NEW S, NEW s \in Seq(S), NEW t \in Seq(S), Len(s) = Len(t),
           \A i \in 1..Len(s) : s[i] = t[i]
    PROVE  s = t
OBVIOUS

\* A piece of a text.
LEMMA PieceHas ==
    ASSUME NEW S, NEW T \in Seq(S), NEW i \in 1..(Len(T) + 1), NEW j \in 0..Len(T), i <= j + 1
    PROVE  /\ SubSeq(T, i, j) \in Seq(S) /\ Len(SubSeq(T, i, j)) = j + 1 - i
           /\ \A x \in 1..(j + 1 - i) : SubSeq(T, i, j)[x] = T[i + x - 1]
<1> DEFINE n == Len(T)
<1>1. n \in Nat
  OBVIOUS
<1>2. \A x \in i..j : x \in DOMAIN T
  OBVIOUS
<1> QED
  BY <1>1, <1>2

\* Pieces one after the other are a piece.
LEMMA Adjacent ==
    ASSUME NEW S, NEW T \in Seq(S), NEW i \in 1..(Len(T) + 1), NEW j \in 0..Len(T), NEW k \in 0..Len(T),
           i <= j + 1, j <= k
    PROVE  SubSeq(T, i, j) \o SubSeq(T, j + 1, k) = SubSeq(T, i, k)
<1> DEFINE a == SubSeq(T, i, j)
           b == SubSeq(T, j + 1, k)
           c == SubSeq(T, i, k)
<1>0. Len(T) \in Nat /\ j + 1 \in 1..(Len(T) + 1) /\ i <= k + 1 /\ j + 1 <= k + 1
  OBVIOUS
<1>1. a \in Seq(S) /\ Len(a) = j + 1 - i /\ \A x \in 1..(j + 1 - i) : a[x] = T[i + x - 1]
  BY <1>0, PieceHas
<1>2. b \in Seq(S) /\ Len(b) = k + 1 - (j + 1) /\ \A x \in 1..(k + 1 - (j + 1)) : b[x] = T[(j + 1) + x - 1]
  BY <1>0, PieceHas
<1>3. c \in Seq(S) /\ Len(c) = k + 1 - i /\ \A x \in 1..(k + 1 - i) : c[x] = T[i + x - 1]
  BY <1>0, PieceHas
<1> HIDE DEF a, b, c
<1>4. /\ a \o b \in Seq(S) /\ DOMAIN a = 1..(j + 1 - i) /\ DOMAIN b = 1..(k - j)
      /\ DOMAIN (a \o b) = 1..(k + 1 - i) /\ Len(a \o b) = k + 1 - i
  <2>1. a \o b \in Seq(S) /\ Len(a \o b) = Len(a) + Len(b) /\ DOMAIN a = 1..Len(a) /\ DOMAIN b = 1..Len(b)
        /\ DOMAIN (a \o b) = 1..Len(a \o b)
    <3>1. a \in Seq(S) /\ b \in Seq(S)
      BY <1>1, <1>2
    <3> QED BY <3>1
  <2>2. Len(a) + Len(b) = k + 1 - i /\ k + 1 - (j + 1) = k - j
    BY <1>0, <1>1, <1>2
  <2> QED BY <1>1, <1>2, <2>1, <2>2
<1>5. ASSUME NEW x \in 1..(k + 1 - i) PROVE (a \o b)[x] = c[x]
  <2>1. \/ x \in DOMAIN a /\ (a \o b)[x] = a[x]
        \/ \E y \in DOMAIN b : x = Len(a) + y /\ (a \o b)[x] = b[y]
    <3>1. a \in Seq(S) /\ b \in Seq(S) /\ x \in DOMAIN (a \o b)
      BY <1>1, <1>2, <1>4
    <3> QED BY <3>1, InARow
  <2>2. CASE x \in DOMAIN a /\ (a \o b)[x] = a[x]
    BY <1>1, <1>3, <1>4, <2>2
  <2>3. ASSUME NEW y \in DOMAIN b, x = Len(a) + y, (a \o b)[x] = b[y] PROVE (a \o b)[x] = c[x]
    <3>1. y \in 1..(k + 1 - (j + 1)) /\ (j + 1) + y - 1 = i + x - 1
      BY <1>0, <1>1, <1>4, <2>3
    <3> QED BY <1>2, <1>3, <2>3, <3>1
  <2> QED BY <2>1, <2>2, <2>3
<1>6. a \o b = c
  <2> DEFINE ab == a \o b
  <2>1. ab \in Seq(S) /\ Len(ab) = Len(c) /\ \A x \in 1..Len(ab) : ab[x] = c[x]
    BY <1>3, <1>4, <1>5
  <2> HIDE DEF ab
  <2>2. ab = c
    BY <1>3, <2>1, Extensional
  <2> QED BY <2>2 DEF ab
<1> QED
  BY <1>6 DEF a, b, c

\* A piece of a piece is a piece.
LEMMA Within ==
    ASSUME NEW S, NEW T \in Seq(S), NEW i \in 1..(Len(T) + 1), NEW j \in 0..Len(T), i <= j + 1,
           NEW a \in 1..(j + 2 - i), NEW b \in 0..(j + 1 - i), a <= b + 1
    PROVE  SubSeq(SubSeq(T, i, j), a, b) = SubSeq(T, i + a - 1, i + b - 1)
<1> DEFINE s == SubSeq(T, i, j)
           t == SubSeq(s, a, b)
           u == SubSeq(T, i + a - 1, i + b - 1)
<1>0. Len(T) \in Nat /\ i + a - 1 \in 1..(Len(T) + 1) /\ i + b - 1 \in 0..Len(T) /\ i + a - 1 <= i + b - 1 + 1
  OBVIOUS
<1>1. s \in Seq(S) /\ Len(s) = j + 1 - i /\ \A x \in 1..(j + 1 - i) : s[x] = T[i + x - 1]
  BY PieceHas
<1>2. u \in Seq(S) /\ Len(u) = i + b - 1 + 1 - (i + a - 1)
      /\ \A x \in 1..(i + b - 1 + 1 - (i + a - 1)) : u[x] = T[i + a - 1 + x - 1]
  BY <1>0, PieceHas
<1> HIDE DEF s, u
<1>3. t \in Seq(S) /\ Len(t) = b + 1 - a /\ \A x \in 1..(b + 1 - a) : t[x] = s[a + x - 1]
  <2>1. a \in 1..(Len(s) + 1) /\ b \in 0..Len(s)
    BY <1>1
  <2> QED BY <1>1, <2>1, PieceHas
<1> HIDE DEF t
<1>4. Len(t) = Len(u) /\ Len(u) = b + 1 - a
  BY <1>0, <1>2, <1>3
<1>5. ASSUME NEW x \in 1..Len(t) PROVE t[x] = u[x]
  <2>1. /\ x \in 1..(b + 1 - a) /\ a + x - 1 \in 1..(j + 1 - i) /\ i + (a + x - 1) - 1 = i + a - 1 + x - 1
        /\ x \in 1..(i + b - 1 + 1 - (i + a - 1))
    BY <1>4
  <2> QED BY <1>1, <1>2, <1>3, <2>1
<1>6. t = u
  BY <1>2, <1>3, <1>4, <1>5, Extensional
<1> QED
  BY <1>6 DEF s, t, u

\* Along the table of a fold.
LEMMA FoldAlong ==
    ASSUME NEW n \in Nat, NEW w, NEW op, NEW base, NEW seq, NEW acc, FoldTable(w, op, base, seq, acc, n)
    PROVE  \E h \in [0..n -> acc] :
              h[0] = base /\ h[n] = w[1..n] /\ \A i \in 1..n : h[i] = op[<<h[i - 1], seq[i]>>]
<1> DEFINE h == [i \in 0..n |-> w[1..i]]
<1>1. /\ w[1..0] = base
      /\ \A i \in 1..n : w[1..i] = op[<<w[1..(i - 1)], seq[i]>>] /\ w[1..(i - 1)] \in acc
      /\ w[1..n] \in acc
  BY FoldPrefix
<1>2. h \in [0..n -> acc]
  <2>1. ASSUME NEW i \in 0..n PROVE 1..i \in SUBSET (1..n)
    OBVIOUS
  <2> QED BY <2>1 DEF FoldTable
<1>3. ASSUME NEW i \in 1..n PROVE h[i] = op[<<h[i - 1], seq[i]>>]
  <2>1. i \in 0..n /\ i - 1 \in 0..n
    OBVIOUS
  <2> QED BY <1>1, <2>1
<1>4. h[0] = base /\ h[n] = w[1..n]
  BY <1>1
<1> HIDE DEF h
<1> QED
  BY <1>2, <1>3, <1>4

-----------------------------------------------------------------------------
(* A text in pieces *)

\* Where the pieces begin and end: each begins where the ones before it end or a little
\* earlier, and none begins or ends before the one before it.
InPlace(over, p, st, en) ==
    /\ \A k \in 1..p : /\ st[k] <= en[k - 1] + 1 /\ en[k - 1] + 1 <= st[k] + over
                       /\ en[k - 1] <= en[k]
    /\ \A j, k \in 1..p : j < k => st[j] <= st[k] /\ en[j] <= en[k]

\* cs is T after place a, up to place e, in pieces of at most limit that repeat at most over
\* of what is before them; none begins after place l.
PiecesAt(T, over, limit, cs, a, l, e, p, st, en) ==
    /\ p \in Nat /\ st \in [1..p -> (a + 1)..l] /\ en \in [0..p -> a..e]
    /\ InPlace(over, p, st, en) /\ en[0] = a /\ en[p] = e
    /\ cs = [k \in 1..p |-> SubSeq(T, st[k], en[k])]
    /\ \A k \in 1..p : en[k] + 1 <= st[k] + limit
InPieces(T, over, limit, cs, a, l, e) ==
    \E p, st, en : PiecesAt(T, over, limit, cs, a, l, e, p, st, en)

LEMMA PiecesNone ==
    ASSUME NEW T, NEW over \in Nat, NEW limit \in Nat, NEW a \in Nat, NEW l \in Nat
    PROVE  InPieces(T, over, limit, <<>>, a, l, a)
<1> DEFINE st == [k \in 1..0 |-> 0]
           en == [k \in 0..0 |-> a]
<1>1. 0 \in Nat /\ st \in [1..0 -> (a + 1)..l] /\ en \in [0..0 -> a..a]
  OBVIOUS
<1>2. InPlace(over, 0, st, en) /\ en[0] = a /\ <<>> = [k \in 1..0 |-> SubSeq(T, st[k], en[k])]
  BY DEF InPlace
<1>3. \A k \in 1..0 : en[k] + 1 <= st[k] + limit
  OBVIOUS
<1> HIDE DEF st, en
<1> QED
  BY <1>1, <1>2, <1>3 DEF InPieces, PiecesAt

LEMMA PiecesAre ==
    ASSUME NEW S, NEW T \in Seq(S), NEW over \in Nat, NEW limit \in Nat, NEW cs,
           NEW a \in Nat, NEW l \in Nat, NEW e \in 0..Len(T), InPieces(T, over, limit, cs, a, l, e)
    PROVE  /\ cs \in Seq(Seq(S)) /\ Len(cs) \in Nat /\ DOMAIN cs = 1..Len(cs) /\ a <= e
           /\ \A k \in 1..Len(cs) : Len(cs[k]) <= limit
<1>0. PICK p, st, en : PiecesAt(T, over, limit, cs, a, l, e, p, st, en)
  BY DEF InPieces
<1>1. /\ p \in Nat /\ st \in [1..p -> (a + 1)..l] /\ en \in [0..p -> a..e]
      /\ InPlace(over, p, st, en) /\ en[0] = a /\ en[p] = e
      /\ cs = [k \in 1..p |-> SubSeq(T, st[k], en[k])]
      /\ \A k \in 1..p : en[k] + 1 <= st[k] + limit
  BY <1>0 DEF PiecesAt
<1>2. Len(T) \in Nat
  OBVIOUS
<1>3. ASSUME NEW k \in 1..p PROVE cs[k] \in Seq(S) /\ Len(cs[k]) <= limit
  <2>1. k \in 0..p /\ k - 1 \in 0..p
    BY <1>1
  <2>2. st[k] \in (a + 1)..l /\ en[k] \in a..e /\ en[k - 1] \in a..e
    BY <1>1, <2>1
  <2>3. st[k] <= en[k - 1] + 1 /\ en[k - 1] <= en[k] /\ en[k] + 1 <= st[k] + limit
    BY <1>1 DEF InPlace
  <2> DEFINE x == st[k]
             y == en[k]
             z == en[k - 1]
             n == Len(T)
  <2>5. cs[k] = SubSeq(T, x, y)
    BY <1>1
  <2>7. n \in Nat /\ e \in 0..n /\ x \in (a + 1)..l /\ y \in a..e /\ z \in a..e
        /\ x <= z + 1 /\ z <= y /\ y + 1 <= x + limit
    BY <1>2, <2>2, <2>3
  <2> HIDE DEF x, y, z, n
  <2>8. x \in 1..(n + 1) /\ y \in 0..n /\ x <= y + 1 /\ y + 1 - x <= limit
    BY <2>7
  <2>4. x \in 1..(Len(T) + 1) /\ y \in 0..Len(T) /\ x <= y + 1 /\ y + 1 - x <= limit
    BY <2>8 DEF n
  <2>6. SubSeq(T, x, y) \in Seq(S) /\ Len(SubSeq(T, x, y)) = y + 1 - x
    BY <2>4, PieceHas
  <2> QED BY <2>4, <2>5, <2>6
<1>4. cs \in Seq(Seq(S)) /\ Len(cs) = p /\ DOMAIN cs = 1..p
  <2> DEFINE Q == Seq(S)
  <2>1. cs \in [1..p -> Q]
    BY <1>1, <1>3
  <2> HIDE DEF Q
  <2>2. cs \in Seq(Q) /\ Len(cs) = p
    BY <1>1, <2>1, IsSequence
  <2> QED BY <2>1, <2>2 DEF Q
<1>5. a <= e
  BY <1>1
<1> QED
  BY <1>3, <1>4, <1>5

LEMMA PiecesMore ==
    ASSUME NEW S, NEW T \in Seq(S), NEW over \in Nat, NEW limit \in Nat, NEW cs,
           NEW a \in Nat, NEW l \in Nat, NEW b \in 0..Len(T), InPieces(T, over, limit, cs, a, l, b),
           NEW s \in Nat, NEW e \in 0..Len(T),
           l <= s, a < s, s <= b + 1, b + 1 <= s + over, b <= e, e + 1 <= s + limit
    PROVE  InPieces(T, over, limit, Append(cs, SubSeq(T, s, e)), a, s, e)
<1>0. PICK p, st, en : PiecesAt(T, over, limit, cs, a, l, b, p, st, en)
  BY DEF InPieces
<1>1. /\ p \in Nat /\ st \in [1..p -> (a + 1)..l] /\ en \in [0..p -> a..b]
      /\ InPlace(over, p, st, en) /\ en[0] = a /\ en[p] = b
      /\ cs = [k \in 1..p |-> SubSeq(T, st[k], en[k])]
      /\ \A k \in 1..p : en[k] + 1 <= st[k] + limit
  BY <1>0 DEF PiecesAt
<1> DEFINE q == p + 1
           st2 == [k \in 1..q |-> IF k = q THEN s ELSE st[k]]
           en2 == [k \in 0..q |-> IF k = q THEN e ELSE en[k]]
<1>2. q \in Nat /\ q # 0 /\ q \in 1..q /\ \A k \in 1..q : k # q => k \in 1..p
  BY <1>1
<1>3. st2 \in [1..q -> (a + 1)..s] /\ en2 \in [0..q -> a..e]
  <2>1. ASSUME NEW k \in 1..q PROVE st2[k] \in (a + 1)..s
    <3>1. CASE k = q
      BY <3>1
    <3>2. CASE k # q
      <4>1. st[k] \in (a + 1)..l
        BY <1>1, <1>2, <3>2
      <4> QED BY <3>2, <4>1
    <3> QED BY <3>1, <3>2
  <2>2. ASSUME NEW k \in 0..q PROVE en2[k] \in a..e
    <3>1. CASE k = q
      BY <1>1, <3>1
    <3>2. CASE k # q
      <4>1. en[k] \in a..b
        BY <1>1, <3>2
      <4> QED BY <3>2, <4>1
    <3> QED BY <3>1, <3>2
  <2> QED BY <2>1, <2>2
<1>4. /\ st2[q] = s /\ en2[q] = e /\ en2[q - 1] = b /\ en2[0] = a
      /\ \A k \in 1..p : st2[k] = st[k] /\ en2[k] = en[k] /\ en2[k - 1] = en[k - 1]
  <2>1. q \in 1..q /\ q \in 0..q /\ p \in 0..q /\ p # q /\ q - 1 = p /\ 0 \in 0..q /\ 0 # q
    BY <1>1
  <2>2. \A k \in 1..p : k \in 1..q /\ k \in 0..q /\ k # q /\ k - 1 \in 0..q /\ k - 1 # q
    BY <1>1
  <2> HIDE DEF q
  <2> QED BY <1>1, <2>1, <2>2
<1> HIDE DEF st2, en2
<1>5. InPlace(over, q, st2, en2)
  <2>1. ASSUME NEW k \in 1..q
        PROVE  /\ st2[k] <= en2[k - 1] + 1 /\ en2[k - 1] + 1 <= st2[k] + over
               /\ en2[k - 1] <= en2[k]
    <3>1. CASE k = q
      BY <1>4, <3>1
    <3>2. CASE k # q
      BY <1>1, <1>2, <1>4, <3>2 DEF InPlace
    <3> QED BY <3>1, <3>2
  <2>2. ASSUME NEW j \in 1..q, NEW k \in 1..q, j < k PROVE st2[j] <= st2[k] /\ en2[j] <= en2[k]
    <3>1. j \in 1..p
      BY <1>1, <2>2
    <3>2. CASE k = q
      <4>1. st[j] \in (a + 1)..l /\ en[j] \in a..b
        BY <1>1, <3>1
      <4> QED BY <1>4, <3>1, <3>2, <4>1
    <3>3. CASE k # q
      BY <1>1, <1>2, <1>4, <2>2, <3>1, <3>3 DEF InPlace
    <3> QED BY <3>2, <3>3
  <2> QED BY <2>1, <2>2 DEF InPlace
<1>6. Append(cs, SubSeq(T, s, e)) = [k \in 1..q |-> SubSeq(T, st2[k], en2[k])]
  <2> DEFINE c == Append(cs, SubSeq(T, s, e))
             d == [k \in 1..q |-> SubSeq(T, st2[k], en2[k])]
  <2>1. cs \in Seq(Seq(S)) /\ Len(cs) = p /\ \A k \in 1..p : cs[k] = SubSeq(T, st[k], en[k])
    <3>1. cs \in Seq(Seq(S)) /\ Len(cs) \in Nat /\ DOMAIN cs = 1..Len(cs)
      BY PiecesAre, Zenon
    <3>2. DOMAIN cs = 1..p /\ \A k \in 1..p : cs[k] = SubSeq(T, st[k], en[k])
      BY <1>1
    <3>3. \A m, n \in Nat : 1..m = 1..n => m = n
      OBVIOUS
    <3>4. Len(cs) = p
      BY <1>1, <3>1, <3>2, <3>3, Zenon
    <3> QED BY <3>1, <3>2, <3>4
  <2>2. SubSeq(T, s, e) \in Seq(S)
    <3>1. Len(T) \in Nat
      OBVIOUS
    <3>2. s \in 1..(Len(T) + 1) /\ s <= e + 1
      BY <3>1
    <3> QED BY <3>2, PieceHas
  <2>3. DOMAIN c = 1..q /\ c[q] = SubSeq(T, s, e) /\ \A k \in 1..p : c[k] = cs[k]
    <3> DEFINE Q == Seq(S)
               t == SubSeq(T, s, e)
    <3>1. cs \in Seq(Q) /\ t \in Q
      BY <2>1, <2>2
    <3> HIDE DEF Q, t
    <3> QED BY <2>1, <3>1, OneMore DEF t
  <2>4. c = [k \in 1..q |-> c[k]]
    <3> DEFINE Q == Seq(S)
               t == SubSeq(T, s, e)
    <3>1. cs \in Seq(Q) /\ t \in Q
      BY <2>1, <2>2
    <3> HIDE DEF Q, t
    <3>2. Append(cs, t) = [k \in DOMAIN Append(cs, t) |-> Append(cs, t)[k]]
      <4> DEFINE both == Append(cs, t)
      <4>1. both \in Seq(Q)
        BY <3>1
      <4> HIDE DEF both
      <4>2. both \in [1..Len(both) -> Q]
        BY <4>1, SequenceIs
      <4>3. both = [k \in DOMAIN both |-> both[k]]
        BY <4>2
      <4> QED BY <4>3 DEF both
    <3> QED BY <2>3, <3>2 DEF t
  <2>5. \A k \in 1..q : c[k] = SubSeq(T, st2[k], en2[k])
    BY <1>2, <1>4, <2>1, <2>3
  <2> QED BY <2>4, <2>5
<1>7. \A k \in 1..q : en2[k] + 1 <= st2[k] + limit
  BY <1>1, <1>2, <1>4
<1> HIDE DEF q
<1> QED
  BY <1>2, <1>3, <1>4, <1>5, <1>6, <1>7 DEF InPieces, PiecesAt

\* What the pieces of a text are, and how many.
LEMMA PiecesSay ==
    ASSUME NEW S, NEW T \in Seq(S), NEW over \in Nat, NEW limit \in Nat, NEW cs,
           NEW a \in Nat, NEW l \in Nat, NEW e \in 0..Len(T), InPieces(T, over, limit, cs, a, l, e)
    PROVE  \E st, en : PiecesAt(T, over, limit, cs, a, l, e, Len(cs), st, en)
<1>1. PICK p, st, en : PiecesAt(T, over, limit, cs, a, l, e, p, st, en)
  BY DEF InPieces
<1>2. Len(cs) \in Nat /\ DOMAIN cs = 1..Len(cs)
  BY PiecesAre, Zenon
<1>3. DOMAIN cs = 1..p /\ p \in Nat
  BY <1>1 DEF PiecesAt
<1>4. \A m, n \in Nat : 1..m = 1..n => m = n
  OBVIOUS
<1>5. p = Len(cs)
  BY <1>2, <1>3, <1>4, Zenon
<1> QED
  BY <1>1, <1>5

LEMMA PiecesJoin ==
    ASSUME NEW S, NEW T \in Seq(S), NEW over \in Nat, NEW limit \in Nat, NEW cs, NEW ds,
           NEW a \in Nat, NEW l \in Nat, NEW b \in 0..Len(T), InPieces(T, over, limit, cs, a, l, b),
           NEW m \in Nat, NEW e \in 0..Len(T), InPieces(T, over, limit, ds, b, m, e)
    PROVE  InPieces(T, over, limit, cs \o ds, a, e + 1, e)
<1> DEFINE p == Len(cs)
           q == Len(ds)
<1>1. /\ cs \in Seq(Seq(S)) /\ p \in Nat /\ DOMAIN cs = 1..p /\ a <= b
      /\ ds \in Seq(Seq(S)) /\ q \in Nat /\ DOMAIN ds = 1..q /\ b <= e
  <2>1. cs \in Seq(Seq(S)) /\ Len(cs) \in Nat /\ DOMAIN cs = 1..Len(cs) /\ a <= b
    BY PiecesAre, Zenon
  <2>2. ds \in Seq(Seq(S)) /\ Len(ds) \in Nat /\ DOMAIN ds = 1..Len(ds) /\ b <= e
    <3>1. b \in Nat
      OBVIOUS
    <3> QED BY <3>1, PiecesAre, Zenon
  <2> QED BY <2>1, <2>2
<1>2. PICK sc, ec : PiecesAt(T, over, limit, cs, a, l, b, p, sc, ec)
  BY PiecesSay
<1>3. PICK sd, ed : PiecesAt(T, over, limit, ds, b, m, e, q, sd, ed)
  <2>1. b \in Nat
    OBVIOUS
  <2> QED BY <2>1, PiecesSay
<1> DEFINE st == [k \in 1..(p + q) |-> IF k <= p THEN sc[k] ELSE sd[k - p]]
           en == [k \in 0..(p + q) |-> IF k <= p THEN ec[k] ELSE ed[k - p]]
<1>4. cs \o ds = [k \in 1..(p + q) |-> SubSeq(T, st[k], en[k])]
  <2> DEFINE Q == Seq(S)
             both == cs \o ds
             all == [k \in 1..(p + q) |-> SubSeq(T, st[k], en[k])]
  <2>0. \A k \in 1..p : cs[k] = SubSeq(T, sc[k], ec[k])
    BY <1>2 DEF PiecesAt
  <2>00. \A k \in 1..q : ds[k] = SubSeq(T, sd[k], ed[k])
    BY <1>3 DEF PiecesAt
  <2>1. cs \in Seq(Q) /\ ds \in Seq(Q) /\ p \in Nat /\ q \in Nat
    BY <1>1
  <2>2. DOMAIN cs = 1..p /\ DOMAIN ds = 1..q /\ Len(cs) = p
    BY <1>1
  <2> HIDE DEF Q, p, q
  <2>3. /\ both \in Seq(Q) /\ DOMAIN both = 1..(p + q)
        /\ \A k \in 1..(p + q) :
              \/ k \in 1..p /\ both[k] = cs[k]
              \/ \E j \in 1..q : k = p + j /\ both[k] = ds[j]
    BY <2>1, <2>2, InARow DEF p, q
  <2>4. ASSUME NEW k \in 1..(p + q) PROVE both[k] = all[k]
    <3> HIDE DEF both
    <3>1. CASE k \in 1..p /\ both[k] = cs[k]
      <4>1. st[k] = sc[k] /\ en[k] = ec[k]
        BY <2>1, <3>1
      <4> QED BY <2>0, <3>1, <4>1
    <3>2. ASSUME NEW j \in 1..q, k = p + j, both[k] = ds[j] PROVE both[k] = all[k]
      <4>1. ~(k <= p) /\ k - p = j
        BY <2>1, <3>2
      <4>2. st[k] = sd[j] /\ en[k] = ed[j]
        BY <4>1
      <4> QED BY <2>00, <3>2, <4>2
    <3> QED BY <2>3, <3>1, <3>2
  <2>6. all = [k \in 1..(p + q) |-> all[k]]
    <3> HIDE DEF st, en
    <3> QED OBVIOUS
  <2> HIDE DEF both, all
  <2>5. both = [k \in DOMAIN both |-> both[k]]
    <3>1. both \in [1..Len(both) -> Q]
      BY <2>3, SequenceIs
    <3> QED BY <3>1
  <2>7. both = all
    BY <2>3, <2>4, <2>5, <2>6
  <2> QED BY <2>7 DEF both, all
<1> HIDE DEF p, q
<1>5. /\ p \in Nat /\ sc \in [1..p -> (a + 1)..l] /\ ec \in [0..p -> a..b]
      /\ InPlace(over, p, sc, ec) /\ ec[0] = a /\ ec[p] = b
      /\ \A k \in 1..p : ec[k] + 1 <= sc[k] + limit
  BY <1>2 DEF PiecesAt
<1>6. /\ q \in Nat /\ sd \in [1..q -> (b + 1)..m] /\ ed \in [0..q -> b..e]
      /\ InPlace(over, q, sd, ed) /\ ed[0] = b /\ ed[q] = e
      /\ \A k \in 1..q : ed[k] + 1 <= sd[k] + limit
  BY <1>3 DEF PiecesAt
<1>7. a \in Nat /\ b \in Nat /\ e \in Nat /\ a <= b /\ b <= e
  BY <1>1
<1>8. ASSUME NEW k \in 1..p
      PROVE  /\ sc[k] \in Nat /\ ec[k] \in Nat /\ ec[k - 1] \in Nat /\ sc[k] >= a + 1 /\ sc[k] <= b + 1
             /\ ec[k] <= b /\ ec[k] >= a /\ ec[k - 1] >= a
             /\ sc[k] <= ec[k - 1] + 1 /\ ec[k - 1] + 1 <= sc[k] + over /\ ec[k - 1] <= ec[k]
  <2>1. sc[k] \in (a + 1)..l /\ ec[k] \in a..b /\ ec[k - 1] \in a..b
    BY <1>5
  <2>2. sc[k] <= ec[k - 1] + 1 /\ ec[k - 1] + 1 <= sc[k] + over /\ ec[k - 1] <= ec[k]
    BY <1>5 DEF InPlace
  <2> DEFINE x == sc[k]
             y == ec[k]
             z == ec[k - 1]
  <2>3. /\ x \in (a + 1)..l /\ y \in a..b /\ z \in a..b
        /\ x <= z + 1 /\ z + 1 <= x + over /\ z <= y
    BY <2>1, <2>2
  <2> HIDE DEF x, y, z
  <2>4. /\ x \in Nat /\ y \in Nat /\ z \in Nat /\ x >= a + 1 /\ x <= b + 1 /\ y <= b /\ y >= a /\ z >= a
    BY <1>7, <2>3
  <2> QED BY <2>3, <2>4 DEF x, y, z
<1>9. ASSUME NEW k \in 1..q
      PROVE  /\ sd[k] \in Nat /\ ed[k] \in Nat /\ ed[k - 1] \in Nat /\ sd[k] >= b + 1 /\ sd[k] <= e + 1
             /\ ed[k] <= e /\ ed[k] >= b /\ ed[k - 1] >= b
             /\ sd[k] <= ed[k - 1] + 1 /\ ed[k - 1] + 1 <= sd[k] + over /\ ed[k - 1] <= ed[k]
  <2>1. sd[k] \in (b + 1)..m /\ ed[k] \in b..e /\ ed[k - 1] \in b..e
    BY <1>6
  <2>2. sd[k] <= ed[k - 1] + 1 /\ ed[k - 1] + 1 <= sd[k] + over /\ ed[k - 1] <= ed[k]
    BY <1>6 DEF InPlace
  <2> DEFINE x == sd[k]
             y == ed[k]
             z == ed[k - 1]
  <2>3. /\ x \in (b + 1)..m /\ y \in b..e /\ z \in b..e
        /\ x <= z + 1 /\ z + 1 <= x + over /\ z <= y
    BY <2>1, <2>2
  <2> HIDE DEF x, y, z
  <2>4. /\ x \in Nat /\ y \in Nat /\ z \in Nat /\ x >= b + 1 /\ x <= e + 1 /\ y <= e /\ y >= b /\ z >= b
    BY <1>7, <2>3
  <2> QED BY <2>3, <2>4 DEF x, y, z
<1>10. /\ \A k \in 1..p : k \in 1..(p + q) /\ st[k] = sc[k] /\ en[k] = ec[k] /\ en[k - 1] = ec[k - 1]
       /\ \A k \in 1..q : /\ p + k \in 1..(p + q) /\ st[p + k] = sd[k] /\ en[p + k] = ed[k]
                          /\ en[(p + k) - 1] = ed[k - 1]
       /\ en[0] = a /\ en[p + q] = e
       /\ \A k \in 1..(p + q) : k \in 1..p \/ \E j \in 1..q : k = p + j
  <2>1. ASSUME NEW k \in 1..p PROVE k \in 1..(p + q) /\ st[k] = sc[k] /\ en[k] = ec[k] /\ en[k - 1] = ec[k - 1]
    BY <1>5, <1>6
  <2>2. ASSUME NEW k \in 1..q
        PROVE  /\ p + k \in 1..(p + q) /\ st[p + k] = sd[k] /\ en[p + k] = ed[k]
               /\ en[(p + k) - 1] = ed[k - 1]
    <3>1. p + k \in 1..(p + q) /\ ~(p + k <= p) /\ (p + k) - p = k /\ p + k \in 0..(p + q) /\ (p + k) - 1 \in 0..(p + q)
      BY <1>5, <1>6
    <3>2. CASE k = 1
      <4>1. en[(p + k) - 1] = ec[p]
        BY <1>5, <1>6, <3>2
      <4> QED BY <1>5, <1>6, <3>1, <3>2, <4>1
    <3>3. CASE k # 1
      <4>1. ~((p + k) - 1 <= p) /\ ((p + k) - 1) - p = k - 1
        BY <1>5, <1>6, <3>3
      <4> QED BY <3>1, <4>1
    <3> QED BY <3>2, <3>3
  <2>3. en[0] = a
    BY <1>5, <1>6
  <2>4. en[p + q] = e
    <3>1. CASE q = 0
      BY <1>5, <1>6, <3>1
    <3>2. CASE q # 0
      BY <1>5, <1>6, <3>2
    <3> QED BY <3>1, <3>2
  <2>5. ASSUME NEW k \in 1..(p + q) PROVE k \in 1..p \/ \E j \in 1..q : k = p + j
    <3>1. CASE k > p
      <4>1. k - p \in 1..q /\ k = p + (k - p)
        BY <1>5, <1>6, <3>1
      <4> QED BY <4>1
    <3>2. CASE k <= p
      BY <1>5, <1>6, <3>2
    <3> QED BY <1>5, <1>6, <3>1, <3>2
  <2> QED BY <2>1, <2>2, <2>3, <2>4, <2>5
<1>11. st \in [1..(p + q) -> (a + 1)..(e + 1)] /\ en \in [0..(p + q) -> a..e]
  <2>1. ASSUME NEW k \in 1..(p + q) PROVE st[k] \in (a + 1)..(e + 1) /\ en[k] \in a..e
    <3> HIDE DEF st, en
    <3>1. CASE k \in 1..p
      <4> DEFINE x == st[k]
                 y == en[k]
      <4>1. x \in Nat /\ y \in Nat /\ x >= a + 1 /\ x <= b + 1 /\ y >= a /\ y <= b
        BY <1>8, <1>10, <3>1
      <4> HIDE DEF x, y
      <4>2. x \in (a + 1)..(e + 1) /\ y \in a..e
        BY <1>7, <4>1
      <4> QED BY <4>2 DEF x, y
    <3>2. ASSUME NEW j \in 1..q, k = p + j PROVE st[k] \in (a + 1)..(e + 1) /\ en[k] \in a..e
      <4> DEFINE x == st[k]
                 y == en[k]
      <4>1. x \in Nat /\ y \in Nat /\ x >= b + 1 /\ x <= e + 1 /\ y >= b /\ y <= e
        BY <1>9, <1>10, <3>2
      <4> HIDE DEF x, y
      <4>2. x \in (a + 1)..(e + 1) /\ y \in a..e
        BY <1>7, <4>1
      <4> QED BY <4>2 DEF x, y
    <3> QED BY <1>10, <3>1, <3>2
  <2>2. \A k \in 0..(p + q) : k = 0 \/ k \in 1..(p + q)
    BY <1>5, <1>6
  <2>3. \A k \in 0..(p + q) : en[k] \in a..e
    <3> HIDE DEF en
    <3> QED BY <1>7, <1>10, <2>1, <2>2
  <2> QED BY <2>1, <2>3
<1> HIDE DEF st, en
<1>12. InPlace(over, p + q, st, en)
  <2>1. ASSUME NEW k \in 1..(p + q)
        PROVE  st[k] <= en[k - 1] + 1 /\ en[k - 1] + 1 <= st[k] + over /\ en[k - 1] <= en[k]
    <3>1. CASE k \in 1..p
      BY <1>8, <1>10, <3>1
    <3>2. ASSUME NEW j \in 1..q, k = p + j
          PROVE  st[k] <= en[k - 1] + 1 /\ en[k - 1] + 1 <= st[k] + over /\ en[k - 1] <= en[k]
      <4>1. st[k] = sd[j] /\ en[k] = ed[j] /\ en[k - 1] = ed[j - 1]
        BY <1>10, <3>2
      <4> QED BY <1>9, <4>1
    <3> QED BY <1>10, <3>1, <3>2
  <2>2. ASSUME NEW j \in 1..(p + q), NEW k \in 1..(p + q), j < k PROVE st[j] <= st[k] /\ en[j] <= en[k]
    <3>1. CASE j \in 1..p /\ k \in 1..p
      BY <1>5, <1>10, <2>2, <3>1 DEF InPlace
    <3>2. ASSUME j \in 1..p, NEW y \in 1..q, k = p + y PROVE st[j] <= st[k] /\ en[j] <= en[k]
      <4>1. /\ st[j] <= b + 1 /\ st[k] >= b + 1 /\ st[j] \in Nat /\ st[k] \in Nat
            /\ en[j] <= b /\ en[k] >= b /\ en[j] \in Nat /\ en[k] \in Nat
        BY <1>8, <1>9, <1>10, <3>2
      <4> QED BY <1>7, <4>1
    <3>3. ASSUME NEW x \in 1..q, j = p + x, NEW y \in 1..q, k = p + y PROVE st[j] <= st[k] /\ en[j] <= en[k]
      <4>1. x < y
        BY <1>5, <2>2, <3>3
      <4> QED BY <1>6, <1>10, <3>3, <4>1 DEF InPlace
    <3>4. ASSUME NEW x \in 1..q, j = p + x, k \in 1..p PROVE FALSE
      BY <1>5, <1>6, <2>2, <3>4
    <3> QED BY <1>10, <3>1, <3>2, <3>3, <3>4
  <2> QED BY <2>1, <2>2 DEF InPlace
<1>13. \A k \in 1..(p + q) : en[k] + 1 <= st[k] + limit
  <2> SUFFICES ASSUME NEW k \in 1..(p + q) PROVE en[k] + 1 <= st[k] + limit
    OBVIOUS
  <2>1. CASE k \in 1..p
    BY <1>5, <1>10, <2>1
  <2>2. ASSUME NEW j \in 1..q, k = p + j PROVE en[k] + 1 <= st[k] + limit
    <3>1. st[k] = sd[j] /\ en[k] = ed[j]
      BY <1>10, <2>2
    <3> QED BY <1>6, <3>1
  <2> QED BY <1>10, <2>1, <2>2
<1>14. p + q \in Nat
  BY <1>5, <1>6
<1> QED
  BY <1>4, <1>10, <1>11, <1>12, <1>13, <1>14 DEF InPieces, PiecesAt

\* The last piece begins at s, after pieces up to b.
EndsWith(T, over, limit, cs, a, l, e, b, s) ==
    /\ b \in a..e /\ s \in (a + 1)..l
    /\ InPieces(T, over, limit, Front(cs), a, s, b) /\ Last(cs) = SubSeq(T, s, e)
    /\ s <= b + 1 /\ b + 1 <= s + over /\ e + 1 <= s + limit

LEMMA PiecesSplit ==
    ASSUME NEW S, NEW T \in Seq(S), NEW over \in Nat, NEW limit \in Nat, NEW cs,
           NEW a \in Nat, NEW l \in Nat, NEW e \in 0..Len(T), InPieces(T, over, limit, cs, a, l, e), cs # <<>>
    PROVE  \E b, s : EndsWith(T, over, limit, cs, a, l, e, b, s)
<1> DEFINE p == Len(cs)
<1>1. cs \in Seq(Seq(S)) /\ p \in Nat /\ DOMAIN cs = 1..p /\ a <= e
  BY PiecesAre, Zenon
<1>2. PICK st, en : PiecesAt(T, over, limit, cs, a, l, e, p, st, en)
  BY PiecesSay
<1>3. p # 0
  <2> DEFINE Q == Seq(S)
  <2>1. cs \in Seq(Q)
    BY <1>1
  <2> HIDE DEF Q
  <2> QED BY <2>1
<1> DEFINE q == p - 1
           c == Front(cs)
<1>4. q \in Nat /\ p = q + 1 /\ q \in 0..p /\ p \in 1..p /\ \A k \in 1..q : k \in 1..p
  BY <1>1, <1>3
<1>5. c = [k \in 1..q |-> cs[k]] /\ Last(cs) = cs[p]
  <2> DEFINE Q == Seq(S)
  <2>1. cs \in Seq(Q)
    BY <1>1
  <2>2. c = SubSeq(cs, 1, q)
    BY DEF Front
  <2> HIDE DEF Q, c, q, p
  <2>3. q \in 0..Len(cs)
    BY <1>4 DEF p
  <2>4. c \in Seq(Q) /\ DOMAIN c = 1..q /\ \A i \in 1..q : c[i] = cs[i]
    BY <2>1, <2>2, <2>3, Beginning
  <2>5. c \in [1..Len(c) -> Q] /\ DOMAIN c = 1..Len(c)
    BY <2>4, SequenceIs
  <2>6. c = [k \in 1..q |-> cs[k]]
    BY <2>4, <2>5
  <2> QED BY <2>6 DEF Last, p
<1>6. /\ p \in Nat /\ st \in [1..p -> (a + 1)..l] /\ en \in [0..p -> a..e]
      /\ InPlace(over, p, st, en) /\ en[0] = a /\ en[p] = e
      /\ cs = [k \in 1..p |-> SubSeq(T, st[k], en[k])]
      /\ \A k \in 1..p : en[k] + 1 <= st[k] + limit
  BY <1>2 DEF PiecesAt
<1> HIDE DEF p, q, c
<1> DEFINE s == st[p]
           b == en[q]
           st1 == [k \in 1..q |-> st[k]]
           en1 == [k \in 0..q |-> en[k]]
<1>7. s \in (a + 1)..l /\ b \in a..e /\ s <= b + 1 /\ b + 1 <= s + over /\ e + 1 <= s + limit
  <2>1. st[p] <= en[p - 1] + 1 /\ en[p - 1] + 1 <= st[p] + over
    BY <1>4, <1>6 DEF InPlace
  <2>2. p - 1 = q
    BY <1>4
  <2> QED BY <1>4, <1>6, <2>1, <2>2
<1>8. \A k \in 1..q : st[k] <= s /\ st1[k] = st[k] /\ en1[k] = en[k] /\ en1[k - 1] = en[k - 1] /\ en[k] <= b
      /\ st[k] \in (a + 1)..l /\ en[k] \in a..e
  <2> SUFFICES ASSUME NEW k \in 1..q
               PROVE  /\ st[k] <= s /\ st1[k] = st[k] /\ en1[k] = en[k] /\ en1[k - 1] = en[k - 1] /\ en[k] <= b
                      /\ st[k] \in (a + 1)..l /\ en[k] \in a..e
    OBVIOUS
  <2>1. k \in 1..p /\ k < p /\ k \in 0..q /\ k - 1 \in 0..q /\ k + 1 \in 1..p /\ k \in 0..p
    BY <1>4
  <2>2. st[k] <= s
    BY <1>4, <1>6, <2>1 DEF InPlace
  <2>3. en[k] <= b
    <3>1. CASE k = q
      BY <1>4, <1>6, <2>1, <3>1
    <3>2. CASE k # q
      <4>1. k < q /\ q \in 1..p
        BY <1>4, <3>2
      <4> QED BY <1>6, <2>1, <4>1 DEF InPlace
    <3> QED BY <3>1, <3>2
  <2> QED BY <1>6, <2>1, <2>2, <2>3
<1>9. st1 \in [1..q -> (a + 1)..s] /\ en1 \in [0..q -> a..b] /\ en1[0] = a /\ en1[q] = b
  <2>1. ASSUME NEW k \in 1..q PROVE st1[k] \in (a + 1)..s /\ en1[k] \in a..b
    <3> DEFINE x == st[k]
               y == en[k]
    <3>1. x <= s /\ x \in (a + 1)..l /\ y \in a..e /\ y <= b /\ st1[k] = x /\ en1[k] = y
      BY <1>8
    <3> HIDE DEF x, y, st1, en1
    <3>2. x \in (a + 1)..s /\ y \in a..b
      BY <1>7, <3>1
    <3> QED BY <3>1, <3>2
  <2>2. en1[0] = a /\ en1[q] = b /\ a \in a..b
    BY <1>4, <1>6, <1>7
  <2>3. \A k \in 0..q : k = 0 \/ k \in 1..q
    BY <1>4
  <2>4. \A k \in 0..q : en1[k] \in a..b
    <3> HIDE DEF en1, st1
    <3> QED BY <2>1, <2>2, <2>3
  <2> QED BY <2>1, <2>2, <2>4
<1> HIDE DEF st1, en1
<1>10. InPlace(over, q, st1, en1)
  <2>1. \A k \in 1..q : k \in 1..p
    BY <1>4
  <2> QED BY <1>6, <1>8, <2>1 DEF InPlace
<1>11. c = [k \in 1..q |-> SubSeq(T, st1[k], en1[k])]
  <2>1. \A k \in 1..q : cs[k] = SubSeq(T, st1[k], en1[k])
    BY <1>4, <1>6, <1>8
  <2> QED BY <1>5, <2>1
<1>12. \A k \in 1..q : en1[k] + 1 <= st1[k] + limit
  BY <1>4, <1>6, <1>8
<1> HIDE DEF s, b
<1>13. InPieces(T, over, limit, c, a, s, b)
  BY <1>4, <1>9, <1>10, <1>11, <1>12 DEF InPieces, PiecesAt
<1>14. Last(cs) = SubSeq(T, s, e)
  BY <1>4, <1>5, <1>6 DEF s
<1> QED
  BY <1>7, <1>13, <1>14 DEF c, EndsWith

\* Pieces that repeat nothing are the text when they are put together.
LEMMA PiecesFlat ==
    ASSUME NEW S, NEW T \in Seq(S), NEW limit \in Nat, NEW cs,
           NEW a \in Nat, NEW l \in Nat, NEW e \in 0..Len(T), InPieces(T, 0, limit, cs, a, l, e)
    PROVE  FlattenSeq(cs) = SubSeq(T, a + 1, e)
<1> DEFINE p == Len(cs)
           Q == Seq(S)
<1>0. 0 \in Nat /\ Len(T) \in Nat
  OBVIOUS
<1>1. cs \in Seq(Q) /\ p \in Nat /\ DOMAIN cs = 1..p /\ a <= e
  BY <1>0, PiecesAre, Zenon
<1>2. PICK st, en : PiecesAt(T, 0, limit, cs, a, l, e, p, st, en)
  BY <1>0, PiecesSay
<1>3. cs \in [1..p -> Seq(S)]
  <2> HIDE DEF Q
  <2>1. cs \in [1..p -> Q]
    BY <1>1, SequenceIs
  <2> QED BY <2>1 DEF Q
<1> HIDE DEF p
<1>4. PICK f \in [0..p -> Seq(S)] : Joins(f, cs, p) /\ FlattenSeq(cs) = f[p]
  BY <1>1, <1>3, FlattenIs
<1>5. /\ st \in [1..p -> (a + 1)..l] /\ en \in [0..p -> a..e]
      /\ InPlace(0, p, st, en) /\ en[0] = a /\ en[p] = e
      /\ cs = [k \in 1..p |-> SubSeq(T, st[k], en[k])]
  BY <1>2 DEF PiecesAt
<1> DEFINE Good == {k \in 0..p : f[k] = SubSeq(T, a + 1, en[k])}
<1>6. 0 \in Good
  <2>1. SubSeq(T, a + 1, a) = <<>>
    OBVIOUS
  <2> QED BY <1>1, <1>4, <1>5, <2>1 DEF Joins
<1>7. ASSUME NEW k \in 1..p, k - 1 \in Good PROVE k \in Good
  <2> DEFINE x == en[k - 1]
             y == en[k]
             n == Len(T)
  <2>1. x \in a..e /\ y \in a..e /\ k \in 0..p /\ st[k] = x + 1 /\ x <= y
    <3>1. k \in 0..p /\ k - 1 \in 0..p
      BY <1>1
    <3>2. x \in a..e /\ y \in a..e /\ st[k] \in (a + 1)..l
      BY <1>5, <3>1
    <3>3. st[k] <= x + 1 /\ x + 1 <= st[k] + 0 /\ x <= y
      BY <1>5 DEF InPlace
    <3>4. st[k] = x + 1
      <4> DEFINE z == st[k]
      <4>1. z \in (a + 1)..l /\ x \in a..e /\ z <= x + 1 /\ x + 1 <= z + 0
        BY <3>2, <3>3
      <4> HIDE DEF z, x
      <4>2. z = x + 1
        BY <4>1
      <4> QED BY <4>2 DEF z
    <3> QED BY <3>1, <3>2, <3>3, <3>4
  <2>2. f[k] = f[k - 1] \o cs[k] /\ f[k - 1] = SubSeq(T, a + 1, x) /\ cs[k] = SubSeq(T, x + 1, y)
    <3>1. cs[k] = SubSeq(T, st[k], y)
      BY <1>5
    <3>2. f[k] = f[k - 1] \o cs[k]
      BY <1>4 DEF Joins
    <3>3. f[k - 1] = SubSeq(T, a + 1, x)
      BY <1>7
    <3> QED BY <2>1, <3>1, <3>2, <3>3
  <2> HIDE DEF x, y
  <2>3. a + 1 \in 1..(Len(T) + 1) /\ x \in 0..Len(T) /\ y \in 0..Len(T) /\ a + 1 <= x + 1
    <3>1. n \in Nat /\ e \in 0..n
      BY <1>0
    <3> HIDE DEF n
    <3>2. a + 1 \in 1..(n + 1) /\ x \in 0..n /\ y \in 0..n /\ a + 1 <= x + 1
      BY <2>1, <3>1
    <3> QED BY <3>2 DEF n
  <2>4. SubSeq(T, a + 1, x) \o SubSeq(T, x + 1, y) = SubSeq(T, a + 1, y)
    BY <2>1, <2>3, Adjacent
  <2> QED BY <2>1, <2>2, <2>4 DEF y
<1>8. HandedOn(Good, p)
  BY <1>6, <1>7 DEF HandedOn
<1>9. p \in Good
  <2>1. 0..p \subseteq Good /\ p \in 0..p
    <3> HIDE DEF Good
    <3> QED BY <1>1, <1>8, Along
  <2> QED BY <2>1
<1> QED
  BY <1>4, <1>5, <1>9

\* One piece.
LEMMA PiecesOne ==
    ASSUME NEW S, NEW T \in Seq(S), NEW over \in Nat, NEW limit \in Nat,
           NEW a \in 0..Len(T), NEW e \in 0..Len(T), a <= e, e <= a + limit
    PROVE  InPieces(T, over, limit, <<SubSeq(T, a + 1, e)>>, a, a + 1, e)
<1>1. a \in Nat /\ a + 1 \in Nat /\ a < a + 1 /\ a + 1 <= a + 1 /\ a + 1 <= a + 1 + over /\ e + 1 <= a + 1 + limit
  OBVIOUS
<1>2. InPieces(T, over, limit, <<>>, a, a + 1, a)
  BY <1>1, PiecesNone
<1>3. InPieces(T, over, limit, Append(<<>>, SubSeq(T, a + 1, e)), a, a + 1, e)
  BY <1>1, <1>2, PiecesMore
<1>4. Append(<<>>, SubSeq(T, a + 1, e)) = <<SubSeq(T, a + 1, e)>>
  OBVIOUS
<1> QED
  BY <1>3, <1>4

LEMMA PiecesLater ==
    ASSUME NEW T, NEW over \in Nat, NEW limit \in Nat, NEW cs, NEW a \in Nat, NEW l \in Nat, NEW m \in Nat,
           NEW e, l <= m, InPieces(T, over, limit, cs, a, l, e)
    PROVE  InPieces(T, over, limit, cs, a, m, e)
<1>1. PICK p, st, en : PiecesAt(T, over, limit, cs, a, l, e, p, st, en)
  BY DEF InPieces
<1>2. (a + 1)..l \subseteq (a + 1)..m
  OBVIOUS
<1>3. st \in [1..p -> (a + 1)..m]
  BY <1>1, <1>2 DEF PiecesAt
<1>4. PiecesAt(T, over, limit, cs, a, m, e, p, st, en)
  BY <1>1, <1>3 DEF PiecesAt
<1> QED
  BY <1>4 DEF InPieces

LEMMA OneLonger ==
    ASSUME NEW S, NEW T \in Seq(S), NEW i \in 1..Len(T), NEW s \in 1..i
    PROVE  /\ SubSeq(T, i, i) = <<T[i]>>
           /\ Append(SubSeq(T, s, i - 1), T[i]) = SubSeq(T, s, i)
<1>1. SubSeq(T, i, i) = <<T[i]>>
  <2> DEFINE one == SubSeq(T, i, i)
             t == <<T[i]>>
  <2>1. one \in Seq(S) /\ Len(one) = i + 1 - i /\ \A x \in 1..(i + 1 - i) : one[x] = T[i + x - 1]
    <3>1. i \in 1..(Len(T) + 1) /\ i \in 0..Len(T) /\ i <= i + 1
      OBVIOUS
    <3> QED BY <3>1, PieceHas
  <2>2. i + 1 - i = 1 /\ i + 1 - 1 = i
    OBVIOUS
  <2>3. t \in Seq(S) /\ Len(t) = 1 /\ t[1] = T[i]
    OBVIOUS
  <2> HIDE DEF one, t
  <2>4. one = t
    BY <2>1, <2>2, <2>3, Extensional
  <2> QED BY <2>4 DEF one, t
<1>2. Append(SubSeq(T, s, i - 1), T[i]) = SubSeq(T, s, i - 1) \o SubSeq(T, i, i)
  <2>1. SubSeq(T, s, i - 1) \in Seq(S)
    <3>1. s \in 1..(Len(T) + 1) /\ i - 1 \in 0..Len(T) /\ s <= (i - 1) + 1
      OBVIOUS
    <3> DEFINE j == i - 1
    <3> HIDE DEF j
    <3>2. SubSeq(T, s, j) \in Seq(S)
      BY <3>1, PieceHas DEF j
    <3> QED BY <3>2 DEF j
  <2> DEFINE u == SubSeq(T, s, i - 1)
  <2>2. u \in Seq(S) /\ T[i] \in S
    BY <2>1
  <2> HIDE DEF u
  <2>3. Append(u, T[i]) = u \o <<T[i]>>
    BY <2>2
  <2> QED BY <1>1, <2>3 DEF u
<1>3. SubSeq(T, s, i - 1) \o SubSeq(T, i, i) = SubSeq(T, s, i)
  <2> DEFINE j == i - 1
  <2>1. s \in 1..(Len(T) + 1) /\ j \in 0..Len(T) /\ i \in 0..Len(T) /\ s <= j + 1 /\ j <= i /\ j + 1 = i
    OBVIOUS
  <2> HIDE DEF j
  <2>2. SubSeq(T, s, j) \o SubSeq(T, j + 1, i) = SubSeq(T, s, i)
    BY <2>1, Adjacent
  <2> QED BY <2>1, <2>2 DEF j
<1> QED
  BY <1>1, <1>2, <1>3

\* What keeps narrow limits keeps wide ones.
LEMMA PiecesLooser ==
    ASSUME NEW T, NEW over \in Nat, NEW limit \in Nat, NEW cs, NEW a \in Nat, NEW l, NEW e,
           NEW Over \in Nat, NEW Limit \in Nat, over <= Over, limit <= Limit, l \in Nat, e \in Nat,
           InPieces(T, over, limit, cs, a, l, e)
    PROVE  InPieces(T, Over, Limit, cs, a, l, e)
<1>1. PICK p, st, en : PiecesAt(T, over, limit, cs, a, l, e, p, st, en)
  BY DEF InPieces
<1>2. /\ p \in Nat /\ st \in [1..p -> (a + 1)..l] /\ en \in [0..p -> a..e]
      /\ InPlace(over, p, st, en) /\ \A k \in 1..p : en[k] + 1 <= st[k] + limit
  BY <1>1 DEF PiecesAt
<1>3. ASSUME NEW k \in 1..p PROVE en[k - 1] + 1 <= st[k] + Over /\ en[k] + 1 <= st[k] + Limit
  <2>1. k \in 0..p /\ k - 1 \in 0..p
    BY <1>2
  <2> DEFINE x == st[k]
             y == en[k - 1]
             z == en[k]
  <2>2. x \in (a + 1)..l /\ y \in a..e /\ z \in a..e /\ y + 1 <= x + over /\ z + 1 <= x + limit
    BY <1>2, <2>1 DEF InPlace
  <2> HIDE DEF x, y, z
  <2>3. y + 1 <= x + Over /\ z + 1 <= x + Limit
    BY <2>2
  <2> QED BY <2>3 DEF x, y, z
<1>4. InPlace(Over, p, st, en)
  BY <1>2, <1>3 DEF InPlace
<1>5. PiecesAt(T, Over, Limit, cs, a, l, e, p, st, en)
  BY <1>1, <1>3, <1>4 DEF PiecesAt
<1> QED
  BY <1>5 DEF InPieces

\* What a piece holds is of the text between the places.
LEMMA PiecesFrom ==
    ASSUME NEW S, NEW T \in Seq(S), NEW over \in Nat, NEW limit \in Nat, NEW cs, NEW a \in Nat,
           NEW l \in Nat, NEW e \in 0..Len(T), InPieces(T, over, limit, cs, a, l, e),
           NEW k \in DOMAIN cs, NEW w \in ToSet(cs[k])
    PROVE  \E x \in (a + 1)..e : w = T[x]
<1>1. PICK p, st, en : PiecesAt(T, over, limit, cs, a, l, e, p, st, en)
  BY DEF InPieces
<1>2. /\ p \in Nat /\ st \in [1..p -> (a + 1)..l] /\ en \in [0..p -> a..e]
      /\ InPlace(over, p, st, en) /\ cs = [i \in 1..p |-> SubSeq(T, st[i], en[i])]
  BY <1>1 DEF PiecesAt
<1>3. k \in 1..p /\ k \in 0..p /\ k - 1 \in 0..p
  BY <1>2
<1> DEFINE x == st[k]
           y == en[k]
           z == en[k - 1]
           n == Len(T)
<1>4. x \in (a + 1)..l /\ y \in a..e /\ z \in a..e /\ x <= z + 1 /\ z <= y /\ cs[k] = SubSeq(T, x, y)
      /\ n \in Nat /\ e \in 0..n
  <2>1. x \in (a + 1)..l /\ y \in a..e /\ z \in a..e /\ cs[k] = SubSeq(T, x, y)
    BY <1>2, <1>3
  <2>2. x <= z + 1 /\ z <= y
    BY <1>2, <1>3 DEF InPlace
  <2>3. n \in Nat
    OBVIOUS
  <2> QED BY <2>1, <2>2, <2>3
<1> HIDE DEF x, y, z, n
<1>5. x \in 1..(n + 1) /\ y \in 0..n /\ x <= y + 1
  BY <1>4
<1>6. /\ SubSeq(T, x, y) \in Seq(S) /\ Len(SubSeq(T, x, y)) = y + 1 - x
      /\ \A i \in 1..(y + 1 - x) : SubSeq(T, x, y)[i] = T[x + i - 1]
  BY <1>5, PieceHas DEF n
<1>7. PICK i \in DOMAIN SubSeq(T, x, y) : w = SubSeq(T, x, y)[i]
  BY <1>4 DEF ToSet
<1>8. i \in 1..(y + 1 - x)
  BY <1>6
<1>9. x + i - 1 \in (a + 1)..e /\ w = T[x + i - 1]
  BY <1>4, <1>6, <1>7, <1>8
<1> QED
  BY <1>9

\* No pieces are of nothing.
LEMMA PiecesEmpty ==
    ASSUME NEW T, NEW over, NEW limit, NEW a, NEW l, NEW e, InPieces(T, over, limit, <<>>, a, l, e)
    PROVE  e = a
<1>1. PICK p, st, en : PiecesAt(T, over, limit, <<>>, a, l, e, p, st, en)
  BY DEF InPieces
<1>2. p \in Nat /\ 1..p = {} /\ en[0] = a /\ en[p] = e
  <2>1. DOMAIN <<>> = 1..p
    BY <1>1 DEF PiecesAt
  <2>2. DOMAIN <<>> = {}
    OBVIOUS
  <2> QED BY <1>1, <2>1, <2>2 DEF PiecesAt
<1>3. p = 0
  BY <1>2
<1> QED
  BY <1>2, <1>3

-----------------------------------------------------------------------------
(* What pieces hold *)

ValuesIn(T, i, j) == {T[x] : x \in i..j}

\* cs holds T up to place e in chunks of at most limit, which begin at st and end at en.
SpansAt(T, over, limit, cs, l, e, p, st, en) ==
    /\ p \in Nat /\ Len(cs) = p /\ st \in [1..p -> 1..l] /\ en \in [0..p -> 0..e]
    /\ InPlace(over, p, st, en) /\ en[0] = 0 /\ en[p] = e
    /\ \A k \in 1..p : Len(cs[k]) <= limit /\ ToSet(cs[k]) = ValuesIn(T, st[k], en[k])
InSpans(T, over, limit, cs, l, e) == \E p, st, en : SpansAt(T, over, limit, cs, l, e, p, st, en)

LEMMA SpansNone ==
    ASSUME NEW T, NEW over \in Nat, NEW limit \in Nat, NEW l \in Nat
    PROVE  InSpans(T, over, limit, <<>>, l, 0)
<1> DEFINE st == [k \in 1..0 |-> 1]
           en == [k \in 0..0 |-> 0]
<1>1. \A k \in 1..0 : FALSE
  OBVIOUS
<1>2. st \in [1..0 -> 1..l] /\ en \in [0..0 -> 0..0] /\ en[0] = 0 /\ Len(<<>>) = 0 /\ 0 \in Nat
  OBVIOUS
<1> HIDE DEF st, en
<1>3. SpansAt(T, over, limit, <<>>, l, 0, 0, st, en)
  BY <1>1, <1>2, Zenon DEF SpansAt, InPlace
<1> QED
  BY <1>3 DEF InSpans

LEMMA PieceSpan ==
    ASSUME NEW S, NEW T \in Seq(S), NEW i \in 1..(Len(T) + 1), NEW j \in 0..Len(T), i <= j + 1
    PROVE  ToSet(SubSeq(T, i, j)) = ValuesIn(T, i, j)
<1> DEFINE c == SubSeq(T, i, j)
           n == j + 1 - i
<1>1. c \in Seq(S) /\ Len(c) = n /\ \A x \in 1..n : c[x] = T[i + x - 1]
  BY PieceHas
<1>2. n \in Nat /\ DOMAIN c = 1..n
  BY <1>1
<1>3. ASSUME NEW w \in ToSet(c) PROVE w \in ValuesIn(T, i, j)
  <2>1. PICK x \in 1..n : w = c[x]
    BY <1>2 DEF ToSet
  <2>2. i + x - 1 \in i..j
    BY <1>2
  <2> QED BY <1>1, <2>1, <2>2 DEF ValuesIn
<1>4. ASSUME NEW w \in ValuesIn(T, i, j) PROVE w \in ToSet(c)
  <2>1. PICK y \in i..j : w = T[y]
    BY DEF ValuesIn
  <2>2. y + 1 - i \in 1..n /\ i + (y + 1 - i) - 1 = y
    BY <1>2
  <2> DEFINE x == y + 1 - i
  <2>3. x \in DOMAIN c /\ c[x] = w
    BY <1>1, <1>2, <2>1, <2>2
  <2> QED BY <2>3 DEF ToSet
<1> QED
  BY <1>3, <1>4

LEMMA SpanGrows ==
    ASSUME NEW T, NEW i \in Nat, NEW s \in Nat, NEW e \in Nat, NEW f \in Nat, i <= s, s <= e + 1, e <= f
    PROVE  ValuesIn(T, i, e) \cup ValuesIn(T, s, f) = ValuesIn(T, i, f)
<1>1. \A x \in i..e : x \in i..f
  OBVIOUS
<1>2. \A x \in s..f : x \in i..f
  OBVIOUS
<1>3. \A x \in i..f : x \in i..e \/ x \in s..f
  OBVIOUS
<1> QED
  BY <1>1, <1>2, <1>3, Zenon DEF ValuesIn

\* One more chunk.
LEMMA SpansMore ==
    ASSUME NEW S, NEW T, NEW over \in Nat, NEW limit \in Nat, NEW cs \in Seq(Seq(S)), NEW l \in Nat, NEW e \in Nat,
           InSpans(T, over, limit, cs, l, e), NEW s \in Nat, NEW f \in Nat,
           l <= s, 0 < s, s <= e + 1, e + 1 <= s + over, e <= f,
           NEW c \in Seq(S), Len(c) <= limit, ToSet(c) = ValuesIn(T, s, f)
    PROVE  InSpans(T, over, limit, Append(cs, c), s, f)
<1>0. PICK p, st, en : SpansAt(T, over, limit, cs, l, e, p, st, en)
  BY DEF InSpans
<1>1. /\ p \in Nat /\ Len(cs) = p /\ st \in [1..p -> 1..l] /\ en \in [0..p -> 0..e]
      /\ InPlace(over, p, st, en) /\ en[0] = 0 /\ en[p] = e
      /\ \A k \in 1..p : Len(cs[k]) <= limit /\ ToSet(cs[k]) = ValuesIn(T, st[k], en[k])
  BY <1>0 DEF SpansAt
<1> DEFINE q == p + 1
           st2 == [k \in 1..q |-> IF k = q THEN s ELSE st[k]]
           en2 == [k \in 0..q |-> IF k = q THEN f ELSE en[k]]
           ds == Append(cs, c)
<1>2. q \in Nat /\ q # 0 /\ q \in 1..q /\ \A k \in 1..q : k # q => k \in 1..p
  BY <1>1
<1>3. st2 \in [1..q -> 1..s] /\ en2 \in [0..q -> 0..f]
  <2>1. ASSUME NEW k \in 1..q PROVE st2[k] \in 1..s
    <3>1. CASE k = q
      BY <3>1
    <3>2. CASE k # q
      <4>1. st[k] \in 1..l
        BY <1>1, <1>2, <3>2
      <4> QED BY <3>2, <4>1
    <3> QED BY <3>1, <3>2
  <2>2. ASSUME NEW k \in 0..q PROVE en2[k] \in 0..f
    <3>1. CASE k = q
      BY <1>1, <3>1
    <3>2. CASE k # q
      <4>1. en[k] \in 0..e
        BY <1>1, <3>2
      <4> QED BY <3>2, <4>1
    <3> QED BY <3>1, <3>2
  <2> QED BY <2>1, <2>2
<1>4. /\ st2[q] = s /\ en2[q] = f /\ en2[q - 1] = e /\ en2[0] = 0
      /\ \A k \in 1..p : st2[k] = st[k] /\ en2[k] = en[k] /\ en2[k - 1] = en[k - 1]
  BY <1>1
<1> HIDE DEF st2, en2
<1>5. InPlace(over, q, st2, en2)
  <2>1. ASSUME NEW k \in 1..q
        PROVE  /\ st2[k] <= en2[k - 1] + 1 /\ en2[k - 1] + 1 <= st2[k] + over
               /\ en2[k - 1] <= en2[k]
    <3>1. CASE k = q
      BY <1>4, <3>1
    <3>2. CASE k # q
      BY <1>1, <1>2, <1>4, <3>2 DEF InPlace
    <3> QED BY <3>1, <3>2
  <2>2. ASSUME NEW j \in 1..q, NEW k \in 1..q, j < k PROVE st2[j] <= st2[k] /\ en2[j] <= en2[k]
    <3>1. j \in 1..p
      BY <1>1, <2>2
    <3>2. CASE k = q
      <4>1. st[j] \in 1..l /\ en[j] \in 0..e
        BY <1>1, <3>1
      <4> QED BY <1>4, <3>1, <3>2, <4>1
    <3>3. CASE k # q
      BY <1>1, <1>2, <1>4, <2>2, <3>1, <3>3 DEF InPlace
    <3> QED BY <3>2, <3>3
  <2> QED BY <2>1, <2>2 DEF InPlace
<1>6. Len(ds) = q /\ ds[q] = c /\ \A k \in 1..p : ds[k] = cs[k]
  <2> DEFINE Q == Seq(S)
  <2>1. cs \in Seq(Q) /\ c \in Q
    OBVIOUS
  <2> HIDE DEF Q
  <2> QED BY <1>1, <2>1
<1> HIDE DEF ds
<1>7. \A k \in 1..q : Len(ds[k]) <= limit /\ ToSet(ds[k]) = ValuesIn(T, st2[k], en2[k])
  <2> HIDE DEF q
  <2> QED BY <1>1, <1>2, <1>4, <1>6
<1> HIDE DEF q
<1>8. SpansAt(T, over, limit, ds, s, f, q, st2, en2)
  BY <1>2, <1>3, <1>4, <1>5, <1>6, <1>7 DEF SpansAt
<1> QED
  BY <1>8 DEF InSpans, ds

\* The last chunk goes on.
LEMMA SpansOn ==
    ASSUME NEW S, NEW T, NEW over \in Nat, NEW limit \in Nat, NEW cs \in Seq(Seq(S)), cs # <<>>,
           NEW l \in Nat, NEW e \in Nat,
           InSpans(T, over, limit, cs, l, e), NEW s \in Nat, NEW f \in Nat,
           l <= s, s <= e + 1, e <= f,
           NEW c \in Seq(S), Len(Last(cs)) + Len(c) <= limit, ToSet(c) = ValuesIn(T, s, f)
    PROVE  InSpans(T, over, limit, Append(Front(cs), Last(cs) \o c), s, f)
<1>0. PICK p, st, en : SpansAt(T, over, limit, cs, l, e, p, st, en)
  BY DEF InSpans
<1>1. /\ p \in Nat /\ Len(cs) = p /\ st \in [1..p -> 1..l] /\ en \in [0..p -> 0..e]
      /\ InPlace(over, p, st, en) /\ en[0] = 0 /\ en[p] = e
      /\ \A k \in 1..p : Len(cs[k]) <= limit /\ ToSet(cs[k]) = ValuesIn(T, st[k], en[k])
  BY <1>0 DEF SpansAt
<1> DEFINE last == Last(cs)
           both == last \o c
           ds == Append(Front(cs), both)
           en2 == [k \in 0..p |-> IF k = p THEN f ELSE en[k]]
           Q == Seq(S)
<1>2. p # 0 /\ p \in 1..p /\ 1 \in 1..p /\ last = cs[p] /\ last \in Seq(S)
  <2>1. cs \in Seq(Q)
    OBVIOUS
  <2> HIDE DEF Q
  <2>2. p # 0
    BY <1>1, <2>1
  <2>3. p \in 1..p /\ 1 \in 1..p
    BY <1>1, <2>2
  <2>4. last = cs[p] /\ last \in Q
    BY <1>1, <2>1, <2>3 DEF Last
  <2> QED BY <2>2, <2>3, <2>4 DEF Q
<1>3. both \in Seq(S) /\ Len(both) = Len(last) + Len(c) /\ ToSet(both) = ToSet(last) \cup ToSet(c)
  <2> HIDE DEF last
  <2>1. both \in Seq(S) /\ Len(both) = Len(last) + Len(c) /\ Len(last) \in Nat /\ Len(c) \in Nat
    BY <1>2
  <2>2. /\ \A x \in 1..Len(last) : x \in 1..Len(both) /\ both[x] = last[x]
        /\ \A x \in 1..Len(c) : Len(last) + x \in 1..Len(both) /\ both[Len(last) + x] = c[x]
        /\ \A x \in 1..Len(both) : x \in 1..Len(last) \/ x - Len(last) \in 1..Len(c)
        /\ \A x \in 1..Len(both) : Len(last) + (x - Len(last)) = x
    BY <1>2, <2>1
  <2>3. DOMAIN both = 1..Len(both) /\ DOMAIN last = 1..Len(last) /\ DOMAIN c = 1..Len(c)
    BY <1>2, <2>1
  <2> HIDE DEF both
  <2>4. ASSUME NEW w \in ToSet(both) PROVE w \in ToSet(last) \cup ToSet(c)
    <3>1. PICK x \in 1..Len(both) : w = both[x]
      BY <2>3 DEF ToSet
    <3> DEFINE y == x - Len(last)
    <3>2. x \in 1..Len(last) \/ (y \in 1..Len(c) /\ Len(last) + y = x)
      BY <2>2
    <3> HIDE DEF y
    <3>3. CASE x \in 1..Len(last)
      <4>1. w = last[x]
        BY <2>2, <3>1, <3>3
      <4>2. w \in ToSet(last)
        BY <2>3, <3>3, <4>1 DEF ToSet
      <4> QED BY <4>2
    <3>4. CASE y \in 1..Len(c) /\ Len(last) + y = x
      <4>1. w = c[y]
        BY <2>2, <3>1, <3>4
      <4>2. w \in ToSet(c)
        BY <2>3, <3>4, <4>1 DEF ToSet
      <4> QED BY <4>2
    <3> QED BY <3>2, <3>3, <3>4
  <2>5. ASSUME NEW w \in ToSet(last) PROVE w \in ToSet(both)
    <3>1. PICK x \in 1..Len(last) : w = last[x]
      BY <2>3 DEF ToSet
    <3> QED BY <2>2, <2>3, <3>1 DEF ToSet
  <2>6. ASSUME NEW w \in ToSet(c) PROVE w \in ToSet(both)
    <3>1. PICK x \in 1..Len(c) : w = c[x]
      BY <2>3 DEF ToSet
    <3> DEFINE y == Len(last) + x
    <3>2. y \in 1..Len(both) /\ both[y] = w
      BY <2>2, <3>1
    <3> QED BY <2>3, <3>2 DEF ToSet
  <2> QED BY <2>1, <2>4, <2>5, <2>6
<1> HIDE DEF last, both
<1>4. Len(ds) = p /\ ds[p] = both /\ \A k \in 1..p : k # p => ds[k] = cs[k]
  <2> DEFINE q == p - 1
  <2>0. cs \in Seq(Q) /\ both \in Q
    BY <1>3
  <2> HIDE DEF Q
  <2>1. q \in Nat /\ Front(cs) \in Seq(Q) /\ Len(Front(cs)) = q /\ \A k \in 1..q : Front(cs)[k] = cs[k]
    BY <1>1, <1>2, <2>0 DEF Front
  <2> DEFINE g == Front(cs)
  <2> HIDE DEF g
  <2>2. Len(Append(g, both)) = q + 1 /\ Append(g, both)[q + 1] = both /\ \A k \in 1..q : Append(g, both)[k] = g[k]
    BY <2>0, <2>1 DEF g
  <2>3. q + 1 = p /\ \A k \in 1..p : k # p => k \in 1..q
    BY <1>1, <1>2
  <2> HIDE DEF q
  <2> QED BY <2>1, <2>2, <2>3 DEF g
<1>5. en2 \in [0..p -> 0..f] /\ en2[0] = 0 /\ en2[p] = f /\ \A k \in 0..p : k # p => en2[k] = en[k]
  <2>1. ASSUME NEW k \in 0..p PROVE en2[k] \in 0..f
    <3>1. CASE k = p
      BY <1>1, <3>1
    <3>2. CASE k # p
      <4>1. en[k] \in 0..e
        BY <1>1, <3>2
      <4> QED BY <3>2, <4>1
    <3> QED BY <3>1, <3>2
  <2>2. 0 \in 0..p /\ p \in 0..p
    BY <1>1
  <2> QED BY <1>1, <1>2, <2>1, <2>2
<1> HIDE DEF en2, ds, Q
<1>6. InPlace(over, p, st, en2)
  <2>1. ASSUME NEW k \in 1..p
        PROVE  /\ st[k] <= en2[k - 1] + 1 /\ en2[k - 1] + 1 <= st[k] + over
               /\ en2[k - 1] <= en2[k]
    <3>1. k - 1 \in 0..p /\ k - 1 # p /\ k \in 0..p
      BY <1>1
    <3>2. en2[k - 1] = en[k - 1] /\ en[k - 1] \in 0..e
      BY <1>1, <1>5, <3>1
    <3>3. st[k] <= en[k - 1] + 1 /\ en[k - 1] + 1 <= st[k] + over /\ en[k - 1] <= en[k]
      BY <1>1 DEF InPlace
    <3>4. CASE k = p
      BY <1>5, <3>2, <3>3, <3>4
    <3>5. CASE k # p
      BY <1>5, <3>1, <3>2, <3>3, <3>5
    <3> QED BY <3>4, <3>5
  <2>2. ASSUME NEW j \in 1..p, NEW k \in 1..p, j < k PROVE st[j] <= st[k] /\ en2[j] <= en2[k]
    <3>1. st[j] <= st[k] /\ en[j] <= en[k]
      BY <1>1, <2>2 DEF InPlace
    <3>2. j \in 0..p /\ k \in 0..p /\ j # p
      BY <1>1, <2>2
    <3>3. en2[j] = en[j] /\ en[j] \in 0..e
      BY <1>1, <1>5, <3>2
    <3>4. CASE k = p
      BY <1>5, <3>1, <3>3, <3>4
    <3>5. CASE k # p
      BY <1>5, <3>1, <3>2, <3>3, <3>5
    <3> QED BY <3>4, <3>5
  <2> QED BY <2>1, <2>2 DEF InPlace
<1>7. ASSUME NEW k \in 1..p PROVE Len(ds[k]) <= limit /\ ToSet(ds[k]) = ValuesIn(T, st[k], en2[k])
  <2>1. CASE k = p
    <3>1. st[p] \in 1..l
      BY <1>1, <1>2
    <3> DEFINE i == st[p]
    <3>2. i \in Nat /\ i <= s
      BY <3>1
    <3> HIDE DEF i
    <3>3. ValuesIn(T, i, e) \cup ValuesIn(T, s, f) = ValuesIn(T, i, f)
      BY <3>2, SpanGrows
    <3>4. ToSet(last) = ValuesIn(T, i, e)
      BY <1>1, <1>2 DEF i
    <3>5. Len(both) <= limit
      BY <1>3 DEF last
    <3> QED BY <1>3, <1>4, <1>5, <2>1, <3>3, <3>4, <3>5 DEF i
  <2>2. CASE k # p
    <3>1. k \in 0..p
      OBVIOUS
    <3> QED BY <1>1, <1>4, <1>5, <2>2, <3>1
  <2> QED BY <2>1, <2>2
<1>8. st \in [1..p -> 1..s]
  <2>1. 1..l \subseteq 1..s
    OBVIOUS
  <2> QED BY <1>1, <2>1
<1>9. SpansAt(T, over, limit, ds, s, f, p, st, en2)
  BY <1>1, <1>4, <1>5, <1>6, <1>7, <1>8 DEF SpansAt
<1> QED
  BY <1>9 DEF InSpans, ds, both, last

\* The last of some numbers that have a bound.
LEMMA LastOfNumbers ==
    ASSUME NEW n \in Nat, NEW s \in SUBSET (0..n), s # {}
    PROVE  Max(s) \in s /\ \A y \in s : y <= Max(s)
<1>0. \A x \in s : x \in Nat /\ n - x \in Nat
  OBVIOUS
<1>1. {n - x : x \in s} \in SUBSET Nat /\ {n - x : x \in s} # {}
  BY <1>0
<1>2. PICK m \in {n - x : x \in s} : \A y \in {n - x : x \in s} : m <= y
  BY <1>1, LeastNat
<1>3. PICK x \in s : m = n - x
  BY <1>2
<1>4. \A y \in s : x >= y
  <2>1. \A y \in s : n - x <= n - y
    BY <1>2, <1>3
  <2> QED BY <1>0, <2>1
<1>5. Max(s) \in s /\ \A y \in s : Max(s) >= y
  BY <1>4 DEF Max
<1> QED
  BY <1>5

LEMMA AtMostOne == ASSUME NEW S, IsFiniteSet(S), NEW x, S \subseteq {x} PROVE Cardinality(S) <= 1
<1>1. IsFiniteSet({x}) /\ Cardinality({x}) = 1
  BY FS_Singleton
<1> QED
  BY <1>1, FS_Subset
=============================================================================
