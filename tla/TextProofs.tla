----------------------------- MODULE TextProofs -----------------------------
(* Proofs about what becomes of the text of a document.  In TextChunks every    *)
(* collection is built by a loop over the text; each loop is a fold, and what   *)
(* it has built after n steps is the beginning of the text in pieces (InPieces, *)
(* InSpans).  In PageExtraction the lines that are left of a page are some of   *)
(* its lines in order (PartOf), at each of three passes.  The invariants        *)
(* TextInv and SheetsTyped say that texts and pages are well formed.            *)
EXTENDS TextChunks, PageExtraction, FoldProofs

-----------------------------------------------------------------------------
(* The text of a page or of a policy: TextChunks *)

LEMMA Quotient ==
    ASSUME NEW a \in Nat, NEW b \in Nat \ {0}
    PROVE  a \div b \in Nat /\ (a \div b) * b <= a /\ a < (a \div b) * b + b
OBVIOUS

LEMMA Multiples ==
    ASSUME NEW x \in Nat, NEW y \in Nat, NEW step \in Nat
    PROVE  x * step \in Nat /\ (x < y => x * step + step <= y * step)
<1>1. x * step \in Nat /\ y * step \in Nat
  OBVIOUS
<1>2. ASSUME x < y PROVE x * step + step <= y * step
  <2> DEFINE d == y - x - 1
  <2>0. d \in Nat /\ y = x + 1 + d
    BY <1>2
  <2> HIDE DEF d
  <2>1. (x + 1 + d) * step = x * step + step + d * step /\ d * step \in Nat
    BY <2>0
  <2> QED BY <1>1, <2>0, <2>1
<1> QED BY <1>1, <1>2

\* A piece that is split goes on with step after step, each part repeating the end of the one before.
LEMMA HardSplitPieces ==
    ASSUME NEW S, NEW T \in Seq(S), NEW max \in Nat, NEW over \in Nat, over < max,
           NEW i \in 1..(Len(T) + 1), NEW j \in 0..Len(T), i <= j + 1
    PROVE  InPieces(T, over, max, HardSplit(SubSeq(T, i, j), max, over), i - 1, j + 1, j)
<1> DEFINE words == SubSeq(T, i, j)
           n == j + 1 - i
           step == max - over
           d == IF n > max THEN (n - max + step - 1) \div step ELSE 0
           p == 1 + d
           Place(k) == (k - 1) * step
           to(k) == Min({Place(k) + max, n})
           st == [k \in 1..p |-> i + Place(k)]
           en == [k \in 0..p |-> IF k = 0 THEN i - 1 ELSE i - 1 + to(k)]
<1>1. n \in Nat /\ step \in Nat \ {0} /\ Len(words) = n
  BY PieceHas
<1>2. d \in Nat /\ p \in Nat \ {0} /\ Place(p) \in Nat /\ Place(p) <= n /\ Place(p) + max >= n
  <2>1. CASE n > max
    <3> DEFINE x == n - max + step - 1
    <3>1. x \in Nat
      BY <1>1, <2>1
    <3>2. d = x \div step
      BY <2>1
    <3> HIDE DEF x, d, step
    <3>3. d \in Nat /\ d * step <= x /\ x < d * step + step
      BY <1>1, <3>1, <3>2, Quotient
    <3>4. p - 1 = d /\ d * step \in Nat
      BY <1>1, <3>3
    <3> DEFINE y == d * step
    <3>5. y \in Nat /\ y <= x /\ x < y + step /\ Place(p) = y
      BY <3>3, <3>4
    <3> HIDE DEF y
    <3>6. Place(p) \in Nat /\ Place(p) <= n /\ Place(p) + max >= n
      <4> HIDE DEF Place, n, p
      <4> QED BY <1>1, <2>1, <3>5 DEF x, step
    <3> QED BY <3>3, <3>6
  <2>2. CASE ~(n > max)
    <3>1. d = 0
      BY <2>2
    <3> HIDE DEF d
    <3>2. Place(p) = 0
      BY <1>1, <3>1
    <3> QED BY <1>1, <2>2, <3>1, <3>2
  <2> QED BY <2>1, <2>2
<1> HIDE DEF d, p
<1>3. /\ \A k \in 1..p : Place(k) \in Nat /\ Place(k) <= Place(p)
      /\ \A k, m \in 1..p : m < k => Place(m) + step <= Place(k)
      /\ Place(1) = 0
      /\ \A k \in 1..p : k > 1 => Place(k) = Place(k - 1) + step
  <2>0. \A k \in 1..p : k - 1 \in Nat
    BY <1>2
  <2>1. \A k, m \in 1..p : m < k => Place(m) + step <= Place(k)
    <3> SUFFICES ASSUME NEW k \in 1..p, NEW m \in 1..p, m < k PROVE Place(m) + step <= Place(k)
      OBVIOUS
    <3>1. k - 1 \in Nat /\ m - 1 \in Nat /\ m - 1 < k - 1
      BY <1>2
    <3> HIDE DEF step
    <3> QED BY <1>1, <3>1, Multiples
  <2>2. \A k \in 1..p : Place(k) \in Nat
    <3> HIDE DEF step
    <3> QED BY <1>1, <2>0, Multiples
  <2>3. Place(1) = 0
    BY <1>1
  <2>4. ASSUME NEW k \in 1..p, k > 1 PROVE Place(k) = Place(k - 1) + step
    <3> DEFINE x == k - 2
    <3>1. x \in Nat /\ k - 1 = x + 1 /\ k - 1 - 1 = x
      BY <1>2, <2>4
    <3> HIDE DEF x, step
    <3>2. (x + 1) * step = x * step + step
      BY <1>1, <3>1
    <3> QED BY <3>1, <3>2
  <2>5. \A k \in 1..p : Place(k) <= Place(p)
    <3> SUFFICES ASSUME NEW k \in 1..p PROVE Place(k) <= Place(p)
      OBVIOUS
    <3>1. p \in 1..p /\ (k = p \/ k < p)
      BY <1>2
    <3> HIDE DEF Place
    <3> QED BY <1>1, <2>1, <2>2, <3>1
  <2> HIDE DEF Place
  <2> QED BY <2>1, <2>2, <2>3, <2>4, <2>5
<1> HIDE DEF Place
<1>4. \A k \in 1..p : to(k) = IF Place(k) + max <= n THEN Place(k) + max ELSE n
  <2> SUFFICES ASSUME NEW k \in 1..p PROVE to(k) = IF Place(k) + max <= n THEN Place(k) + max ELSE n
    OBVIOUS
  <2>1. Place(k) + max \in Nat
    BY <1>3
  <2> HIDE DEF n
  <2> QED BY <1>1, <2>1, MinOfTwo
<1> HIDE DEF to
<1>5. HardSplit(words, max, over) = [k \in 1..p |-> SubSeq(words, Place(k) + 1, to(k))]
  BY <1>1 DEF HardSplit, Place, to, p, d
<1> HIDE DEF words
<1>6. ASSUME NEW k \in 1..p
      PROVE  /\ st[k] = i + Place(k) /\ en[k] = i - 1 + to(k) /\ en[k - 1] = IF k = 1 THEN i - 1 ELSE i - 1 + to(k - 1)
             /\ Place(k) \in Nat /\ Place(k) <= n /\ to(k) \in 0..n /\ Place(k) <= to(k) /\ to(k) <= Place(k) + max
             /\ k > 1 => to(k - 1) \in 0..n /\ Place(k) <= to(k - 1) /\ to(k - 1) <= Place(k) + over /\ to(k - 1) <= to(k)
  <2>1. k \in 0..p /\ k - 1 \in 0..p /\ k # 0 /\ (k > 1 => k - 1 \in 1..p) /\ (k # 1 => k - 1 # 0 /\ k > 1) /\ p \in 1..p
    BY <1>2
  <2>2. st[k] = i + Place(k) /\ en[k] = i - 1 + to(k) /\ en[k - 1] = IF k = 1 THEN i - 1 ELSE i - 1 + to(k - 1)
    BY <2>1
  <2> DEFINE x == Place(k)
             z == to(k)
  <2>3. x \in Nat /\ x <= Place(p) /\ z = IF x + max <= n THEN x + max ELSE n
    BY <1>3, <1>4
  <2> HIDE DEF x, z, n
  <2>4. x <= n /\ z \in 0..n /\ x <= z /\ z <= x + max
    BY <1>1, <1>2, <2>3
  <2>5. ASSUME k > 1
        PROVE  to(k - 1) \in 0..n /\ x <= to(k - 1) /\ to(k - 1) <= x + over /\ to(k - 1) <= z
    <3> DEFINE y == Place(k - 1)
               w == to(k - 1)
    <3>1. y \in Nat /\ w = (IF y + max <= n THEN y + max ELSE n) /\ x = y + step
      BY <1>3, <1>4, <2>1, <2>5 DEF x
    <3> HIDE DEF y, w
    <3>2. w \in 0..n /\ x <= w /\ w <= x + over /\ w <= z
      BY <1>1, <2>3, <2>4, <3>1
    <3> QED BY <3>2 DEF w
  <2> QED BY <2>2, <2>3, <2>4, <2>5 DEF x, z
<1>7. to(p) = n
  <2> HIDE DEF n
  <2>1. p \in 1..p
    BY <1>2
  <2>2. to(p) = IF Place(p) + max <= n THEN Place(p) + max ELSE n
    BY <1>4, <2>1
  <2> QED BY <1>1, <1>2, <2>2
<1> DEFINE a == i - 1
<1>8. a \in Nat /\ i = a + 1 /\ j = a + n /\ Len(T) \in Nat /\ a + n <= Len(T)
  OBVIOUS
<1>9. en[0] = a /\ en[p] = j
  <2>1. p \in 0..p /\ p # 0 /\ 0 \in 0..p
    BY <1>2
  <2>2. en[0] = a /\ en[p] = a + to(p)
    BY <2>1
  <2> HIDE DEF en, a, n
  <2> QED BY <1>7, <1>8, <2>2
<1> HIDE DEF st, en
<1>10. ASSUME NEW k \in 1..p
       PROVE  /\ st[k] \in (a + 1)..(j + 1) /\ en[k] \in a..j
              /\ st[k] <= en[k - 1] + 1 /\ en[k - 1] + 1 <= st[k] + over /\ en[k - 1] <= en[k]
              /\ en[k] + 1 <= st[k] + max
              /\ SubSeq(words, Place(k) + 1, to(k)) = SubSeq(T, st[k], en[k])
  <2> DEFINE x == Place(k)
             z == to(k)
             w == to(k - 1)
  <2>1. /\ st[k] = i + x /\ en[k] = a + z /\ en[k - 1] = IF k = 1 THEN a ELSE a + w
        /\ x \in Nat /\ x <= n /\ z \in 0..n /\ x <= z /\ z <= x + max
        /\ k > 1 => w \in 0..n /\ x <= w /\ w <= x + over /\ w <= z
        /\ k = 1 => x = 0
    BY <1>3, <1>6
  <2>2. k = 1 \/ k > 1
    BY <1>2
  <2> HIDE DEF x, z, w
  <2>3. SubSeq(words, x + 1, z) = SubSeq(T, st[k], en[k])
    <3>1. x + 1 \in 1..(j + 2 - i) /\ z \in 0..(j + 1 - i) /\ x + 1 <= z + 1
      BY <2>1
    <3>2. SubSeq(SubSeq(T, i, j), x + 1, z) = SubSeq(T, i + (x + 1) - 1, i + z - 1)
      <4> DEFINE u == x + 1
      <4>1. u \in 1..(j + 2 - i) /\ z \in 0..(j + 1 - i) /\ u <= z + 1 /\ i <= j + 1
        BY <3>1
      <4> HIDE DEF u
      <4>2. SubSeq(SubSeq(T, i, j), u, z) = SubSeq(T, i + u - 1, i + z - 1)
        BY <4>1, Within
      <4> QED BY <4>2 DEF u
    <3>3. i + (x + 1) - 1 = i + x /\ i + z - 1 = a + z
      BY <2>1, <3>1
    <3> QED BY <2>1, <3>2, <3>3 DEF words
  <2> HIDE DEF n, a
  <2>4. st[k] \in (a + 1)..(j + 1) /\ en[k] \in a..j /\ en[k] + 1 <= st[k] + max
    BY <1>1, <1>8, <2>1
  <2>5. st[k] <= en[k - 1] + 1 /\ en[k - 1] + 1 <= st[k] + over /\ en[k - 1] <= en[k]
    BY <1>1, <1>8, <2>1, <2>2
  <2> QED BY <2>3, <2>4, <2>5 DEF x, z
<1>11. st \in [1..p -> (a + 1)..(j + 1)] /\ en \in [0..p -> a..j]
  <2>1. a \in a..j
    <3> HIDE DEF a, n
    <3> QED BY <1>1, <1>8
  <2>2. \A k \in 0..p : k = 0 \/ k \in 1..p
    BY <1>2
  <2>3. \A k \in 0..p : en[k] \in a..j
    <3> HIDE DEF a
    <3> QED BY <1>9, <1>10, <2>1, <2>2
  <2>4. st = [k \in 1..p |-> st[k]] /\ en = [k \in 0..p |-> en[k]]
    BY DEF st, en
  <2> HIDE DEF a
  <2> QED BY <1>10, <2>3, <2>4
<1>12. ASSUME NEW k \in 1..p, NEW m \in 1..p, m < k PROVE st[m] <= st[k] /\ en[m] <= en[k]
  <2> DEFINE x == Place(m)
             y == Place(k)
             v == to(m)
             w == to(k)
  <2>1. /\ st[m] = i + x /\ st[k] = i + y /\ en[m] = a + v /\ en[k] = a + w
        /\ x \in Nat /\ y \in Nat /\ x + step <= y
        /\ v = (IF x + max <= n THEN x + max ELSE n) /\ w = (IF y + max <= n THEN y + max ELSE n)
    BY <1>3, <1>4, <1>6, <1>12
  <2> HIDE DEF x, y, v, w, a, n, step, st, en
  <2>2. x <= y /\ v <= w /\ v \in Nat /\ w \in Nat /\ x \in Nat /\ y \in Nat
    BY <1>1, <2>1
  <2>3. a \in Nat /\ i \in Nat
    BY <1>8
  <2>4. st[m] = i + x /\ st[k] = i + y /\ en[m] = a + v /\ en[k] = a + w
    BY <2>1
  <2>5. i + x <= i + y
    BY <2>2, <2>3
  <2>6. a + v <= a + w
    BY <2>2, <2>3
  <2> QED BY <2>4, <2>5, <2>6
<1>13. InPlace(over, p, st, en)
  BY <1>10, <1>12 DEF InPlace
<1>14. HardSplit(words, max, over) = [k \in 1..p |-> SubSeq(T, st[k], en[k])]
  BY <1>5, <1>10
<1>15. \A k \in 1..p : en[k] + 1 <= st[k] + max
  BY <1>10
<1> HIDE DEF a
<1>16. InPieces(T, over, max, HardSplit(words, max, over), a, j + 1, j)
  BY <1>2, <1>9, <1>11, <1>13, <1>14, <1>15 DEF InPieces, PiecesAt
<1> QED
  BY <1>16 DEF a, words

\* Where the sequences that are put one after the other end.
EndAt(T, n, seqs, to) ==
    /\ to \in [0..n -> 0..Len(T)] /\ to[0] = 0 /\ to[n] = Len(T)
    /\ \A i \in 1..n : /\ to[i - 1] <= to[i] /\ to[i] = to[i - 1] + Len(seqs[i])
                       /\ seqs[i] = SubSeq(T, to[i - 1] + 1, to[i])
    /\ \A i, j \in 0..n : i <= j => to[i] <= to[j]

LEMMA FlattenEnds ==
    ASSUME NEW S, NEW n \in Nat, NEW seqs \in [1..n -> Seq(S)]
    PROVE  \E to : EndAt(FlattenSeq(seqs), n, seqs, to)
<1>1. PICK f \in [0..n -> Seq(S)] : Joins(f, seqs, n) /\ FlattenSeq(seqs) = f[n]
  BY FlattenIs
<1> DEFINE Q == Seq(S)
           to == [i \in 0..n |-> Len(f[i])]
           Begins(i, k) == Len(f[i]) <= Len(f[k]) /\ \A x \in 1..Len(f[i]) : f[k][x] = f[i][x]
           Good == {k \in 0..n : \A i \in 0..k : Begins(i, k)}
<1>2. \A i \in 0..n : f[i] \in Q /\ Len(f[i]) \in Nat
  <2>1. \A i \in 0..n : f[i] \in Q
    OBVIOUS
  <2> QED BY <2>1
<1>3. ASSUME NEW k \in 1..n
      PROVE  /\ k - 1 \in 0..n /\ k \in 0..n /\ seqs[k] \in Q /\ f[k] = f[k - 1] \o seqs[k] /\ f[k - 1] \in Q
             /\ Len(f[k]) = Len(f[k - 1]) + Len(seqs[k]) /\ Len(seqs[k]) \in Nat /\ Len(f[k - 1]) \in Nat
             /\ \A x \in 1..Len(f[k - 1]) : f[k][x] = f[k - 1][x]
             /\ \A x \in 1..Len(seqs[k]) : f[k][Len(f[k - 1]) + x] = seqs[k][x]
  <2>1. k - 1 \in 0..n /\ k \in 0..n /\ seqs[k] \in Q /\ f[k] = f[k - 1] \o seqs[k] /\ f[k - 1] \in Q
    <3>1. k - 1 \in 0..n /\ k \in 0..n
      OBVIOUS
    <3>2. seqs \in [1..n -> Q]
      OBVIOUS
    <3> HIDE DEF Q
    <3>3. f[k] = f[k - 1] \o seqs[k]
      BY <1>1 DEF Joins
    <3> QED BY <1>2, <3>1, <3>2, <3>3
  <2> DEFINE s == f[k - 1]
             t == seqs[k]
             st == s \o t
  <2>2. s \in Seq(S) /\ t \in Seq(S)
    BY <2>1
  <2> HIDE DEF s, t
  <2>3. st \in Seq(S) /\ Len(s) \in Nat /\ Len(t) \in Nat /\ Len(st) = Len(s) + Len(t)
        /\ (\A x \in 1..Len(s) : st[x] = s[x]) /\ \A x \in 1..Len(t) : st[Len(s) + x] = t[x]
    BY <2>2
  <2> HIDE DEF st
  <2>4. f[k] = st
    BY <2>1 DEF st, s, t
  <2> HIDE DEF Q
  <2> QED BY <2>1, <2>3, <2>4 DEF s, t
<1> HIDE DEF Q
<1>4. 0 \in Good
  <2>1. \A i \in 0..0 : i = 0
    OBVIOUS
  <2>2. 0 \in 0..n
    OBVIOUS
  <2>3. Begins(0, 0)
    BY <1>2, <2>2
  <2> HIDE DEF Begins
  <2> QED BY <2>1, <2>2, <2>3
<1>5. ASSUME NEW k \in 1..n, k - 1 \in Good PROVE k \in Good
  <2> SUFFICES ASSUME NEW i \in 0..k PROVE Begins(i, k)
    OBVIOUS
  <2>1. CASE i = k
    BY <1>2, <2>1
  <2>2. CASE i # k
    <3>1. i \in 0..(k - 1) /\ i \in 0..n
      BY <2>2
    <3>2. Begins(i, k - 1)
      <4> HIDE DEF Begins
      <4> QED BY <1>5, <3>1
    <3> DEFINE x == Len(f[i])
               y == Len(f[k - 1])
               z == Len(f[k])
               w == Len(seqs[k])
    <3>3. x \in Nat /\ y \in Nat /\ w \in Nat /\ z = y + w /\ x <= y
      BY <1>2, <1>3, <3>1, <3>2
    <3>4. (\A v \in 1..x : f[k - 1][v] = f[i][v]) /\ \A v \in 1..y : f[k][v] = f[k - 1][v]
      BY <1>3, <3>2
    <3> HIDE DEF x, y, z, w
    <3>5. x <= z /\ \A v \in 1..x : f[k][v] = f[i][v]
      BY <3>3, <3>4
    <3> QED BY <3>5 DEF x, z
  <2> QED BY <2>1, <2>2
<1>6. HandedOn(Good, n)
  BY <1>4, <1>5 DEF HandedOn
<1>7. \A k \in 0..n : \A i \in 0..k : Begins(i, k)
  <2>1. 0..n \subseteq Good
    <3> HIDE DEF Good
    <3> QED BY <1>6, Along
  <2> HIDE DEF Begins
  <2> QED BY <2>1
<1> DEFINE T == f[n]
<1>8. T \in Seq(S) /\ Len(T) \in Nat /\ \A i \in 0..n : Begins(i, n)
  <2>1. n \in 0..n
    OBVIOUS
  <2> HIDE DEF Begins
  <2> QED BY <1>2, <1>7, <2>1 DEF Q
<1>9. \A i \in 0..n : to[i] = Len(f[i]) /\ to[i] \in 0..Len(T)
  <2> SUFFICES ASSUME NEW i \in 0..n PROVE Len(f[i]) \in 0..Len(T)
    OBVIOUS
  <2>1. Len(f[i]) <= Len(T) /\ Len(f[i]) \in Nat
    BY <1>2, <1>8
  <2> HIDE DEF T
  <2> QED BY <1>8, <2>1
<1>10. to[0] = 0 /\ to[n] = Len(T) /\ to \in [0..n -> 0..Len(T)]
  <2>1. f[0] = <<>> /\ 0 \in 0..n /\ n \in 0..n
    BY <1>1 DEF Joins
  <2>2. to[0] = 0
    BY <2>1
  <2> QED BY <1>9, <2>1, <2>2
<1> HIDE DEF to, T
<1>11. ASSUME NEW i \in 1..n
       PROVE  /\ to[i - 1] <= to[i] /\ to[i] = to[i - 1] + Len(seqs[i])
              /\ seqs[i] = SubSeq(T, to[i - 1] + 1, to[i])
  <2> DEFINE u == to[i - 1]
             v == to[i]
             w == Len(seqs[i])
             N == Len(T)
             piece == SubSeq(T, u + 1, v)
             s == seqs[i]
  <2>1. i - 1 \in 0..n /\ i \in 0..n
    BY <1>3
  <2>2. u \in 0..N /\ v \in 0..N /\ w \in Nat /\ v = u + w /\ N \in Nat /\ u = Len(f[i - 1]) /\ v = Len(f[i])
    BY <1>3, <1>8, <1>9, <2>1
  <2>3. Begins(i, n)
    <3> HIDE DEF Begins
    <3> QED BY <1>8, <2>1
  <2>4. (\A x \in 1..v : T[x] = f[i][x]) /\ \A x \in 1..w : f[i][u + x] = s[x]
    BY <1>3, <2>2, <2>3 DEF T
  <2>5. s \in Seq(S) /\ Len(s) = w
    BY <1>3 DEF Q
  <2> HIDE DEF u, v, w, N, s
  <2>6. u + 1 \in 1..(N + 1) /\ u + 1 <= v + 1 /\ v + 1 - (u + 1) = w /\ u <= v
    BY <2>2
  <2>7. piece \in Seq(S) /\ Len(piece) = v + 1 - (u + 1) /\ \A x \in 1..(v + 1 - (u + 1)) : piece[x] = T[(u + 1) + x - 1]
    <3>1. u + 1 \in 1..(Len(T) + 1) /\ v \in 0..Len(T) /\ u + 1 <= v + 1
      BY <2>2, <2>6 DEF N
    <3>2. T \in Seq(S)
      BY <1>8
    <3> QED BY <3>1, <3>2, PieceHas
  <2> HIDE DEF piece
  <2>8. \A x \in 1..w : piece[x] = s[x]
    <3> SUFFICES ASSUME NEW x \in 1..w PROVE piece[x] = s[x]
      OBVIOUS
    <3>1. piece[x] = T[(u + 1) + x - 1]
      BY <2>6, <2>7
    <3>2. (u + 1) + x - 1 = u + x /\ u + x \in 1..v
      BY <2>2
    <3> QED BY <2>4, <3>1, <3>2
  <2>9. Len(s) = Len(piece) /\ \A x \in 1..Len(s) : s[x] = piece[x]
    BY <2>5, <2>6, <2>7, <2>8
  <2>10. s = piece
    BY <2>5, <2>7, <2>9, Extensional
  <2> QED BY <2>2, <2>6, <2>10 DEF u, v, w, s, piece
<1>12. ASSUME NEW i \in 0..n, NEW j \in 0..n, i <= j PROVE to[i] <= to[j]
  <2>1. i \in 0..j
    BY <1>12
  <2>2. Begins(i, j)
    <3> HIDE DEF Begins
    <3> QED BY <1>7, <2>1
  <2> QED BY <1>9, <2>2
<1>13. EndAt(T, n, seqs, to)
  BY <1>10, <1>11, <1>12 DEF EndAt
<1> QED
  BY <1>1, <1>13 DEF T

-----------------------------------------------------------------------------
(* The sentences of a text and their words *)

TextTyped == text \in Seq([size : Nat \ {0}, opens : BOOLEAN])
Order == [s \in DOMAIN text |-> s]
Whole == Joined(Order)
Word == Nat \X Nat
Ends(to) == EndAt(Whole, Len(text), [i \in DOMAIN text |-> Words(i)], to)

LEMMA TextIs ==
    ASSUME TextTyped
    PROVE  /\ Len(text) \in Nat /\ DOMAIN text = 1..Len(text)
           /\ Order \in Seq(Nat) /\ Len(Order) = Len(text) /\ \A s \in 1..Len(text) : Order[s] = s
           /\ \A s \in 1..Len(text) :
                 /\ Size(s) \in Nat \ {0} /\ Words(s) \in Seq(Word) /\ Len(Words(s)) = Size(s)
                 /\ \A w \in 1..Size(s) : Words(s)[w] = <<s, w>>
<1> DEFINE R == [size : Nat \ {0}, opens : BOOLEAN]
           n == Len(text)
<1>1. n \in Nat /\ DOMAIN text = 1..n /\ \A s \in 1..n : text[s] \in R
  <2>1. text \in Seq(R)
    BY DEF TextTyped
  <2> HIDE DEF R
  <2> QED BY <2>1
<1> HIDE DEF n
<1>2. Order \in Seq(Nat) /\ Len(Order) = n /\ \A s \in 1..n : Order[s] = s
  <2>1. Order = [s \in 1..n |-> s]
    BY <1>1 DEF Order
  <2>2. Order \in [1..n -> Nat]
    BY <1>1, <2>1
  <2>3. Order \in Seq(Nat) /\ Len(Order) = n
    BY <1>1, <2>1, <2>2, IsSequence
  <2> QED BY <2>1, <2>3
<1>3. ASSUME NEW s \in 1..n
      PROVE  /\ Size(s) \in Nat \ {0} /\ Words(s) \in Seq(Word) /\ Len(Words(s)) = Size(s)
             /\ \A w \in 1..Size(s) : Words(s)[w] = <<s, w>>
  <2>1. Size(s) \in Nat \ {0} /\ s \in Nat
    BY <1>1 DEF Size
  <2> DEFINE k == Size(s)
  <2>2. k \in Nat /\ Words(s) = [w \in 1..k |-> <<s, w>>]
    BY <2>1 DEF Words
  <2> HIDE DEF k
  <2>3. Words(s) \in [1..k -> Word]
    BY <2>1, <2>2 DEF Word
  <2>4. Words(s) \in Seq(Word) /\ Len(Words(s)) = k
    BY <2>2, <2>3, IsSequence
  <2> QED BY <2>1, <2>2, <2>4 DEF k
<1> QED
  BY <1>1, <1>2, <1>3 DEF n

LEMMA WholeIs == ASSUME TextTyped PROVE Whole \in Seq(Word) /\ \E to : Ends(to)
<1> DEFINE n == Len(text)
           seqs == [i \in 1..n |-> Words(i)]
<1>1. n \in Nat /\ DOMAIN text = 1..n /\ \A s \in 1..n : Words(s) \in Seq(Word)
  BY TextIs
<1>2. Whole = FlattenSeq(seqs)
  <2>1. DOMAIN Order = 1..n /\ \A s \in 1..n : Order[s] = s
    BY <1>1 DEF Order
  <2>2. [i \in DOMAIN Order |-> Words(Order[i])] = seqs
    BY <2>1
  <2> HIDE DEF n
  <2> QED BY <2>2 DEF Whole, Joined
<1>3. seqs \in [1..n -> Seq(Word)] /\ seqs = [i \in DOMAIN text |-> Words(i)]
  BY <1>1
<1> HIDE DEF seqs, n
<1>4. FlattenSeq(seqs) \in Seq(Word) /\ \E to : EndAt(FlattenSeq(seqs), n, seqs, to)
  BY <1>1, <1>3, FlattenHas, FlattenEnds
<1> QED
  BY <1>2, <1>3, <1>4 DEF Ends, n

\* The sentences after a, up to b.
Run(a, b) == SubSeq(Order, a + 1, b)

LEMMA EndsSay ==
    ASSUME TextTyped, NEW to, Ends(to)
    PROVE  /\ Whole \in Seq(Word) /\ Len(Whole) \in Nat
           /\ \A a \in 0..Len(text) : to[a] \in 0..Len(Whole)
           /\ to[0] = 0 /\ to[Len(text)] = Len(Whole)
           /\ \A a, b \in 0..Len(text) : a <= b => to[a] <= to[b]
           /\ \A i \in 1..Len(text) :
                 to[i] = to[i - 1] + Size(i) /\ Words(i) = SubSeq(Whole, to[i - 1] + 1, to[i])
<1> DEFINE n == Len(text)
           N == Len(Whole)
           seqs == [i \in DOMAIN text |-> Words(i)]
<1>1. n \in Nat /\ DOMAIN text = 1..n /\ \A s \in 1..n : Len(Words(s)) = Size(s)
  BY TextIs
<1>2. Whole \in Seq(Word)
  BY WholeIs
<1>3. /\ to \in [0..n -> 0..N] /\ to[0] = 0 /\ to[n] = N
      /\ \A i \in 1..n : /\ to[i - 1] <= to[i] /\ to[i] = to[i - 1] + Len(seqs[i])
                         /\ seqs[i] = SubSeq(Whole, to[i - 1] + 1, to[i])
      /\ \A i, j \in 0..n : i <= j => to[i] <= to[j]
  BY DEF Ends, EndAt
<1>4. \A i \in 1..n : seqs[i] = Words(i)
  BY <1>1
<1>5. N \in Nat
  BY <1>2
<1> HIDE DEF seqs, n, N
<1>6. \A i \in 1..n : to[i] = to[i - 1] + Size(i) /\ Words(i) = SubSeq(Whole, to[i - 1] + 1, to[i])
  BY <1>1, <1>3, <1>4
<1> QED
  BY <1>2, <1>3, <1>5, <1>6 DEF n, N

LEMMA RunIs ==
    ASSUME TextTyped, NEW a \in 0..Len(text), NEW b \in 0..Len(text), a <= b
    PROVE  /\ Run(a, b) \in Seq(Nat) /\ Len(Run(a, b)) = b - a /\ DOMAIN Run(a, b) = 1..(b - a)
           /\ \A i \in 1..(b - a) : Run(a, b)[i] = a + i
<1> DEFINE n == Len(text)
           m == a + 1
           run == SubSeq(Order, m, b)
<1>1. n \in Nat /\ Order \in Seq(Nat) /\ Len(Order) = n /\ \A s \in 1..n : Order[s] = s
  BY TextIs
<1>2. m \in 1..(Len(Order) + 1) /\ b \in 0..Len(Order) /\ m <= b + 1
  BY <1>1
<1>3. run \in Seq(Nat) /\ Len(run) = b + 1 - m /\ \A x \in 1..(b + 1 - m) : run[x] = Order[m + x - 1]
  BY <1>1, <1>2, PieceHas
<1> HIDE DEF run
<1>4. b + 1 - m = b - a /\ b - a \in Nat
  OBVIOUS
<1>5. \A i \in 1..(b - a) : run[i] = a + i
  <2> SUFFICES ASSUME NEW i \in 1..(b - a) PROVE run[i] = a + i
    OBVIOUS
  <2>1. m + i - 1 = a + i /\ a + i \in 1..n
    BY <1>1
  <2> QED BY <1>1, <1>3, <1>4, <2>1
<1>6. DOMAIN run = 1..(b - a)
  BY <1>3, <1>4
<1> QED
  BY <1>3, <1>4, <1>5, <1>6 DEF run, Run

LEMMA RunJoined ==
    ASSUME TextTyped, NEW to, Ends(to), NEW a \in 0..Len(text), NEW b \in 0..Len(text), a <= b
    PROVE  Joined(Run(a, b)) = SubSeq(Whole, to[a] + 1, to[b])
<1> DEFINE n == Len(text)
           N == Len(Whole)
           m == b - a
           A == to[a]
           B == to[b]
           cs == [i \in 1..m |-> Words(a + i)]
           st == [i \in 1..m |-> to[a + i - 1] + 1]
           en == [i \in 0..m |-> to[a + i]]
<1>1. /\ n \in Nat /\ N \in Nat /\ m \in Nat /\ a + 0 = a /\ a + m = b /\ \A i \in 0..m : a + i \in 0..n /\ a + i <= b /\ a <= a + i
      /\ \A i \in 1..m : a + i \in 1..n /\ a + i - 1 = (a + i) - 1 /\ a + i - 1 = a + (i - 1) /\ i - 1 \in 0..m /\ i \in 0..m
  BY TextIs, EndsSay
<1>2. A \in 0..N /\ B \in 0..N /\ A <= B
  BY EndsSay
<1>3. Joined(Run(a, b)) = FlattenSeq(cs)
  <2>1. DOMAIN Run(a, b) = 1..m /\ \A i \in 1..m : Run(a, b)[i] = a + i
    BY RunIs
  <2>2. [i \in DOMAIN Run(a, b) |-> Words(Run(a, b)[i])] = cs
    BY <2>1
  <2> HIDE DEF cs
  <2> QED BY <2>2 DEF Joined
<1>4. ASSUME NEW i \in 1..m
      PROVE  /\ cs[i] = SubSeq(Whole, st[i], en[i]) /\ st[i] = en[i - 1] + 1 /\ en[i - 1] <= en[i]
             /\ st[i] \in (A + 1)..(B + 1) /\ en[i] \in A..B
  <2> DEFINE x == to[a + i - 1]
             y == to[a + i]
  <2>1. /\ st[i] = x + 1 /\ en[i] = y /\ en[i - 1] = x /\ cs[i] = Words(a + i)
    BY <1>1
  <2>2. Words(a + i) = SubSeq(Whole, x + 1, y)
    <3>1. \A k \in 1..n : Words(k) = SubSeq(Whole, to[k - 1] + 1, to[k])
      BY EndsSay
    <3> QED BY <1>1, <3>1
  <2>3. x \in Nat /\ y \in Nat /\ A <= x /\ x <= y /\ y <= B
    <3>1. /\ \A k \in 0..n : to[k] \in 0..N
          /\ \A k, j \in 0..n : k <= j => to[k] <= to[j]
      BY EndsSay
    <3>2. a + (i - 1) \in 0..n /\ a + i \in 0..n /\ a <= a + (i - 1) /\ a + (i - 1) <= a + i /\ a + i <= b
      BY <1>1
    <3>3. A <= to[a + (i - 1)] /\ to[a + (i - 1)] <= y /\ y <= B /\ y \in 0..N /\ to[a + (i - 1)] \in 0..N
      BY <3>1, <3>2
    <3>4. x = to[a + (i - 1)]
      BY <1>1
    <3> QED BY <1>1, <3>3, <3>4
  <2> HIDE DEF x, y, A, B
  <2>4. x + 1 \in (A + 1)..(B + 1) /\ y \in A..B
    BY <1>2, <2>3
  <2> QED BY <2>1, <2>2, <2>3, <2>4
<1>5. en[0] = A /\ en[m] = B
  BY <1>1
<1>6. \A i, j \in 0..m : i <= j => en[i] <= en[j]
  <2> SUFFICES ASSUME NEW i \in 0..m, NEW j \in 0..m, i <= j PROVE to[a + i] <= to[a + j]
    OBVIOUS
  <2>1. a + i \in 0..n /\ a + j \in 0..n /\ a + i <= a + j
    BY <1>1
  <2> QED BY <2>1, EndsSay
<1>7. cs = [i \in 1..m |-> SubSeq(Whole, st[i], en[i])] /\ DOMAIN st = 1..m /\ DOMAIN en = 0..m
  BY <1>4
<1>8. st = [i \in 1..m |-> st[i]] /\ en = [i \in 0..m |-> en[i]]
  OBVIOUS
<1> HIDE DEF cs, st, en, m, A, B
<1>9. st \in [1..m -> (A + 1)..(B + 1)] /\ en \in [0..m -> A..B]
  <2>1. \A i \in 0..m : i = 0 \/ i \in 1..m
    BY <1>1
  <2>2. A \in A..B
    BY <1>2
  <2>3. \A i \in 0..m : en[i] \in A..B
    BY <1>4, <1>5, <2>1, <2>2
  <2> QED BY <1>4, <1>8, <2>3
<1>10. InPlace(0, m, st, en)
  <2>1. \A i \in 1..m : st[i] <= en[i - 1] + 1 /\ en[i - 1] + 1 <= st[i] + 0 /\ en[i - 1] <= en[i]
    <3> SUFFICES ASSUME NEW i \in 1..m PROVE st[i] <= en[i - 1] + 1 /\ en[i - 1] + 1 <= st[i] + 0 /\ en[i - 1] <= en[i]
      OBVIOUS
    <3>1. i - 1 \in 0..m
      BY <1>1
    <3>2. en[i - 1] \in A..B /\ st[i] = en[i - 1] + 1 /\ en[i - 1] <= en[i]
      BY <1>4, <1>9, <3>1
    <3> QED BY <1>2, <3>2
  <2>2. ASSUME NEW i \in 1..m, NEW j \in 1..m, i < j PROVE st[i] <= st[j] /\ en[i] <= en[j]
    <3>1. i - 1 \in 0..m /\ j - 1 \in 0..m /\ i - 1 <= j - 1 /\ i \in 0..m /\ j \in 0..m /\ i <= j
      BY <1>1, <2>2
    <3>2. en[i] <= en[j] /\ en[i - 1] <= en[j - 1] /\ st[i] = en[i - 1] + 1 /\ st[j] = en[j - 1] + 1
          /\ en[i - 1] \in A..B /\ en[j - 1] \in A..B
      BY <1>4, <1>6, <1>9, <3>1
    <3> QED BY <1>2, <3>2
  <2> QED BY <2>1, <2>2 DEF InPlace
<1>11. \A i \in 1..m : en[i] + 1 <= st[i] + N
  <2> SUFFICES ASSUME NEW i \in 1..m PROVE en[i] + 1 <= st[i] + N
    OBVIOUS
  <2>1. st[i] \in (A + 1)..(B + 1) /\ en[i] \in A..B
    BY <1>4
  <2> QED BY <1>1, <1>2, <2>1
<1>12. InPieces(Whole, 0, N, cs, A, B + 1, B)
  BY <1>1, <1>5, <1>7, <1>9, <1>10, <1>11 DEF InPieces, PiecesAt
<1>13. Whole \in Seq(Word) /\ N \in Nat /\ A \in Nat /\ B + 1 \in Nat /\ B \in 0..Len(Whole)
  BY <1>1, <1>2, EndsSay DEF N
<1>14. FlattenSeq(cs) = SubSeq(Whole, A + 1, B)
  BY <1>12, <1>13, PiecesFlat
<1> QED
  BY <1>3, <1>14 DEF A, B

\* The blocks of a page, a sentence at a time.
BlockStep(blocks, s) ==
    IF text[s].opens \/ blocks = <<>> THEN Append(blocks, <<s>>)
    ELSE Append(Front(blocks), Append(Last(blocks), s))

LEMMA BlocksAre == Blocks = FoldLeft(BlockStep, <<>>, Order)
BY DEF Blocks, BlockStep, Order, FoldLeft, MapThenFoldSet

\* What a fold of such steps is.
BlockFoldKept(acc, elements) ==
    <<>> \in acc /\ \A a \in acc, e \in elements : BlockStep(a, e) \in acc
BlockFoldRun(h, n, seq, total, acc) ==
    /\ h \in [0..n -> acc] /\ h[0] = <<>> /\ h[n] = total
    /\ \A i \in 1..n : h[i] = BlockStep(h[i - 1], seq[i])

LEMMA BlockFold ==
    ASSUME NEW n \in Nat, NEW elements, NEW acc, NEW seq \in [1..n -> elements],
           BlockFoldKept(acc, elements)
    PROVE  \E h : BlockFoldRun(h, n, seq, FoldLeft(BlockStep, <<>>, seq), acc)
<1> DEFINE op == [p \in acc \X elements |-> BlockStep(p[1], p[2])]
           Body(g) == g = [s \in SUBSET (1..n) |->
                              IF s = {} THEN <<>> ELSE BlockStep(g[s \ {Max(s)}], seq[Max(s)])]
           total == FoldLeft(BlockStep, <<>>, seq)
<1>1. total = (CHOOSE g : Body(g))[1..n]
  <2>1. DOMAIN seq = 1..n
    OBVIOUS
  <2> QED BY <2>1 DEF FoldLeft, MapThenFoldSet
<1>2. op \in [acc \X elements -> acc]
  BY DEF BlockFoldKept
<1>3. PICK w : FoldTable(w, op, <<>>, seq, acc, n)
  <2> HIDE DEF op
  <2> QED BY <1>2, FoldExists DEF BlockFoldKept
<1>4. \A s \in SUBSET (1..n) :
          w[s] = IF s = {} THEN <<>> ELSE BlockStep(w[s \ {Max(s)}], seq[Max(s)])
  <2>1. ASSUME NEW s \in SUBSET (1..n), s # {}
        PROVE  w[s] = BlockStep(w[s \ {Max(s)}], seq[Max(s)])
    <3>1. Max(s) \in 1..n
      BY <2>1, LastOfSome
    <3>2. w[s \ {Max(s)}] \in acc /\ seq[Max(s)] \in elements
      BY <1>3, <3>1 DEF FoldTable
    <3>3. w[s] = op[<<w[s \ {Max(s)}], seq[Max(s)]>>]
      BY <1>3, <2>1 DEF FoldTable, FoldStep
    <3> QED BY <3>2, <3>3
  <2>2. w[{}] = <<>>
    BY <1>3 DEF FoldTable, FoldStep
  <2> QED BY <2>1, <2>2
<1>5. Body(w)
  BY <1>3, <1>4 DEF FoldTable
<1> HIDE DEF Body
<1>6. PICK g : Body(g) /\ total = g[1..n]
  BY <1>1, <1>5
<1>7. \A s \in SUBSET (1..n) : g[s] = w[s]
  <2>1. \A s \in SUBSET (1..n) :
            g[s] = IF s = {} THEN <<>> ELSE BlockStep(g[s \ {Max(s)}], seq[Max(s)])
    BY <1>6 DEF Body
  <2>2. HandOn(g, w, n)
    BY <1>4, <2>1 DEF HandOn
  <2> QED BY <2>2, SameTable, SMTT(30)
<1>8. PICK h \in [0..n -> acc] :
          h[0] = <<>> /\ h[n] = w[1..n] /\ \A i \in 1..n : h[i] = op[<<h[i - 1], seq[i]>>]
  <2> HIDE DEF op
  <2> QED BY <1>3, FoldAlong
<1>9. ASSUME NEW i \in 1..n PROVE h[i] = BlockStep(h[i - 1], seq[i])
  <2>1. h[i - 1] \in acc /\ seq[i] \in elements
    BY <1>8
  <2> QED BY <1>8, <2>1
<1>10. h[n] = total
  <2>1. 1..n \in SUBSET (1..n)
    OBVIOUS
  <2> QED BY <1>6, <1>7, <1>8, <2>1
<1> HIDE DEF total
<1>11. BlockFoldRun(h, n, seq, total, acc)
  BY <1>8, <1>9, <1>10 DEF BlockFoldRun
<1> QED
  BY <1>11 DEF total

\* The blocks are the sentences in pieces.
LEMMA BlocksInPieces ==
    ASSUME TextTyped
    PROVE  InPieces(Order, 0, Len(text), Blocks, 0, Len(text), Len(text))
<1> DEFINE n == Len(text)
           acc == Seq(Seq(Nat))
<1>1. n \in Nat /\ Order \in Seq(Nat) /\ Len(Order) = n /\ \A s \in 1..n : Order[s] = s
  BY TextIs
<1>2. Order \in [1..n -> Nat]
  BY <1>1, SequenceIs
<1>3. BlockFoldKept(acc, Nat)
  <2> DEFINE Q == Seq(Nat)
  <2>1. <<>> \in Seq(Q)
    OBVIOUS
  <2>2. ASSUME NEW a \in Seq(Q), NEW e \in Nat PROVE BlockStep(a, e) \in Seq(Q)
    <3>1. <<e>> \in Q
      OBVIOUS
    <3>2. CASE text[e].opens \/ a = <<>>
      <4> DEFINE x == <<e>>
      <4>1. x \in Q
        BY <3>1
      <4> HIDE DEF x, Q
      <4>2. Append(a, x) \in Seq(Q)
        BY <4>1
      <4> QED BY <3>2, <4>2 DEF BlockStep, x
    <3>3. CASE ~(text[e].opens \/ a = <<>>)
      <4> DEFINE x == Append(Last(a), e)
                 f == Front(a)
      <4>1. f \in Seq(Q) /\ Last(a) \in Q
        <5> HIDE DEF Q
        <5>1. Len(a) \in Nat \ {0} /\ Last(a) \in Q
          BY <3>3 DEF Last
        <5> QED BY <5>1 DEF Front
      <4>2. x \in Q
        BY <4>1
      <4> HIDE DEF x, Q, f
      <4>3. Append(f, x) \in Seq(Q)
        BY <4>1, <4>2
      <4> QED BY <3>3, <4>3 DEF BlockStep, x, f
    <3> QED BY <3>2, <3>3
  <2> QED BY <2>1, <2>2 DEF BlockFoldKept
<1> DEFINE total == FoldLeft(BlockStep, <<>>, Order)
<1> HIDE DEF n, acc
<1>4. PICK h : BlockFoldRun(h, n, Order, total, acc)
  BY <1>1, <1>2, <1>3, BlockFold
<1> HIDE DEF total
<1> DEFINE Good == {i \in 0..n : InPieces(Order, 0, n, h[i], 0, i, i)}
<1>5. 0 \in Good
  <2>1. InPieces(Order, 0, n, <<>>, 0, 0, 0)
    BY <1>1, PiecesNone
  <2> QED BY <1>1, <1>4, <2>1 DEF BlockFoldRun
<1>6. ASSUME NEW i \in 1..n, i - 1 \in Good PROVE i \in Good
  <2> DEFINE b == i - 1
             cs == h[i - 1]
  <2>1. InPieces(Order, 0, n, cs, 0, b, b) /\ b \in Nat /\ i = b + 1 /\ i \in 0..n /\ b \in 0..n /\ h[i] = BlockStep(cs, i)
        /\ 0 \in Nat /\ n \in Nat /\ i \in 1..Len(Order) /\ b \in 0..Len(Order) /\ i \in 0..Len(Order)
    BY <1>1, <1>4, <1>6 DEF BlockFoldRun
  <2> HIDE DEF b, cs
  <2> SUFFICES InPieces(Order, 0, n, h[i], 0, i, i)
    BY <2>1
  <2>2. CASE text[i].opens \/ cs = <<>>
    <3>1. h[i] = Append(cs, SubSeq(Order, i, i))
      <4>1. SubSeq(Order, i, i) = <<Order[i]>>
        <5>1. i \in 1..i
          OBVIOUS
        <5> QED BY <1>1, <2>1, <5>1, OneLonger
      <4> QED BY <1>1, <2>1, <2>2, <4>1 DEF BlockStep
    <3>2. InPieces(Order, 0, n, Append(cs, SubSeq(Order, i, i)), 0, i, i)
      <4>1. b <= i /\ 0 < i /\ i <= b + 1 /\ b + 1 <= i + 0 /\ b <= i /\ i + 1 <= i + n /\ i \in Nat
        BY <2>1
      <4> QED BY <1>1, <2>1, <4>1, PiecesMore
    <3> QED BY <3>1, <3>2
  <2>3. CASE ~(text[i].opens \/ cs = <<>>)
    <3>0. PICK c, s : EndsWith(Order, 0, n, cs, 0, b, b, c, s)
      <4>1. cs # <<>> /\ Order \in Seq(Nat) /\ InPieces(Order, 0, n, cs, 0, b, b)
            /\ 0 \in Nat /\ n \in Nat /\ b \in Nat /\ b \in 0..Len(Order)
        BY <1>1, <2>1, <2>3
      <4> QED BY <4>1, PiecesSplit
    <3>1. /\ c \in 0..b /\ s \in (0 + 1)..b
          /\ InPieces(Order, 0, n, Front(cs), 0, s, c) /\ Last(cs) = SubSeq(Order, s, b)
          /\ s <= c + 1 /\ c + 1 <= s + 0 /\ b + 1 <= s + n
      BY <3>0 DEF EndsWith
    <3>5. s \in Nat /\ c \in Nat /\ s \in 1..b /\ c <= b /\ s <= b
      BY <2>1, <3>1
    <3>2. h[i] = Append(Front(cs), SubSeq(Order, s, i))
      <4>1. Append(SubSeq(Order, s, b), Order[i]) = SubSeq(Order, s, i)
        <5>1. s \in 1..i
          BY <2>1, <3>5
        <5>2. b = i - 1
          BY <2>1
        <5> QED BY <1>1, <2>1, <5>1, <5>2, OneLonger
      <4>2. Order[i] = i
        BY <1>1
      <4>3. h[i] = Append(Front(cs), Append(Last(cs), i))
        BY <2>1, <2>3 DEF BlockStep
      <4> QED BY <3>1, <4>1, <4>2, <4>3
    <3>3. InPieces(Order, 0, n, Append(Front(cs), SubSeq(Order, s, i)), 0, s, i)
      <4>1. s <= s /\ 0 < s /\ c <= i /\ i + 1 <= s + n /\ s \in Nat /\ c \in 0..Len(Order)
        BY <1>1, <2>1, <3>5
      <4> QED BY <1>1, <2>1, <3>1, <4>1, PiecesMore
    <3>4. InPieces(Order, 0, n, Append(Front(cs), SubSeq(Order, s, i)), 0, i, i)
      <4>1. s <= i /\ s \in Nat /\ i \in Nat
        BY <2>1, <3>5
      <4> QED BY <2>1, <3>3, <4>1, PiecesLater
    <3> QED BY <3>2, <3>4
  <2> QED BY <2>2, <2>3
<1>7. HandedOn(Good, n)
  BY <1>5, <1>6 DEF HandedOn
<1>8. InPieces(Order, 0, n, h[n], 0, n, n)
  <2>1. 0..n \subseteq Good /\ n \in 0..n
    <3> HIDE DEF Good
    <3> QED BY <1>1, <1>7, Along
  <2> QED BY <2>1
<1>9. h[n] = Blocks
  BY <1>4, BlocksAre DEF BlockFoldRun, total
<1> QED
  BY <1>8, <1>9 DEF n

\* What the sentences are in pieces of, the words are.
LEMMA JoinedPieces ==
    ASSUME TextTyped, NEW to, Ends(to), NEW bs, NEW l \in Nat,
           InPieces(Order, 0, Len(text), bs, 0, l, Len(text))
    PROVE  InPieces(Whole, 0, Len(Whole), [k \in DOMAIN bs |-> Joined(bs[k])], 0, Len(Whole) + 1, Len(Whole))
<1> DEFINE n == Len(text)
           N == Len(Whole)
           p == Len(bs)
<1>1. /\ n \in Nat /\ Order \in Seq(Nat) /\ Len(Order) = n /\ 0 \in Nat /\ n \in 0..Len(Order)
      /\ N \in Nat /\ to[0] = 0 /\ to[n] = N /\ (\A a \in 0..n : to[a] \in 0..N)
      /\ \A a, b \in 0..n : a <= b => to[a] <= to[b]
  <2>1. n \in Nat /\ Order \in Seq(Nat) /\ Len(Order) = n
    BY TextIs
  <2>2. N \in Nat /\ to[0] = 0 /\ to[n] = N /\ (\A a \in 0..n : to[a] \in 0..N)
        /\ \A a, b \in 0..n : a <= b => to[a] <= to[b]
    BY EndsSay
  <2> HIDE DEF n, N
  <2>3. n \in 0..n
    BY <2>1
  <2> QED BY <2>1, <2>2, <2>3
<1>2. p \in Nat /\ DOMAIN bs = 1..p
  <2> HIDE DEF n
  <2>1. InPieces(Order, 0, n, bs, 0, l, n)
    BY DEF n
  <2>2. n \in 0..Len(Order) /\ Order \in Seq(Nat) /\ 0 \in Nat /\ n \in Nat
    BY <1>1
  <2> QED BY <2>1, <2>2, PiecesAre
<1>3. PICK st, en : PiecesAt(Order, 0, n, bs, 0, l, n, p, st, en)
  BY <1>1, PiecesSay
<1>4. /\ st \in [1..p -> (0 + 1)..l] /\ en \in [0..p -> 0..n]
      /\ InPlace(0, p, st, en) /\ en[0] = 0 /\ en[p] = n
      /\ bs = [k \in 1..p |-> SubSeq(Order, st[k], en[k])]
  BY <1>3 DEF PiecesAt
<1> HIDE DEF n, N, p
<1> DEFINE ds == [k \in 1..p |-> Joined(bs[k])]
           sd == [k \in 1..p |-> to[en[k - 1]] + 1]
           ed == [k \in 0..p |-> to[en[k]]]
<1>5. ASSUME NEW k \in 1..p
      PROVE  /\ k \in 0..p /\ k - 1 \in 0..p /\ en[k - 1] \in 0..n /\ en[k] \in 0..n /\ en[k - 1] <= en[k]
             /\ st[k] = en[k - 1] + 1
  <2>1. k \in 0..p /\ k - 1 \in 0..p
    BY <1>2
  <2> DEFINE x == st[k]
             y == en[k - 1]
             z == en[k]
  <2>2. x \in (0 + 1)..l /\ y \in 0..n /\ z \in 0..n /\ x <= y + 1 /\ y + 1 <= x + 0 /\ y <= z
    BY <1>4, <2>1 DEF InPlace
  <2> HIDE DEF x, y, z
  <2>3. x = y + 1
    BY <2>2
  <2> QED BY <2>1, <2>2, <2>3 DEF x, y, z
<1>6. ASSUME NEW k \in 1..p
      PROVE  /\ ds[k] = SubSeq(Whole, sd[k], ed[k]) /\ sd[k] = ed[k - 1] + 1 /\ ed[k - 1] <= ed[k]
             /\ ed[k - 1] \in 0..N /\ ed[k] \in 0..N /\ k \in 0..p /\ k - 1 \in 0..p
  <2>1. bs[k] = Run(en[k - 1], en[k])
    BY <1>4, <1>5 DEF Run
  <2>2. Joined(Run(en[k - 1], en[k])) = SubSeq(Whole, to[en[k - 1]] + 1, to[en[k]])
    BY <1>5, RunJoined DEF n
  <2>3. to[en[k - 1]] <= to[en[k]]
    BY <1>1, <1>5
  <2> QED BY <1>1, <1>5, <2>1, <2>2, <2>3
<1>7. ed[0] = 0 /\ ed[p] = N
  BY <1>1, <1>2, <1>4
<1>8. ASSUME NEW j \in 1..p, NEW k \in 1..p, j < k PROVE sd[j] <= sd[k] /\ ed[j] <= ed[k]
  <2>1. en[j] <= en[k]
    BY <1>4, <1>8 DEF InPlace
  <2>2. to[en[j]] <= to[en[k]]
    BY <1>1, <1>5, <2>1
  <2>3. en[j - 1] <= en[k - 1]
    <3>1. CASE j = 1
      <4>1. en[j - 1] = 0
        BY <1>4, <3>1
      <4> QED BY <1>5, <4>1
    <3>2. CASE j # 1
      <4>1. j - 1 \in 1..p /\ k - 1 \in 1..p /\ j - 1 < k - 1
        BY <1>2, <1>8, <3>2
      <4> QED BY <1>4, <4>1 DEF InPlace
    <3> QED BY <3>1, <3>2
  <2>4. to[en[j - 1]] <= to[en[k - 1]] /\ to[en[j - 1]] \in 0..N /\ to[en[k - 1]] \in 0..N
    BY <1>1, <1>5, <2>3
  <2> QED BY <1>1, <2>2, <2>4
<1>9. sd = [k \in 1..p |-> sd[k]] /\ ed = [k \in 0..p |-> ed[k]] /\ ds = [k \in 1..p |-> ds[k]]
      /\ ds = [k \in DOMAIN bs |-> Joined(bs[k])]
  BY <1>2 DEF p
<1> HIDE DEF sd, ed, ds
<1>10. ASSUME NEW k \in 1..p PROVE sd[k] \in (0 + 1)..(N + 1) /\ ed[k] + 1 <= sd[k] + N
  <2> DEFINE x == ed[k - 1]
             y == ed[k]
  <2>1. x \in 0..N /\ y \in 0..N /\ x <= y /\ sd[k] = x + 1
    BY <1>6
  <2> HIDE DEF x, y
  <2>2. x + 1 \in (0 + 1)..(N + 1) /\ y + 1 <= x + 1 + N
    BY <1>1, <2>1
  <2> QED BY <2>1, <2>2 DEF y
<1>11. sd \in [1..p -> (0 + 1)..(N + 1)] /\ ed \in [0..p -> 0..N]
  <2>1. \A k \in 0..p : k = 0 \/ k \in 1..p
    BY <1>2
  <2>2. \A k \in 0..p : ed[k] \in 0..N
    BY <1>1, <1>6, <1>7, <2>1
  <2> QED BY <1>9, <1>10, <2>2
<1>12. InPlace(0, p, sd, ed)
  <2>1. ASSUME NEW k \in 1..p PROVE sd[k] <= ed[k - 1] + 1 /\ ed[k - 1] + 1 <= sd[k] + 0 /\ ed[k - 1] <= ed[k]
    BY <1>1, <1>6
  <2> QED BY <1>8, <2>1 DEF InPlace
<1>13. ds = [k \in 1..p |-> SubSeq(Whole, sd[k], ed[k])]
  BY <1>6, <1>9
<1>14. InPieces(Whole, 0, N, ds, 0, N + 1, N)
  BY <1>2, <1>7, <1>10, <1>11, <1>12, <1>13 DEF InPieces, PiecesAt
<1> QED
  BY <1>9, <1>14 DEF N
\* The pieces and what is left after them, if anything is.
LEMMA PiecesTake ==
    ASSUME NEW S, NEW T \in Seq(S), NEW over \in Nat, NEW limit \in Nat, NEW cs, NEW a \in Nat,
           NEW b \in 0..Len(T), InPieces(T, over, limit, cs, a, b + 1, b),
           NEW e \in 0..Len(T), b <= e, e <= b + limit
    PROVE  InPieces(T, over, limit, cs \o Nonempty(SubSeq(T, b + 1, e)), a, e + 1, e)
<1> DEFINE l == b + 1
           s == SubSeq(T, l, e)
<1>0. Len(T) \in Nat
  OBVIOUS
<1>1. l \in Nat /\ l \in 1..(Len(T) + 1) /\ l <= e + 1 /\ b \in Nat /\ e \in Nat /\ e + 1 \in Nat
  BY <1>0
<1>2. cs \in Seq(Seq(S)) /\ a <= b
  <2>1. InPieces(T, over, limit, cs, a, l, b)
    OBVIOUS
  <2> HIDE DEF l
  <2> QED BY <1>1, <2>1, PiecesAre
<1>3. s \in Seq(S) /\ Len(s) = e + 1 - l
  <2> HIDE DEF l
  <2> QED BY <1>1, PieceHas
<1>4. CASE b = e
  <2>1. s = <<>>
    <3> HIDE DEF s
    <3>1. Len(s) = 0
      BY <1>1, <1>3, <1>4
    <3> QED BY <1>3, <3>1
  <2>2. cs \o Nonempty(s) = cs
    <3> DEFINE Q == Seq(S)
    <3>1. cs \in Seq(Q)
      BY <1>2
    <3> HIDE DEF Q
    <3>2. cs \o <<>> = cs
      BY <3>1
    <3> QED BY <2>1, <3>2 DEF Nonempty
  <2> QED BY <1>4, <2>2
<1>5. CASE b # e
  <2>1. s # <<>>
    <3> HIDE DEF s
    <3> QED BY <1>1, <1>3, <1>5
  <2>2. cs \o Nonempty(s) = Append(cs, s)
    <3> DEFINE Q == Seq(S)
    <3>1. cs \in Seq(Q) /\ s \in Q
      BY <1>2, <1>3
    <3> HIDE DEF Q, s
    <3>2. cs \o <<s>> = Append(cs, s)
      BY <3>1
    <3> QED BY <2>1, <3>2 DEF Nonempty
  <2>3. InPieces(T, over, limit, Append(cs, s), a, l, e)
    <3>1. InPieces(T, over, limit, cs, a, l, b)
      OBVIOUS
    <3>2. l <= l /\ a < l /\ l <= b + 1 /\ b + 1 <= l + over /\ b <= e /\ e + 1 <= l + limit
      BY <1>1, <1>2
    <3> HIDE DEF l
    <3> QED BY <1>1, <3>1, <3>2, PiecesMore
  <2>4. InPieces(T, over, limit, Append(cs, s), a, e + 1, e)
    <3> DEFINE m == e + 1
    <3>1. l <= m /\ m \in Nat
      BY <1>1
    <3> HIDE DEF l, m, s
    <3>2. InPieces(T, over, limit, Append(cs, s), a, m, e)
      BY <1>1, <2>3, <3>1, PiecesLater
    <3> QED BY <3>2 DEF m
  <2> QED BY <2>2, <2>4
<1> QED
  BY <1>4, <1>5

\* A word of the sentences after a, up to b, is of one of them.
LEMMA WordOfRun ==
    ASSUME TextTyped, NEW to, Ends(to), NEW a \in 0..Len(text), NEW b \in 0..Len(text), a <= b,
           NEW x \in (to[a] + 1)..to[b]
    PROVE  Whole[x] \in Word /\ Whole[x][1] \in (a + 1)..b
<1> DEFINE n == Len(text)
           N == Len(Whole)
           A == to[a]
           B == to[b]
           m == b - a
           stretch == SubSeq(Whole, A + 1, B)
           seqs == [i \in 1..m |-> Words(a + i)]
<1>1. /\ n \in Nat /\ m \in Nat /\ N \in Nat /\ Whole \in Seq(Word) /\ A \in 0..N /\ B \in 0..N /\ A <= B
  BY EndsSay, TextIs
<1>2. \A i \in 1..m : a + i \in 1..n /\ a + i \in (a + 1)..b
  OBVIOUS
<1>3. \A s \in 1..n : /\ Words(s) \in Seq(Word) /\ DOMAIN Words(s) = 1..Size(s)
                      /\ \A w \in 1..Size(s) : Words(s)[w] = <<s, w>>
  <2>1. \A s \in 1..n : /\ Words(s) \in Seq(Word) /\ Len(Words(s)) = Size(s)
                        /\ \A w \in 1..Size(s) : Words(s)[w] = <<s, w>>
    BY TextIs
  <2> QED BY <2>1, SequenceIs
<1>4. stretch = FlattenSeq(seqs)
  <2>1. DOMAIN Run(a, b) = 1..m /\ \A i \in 1..m : Run(a, b)[i] = a + i
    BY RunIs
  <2>2. [i \in DOMAIN Run(a, b) |-> Words(Run(a, b)[i])] = seqs
    BY <2>1
  <2>3. Joined(Run(a, b)) = stretch
    BY RunJoined
  <2> HIDE DEF seqs, stretch
  <2> QED BY <2>2, <2>3 DEF Joined
<1>5. seqs \in [1..m -> Seq(Word)]
  BY <1>2, <1>3
<1>6. ToSet(stretch) = UNION {ToSet(seqs[i]) : i \in 1..m}
  <2>1. m \in Nat
    BY <1>1
  <2> HIDE DEF seqs, m, stretch
  <2>2. ToSet(FlattenSeq(seqs)) = UNION {ToSet(seqs[i]) : i \in 1..m}
    BY <1>5, <2>1, FlattenHas
  <2> QED BY <1>4, <2>2
<1>7. Whole[x] \in ToSet(stretch)
  <2> DEFINE u == A + 1
             i == x - A
  <2>1. u \in 1..(N + 1) /\ B \in 0..N /\ u <= B + 1 /\ i \in 1..(B + 1 - u) /\ u + i - 1 = x
    <3> HIDE DEF A, B, N
    <3>1. x \in (A + 1)..B
      BY DEF A, B
    <3> QED BY <1>1, <3>1
  <2> HIDE DEF A, B, N
  <2>2. DOMAIN stretch = 1..(B + 1 - u) /\ \A j \in 1..(B + 1 - u) : stretch[j] = Whole[u + j - 1]
    <3> HIDE DEF u
    <3>1. SubSeq(Whole, u, B) \in Seq(Word) /\ Len(SubSeq(Whole, u, B)) = B + 1 - u
          /\ \A j \in 1..(B + 1 - u) : SubSeq(Whole, u, B)[j] = Whole[u + j - 1]
      BY <1>1, <2>1, PieceHas DEF N
    <3>2. DOMAIN SubSeq(Whole, u, B) = 1..(B + 1 - u)
      BY <3>1, SequenceIs
    <3> QED BY <3>1, <3>2 DEF u
  <2> HIDE DEF u, i, stretch
  <2> QED BY <2>1, <2>2 DEF ToSet
<1>8. PICK i \in 1..m : Whole[x] \in ToSet(seqs[i])
  BY <1>6, <1>7
<1>9. PICK w \in DOMAIN Words(a + i) : Whole[x] = Words(a + i)[w]
  BY <1>8 DEF ToSet
<1>10. Whole[x] = <<a + i, w>> /\ w \in Nat
  <2> DEFINE c == a + i
  <2>1. c \in 1..n
    BY <1>2
  <2>2. DOMAIN Words(c) = 1..Size(c) /\ (\A v \in 1..Size(c) : Words(c)[v] = <<c, v>>) /\ Size(c) \in Nat
    BY <1>3, <2>1, TextIs
  <2>3. w \in 1..Size(c) /\ Whole[x] = Words(c)[w]
    BY <1>9, <2>2
  <2> HIDE DEF c
  <2>4. Words(c)[w] = <<c, w>> /\ w \in Nat
    BY <2>2, <2>3
  <2> QED BY <2>3, <2>4 DEF c
<1> QED
  BY <1>2, <1>10 DEF Word

-----------------------------------------------------------------------------
(* The clauses of a policy *)

\* The headings of a policy, a sentence at a time.
HeadStep(found, s) == IF text[s].opens /\ s - 1 \notin found THEN found \cup {s} ELSE found

LEMMA HeadingsAre == Headings = FoldLeft(HeadStep, {}, Order)
BY DEF Headings, HeadStep, Order, FoldLeft, MapThenFoldSet

\* What a fold of such steps is.
HeadFoldKept(acc, elements) ==
    {} \in acc /\ \A a \in acc, e \in elements : HeadStep(a, e) \in acc
HeadFoldRun(h, n, seq, total, acc) ==
    /\ h \in [0..n -> acc] /\ h[0] = {} /\ h[n] = total
    /\ \A i \in 1..n : h[i] = HeadStep(h[i - 1], seq[i])

LEMMA HeadFold ==
    ASSUME NEW n \in Nat, NEW elements, NEW acc, NEW seq \in [1..n -> elements],
           HeadFoldKept(acc, elements)
    PROVE  \E h : HeadFoldRun(h, n, seq, FoldLeft(HeadStep, {}, seq), acc)
<1> DEFINE op == [p \in acc \X elements |-> HeadStep(p[1], p[2])]
           Body(g) == g = [s \in SUBSET (1..n) |->
                              IF s = {} THEN {} ELSE HeadStep(g[s \ {Max(s)}], seq[Max(s)])]
           total == FoldLeft(HeadStep, {}, seq)
<1>1. total = (CHOOSE g : Body(g))[1..n]
  <2>1. DOMAIN seq = 1..n
    OBVIOUS
  <2> QED BY <2>1 DEF FoldLeft, MapThenFoldSet
<1>2. op \in [acc \X elements -> acc]
  BY DEF HeadFoldKept
<1>3. PICK w : FoldTable(w, op, {}, seq, acc, n)
  <2> HIDE DEF op
  <2> QED BY <1>2, FoldExists DEF HeadFoldKept
<1>4. \A s \in SUBSET (1..n) :
          w[s] = IF s = {} THEN {} ELSE HeadStep(w[s \ {Max(s)}], seq[Max(s)])
  <2>1. ASSUME NEW s \in SUBSET (1..n), s # {}
        PROVE  w[s] = HeadStep(w[s \ {Max(s)}], seq[Max(s)])
    <3>1. Max(s) \in 1..n
      BY <2>1, LastOfSome
    <3>2. w[s \ {Max(s)}] \in acc /\ seq[Max(s)] \in elements
      BY <1>3, <3>1 DEF FoldTable
    <3>3. w[s] = op[<<w[s \ {Max(s)}], seq[Max(s)]>>]
      BY <1>3, <2>1 DEF FoldTable, FoldStep
    <3> QED BY <3>2, <3>3
  <2>2. w[{}] = {}
    BY <1>3 DEF FoldTable, FoldStep
  <2> QED BY <2>1, <2>2
<1>5. Body(w)
  BY <1>3, <1>4 DEF FoldTable
<1> HIDE DEF Body
<1>6. PICK g : Body(g) /\ total = g[1..n]
  BY <1>1, <1>5
<1>7. \A s \in SUBSET (1..n) : g[s] = w[s]
  <2>1. \A s \in SUBSET (1..n) :
            g[s] = IF s = {} THEN {} ELSE HeadStep(g[s \ {Max(s)}], seq[Max(s)])
    BY <1>6 DEF Body
  <2>2. HandOn(g, w, n)
    BY <1>4, <2>1 DEF HandOn
  <2> QED BY <2>2, SameTable, SMTT(30)
<1>8. PICK h \in [0..n -> acc] :
          h[0] = {} /\ h[n] = w[1..n] /\ \A i \in 1..n : h[i] = op[<<h[i - 1], seq[i]>>]
  <2> HIDE DEF op
  <2> QED BY <1>3, FoldAlong
<1>9. ASSUME NEW i \in 1..n PROVE h[i] = HeadStep(h[i - 1], seq[i])
  <2>1. h[i - 1] \in acc /\ seq[i] \in elements
    BY <1>8
  <2> QED BY <1>8, <2>1
<1>10. h[n] = total
  <2>1. 1..n \in SUBSET (1..n)
    OBVIOUS
  <2> QED BY <1>6, <1>7, <1>8, <2>1
<1> HIDE DEF total
<1>11. HeadFoldRun(h, n, seq, total, acc)
  BY <1>8, <1>9, <1>10 DEF HeadFoldRun
<1> QED
  BY <1>11 DEF total

LEMMA HeadingsIn == ASSUME TextTyped PROVE Headings \in SUBSET (1..Len(text))
<1> DEFINE n == Len(text)
           acc == SUBSET (1..n)
<1>1. n \in Nat /\ Order \in [1..n -> 1..n]
  <2>1. n \in Nat /\ Order \in Seq(Nat) /\ Len(Order) = n /\ \A s \in 1..n : Order[s] = s
    BY TextIs
  <2>2. Order \in [1..n -> Nat]
    BY <2>1, SequenceIs
  <2> QED BY <2>1, <2>2
<1>2. HeadFoldKept(acc, 1..n)
  BY DEF HeadFoldKept, HeadStep
<1> HIDE DEF acc
<1>3. PICK h : HeadFoldRun(h, n, Order, FoldLeft(HeadStep, {}, Order), acc)
  BY <1>1, <1>2, HeadFold
<1>4. h[n] \in acc /\ h[n] = Headings
  BY <1>1, <1>3, HeadingsAre DEF HeadFoldRun
<1> QED
  BY <1>4 DEF acc

\* The heading that a sentence is under.
RefOf(s) == Max({0} \cup {h \in Headings : h <= s})

LEMMA RefIs ==
    ASSUME TextTyped, NEW i \in 1..Len(text)
    PROVE  /\ i \in Headings => RefOf(i) = i
           /\ i = 1 /\ i \notin Headings => RefOf(i) = 0
           /\ i > 1 /\ i \notin Headings => RefOf(i) = RefOf(i - 1)
<1>1. Headings \in SUBSET (1..Len(text)) /\ Len(text) \in Nat
  BY HeadingsIn, TextIs
<1> DEFINE H == {0} \cup {h \in Headings : h <= i}
<1>2. RefOf(i) = CHOOSE x \in H : \A y \in H : x >= y
  BY DEF RefOf, Max
<1>3. H \subseteq Nat /\ \A y \in H : y <= i
  <2>1. i \in Nat /\ 0 <= i
    OBVIOUS
  <2>2. \A h \in Headings : h \in Nat
    BY <1>1
  <2> QED BY <2>1, <2>2
<1>4. ASSUME i \in Headings PROVE RefOf(i) = i
  <2>1. i \in H
    BY <1>4
  <2> HIDE DEF H
  <2>2. \A x \in H : (\A y \in H : x >= y) => x = i
    BY <1>3, <2>1
  <2>3. \A y \in H : i >= y
    BY <1>3
  <2> QED BY <1>2, <2>1, <2>2, <2>3
<1>5. ASSUME i = 1, i \notin Headings PROVE RefOf(i) = 0
  <2>1. H = {0}
    <3>1. \A h \in Headings : h \in Nat /\ h # 0 /\ h # 1
      BY <1>1, <1>5
    <3>2. \A h \in Headings : ~(h <= i)
      BY <1>5, <3>1
    <3> QED BY <3>2
  <2> HIDE DEF H
  <2> QED BY <1>2, <2>1
<1>6. ASSUME i > 1, i \notin Headings PROVE RefOf(i) = RefOf(i - 1)
  <2>1. H = {0} \cup {h \in Headings : h <= i - 1}
    <3>1. \A h \in Headings : h <= i <=> h <= i - 1
      BY <1>1, <1>6
    <3> QED BY <3>1
  <2> QED BY <2>1 DEF RefOf
<1> QED
  BY <1>4, <1>5, <1>6

\* The clauses of a policy, a sentence at a time.
ClauseStep(clauses, s) ==
    IF s \in Headings \/ clauses = <<>>
    THEN Append(clauses, [ref |-> IF s \in Headings THEN s ELSE 0, sentences |-> <<s>>])
    ELSE Append(Front(clauses), [Last(clauses) EXCEPT !.sentences = Append(@, s)])

LEMMA ClausesAre == Clauses = FoldLeft(ClauseStep, <<>>, Order)
BY DEF Clauses, ClauseStep, Order, FoldLeft, MapThenFoldSet

\* What a fold of such steps is.
ClauseFoldKept(acc, elements) ==
    <<>> \in acc /\ \A a \in acc, e \in elements : ClauseStep(a, e) \in acc
ClauseFoldRun(h, n, seq, total, acc) ==
    /\ h \in [0..n -> acc] /\ h[0] = <<>> /\ h[n] = total
    /\ \A i \in 1..n : h[i] = ClauseStep(h[i - 1], seq[i])

LEMMA ClauseFold ==
    ASSUME NEW n \in Nat, NEW elements, NEW acc, NEW seq \in [1..n -> elements],
           ClauseFoldKept(acc, elements)
    PROVE  \E h : ClauseFoldRun(h, n, seq, FoldLeft(ClauseStep, <<>>, seq), acc)
<1> DEFINE op == [p \in acc \X elements |-> ClauseStep(p[1], p[2])]
           Body(g) == g = [s \in SUBSET (1..n) |->
                              IF s = {} THEN <<>> ELSE ClauseStep(g[s \ {Max(s)}], seq[Max(s)])]
           total == FoldLeft(ClauseStep, <<>>, seq)
<1>1. total = (CHOOSE g : Body(g))[1..n]
  <2>1. DOMAIN seq = 1..n
    OBVIOUS
  <2> QED BY <2>1 DEF FoldLeft, MapThenFoldSet
<1>2. op \in [acc \X elements -> acc]
  BY DEF ClauseFoldKept
<1>3. PICK w : FoldTable(w, op, <<>>, seq, acc, n)
  <2> HIDE DEF op
  <2> QED BY <1>2, FoldExists DEF ClauseFoldKept
<1>4. \A s \in SUBSET (1..n) :
          w[s] = IF s = {} THEN <<>> ELSE ClauseStep(w[s \ {Max(s)}], seq[Max(s)])
  <2>1. ASSUME NEW s \in SUBSET (1..n), s # {}
        PROVE  w[s] = ClauseStep(w[s \ {Max(s)}], seq[Max(s)])
    <3>1. Max(s) \in 1..n
      BY <2>1, LastOfSome
    <3>2. w[s \ {Max(s)}] \in acc /\ seq[Max(s)] \in elements
      BY <1>3, <3>1 DEF FoldTable
    <3>3. w[s] = op[<<w[s \ {Max(s)}], seq[Max(s)]>>]
      BY <1>3, <2>1 DEF FoldTable, FoldStep
    <3> QED BY <3>2, <3>3
  <2>2. w[{}] = <<>>
    BY <1>3 DEF FoldTable, FoldStep
  <2> QED BY <2>1, <2>2
<1>5. Body(w)
  BY <1>3, <1>4 DEF FoldTable
<1> HIDE DEF Body
<1>6. PICK g : Body(g) /\ total = g[1..n]
  BY <1>1, <1>5
<1>7. \A s \in SUBSET (1..n) : g[s] = w[s]
  <2>1. \A s \in SUBSET (1..n) :
            g[s] = IF s = {} THEN <<>> ELSE ClauseStep(g[s \ {Max(s)}], seq[Max(s)])
    BY <1>6 DEF Body
  <2>2. HandOn(g, w, n)
    BY <1>4, <2>1 DEF HandOn
  <2> QED BY <2>2, SameTable, SMTT(30)
<1>8. PICK h \in [0..n -> acc] :
          h[0] = <<>> /\ h[n] = w[1..n] /\ \A i \in 1..n : h[i] = op[<<h[i - 1], seq[i]>>]
  <2> HIDE DEF op
  <2> QED BY <1>3, FoldAlong
<1>9. ASSUME NEW i \in 1..n PROVE h[i] = ClauseStep(h[i - 1], seq[i])
  <2>1. h[i - 1] \in acc /\ seq[i] \in elements
    BY <1>8
  <2> QED BY <1>8, <2>1
<1>10. h[n] = total
  <2>1. 1..n \in SUBSET (1..n)
    OBVIOUS
  <2> QED BY <1>6, <1>7, <1>8, <2>1
<1> HIDE DEF total
<1>11. ClauseFoldRun(h, n, seq, total, acc)
  BY <1>8, <1>9, <1>10 DEF ClauseFoldRun
<1> QED
  BY <1>11 DEF total

Clause == [ref : Nat, sentences : Seq(Nat)]
Sentences(cl) == [k \in DOMAIN cl |-> cl[k].sentences]
RefsAre(cl) == \A k \in DOMAIN cl : \A s \in ToSet(cl[k].sentences) : cl[k].ref = RefOf(s)

\* The sentences of clauses when one is added, and when the last one is taken away.
LEMMA SentencesOf ==
    ASSUME NEW cl \in Seq(Clause), NEW c \in Clause
    PROVE  /\ Append(cl, c) \in Seq(Clause)
           /\ Sentences(Append(cl, c)) = Append(Sentences(cl), c.sentences)
           /\ cl = <<>> <=> Sentences(cl) = <<>>
           /\ RefsAre(cl) /\ (\A s \in ToSet(c.sentences) : c.ref = RefOf(s)) => RefsAre(Append(cl, c))
<1> DEFINE R == Clause
           Q == Seq(Nat)
           n == Len(cl)
           d == c.sentences
           A == Append(cl, c)
           B == Append(Sentences(cl), d)
<1>1. \A x \in R : x.sentences \in Q
  BY DEF Clause
<1> HIDE DEF R, Q
<1>2. /\ cl \in Seq(R) /\ c \in R /\ n \in Nat /\ DOMAIN cl = 1..n /\ (\A k \in 1..n : cl[k] \in R) /\ d \in Q
      /\ A \in Seq(R) /\ DOMAIN A = 1..(n + 1) /\ (\A k \in 1..n : A[k] = cl[k]) /\ A[n + 1] = c
  <2>1. cl \in Seq(R) /\ c \in R
    BY DEF R
  <2> QED BY <1>1, <2>1, OneMore, SequenceIs
<1>3. Sentences(cl) \in [1..n -> Q] /\ \A k \in 1..n : Sentences(cl)[k] = cl[k].sentences
  BY <1>1, <1>2 DEF Sentences
<1>4. Sentences(cl) \in Seq(Q) /\ DOMAIN Sentences(cl) = 1..n /\ Len(Sentences(cl)) = n
  BY <1>2, <1>3, IsSequence
<1>5. /\ B \in Seq(Q) /\ DOMAIN B = 1..(n + 1) /\ (\A k \in 1..n : B[k] = Sentences(cl)[k]) /\ B[n + 1] = d
  <2> DEFINE S == Sentences(cl)
  <2>1. S \in Seq(Q) /\ d \in Q /\ Len(S) = n
    BY <1>2, <1>4
  <2> HIDE DEF S, d
  <2> QED BY <2>1, OneMore DEF S
<1> HIDE DEF A, B
<1>6. Sentences(A) = B
  <2>1. \A k \in 1..(n + 1) : A[k].sentences = B[k]
    <3>1. \A k \in 1..(n + 1) : k \in 1..n \/ k = n + 1
      BY <1>2
    <3> QED BY <1>2, <1>3, <1>5, <3>1
  <2>2. B = [k \in 1..(n + 1) |-> B[k]]
    BY <1>5, SequenceIs
  <2> QED BY <1>2, <2>1, <2>2 DEF Sentences
<1>7. cl = <<>> <=> Sentences(cl) = <<>>
  <2>1. cl = <<>> <=> n = 0
    BY <1>2
  <2> DEFINE S == Sentences(cl)
  <2>2. S \in Seq(Q) /\ Len(S) = n
    BY <1>4
  <2> HIDE DEF S
  <2>3. S = <<>> <=> n = 0
    BY <2>2
  <2> QED BY <2>1, <2>3 DEF S
<1>8. ASSUME RefsAre(cl), \A s \in ToSet(c.sentences) : c.ref = RefOf(s) PROVE RefsAre(A)
  <2>1. \A k \in 1..(n + 1) : k \in 1..n \/ k = n + 1
    BY <1>2
  <2> QED BY <1>2, <1>8, <2>1 DEF RefsAre
<1> QED
  BY <1>2, <1>6, <1>7, <1>8 DEF A, B, R

LEMMA SentencesBefore ==
    ASSUME NEW cl \in Seq(Clause), cl # <<>>
    PROVE  /\ Front(cl) \in Seq(Clause) /\ Last(cl) \in Clause
           /\ Sentences(Front(cl)) = Front(Sentences(cl)) /\ Last(Sentences(cl)) = Last(cl).sentences
           /\ RefsAre(cl) => RefsAre(Front(cl)) /\ \A s \in ToSet(Last(cl).sentences) : Last(cl).ref = RefOf(s)
<1> DEFINE R == Clause
           Q == Seq(Nat)
           n == Len(cl)
           m == n - 1
           A == SubSeq(cl, 1, m)
           S == Sentences(cl)
           B == SubSeq(S, 1, m)
<1>1. \A x \in R : x.sentences \in Q
  BY DEF Clause
<1> HIDE DEF R, Q
<1>2. cl \in Seq(R) /\ n \in Nat \ {0} /\ DOMAIN cl = 1..n /\ (\A k \in 1..n : cl[k] \in R)
  <2>1. cl \in Seq(R)
    BY DEF R
  <2> QED BY <2>1
<1>3. m \in 0..n /\ n \in 1..n /\ \A k \in 1..m : k \in 1..n
  BY <1>2
<1>4. S \in [1..n -> Q] /\ \A k \in 1..n : S[k] = cl[k].sentences
  BY <1>1, <1>2 DEF Sentences
<1>5. S \in Seq(Q) /\ DOMAIN S = 1..n /\ Len(S) = n
  BY <1>2, <1>4, IsSequence
<1> HIDE DEF m, S
<1>6. A \in Seq(R) /\ DOMAIN A = 1..m /\ \A k \in 1..m : A[k] = cl[k]
  BY <1>2, <1>3, Beginning
<1>7. B \in Seq(Q) /\ DOMAIN B = 1..m /\ \A k \in 1..m : B[k] = S[k]
  BY <1>3, <1>5, Beginning
<1> HIDE DEF A, B
<1>8. Sentences(A) = B
  <2>1. \A k \in 1..m : A[k].sentences = B[k]
    BY <1>3, <1>4, <1>6, <1>7
  <2>2. B = [k \in 1..m |-> B[k]]
    BY <1>7, SequenceIs
  <2> QED BY <1>6, <2>1, <2>2 DEF Sentences
<1>9. Front(cl) = A /\ Front(S) = B /\ Last(cl) = cl[n] /\ Last(S) = S[n]
  BY <1>5 DEF Front, Last, A, B, m
<1>10. ASSUME RefsAre(cl) PROVE RefsAre(A) /\ \A s \in ToSet(cl[n].sentences) : cl[n].ref = RefOf(s)
  BY <1>2, <1>3, <1>6, <1>10 DEF RefsAre
<1> QED
  BY <1>2, <1>3, <1>4, <1>6, <1>8, <1>9, <1>10 DEF S, R

ClausesUpTo(cl, i) ==
    /\ cl \in Seq(Clause) /\ RefsAre(cl)
    /\ InPieces(Order, 0, Len(text), Sentences(cl), 0, i, i)

\* A sentence opens a clause or goes to the last one.
LEMMA ClauseOpens ==
    ASSUME TextTyped, NEW i \in 1..Len(text), NEW cl, ClausesUpTo(cl, i - 1), i \in Headings \/ cl = <<>>
    PROVE  ClausesUpTo(ClauseStep(cl, i), i)
<1> DEFINE n == Len(text)
           b == i - 1
           c == [ref |-> IF i \in Headings THEN i ELSE 0, sentences |-> <<i>>]
           S == Sentences(cl)
<1>1. n \in Nat /\ Order \in Seq(Nat) /\ Len(Order) = n /\ Order[i] = i
  BY TextIs
<1>2. cl \in Seq(Clause) /\ RefsAre(cl) /\ InPieces(Order, 0, n, S, 0, b, b)
  BY DEF ClausesUpTo
<1>3. ClauseStep(cl, i) = Append(cl, c) /\ c \in Clause /\ c.sentences = <<i>>
  <2>1. c \in Clause
    BY DEF Clause
  <2> QED BY <2>1 DEF ClauseStep
<1>4. c.ref = RefOf(i)
  <2>1. CASE i \in Headings
    BY <2>1, RefIs
  <2>2. CASE i \notin Headings
    <3>1. S = <<>>
      BY <1>2, <2>2, SentencesOf, <1>3
    <3>2. b = 0
      BY <1>2, <3>1, PiecesEmpty
    <3>3. i = 1
      BY <1>1, <3>2
    <3>4. RefOf(i) = 0
      BY <2>2, <3>3, RefIs
    <3> QED BY <2>2, <3>4
  <2> QED BY <2>1, <2>2
<1>5. \A s \in ToSet(c.sentences) : c.ref = RefOf(s)
  <2>1. ToSet(<<i>>) = {i}
    BY DEF ToSet
  <2> QED BY <1>3, <1>4, <2>1
<1> HIDE DEF c
<1>6. /\ Append(cl, c) \in Seq(Clause) /\ RefsAre(Append(cl, c))
      /\ Sentences(Append(cl, c)) = Append(S, <<i>>)
  BY <1>2, <1>3, <1>5, SentencesOf
<1>7. SubSeq(Order, i, i) = <<i>>
  <2>1. i \in 1..i /\ i \in 1..Len(Order)
    BY <1>1
  <2> QED BY <1>1, <2>1, OneLonger
<1>8. InPieces(Order, 0, n, Append(S, SubSeq(Order, i, i)), 0, i, i)
  <2>1. /\ b <= i /\ 0 < i /\ i <= b + 1 /\ b + 1 <= i + 0 /\ i + 1 <= i + n /\ i \in Nat /\ b \in Nat /\ 0 \in Nat
        /\ b \in 0..Len(Order) /\ i \in 0..Len(Order)
    BY <1>1
  <2> HIDE DEF b, n, S
  <2> QED BY <1>1, <1>2, <2>1, PiecesMore
<1> QED
  BY <1>3, <1>6, <1>7, <1>8 DEF ClausesUpTo

LEMMA ClauseGrows ==
    ASSUME TextTyped, NEW i \in 1..Len(text), NEW cl, ClausesUpTo(cl, i - 1), ~(i \in Headings \/ cl = <<>>)
    PROVE  ClausesUpTo(ClauseStep(cl, i), i)
<1> DEFINE n == Len(text)
           b == i - 1
           last == Last(cl)
           c == [last EXCEPT !.sentences = Append(@, i)]
           S == Sentences(cl)
           F == Front(cl)
           words == last.sentences
<1>1. n \in Nat /\ Order \in Seq(Nat) /\ Len(Order) = n /\ Order[i] = i /\ (i > 1 => Order[i - 1] = i - 1)
  BY TextIs
<1>2. cl \in Seq(Clause) /\ RefsAre(cl) /\ InPieces(Order, 0, n, S, 0, b, b) /\ S # <<>>
  <2>1. cl \in Seq(Clause) /\ RefsAre(cl) /\ InPieces(Order, 0, n, S, 0, b, b)
    BY DEF ClausesUpTo
  <2>2. \E x : x \in Clause
    <3>1. [ref |-> 0, sentences |-> <<0>>] \in Clause
      BY DEF Clause
    <3> QED BY <3>1
  <2> QED BY <2>1, <2>2, SentencesOf
<1>3. /\ F \in Seq(Clause) /\ last \in Clause /\ Sentences(F) = Front(S) /\ Last(S) = words
      /\ RefsAre(F) /\ \A s \in ToSet(words) : last.ref = RefOf(s)
  BY <1>2, SentencesBefore
<1>4. ClauseStep(cl, i) = Append(F, c)
  BY DEF ClauseStep
<1> HIDE DEF last, F, S
<1>5. words \in Seq(Nat) /\ last.ref \in Nat
  BY <1>3 DEF Clause
<1>6. c \in Clause /\ c.sentences = Append(words, i) /\ c.ref = last.ref
  <2>1. Append(words, i) \in Seq(Nat)
    BY <1>5
  <2> QED BY <1>3, <2>1 DEF Clause
<1>7. PICK e, s : EndsWith(Order, 0, n, S, 0, b, b, e, s)
  <2>1. /\ b \in Nat /\ 0 \in Nat /\ b \in 0..Len(Order)
    BY <1>1
  <2> HIDE DEF b, n
  <2> QED BY <1>1, <1>2, <2>1, PiecesSplit
<1>8. /\ e \in 0..b /\ s \in (0 + 1)..b
      /\ InPieces(Order, 0, n, Front(S), 0, s, e) /\ words = SubSeq(Order, s, b)
      /\ s <= e + 1 /\ e + 1 <= s + 0 /\ b + 1 <= s + n
  BY <1>3, <1>7 DEF EndsWith
<1>9. s \in Nat /\ e \in Nat /\ s \in 1..b /\ e <= b /\ s <= b /\ b \in Nat /\ b >= 1 /\ i > 1
  BY <1>8
<1>10. RefOf(i) = RefOf(b) /\ b \in ToSet(words)
  <2>1. RefOf(i) = RefOf(b)
    BY <1>9, RefIs
  <2>2. b \in ToSet(words)
    <3> DEFINE k == b + 1 - s
    <3>1. s \in 1..(Len(Order) + 1) /\ b \in 0..Len(Order) /\ s <= b + 1 /\ k \in 1..(b + 1 - s) /\ s + k - 1 = b
      BY <1>1, <1>9
    <3>2. Order[b] = b
      BY <1>1, <1>9
    <3> HIDE DEF b, k
    <3>3. Len(words) = b + 1 - s /\ words[k] = Order[s + k - 1]
      BY <1>1, <1>8, <3>1, PieceHas
    <3>4. k \in DOMAIN words /\ words[k] = b
      <4>1. DOMAIN words = 1..Len(words)
        BY <1>5, SequenceIs
      <4> QED BY <3>1, <3>2, <3>3, <4>1
    <3> QED BY <3>4 DEF ToSet
  <2> QED BY <2>1, <2>2
<1>11. \A t \in ToSet(c.sentences) : c.ref = RefOf(t)
  <2>1. ToSet(Append(words, i)) = ToSet(words) \cup {i}
    <3> HIDE DEF words
    <3>1. /\ DOMAIN Append(words, i) = 1..(Len(words) + 1) /\ DOMAIN words = 1..Len(words) /\ Len(words) \in Nat
          /\ \A k \in 1..Len(words) : Append(words, i)[k] = words[k]
          /\ Append(words, i)[Len(words) + 1] = i
      <4>1. i \in Nat
        OBVIOUS
      <4> QED BY <1>5, <4>1, OneMore
    <3>2. \A k \in 1..(Len(words) + 1) : k \in 1..Len(words) \/ k = Len(words) + 1
      BY <3>1
    <3> QED BY <3>1, <3>2 DEF ToSet
  <2> HIDE DEF words, c
  <2> QED BY <1>3, <1>6, <1>10, <2>1
<1> HIDE DEF c
<1>12. /\ Append(F, c) \in Seq(Clause) /\ RefsAre(Append(F, c))
       /\ Sentences(Append(F, c)) = Append(Front(S), Append(words, i))
  BY <1>3, <1>6, <1>11, SentencesOf
<1>13. Append(words, i) = SubSeq(Order, s, i)
  <2>1. s \in 1..i /\ i \in 1..Len(Order) /\ b = i - 1
    BY <1>1, <1>9
  <2> QED BY <1>1, <1>8, <2>1, OneLonger
<1>14. InPieces(Order, 0, n, Append(Front(S), SubSeq(Order, s, i)), 0, s, i)
  <2>1. /\ s <= s /\ 0 < s /\ e <= i /\ i + 1 <= s + n /\ i \in Nat /\ 0 \in Nat /\ e \in 0..Len(Order) /\ i \in 0..Len(Order)
    BY <1>1, <1>9
  <2> HIDE DEF b, n
  <2> QED BY <1>1, <1>8, <1>9, <2>1, PiecesMore
<1>15. InPieces(Order, 0, n, Append(Front(S), SubSeq(Order, s, i)), 0, i, i)
  <2>1. s <= i /\ s \in Nat /\ i \in Nat /\ 0 \in Nat
    BY <1>9
  <2> HIDE DEF n
  <2> QED BY <1>1, <1>14, <2>1, PiecesLater
<1> QED
  BY <1>4, <1>12, <1>13, <1>15 DEF ClausesUpTo

\* The clauses are the sentences in pieces, each under its heading.
LEMMA ClausesInPieces == ASSUME TextTyped PROVE ClausesUpTo(Clauses, Len(text))
<1> DEFINE n == Len(text)
           acc == Seq(Clause)
           total == FoldLeft(ClauseStep, <<>>, Order)
<1>1. n \in Nat /\ Order \in Seq(Nat) /\ Len(Order) = n /\ \A s \in 1..n : Order[s] = s
  BY TextIs
<1>2. Order \in [1..n -> Nat]
  BY <1>1, SequenceIs
<1>3. ClauseFoldKept(acc, Nat)
  <2>1. <<>> \in acc
    OBVIOUS
  <2>2. ASSUME NEW a \in acc, NEW e \in Nat PROVE ClauseStep(a, e) \in acc
    <3>1. CASE e \in Headings \/ a = <<>>
      <4> DEFINE c == [ref |-> IF e \in Headings THEN e ELSE 0, sentences |-> <<e>>]
      <4>1. c \in Clause
        BY DEF Clause
      <4>2. ClauseStep(a, e) = Append(a, c)
        BY <3>1 DEF ClauseStep
      <4> HIDE DEF c
      <4> QED BY <4>1, <4>2
    <3>2. CASE ~(e \in Headings \/ a = <<>>)
      <4> DEFINE last == Last(a)
                 F == Front(a)
                 c == [last EXCEPT !.sentences = Append(@, e)]
      <4>1. F \in Seq(Clause) /\ last \in Clause
        BY <3>2, SentencesBefore
      <4>2. ClauseStep(a, e) = Append(F, c)
        BY <3>2 DEF ClauseStep
      <4> HIDE DEF F, last
      <4>3. Append(last.sentences, e) \in Seq(Nat)
        BY <4>1 DEF Clause
      <4>4. c \in Clause
        BY <4>1, <4>3 DEF Clause
      <4> HIDE DEF c
      <4> QED BY <4>1, <4>2, <4>4
    <3> QED BY <3>1, <3>2
  <2> HIDE DEF acc
  <2> QED BY <2>1, <2>2 DEF ClauseFoldKept
<1> HIDE DEF n, acc
<1>4. PICK h : ClauseFoldRun(h, n, Order, total, acc)
  BY <1>1, <1>2, <1>3, ClauseFold
<1> HIDE DEF total
<1> DEFINE Good == {i \in 0..n : ClausesUpTo(h[i], i)}
<1>5. 0 \in Good
  <2>1. <<>> \in Seq(Clause) /\ RefsAre(<<>>) /\ Sentences(<<>>) = <<>>
    BY DEF RefsAre, Sentences
  <2>2. InPieces(Order, 0, n, <<>>, 0, 0, 0)
    BY <1>1, PiecesNone
  <2>3. ClausesUpTo(<<>>, 0)
    BY <2>1, <2>2 DEF ClausesUpTo, n
  <2> QED BY <1>1, <1>4, <2>3 DEF ClauseFoldRun
<1>6. ASSUME NEW i \in 1..n, i - 1 \in Good PROVE i \in Good
  <2> DEFINE c == h[i - 1]
  <2>1. ClausesUpTo(c, i - 1) /\ h[i] = ClauseStep(c, i) /\ i \in 0..n /\ i \in 1..Len(text)
    BY <1>1, <1>4, <1>6 DEF ClauseFoldRun, n
  <2> HIDE DEF c
  <2>2. ClausesUpTo(ClauseStep(c, i), i)
    BY <2>1, ClauseOpens, ClauseGrows
  <2> QED BY <2>1, <2>2
<1>7. HandedOn(Good, n)
  BY <1>5, <1>6 DEF HandedOn
<1>8. n \in Good
  <2>1. 0..n \subseteq Good /\ n \in 0..n
    <3> HIDE DEF Good
    <3> QED BY <1>1, <1>7, Along
  <2> QED BY <2>1
<1>9. h[n] = Clauses
  BY <1>4, ClausesAre DEF ClauseFoldRun, total
<1> QED
  BY <1>8, <1>9 DEF n

-----------------------------------------------------------------------------
(* Chunks that are put together a sentence at a time *)

\* The text after place A, up to place E: in chunks up to c, the rest in hand.
Held(limit, chunks, now, A, E, c) ==
    /\ c \in A..E /\ InPieces(Whole, 0, limit, chunks, A, c + 1, c)
    /\ now = SubSeq(Whole, c + 1, E) /\ E <= c + limit

LEMMA HeldIs ==
    ASSUME TextTyped, NEW limit \in Nat, NEW chunks, NEW now, NEW A \in Nat, NEW E \in 0..Len(Whole),
           NEW c, Held(limit, chunks, now, A, E, c)
    PROVE  /\ c \in 0..Len(Whole) /\ c \in Nat /\ E \in Nat /\ A <= c /\ c <= E
           /\ now \in Seq(Word) /\ Len(now) = E - c /\ chunks \in Seq(Seq(Word))
           /\ now = <<>> <=> c = E
<1> DEFINE N == Len(Whole)
<1>1. Whole \in Seq(Word) /\ N \in Nat
  <2>1. Whole \in Seq(Word)
    BY WholeIs
  <2> QED BY <2>1
<1>2. c \in A..E /\ InPieces(Whole, 0, limit, chunks, A, c + 1, c) /\ now = SubSeq(Whole, c + 1, E)
  BY DEF Held
<1> HIDE DEF N
<1>3. E \in 0..N
  BY DEF N
<1>4. c \in 0..N /\ c \in Nat /\ E \in Nat /\ A <= c /\ c <= E /\ c + 1 \in 1..(N + 1) /\ c + 1 <= E + 1 /\ c + 1 \in Nat
  BY <1>1, <1>2, <1>3
<1>5. now \in Seq(Word) /\ Len(now) = E + 1 - (c + 1)
  <2> DEFINE l == c + 1
  <2>1. l \in 1..(Len(Whole) + 1) /\ l <= E + 1 /\ E \in 0..Len(Whole)
    BY <1>3, <1>4 DEF N
  <2> HIDE DEF l
  <2>2. SubSeq(Whole, l, E) \in Seq(Word) /\ Len(SubSeq(Whole, l, E)) = E + 1 - l
    BY <1>1, <2>1, PieceHas
  <2> QED BY <1>2, <2>2 DEF l
<1>6. chunks \in Seq(Seq(Word))
  <2> DEFINE l == c + 1
  <2>1. l \in Nat /\ c \in 0..Len(Whole) /\ 0 \in Nat /\ InPieces(Whole, 0, limit, chunks, A, l, c)
    BY <1>2, <1>4 DEF N
  <2> HIDE DEF l
  <2> QED BY <1>1, <2>1, PiecesAre
<1>7. E + 1 - (c + 1) = E - c
  BY <1>4
<1>8. now = <<>> <=> Len(now) = 0
  BY <1>5
<1> QED
  BY <1>4, <1>5, <1>6, <1>7, <1>8 DEF N

LEMMA HeldNone ==
    ASSUME TextTyped, NEW limit \in Nat, NEW E \in 0..Len(Whole)
    PROVE  Held(limit, <<>>, <<>>, E, E, E)
<1>1. E \in Nat /\ E + 1 \in Nat /\ 0 \in Nat
  OBVIOUS
<1>2. InPieces(Whole, 0, limit, <<>>, E, E + 1, E)
  <2> DEFINE l == E + 1
  <2>1. l \in Nat
    BY <1>1
  <2> HIDE DEF l
  <2>2. InPieces(Whole, 0, limit, <<>>, E, l, E)
    BY <1>1, <2>1, PiecesNone
  <2> QED BY <2>2 DEF l
<1>3. SubSeq(Whole, E + 1, E) = <<>>
  OBVIOUS
<1> QED
  BY <1>1, <1>2, <1>3 DEF Held

\* What is in hand becomes a chunk.
LEMMA HeldTaken ==
    ASSUME TextTyped, NEW limit \in Nat, NEW chunks, NEW now, NEW A \in Nat, NEW E \in 0..Len(Whole),
           NEW c, Held(limit, chunks, now, A, E, c)
    PROVE  InPieces(Whole, 0, limit, chunks \o Nonempty(now), A, E + 1, E)
<1>1. c \in 0..Len(Whole) /\ c <= E /\ Whole \in Seq(Word) /\ 0 \in Nat
  BY HeldIs, WholeIs
<1>2. E <= c + limit /\ InPieces(Whole, 0, limit, chunks, A, c + 1, c) /\ now = SubSeq(Whole, c + 1, E)
  BY DEF Held
<1>3. InPieces(Whole, 0, limit, chunks \o Nonempty(SubSeq(Whole, c + 1, E)), A, E + 1, E)
  BY <1>1, <1>2, PiecesTake
<1> QED
  BY <1>2, <1>3

\* A sentence in parts.
LEMMA SentenceSplit ==
    ASSUME TextTyped, NEW to, Ends(to), NEW s \in 1..Len(text), NEW max \in Nat, 0 < max,
           NEW limit \in Nat, max <= limit
    PROVE  InPieces(Whole, 0, limit, HardSplit(Words(s), max, 0), to[s - 1], to[s] + 1, to[s])
<1> DEFINE x == to[s - 1]
           y == to[s]
           N == Len(Whole)
<1>1. Whole \in Seq(Word) /\ N \in Nat /\ x \in 0..N /\ y \in 0..N /\ x <= y /\ Words(s) = SubSeq(Whole, x + 1, y)
  <2>1. s - 1 \in 0..Len(text) /\ s \in 0..Len(text) /\ s - 1 <= s
    OBVIOUS
  <2> QED BY <2>1, EndsSay
<1> HIDE DEF x, y
<1>2. x + 1 \in 1..(N + 1) /\ x + 1 <= y + 1 /\ (x + 1) - 1 = x /\ 0 \in Nat /\ x \in Nat /\ y \in Nat /\ y + 1 \in Nat
  BY <1>1
<1> DEFINE cs == HardSplit(Words(s), max, 0)
<1>3. InPieces(Whole, 0, max, cs, x, y + 1, y)
  <2> DEFINE i == x + 1
  <2>1. i \in 1..(Len(Whole) + 1) /\ i <= y + 1 /\ i - 1 = x /\ y \in 0..Len(Whole) /\ 0 \in Nat
    BY <1>1, <1>2
  <2> HIDE DEF i
  <2>2. InPieces(Whole, 0, max, HardSplit(SubSeq(Whole, i, y), max, 0), i - 1, y + 1, y)
    BY <1>1, <2>1, HardSplitPieces
  <2> QED BY <1>1, <2>1, <2>2 DEF i
<1> HIDE DEF cs, N
<1>4. InPieces(Whole, 0, limit, cs, x, y + 1, y)
  <2> DEFINE l == y + 1
  <2>1. l \in Nat /\ 0 <= 0 /\ InPieces(Whole, 0, max, cs, x, l, y)
    BY <1>2, <1>3
  <2> HIDE DEF l
  <2>2. InPieces(Whole, 0, limit, cs, x, l, y)
    BY <1>2, <2>1, PiecesLooser
  <2> QED BY <2>2 DEF l
<1> QED
  BY <1>4 DEF x, y, cs

\* What is in hand becomes a chunk, and a long sentence several.
LEMMA HeldSplit ==
    ASSUME TextTyped, NEW to, Ends(to), NEW s \in 1..Len(text), NEW max \in Nat, 0 < max,
           NEW limit \in Nat, max <= limit, NEW chunks, NEW now, NEW A \in Nat, NEW c,
           Held(limit, chunks, now, A, to[s - 1], c)
    PROVE  Held(limit, chunks \o Nonempty(now) \o HardSplit(Words(s), max, 0), <<>>, A, to[s], to[s])
<1> DEFINE x == to[s - 1]
           y == to[s]
           cs == chunks \o Nonempty(now)
           ds == HardSplit(Words(s), max, 0)
<1>1. Whole \in Seq(Word) /\ Len(Whole) \in Nat /\ x \in 0..Len(Whole) /\ y \in 0..Len(Whole) /\ x <= y
  <2>1. s - 1 \in 0..Len(text) /\ s \in 0..Len(text) /\ s - 1 <= s
    OBVIOUS
  <2> QED BY <2>1, EndsSay
<1>2. InPieces(Whole, 0, limit, ds, x, y + 1, y)
  BY SentenceSplit
<1>3. A <= x
  <2> HIDE DEF x
  <2>1. Held(limit, chunks, now, A, x, c)
    BY DEF x
  <2>2. c \in Nat /\ x \in Nat /\ A <= c /\ c <= x
    BY <1>1, <2>1, HeldIs
  <2> QED BY <2>2
<1> HIDE DEF x, y
<1>4. InPieces(Whole, 0, limit, cs, A, x + 1, x)
  BY <1>1, HeldTaken DEF x
<1> HIDE DEF cs, ds
<1>5. InPieces(Whole, 0, limit, cs \o ds, A, y + 1, y)
  <2> DEFINE l == x + 1
             m == y + 1
  <2>1. l \in Nat /\ m \in Nat /\ 0 \in Nat /\ InPieces(Whole, 0, limit, cs, A, l, x) /\ InPieces(Whole, 0, limit, ds, x, m, y)
    BY <1>1, <1>2, <1>4
  <2> HIDE DEF l, m
  <2>2. InPieces(Whole, 0, limit, cs \o ds, A, y + 1, y)
    BY <1>1, <2>1, PiecesJoin
  <2> QED BY <2>2
<1>6. SubSeq(Whole, y + 1, y) = <<>> /\ y \in A..y /\ y <= y + limit
  BY <1>1, <1>3
<1>7. Held(limit, cs \o ds, <<>>, A, y, y)
  BY <1>5, <1>6 DEF Held
<1> QED
  BY <1>7 DEF cs, ds, y

\* What is in hand becomes a chunk, and a sentence is in hand.
LEMMA HeldCut ==
    ASSUME TextTyped, NEW to, Ends(to), NEW s \in 1..Len(text), NEW limit \in Nat, Size(s) <= limit,
           NEW chunks, NEW now, NEW A \in Nat, NEW c, Held(limit, chunks, now, A, to[s - 1], c), now # <<>>
    PROVE  Held(limit, Append(chunks, now), Words(s), A, to[s], to[s - 1])
<1> DEFINE x == to[s - 1]
           y == to[s]
<1>1. /\ Len(Whole) \in Nat /\ x \in 0..Len(Whole) /\ y \in 0..Len(Whole) /\ x <= y
      /\ y = x + Size(s) /\ Words(s) = SubSeq(Whole, x + 1, y) /\ Size(s) \in Nat
  <2>1. s - 1 \in 0..Len(text) /\ s \in 0..Len(text) /\ s - 1 <= s
    OBVIOUS
  <2> QED BY <2>1, EndsSay, TextIs
<1> HIDE DEF x, y
<1>2. /\ c \in Nat /\ x \in Nat /\ A <= c /\ c <= x /\ now \in Seq(Word) /\ chunks \in Seq(Seq(Word))
  <2>1. Held(limit, chunks, now, A, x, c)
    BY DEF x
  <2> QED BY <1>1, <2>1, HeldIs
<1>3. InPieces(Whole, 0, limit, chunks \o Nonempty(now), A, x + 1, x)
  BY <1>1, HeldTaken DEF x
<1>4. chunks \o Nonempty(now) = Append(chunks, now)
  <2> DEFINE Q == Seq(Word)
  <2>1. chunks \in Seq(Q) /\ now \in Q
    BY <1>2
  <2> HIDE DEF Q
  <2>2. chunks \o <<now>> = Append(chunks, now)
    BY <2>1
  <2> QED BY <2>2 DEF Nonempty
<1>5. x \in A..y /\ y <= x + limit
  BY <1>1, <1>2
<1> QED
  BY <1>1, <1>3, <1>4, <1>5 DEF Held, x, y

\* A sentence joins what is in hand.
LEMMA HeldGrows ==
    ASSUME TextTyped, NEW to, Ends(to), NEW s \in 1..Len(text), NEW limit \in Nat,
           NEW chunks, NEW now, NEW A \in Nat, NEW c, Held(limit, chunks, now, A, to[s - 1], c),
           Len(now) + Size(s) <= limit
    PROVE  Held(limit, chunks, now \o Words(s), A, to[s], c)
<1> DEFINE x == to[s - 1]
           y == to[s]
<1>1. /\ Whole \in Seq(Word) /\ Len(Whole) \in Nat /\ x \in 0..Len(Whole) /\ y \in 0..Len(Whole) /\ x <= y
      /\ y = x + Size(s) /\ Words(s) = SubSeq(Whole, x + 1, y) /\ Size(s) \in Nat
  <2>1. s - 1 \in 0..Len(text) /\ s \in 0..Len(text) /\ s - 1 <= s
    OBVIOUS
  <2> QED BY <2>1, EndsSay, TextIs
<1>2. InPieces(Whole, 0, limit, chunks, A, c + 1, c) /\ now = SubSeq(Whole, c + 1, x)
  BY DEF Held
<1> HIDE DEF x, y
<1>3. /\ c \in Nat /\ c \in 0..Len(Whole) /\ x \in Nat /\ A <= c /\ c <= x /\ Len(now) = x - c
  <2>1. Held(limit, chunks, now, A, x, c)
    BY DEF x
  <2>2. x \in 0..Len(Whole)
    BY <1>1
  <2>3. c \in 0..Len(Whole) /\ c \in Nat /\ x \in Nat /\ A <= c /\ c <= x
    BY <2>1, <2>2, HeldIs
  <2>4. Len(now) = x - c
    <3> DEFINE l == c + 1
    <3>1. l \in 1..(Len(Whole) + 1) /\ l <= x + 1 /\ x + 1 - l = x - c
      BY <1>1, <2>3
    <3> HIDE DEF l
    <3>2. Len(SubSeq(Whole, l, x)) = x + 1 - l
      BY <1>1, <3>1, PieceHas
    <3> QED BY <1>2, <3>1, <3>2 DEF l
  <2> QED BY <2>3, <2>4
<1>4. now \o Words(s) = SubSeq(Whole, c + 1, y)
  <2> DEFINE i == c + 1
  <2>1. i \in 1..(Len(Whole) + 1) /\ i <= x + 1 /\ x <= y
    BY <1>1, <1>3
  <2> HIDE DEF i
  <2>2. SubSeq(Whole, i, x) \o SubSeq(Whole, x + 1, y) = SubSeq(Whole, i, y)
    BY <1>1, <2>1, Adjacent
  <2> QED BY <1>1, <1>2, <2>2 DEF i
<1>5. c \in A..y /\ y <= c + limit
  <2> DEFINE m == Size(s)
  <2>1. y = x + m /\ m \in Nat /\ (x - c) + m <= limit /\ y \in Nat
    BY <1>1, <1>3
  <2> HIDE DEF m
  <2> QED BY <1>3, <2>1
<1> QED
  BY <1>2, <1>4, <1>5 DEF Held, y

\* The chunks of a long clause, a sentence at a time.
SubStep(acc, s) ==
    CASE Size(s) > PolicyTarget ->
           [chunks |-> acc.chunks \o Nonempty(acc.now) \o HardSplit(Words(s), PolicyTarget, 0),
            now |-> <<>>]
      [] /\ Size(s) <= PolicyTarget
         /\ Len(acc.now) + Size(s) > PolicyTarget /\ Len(acc.now) >= PolicyMin ->
           [chunks |-> Append(acc.chunks, acc.now), now |-> Words(s)]
      [] OTHER -> [acc EXCEPT !.now = @ \o Words(s)]
SubTotal(sentences) == FoldLeft(SubStep, [chunks |-> <<>>, now |-> <<>>], sentences)

LEMMA SubChunksAre ==
    ASSUME NEW sentences
    PROVE  PolicySubChunks(sentences) =
              LET end == SubTotal(sentences)
              IN  IF /\ end.chunks # <<>> /\ Len(end.now) < PolicyMin
                     /\ Len(Last(end.chunks)) + Len(end.now) <= PolicyMax
                  THEN Append(Front(end.chunks), Last(end.chunks) \o end.now)
                  ELSE end.chunks \o Nonempty(end.now)
BY DEF PolicySubChunks, SubTotal, SubStep, FoldLeft, MapThenFoldSet

\* What a fold of such steps is.
SubFoldKept(acc, elements) ==
    [chunks |-> <<>>, now |-> <<>>] \in acc /\ \A a \in acc, e \in elements : SubStep(a, e) \in acc
SubFoldRun(h, n, seq, total, acc) ==
    /\ h \in [0..n -> acc] /\ h[0] = [chunks |-> <<>>, now |-> <<>>] /\ h[n] = total
    /\ \A i \in 1..n : h[i] = SubStep(h[i - 1], seq[i])

LEMMA SubFold ==
    ASSUME NEW n \in Nat, NEW elements, NEW acc, NEW seq \in [1..n -> elements],
           SubFoldKept(acc, elements)
    PROVE  \E h : SubFoldRun(h, n, seq, FoldLeft(SubStep, [chunks |-> <<>>, now |-> <<>>], seq), acc)
<1> DEFINE op == [p \in acc \X elements |-> SubStep(p[1], p[2])]
           Body(g) == g = [s \in SUBSET (1..n) |->
                              IF s = {} THEN [chunks |-> <<>>, now |-> <<>>] ELSE SubStep(g[s \ {Max(s)}], seq[Max(s)])]
           total == FoldLeft(SubStep, [chunks |-> <<>>, now |-> <<>>], seq)
<1>1. total = (CHOOSE g : Body(g))[1..n]
  <2>1. DOMAIN seq = 1..n
    OBVIOUS
  <2> QED BY <2>1 DEF FoldLeft, MapThenFoldSet
<1>2. op \in [acc \X elements -> acc]
  BY DEF SubFoldKept
<1>3. PICK w : FoldTable(w, op, [chunks |-> <<>>, now |-> <<>>], seq, acc, n)
  <2> HIDE DEF op
  <2> QED BY <1>2, FoldExists DEF SubFoldKept
<1>4. \A s \in SUBSET (1..n) :
          w[s] = IF s = {} THEN [chunks |-> <<>>, now |-> <<>>] ELSE SubStep(w[s \ {Max(s)}], seq[Max(s)])
  <2>1. ASSUME NEW s \in SUBSET (1..n), s # {}
        PROVE  w[s] = SubStep(w[s \ {Max(s)}], seq[Max(s)])
    <3>1. Max(s) \in 1..n
      BY <2>1, LastOfSome
    <3>2. w[s \ {Max(s)}] \in acc /\ seq[Max(s)] \in elements
      BY <1>3, <3>1 DEF FoldTable
    <3>3. w[s] = op[<<w[s \ {Max(s)}], seq[Max(s)]>>]
      BY <1>3, <2>1 DEF FoldTable, FoldStep
    <3> QED BY <3>2, <3>3
  <2>2. w[{}] = [chunks |-> <<>>, now |-> <<>>]
    BY <1>3 DEF FoldTable, FoldStep
  <2> QED BY <2>1, <2>2
<1>5. Body(w)
  BY <1>3, <1>4 DEF FoldTable
<1> HIDE DEF Body
<1>6. PICK g : Body(g) /\ total = g[1..n]
  BY <1>1, <1>5
<1>7. \A s \in SUBSET (1..n) : g[s] = w[s]
  <2>1. \A s \in SUBSET (1..n) :
            g[s] = IF s = {} THEN [chunks |-> <<>>, now |-> <<>>] ELSE SubStep(g[s \ {Max(s)}], seq[Max(s)])
    BY <1>6 DEF Body
  <2>2. HandOn(g, w, n)
    BY <1>4, <2>1 DEF HandOn
  <2> QED BY <2>2, SameTable, SMTT(30)
<1>8. PICK h \in [0..n -> acc] :
          h[0] = [chunks |-> <<>>, now |-> <<>>] /\ h[n] = w[1..n] /\ \A i \in 1..n : h[i] = op[<<h[i - 1], seq[i]>>]
  <2> DEFINE base == [chunks |-> <<>>, now |-> <<>>]
  <2>1. FoldTable(w, op, base, seq, acc, n)
    BY <1>3
  <2> HIDE DEF op, base
  <2>2. \E h \in [0..n -> acc] :
          h[0] = base /\ h[n] = w[1..n] /\ \A i \in 1..n : h[i] = op[<<h[i - 1], seq[i]>>]
    BY <2>1, FoldAlong
  <2> QED BY <2>2 DEF base
<1>9. ASSUME NEW i \in 1..n PROVE h[i] = SubStep(h[i - 1], seq[i])
  <2>1. h[i - 1] \in acc /\ seq[i] \in elements
    BY <1>8
  <2> QED BY <1>8, <2>1
<1>10. h[n] = total
  <2>1. 1..n \in SUBSET (1..n)
    OBVIOUS
  <2> QED BY <1>6, <1>7, <1>8, <2>1
<1> HIDE DEF total
<1>11. SubFoldRun(h, n, seq, total, acc)
  BY <1>8, <1>9, <1>10 DEF SubFoldRun
<1> QED
  BY <1>11 DEF total

InHand == [chunks : Seq(Seq(Word)), now : Seq(Word)]

LEMMA PolicyLimits ==
    /\ PolicyMin \in Nat /\ PolicyTarget \in Nat /\ PolicyMax \in Nat
    /\ 0 < PolicyMin /\ PolicyMin < PolicyTarget /\ 0 < PolicyTarget
    /\ PolicyMin + PolicyTarget <= PolicyMax + 1 /\ PolicyTarget <= PolicyMax
<1>1. PolicyMin \in Nat /\ PolicyTarget \in Nat /\ PolicyMax \in Nat
  BY ChunkAssumption
<1> QED
  BY <1>1, ChunkAssumption

LEMMA SubStepKeeps ==
    ASSUME TextTyped, NEW acc \in InHand, NEW s \in 1..Len(text)
    PROVE  SubStep(acc, s) \in InHand
<1> DEFINE Q == Seq(Word)
           parts == HardSplit(Words(s), PolicyTarget, 0)
<1>1. acc.chunks \in Seq(Q) /\ acc.now \in Seq(Word)
  BY DEF InHand
<1>2. Words(s) \in Seq(Word)
  BY TextIs
<1>3. parts \in Seq(Q)
  <2>1. PICK to : Ends(to)
    BY WholeIs
  <2> DEFINE x == to[s - 1]
             y == to[s]
  <2>2. InPieces(Whole, 0, PolicyMax, parts, x, y + 1, y)
    BY <2>1, PolicyLimits, SentenceSplit
  <2>3. x \in Nat /\ y \in 0..Len(Whole) /\ y + 1 \in Nat /\ Whole \in Seq(Word) /\ 0 \in Nat
    <3>1. s - 1 \in 0..Len(text) /\ s \in 0..Len(text)
      OBVIOUS
    <3> QED BY <2>1, <3>1, EndsSay
  <2> DEFINE l == y + 1
  <2>4. l \in Nat /\ InPieces(Whole, 0, PolicyMax, parts, x, l, y)
    BY <2>2, <2>3
  <2> HIDE DEF x, y, l, parts
  <2>5. parts \in Seq(Seq(Word))
    BY <2>3, <2>4, PolicyLimits, PiecesAre
  <2> QED BY <2>5
<1> DEFINE now == acc.now
           chunks == acc.chunks
<1>4. Nonempty(now) \in Seq(Q)
  <2>1. now \in Q
    BY <1>1
  <2> HIDE DEF Q, now
  <2> QED BY <2>1 DEF Nonempty
<1>5. chunks \o Nonempty(now) \o parts \in Seq(Q) /\ Append(chunks, now) \in Seq(Q)
  <2> DEFINE e == Nonempty(now)
  <2>1. chunks \in Seq(Q) /\ e \in Seq(Q) /\ now \in Q
    BY <1>1, <1>4
  <2> HIDE DEF Q, parts, chunks, now, e
  <2> QED BY <1>3, <2>1 DEF e
<1>6. now \o Words(s) \in Seq(Word) /\ <<>> \in Seq(Word)
  <2> HIDE DEF now
  <2>1. now \in Seq(Word)
    BY <1>1 DEF now
  <2> QED BY <1>2, <2>1
<1> HIDE DEF parts
<1>7. SubStep(acc, s) \in {[chunks |-> chunks \o Nonempty(now) \o parts, now |-> <<>>],
                           [chunks |-> Append(chunks, now), now |-> Words(s)],
                           [acc EXCEPT !.now = now \o Words(s)]}
  BY DEF SubStep, parts
<1>8. [acc EXCEPT !.now = now \o Words(s)] = [chunks |-> chunks, now |-> now \o Words(s)]
  <2> DEFINE C == Seq(Seq(Word))
             D == Seq(Word)
             x == now \o Words(s)
  <2>1. acc \in [chunks : C, now : D]
    BY DEF InHand
  <2> HIDE DEF C, D, x
  <2>2. [acc EXCEPT !.now = x] = [chunks |-> acc.chunks, now |-> x]
    BY <2>1
  <2> QED BY <2>2 DEF x
<1> DEFINE both == chunks \o Nonempty(now) \o parts
           more == Append(chunks, now)
           on == now \o Words(s)
           C == Seq(Q)
           D == Seq(Word)
<1>9. both \in C /\ more \in C /\ on \in D /\ <<>> \in D /\ Words(s) \in D /\ chunks \in C
  BY <1>1, <1>2, <1>5, <1>6
<1>10. SubStep(acc, s) \in {[chunks |-> both, now |-> <<>>], [chunks |-> more, now |-> Words(s)],
                             [chunks |-> chunks, now |-> on]}
  BY <1>7, <1>8
<1>11. InHand = [chunks : C, now : D]
  BY DEF InHand
<1> HIDE DEF both, more, on, C, D, chunks, now
<1>12. \A x \in C, y \in D : [chunks |-> x, now |-> y] \in InHand
  BY <1>11
<1> QED
  BY <1>9, <1>10, <1>12

\* A step keeps what is held.
LEMMA SubStepHolds ==
    ASSUME TextTyped, NEW to, Ends(to), NEW s \in 1..Len(text), NEW acc \in InHand, NEW A \in Nat, NEW c,
           Held(PolicyMax, acc.chunks, acc.now, A, to[s - 1], c)
    PROVE  \E d : Held(PolicyMax, SubStep(acc, s).chunks, SubStep(acc, s).now, A, to[s], d)
<1> DEFINE new == SubStep(acc, s)
<1>1. Size(s) \in Nat /\ Len(acc.now) \in Nat
  <2>1. acc.now \in Seq(Word)
    BY DEF InHand
  <2> QED BY <2>1, TextIs
<1>2. CASE Size(s) > PolicyTarget
  <2>1. new = [chunks |-> acc.chunks \o Nonempty(acc.now) \o HardSplit(Words(s), PolicyTarget, 0), now |-> <<>>]
    BY <1>1, <1>2, PolicyLimits DEF SubStep
  <2>2. Held(PolicyMax, acc.chunks \o Nonempty(acc.now) \o HardSplit(Words(s), PolicyTarget, 0), <<>>, A, to[s], to[s])
    BY PolicyLimits, HeldSplit
  <2> QED BY <2>1, <2>2
<1>3. CASE Size(s) <= PolicyTarget /\ Len(acc.now) + Size(s) > PolicyTarget /\ Len(acc.now) >= PolicyMin
  <2>1. new = [chunks |-> Append(acc.chunks, acc.now), now |-> Words(s)]
    BY <1>1, <1>3, PolicyLimits DEF SubStep
  <2>2. acc.now # <<>>
    <3>1. acc.now = <<>> => Len(acc.now) = 0
      OBVIOUS
    <3> QED BY <1>1, <1>3, <3>1, PolicyLimits
  <2>3. Size(s) <= PolicyMax
    BY <1>1, <1>3, PolicyLimits
  <2>4. Held(PolicyMax, Append(acc.chunks, acc.now), Words(s), A, to[s], to[s - 1])
    BY <2>2, <2>3, PolicyLimits, HeldCut
  <2> QED BY <2>1, <2>4
<1>4. CASE Size(s) <= PolicyTarget /\ ~(Len(acc.now) + Size(s) > PolicyTarget /\ Len(acc.now) >= PolicyMin)
  <2>1. new = [acc EXCEPT !.now = acc.now \o Words(s)]
    BY <1>1, <1>4, PolicyLimits DEF SubStep
  <2>2. new.chunks = acc.chunks /\ new.now = acc.now \o Words(s)
    BY <2>1 DEF InHand
  <2>3. Len(acc.now) + Size(s) <= PolicyMax
    BY <1>1, <1>4, PolicyLimits
  <2>4. Held(PolicyMax, acc.chunks, acc.now \o Words(s), A, to[s], c)
    BY <2>3, PolicyLimits, HeldGrows
  <2> QED BY <2>2, <2>4
<1> QED
  BY <1>1, <1>2, <1>3, <1>4, PolicyLimits

\* What is held when the chunks of a run are put together.
LEMMA SubTotalHolds ==
    ASSUME TextTyped, NEW to, Ends(to), NEW a \in 0..Len(text), NEW b \in 0..Len(text), a <= b
    PROVE  /\ SubTotal(Run(a, b)) \in InHand
           /\ \E c : Held(PolicyMax, SubTotal(Run(a, b)).chunks, SubTotal(Run(a, b)).now, to[a], to[b], c)
<1> DEFINE n == Len(text)
           m == b - a
           run == Run(a, b)
           A == to[a]
           base == [chunks |-> <<>>, now |-> <<>>]
<1>1. /\ n \in Nat /\ m \in Nat /\ run \in Seq(Nat) /\ Len(run) = m /\ \A i \in 1..m : run[i] = a + i
      /\ \A i \in 1..m : a + i \in 1..n /\ (a + i) - 1 = a + (i - 1)
  <2>1. run \in Seq(Nat) /\ Len(run) = m /\ \A i \in 1..m : run[i] = a + i
    BY RunIs
  <2>2. n \in Nat
    BY TextIs
  <2> HIDE DEF n, run
  <2>3. a \in 0..n /\ b \in 0..n
    BY DEF n
  <2> QED BY <2>1, <2>2, <2>3
<1>2. run \in [1..m -> 1..n]
  <2> HIDE DEF m, n, run
  <2>1. run \in [1..m -> Nat]
    BY <1>1, SequenceIs
  <2> QED BY <1>1, <2>1
<1>3. A \in Nat /\ A \in 0..Len(Whole)
  <2>1. A \in 0..Len(Whole)
    BY EndsSay
  <2> QED BY <2>1
<1>4. SubFoldKept(InHand, 1..n)
  <2>1. base \in InHand
    BY DEF InHand
  <2> QED BY <2>1, SubStepKeeps DEF SubFoldKept
<1> HIDE DEF m, run, n
<1>5. PICK h : SubFoldRun(h, m, run, FoldLeft(SubStep, base, run), InHand)
  BY <1>1, <1>2, <1>4, SubFold
<1>6. /\ h \in [0..m -> InHand] /\ h[0] = base /\ h[m] = SubTotal(run)
      /\ \A i \in 1..m : h[i] = SubStep(h[i - 1], run[i])
  BY <1>5 DEF SubFoldRun, SubTotal
<1> DEFINE Good == {i \in 0..m : \E c : Held(PolicyMax, h[i].chunks, h[i].now, A, to[a + i], c)}
<1>7. 0 \in Good
  <2>1. Held(PolicyMax, <<>>, <<>>, A, A, A)
    BY <1>3, PolicyLimits, HeldNone
  <2>2. a + 0 = a /\ 0 \in 0..m
    BY <1>1
  <2>3. h[0].chunks = <<>> /\ h[0].now = <<>>
    BY <1>6
  <2>4. Held(PolicyMax, h[0].chunks, h[0].now, A, to[a + 0], A)
    BY <2>1, <2>2, <2>3
  <2> QED BY <2>2, <2>4
<1>8. ASSUME NEW i \in 1..m, i - 1 \in Good PROVE i \in Good
  <2> DEFINE acc == h[i - 1]
             s == a + i
  <2>1. PICK c : Held(PolicyMax, acc.chunks, acc.now, A, to[a + (i - 1)], c)
    BY <1>8
  <2>2. i - 1 \in 0..m /\ i \in 0..m
    BY <1>1
  <2>3. acc \in InHand /\ s \in 1..n /\ s - 1 = a + (i - 1) /\ h[i] = SubStep(acc, s)
    BY <1>1, <1>6, <2>2
  <2>4. Held(PolicyMax, acc.chunks, acc.now, A, to[s - 1], c)
    BY <2>1, <2>3
  <2> HIDE DEF acc, s, A
  <2>5. \E d : Held(PolicyMax, SubStep(acc, s).chunks, SubStep(acc, s).now, A, to[s], d)
    <3>1. s \in 1..Len(text)
      BY <2>3 DEF n
    <3> QED BY <1>3, <2>3, <2>4, <3>1, SubStepHolds
  <2> QED BY <2>2, <2>3, <2>5 DEF s
<1>9. m \in Good
  <2>1. HandedOn(Good, m)
    BY <1>7, <1>8 DEF HandedOn
  <2>2. 0..m \subseteq Good /\ m \in 0..m
    <3> HIDE DEF Good
    <3> QED BY <1>1, <2>1, Along
  <2> QED BY <2>2
<1>10. a + m = b
  BY DEF m
<1>11. SubTotal(run) \in InHand
  <2>1. m \in 0..m
    BY <1>1
  <2> QED BY <1>6, <2>1
<1> QED
  BY <1>6, <1>9, <1>10, <1>11 DEF run

\* The chunks of a long clause are its text in pieces.
LEMMA SubChunksInPieces ==
    ASSUME TextTyped, NEW to, Ends(to), NEW a \in 0..Len(text), NEW b \in 0..Len(text), a <= b
    PROVE  InPieces(Whole, 0, PolicyMax, PolicySubChunks(Run(a, b)), to[a], to[b] + 1, to[b])
<1> DEFINE end == SubTotal(Run(a, b))
           cs == end.chunks
           now == end.now
           A == to[a]
           E == to[b]
           rest == PolicySubChunks(Run(a, b))
<1>1. end \in InHand /\ \E c : Held(PolicyMax, cs, now, A, E, c)
  BY SubTotalHolds
<1>2. PICK c : Held(PolicyMax, cs, now, A, E, c)
  BY <1>1
<1>3. A \in Nat /\ A \in 0..Len(Whole) /\ E \in 0..Len(Whole) /\ Whole \in Seq(Word)
  <2>1. A \in 0..Len(Whole) /\ E \in 0..Len(Whole) /\ Whole \in Seq(Word)
    BY EndsSay
  <2> QED BY <2>1
<1>4. rest = IF cs # <<>> /\ Len(now) < PolicyMin /\ Len(Last(cs)) + Len(now) <= PolicyMax
             THEN Append(Front(cs), Last(cs) \o now) ELSE cs \o Nonempty(now)
  BY SubChunksAre
<1> HIDE DEF cs, now, A, E, end, rest
<1>5. CASE ~(cs # <<>> /\ Len(now) < PolicyMin /\ Len(Last(cs)) + Len(now) <= PolicyMax)
  <2>1. InPieces(Whole, 0, PolicyMax, cs \o Nonempty(now), A, E + 1, E)
    BY <1>2, <1>3, PolicyLimits, HeldTaken
  <2>2. rest = cs \o Nonempty(now)
    BY <1>4, <1>5
  <2> QED BY <2>1, <2>2 DEF A, E, rest
<1>6. CASE cs # <<>> /\ Len(now) < PolicyMin /\ Len(Last(cs)) + Len(now) <= PolicyMax
  <2>1. c \in 0..Len(Whole) /\ c \in Nat /\ E \in Nat /\ A <= c /\ c <= E
    BY <1>2, <1>3, PolicyLimits, HeldIs
  <2>2. InPieces(Whole, 0, PolicyMax, cs, A, c + 1, c) /\ now = SubSeq(Whole, c + 1, E)
    BY <1>2 DEF Held
  <2> DEFINE l == c + 1
  <2>3. PICK d, s : EndsWith(Whole, 0, PolicyMax, cs, A, l, c, d, s)
    <3>1. l \in Nat /\ 0 \in Nat /\ PolicyMax \in Nat /\ cs # <<>> /\ InPieces(Whole, 0, PolicyMax, cs, A, l, c)
      BY <1>6, <2>1, <2>2, PolicyLimits
    <3> HIDE DEF l
    <3> QED BY <1>3, <2>1, <3>1, PiecesSplit
  <2>4. /\ d \in A..c /\ s \in (A + 1)..(c + 1)
        /\ InPieces(Whole, 0, PolicyMax, Front(cs), A, s, d) /\ Last(cs) = SubSeq(Whole, s, c)
        /\ s <= d + 1 /\ d + 1 <= s + 0
    BY <2>3 DEF EndsWith
  <2>5. /\ s \in Nat /\ d \in Nat /\ d \in 0..Len(Whole) /\ s \in 1..(Len(Whole) + 1) /\ s <= c + 1 /\ s <= E + 1
        /\ A < s /\ d <= E /\ s <= d + 1 /\ d + 1 <= s + 0 /\ l \in 1..(Len(Whole) + 1) /\ l <= E + 1
    <3> DEFINE N == Len(Whole)
    <3>1. N \in Nat /\ c \in 0..N /\ E \in 0..N
      BY <1>3, <2>1
    <3> HIDE DEF N
    <3>2. /\ s \in Nat /\ d \in Nat /\ d \in 0..N /\ s \in 1..(N + 1) /\ s <= c + 1 /\ s <= E + 1
          /\ A < s /\ d <= E /\ s <= d + 1 /\ d + 1 <= s + 0 /\ l \in 1..(N + 1) /\ l <= E + 1
      BY <1>3, <2>1, <2>4, <3>1
    <3> QED BY <3>2 DEF N
  <2>6. Last(cs) \o now = SubSeq(Whole, s, E)
    <3>1. SubSeq(Whole, s, c) \o SubSeq(Whole, c + 1, E) = SubSeq(Whole, s, E)
      BY <1>3, <2>1, <2>5, Adjacent
    <3> QED BY <2>2, <2>4, <3>1
  <2>7. E + 1 <= s + PolicyMax
    <3>1. Len(Last(cs)) = c + 1 - s
      BY <1>3, <2>1, <2>4, <2>5, PieceHas
    <3>2. Len(now) = E + 1 - l
      <4>1. now = SubSeq(Whole, l, E)
        BY <2>2
      <4> HIDE DEF l
      <4> QED BY <1>3, <2>5, <4>1, PieceHas
    <3>3. (c + 1 - s) + (E + 1 - (c + 1)) <= PolicyMax
      BY <1>6, <3>1, <3>2
    <3> QED BY <2>1, <2>5, <3>3, PolicyLimits
  <2>8. InPieces(Whole, 0, PolicyMax, Append(Front(cs), SubSeq(Whole, s, E)), A, s, E)
    <3>1. s <= s /\ 0 \in Nat
      BY <2>5
    <3> HIDE DEF l
    <3> QED BY <1>3, <2>4, <2>5, <2>7, <3>1, PolicyLimits, PiecesMore
  <2>9. InPieces(Whole, 0, PolicyMax, Append(Front(cs), SubSeq(Whole, s, E)), A, E + 1, E)
    <3> DEFINE m == E + 1
    <3>1. s <= m /\ m \in Nat /\ 0 \in Nat
      BY <2>1, <2>5
    <3> HIDE DEF m, l
    <3>2. InPieces(Whole, 0, PolicyMax, Append(Front(cs), SubSeq(Whole, s, E)), A, m, E)
      BY <1>3, <2>5, <2>8, <3>1, PolicyLimits, PiecesLater
    <3> QED BY <3>2 DEF m
  <2>10. rest = Append(Front(cs), SubSeq(Whole, s, E))
    BY <1>4, <1>6, <2>6
  <2> QED BY <2>9, <2>10 DEF A, E, rest
<1> QED
  BY <1>5, <1>6

PolicyChunk == [ref : Nat, words : Seq(Word)]
WordsOf(chunks) == [k \in DOMAIN chunks |-> chunks[k].words]
PiecesOf(c) ==
    LET words == Joined(c.sentences)
    IN  IF Len(words) > PolicyTarget THEN PolicySubChunks(c.sentences) ELSE <<words>>
Chunked(c) == [k \in DOMAIN PiecesOf(c) |-> [ref |-> c.ref, words |-> PiecesOf(c)[k]]]

LEMMA PolicyChunksAre == PolicyChunks = FlattenSeq([c \in DOMAIN Clauses |-> Chunked(Clauses[c])])
BY DEF PolicyChunks, Chunked, PiecesOf

LEMMA WordsJoin ==
    ASSUME NEW s \in Seq(PolicyChunk), NEW t \in Seq(PolicyChunk)
    PROVE  WordsOf(s \o t) = WordsOf(s) \o WordsOf(t)
<1> DEFINE R == PolicyChunk
           Q == Seq(Word)
           st == s \o t
           u == WordsOf(s)
           v == WordsOf(t)
           uv == u \o v
<1>1. \A x \in R : x.words \in Q
  BY DEF PolicyChunk
<1> HIDE DEF R, Q
<1>2. s \in Seq(R) /\ t \in Seq(R)
  BY DEF R
<1>3. /\ Len(s) \in Nat /\ DOMAIN s = 1..Len(s) /\ (\A k \in 1..Len(s) : s[k] \in R)
      /\ Len(t) \in Nat /\ DOMAIN t = 1..Len(t) /\ (\A k \in 1..Len(t) : t[k] \in R)
  BY <1>2
<1>4. u \in [1..Len(s) -> Q] /\ v \in [1..Len(t) -> Q]
  BY <1>1, <1>3 DEF WordsOf
<1>5. u \in Seq(Q) /\ Len(u) = Len(s) /\ DOMAIN u = 1..Len(s) /\ v \in Seq(Q) /\ Len(v) = Len(t) /\ DOMAIN v = 1..Len(t)
  BY <1>3, <1>4, IsSequence
<1>6. /\ \A k \in 1..Len(s) : u[k] = s[k].words
      /\ \A k \in 1..Len(t) : v[k] = t[k].words
  BY <1>3 DEF WordsOf
<1> HIDE DEF u, v
<1>7. /\ DOMAIN st = 1..(Len(s) + Len(t))
      /\ (\A k \in 1..Len(s) : st[k] = s[k]) /\ (\A k \in 1..Len(t) : st[Len(s) + k] = t[k])
      /\ \A k \in 1..(Len(s) + Len(t)) : k \in 1..Len(s) \/ \E j \in 1..Len(t) : k = Len(s) + j
  <2>1. /\ DOMAIN st = 1..(Len(s) + Len(t)) /\ (\A k \in DOMAIN s : st[k] = s[k])
        /\ (\A k \in DOMAIN t : st[Len(s) + k] = t[k])
        /\ \A k \in DOMAIN st : k \in DOMAIN s \/ \E j \in DOMAIN t : k = Len(s) + j
    BY <1>2, InARow
  <2> HIDE DEF st
  <2> QED BY <1>3, <2>1
<1>8. /\ DOMAIN uv = 1..(Len(s) + Len(t)) /\ uv \in Seq(Q)
      /\ (\A k \in 1..Len(s) : uv[k] = u[k]) /\ (\A k \in 1..Len(t) : uv[Len(s) + k] = v[k])
  <2>0. u \in Seq(Q) /\ v \in Seq(Q)
    BY <1>5
  <2>1. /\ uv \in Seq(Q) /\ DOMAIN uv = 1..(Len(u) + Len(v)) /\ (\A k \in DOMAIN u : uv[k] = u[k])
        /\ \A k \in DOMAIN v : uv[Len(u) + k] = v[k]
    BY <2>0, InARow
  <2> HIDE DEF uv
  <2> QED BY <1>5, <2>1
<1> HIDE DEF st, uv
<1>9. \A k \in 1..(Len(s) + Len(t)) : st[k].words = uv[k]
  <2> SUFFICES ASSUME NEW k \in 1..(Len(s) + Len(t)) PROVE st[k].words = uv[k]
    OBVIOUS
  <2>1. CASE k \in 1..Len(s)
    BY <1>6, <1>7, <1>8, <2>1
  <2>2. ASSUME NEW j \in 1..Len(t), k = Len(s) + j PROVE st[k].words = uv[k]
    BY <1>6, <1>7, <1>8, <2>2
  <2> QED BY <1>7, <2>1, <2>2
<1>10. uv = [k \in 1..(Len(s) + Len(t)) |-> uv[k]]
  BY <1>8, SequenceIs
<1>11. WordsOf(st) = uv
  BY <1>7, <1>9, <1>10 DEF WordsOf
<1> QED
  BY <1>11 DEF st, uv, u, v

\* The pieces of a clause are its text.
LEMMA ClausePieces ==
    ASSUME TextTyped, NEW to, Ends(to), NEW a \in 0..Len(text), NEW b \in 0..Len(text), a <= b,
           NEW c \in Clause, c.sentences = Run(a, b)
    PROVE  /\ InPieces(Whole, 0, PolicyMax, PiecesOf(c), to[a], to[b] + 1, to[b])
           /\ Chunked(c) \in Seq(PolicyChunk) /\ WordsOf(Chunked(c)) = PiecesOf(c)
           /\ \A x \in ToSet(Chunked(c)) :
                 /\ x.ref = c.ref /\ Len(x.words) <= PolicyMax
                 /\ \A w \in ToSet(x.words) : w[1] \in (a + 1)..b
<1> DEFINE A == to[a]
           E == to[b]
           N == Len(Whole)
           words == Joined(c.sentences)
           ps == PiecesOf(c)
           l == E + 1
<1>1. A \in 0..N /\ E \in 0..N /\ A <= E /\ N \in Nat /\ Whole \in Seq(Word) /\ 0 \in Nat
  BY EndsSay
<1>2. words = SubSeq(Whole, A + 1, E)
  BY RunJoined
<1>3. InPieces(Whole, 0, PolicyMax, ps, A, l, E)
  <2>1. CASE Len(words) > PolicyTarget
    <3>1. ps = PolicySubChunks(Run(a, b))
      BY <2>1 DEF PiecesOf
    <3>2. InPieces(Whole, 0, PolicyMax, PolicySubChunks(Run(a, b)), to[a], to[b] + 1, to[b])
      BY SubChunksInPieces
    <3> HIDE DEF ps
    <3> QED BY <3>1, <3>2
  <2>2. CASE ~(Len(words) > PolicyTarget)
    <3>1. ps = <<SubSeq(Whole, A + 1, E)>>
      BY <1>2, <2>2 DEF PiecesOf
    <3> HIDE DEF ps, A, E, words
    <3> DEFINE i == A + 1
    <3>2. i \in 1..(Len(Whole) + 1) /\ i <= E + 1 /\ E \in 0..Len(Whole) /\ A \in 0..Len(Whole) /\ A \in Nat /\ E \in Nat
      BY <1>1
    <3> HIDE DEF i
    <3>3. Len(SubSeq(Whole, i, E)) = E + 1 - i
      BY <1>1, <3>2, PieceHas
    <3>4. E + 1 - i <= PolicyTarget
      <4>1. Len(words) = E + 1 - i
        BY <1>2, <3>3 DEF i
      <4>2. E + 1 - i \in Int
        BY <3>2 DEF i
      <4> QED BY <2>2, <4>1, <4>2, PolicyLimits
    <3>5. E <= A + PolicyMax
      BY <3>2, <3>4, PolicyLimits DEF i
    <3>6. InPieces(Whole, 0, PolicyMax, <<SubSeq(Whole, A + 1, E)>>, A, A + 1, E)
      BY <1>1, <3>2, <3>5, PolicyLimits, PiecesOne
    <3>7. InPieces(Whole, 0, PolicyMax, ps, A, i, E)
      BY <3>1, <3>6 DEF i
    <3> DEFINE m == E + 1
    <3>8. i <= m /\ i \in Nat /\ m \in Nat
      BY <1>1, <3>2 DEF i
    <3> HIDE DEF m
    <3>9. InPieces(Whole, 0, PolicyMax, ps, A, m, E)
      BY <1>1, <3>2, <3>7, <3>8, PolicyLimits, PiecesLater
    <3> QED BY <3>9 DEF m
  <2> QED BY <2>1, <2>2
<1>4. /\ ps \in Seq(Seq(Word)) /\ Len(ps) \in Nat /\ DOMAIN ps = 1..Len(ps)
      /\ \A k \in 1..Len(ps) : Len(ps[k]) <= PolicyMax
  <2>1. A \in Nat /\ l \in Nat /\ E \in 0..Len(Whole)
    BY <1>1
  <2>2. PolicyMax \in Nat
    BY PolicyLimits
  <2>3. Whole \in Seq(Word) /\ 0 \in Nat
    BY <1>1
  <2> HIDE DEF A, E, l, ps, N, words
  <2>4. InPieces(Whole, 0, PolicyMax, ps, A, l, E)
    BY <1>3
  <2>5. /\ ps \in Seq(Seq(Word)) /\ Len(ps) \in Nat /\ DOMAIN ps = 1..Len(ps) /\ A <= E
        /\ \A k \in 1..Len(ps) : Len(ps[k]) <= PolicyMax
    BY <2>1, <2>2, <2>3, <2>4, PiecesAre
  <2> QED BY <2>5
<1> DEFINE ch == Chunked(c)
           q == Len(ps)
<1>5. DOMAIN ch = 1..q /\ \A k \in 1..q : ch[k] = [ref |-> c.ref, words |-> ps[k]]
  BY <1>4 DEF Chunked
<1>6. \A k \in 1..q : ps[k] \in Seq(Word)
  <2> DEFINE Q == Seq(Word)
  <2>1. ps \in Seq(Q)
    BY <1>4
  <2> HIDE DEF Q, ps
  <2>2. \A k \in 1..q : ps[k] \in Q
    BY <2>1, <1>4
  <2> QED BY <2>2 DEF Q
<1>7. ch = [k \in 1..q |-> ch[k]] /\ ps = [k \in 1..q |-> ps[k]]
  <2> DEFINE Q == Seq(Word)
  <2>1. ps \in Seq(Q)
    BY <1>4
  <2> HIDE DEF Q, ps
  <2>2. ps \in [1..Len(ps) -> Q]
    BY <2>1, SequenceIs
  <2> QED BY <1>4, <2>2 DEF Chunked, ps
<1> HIDE DEF ps, ch
<1>8. ch \in Seq(PolicyChunk)
  <2>1. c.ref \in Nat
    BY DEF Clause
  <2>2. \A k \in 1..q : ch[k] \in PolicyChunk
    BY <1>5, <1>6, <2>1 DEF PolicyChunk
  <2>3. ch \in [1..q -> PolicyChunk]
    BY <1>7, <2>2
  <2> QED BY <1>4, <2>3, IsSequence
<1>9. WordsOf(ch) = ps
  BY <1>5, <1>7 DEF WordsOf
<1>10. ASSUME NEW x \in ToSet(ch)
       PROVE  x.ref = c.ref /\ Len(x.words) <= PolicyMax /\ \A w \in ToSet(x.words) : w[1] \in (a + 1)..b
  <2>1. PICK k \in 1..q : x = [ref |-> c.ref, words |-> ps[k]]
    BY <1>5, <1>10 DEF ToSet
  <2>2. ASSUME NEW w \in ToSet(ps[k]) PROVE w[1] \in (a + 1)..b
    <3>1. k \in DOMAIN ps
      BY <1>4, <2>1
    <3>2. \E y \in (A + 1)..E : w = Whole[y]
      <4>1. A \in Nat /\ l \in Nat /\ E \in 0..Len(Whole)
        BY <1>1
      <4>2. PolicyMax \in Nat
        BY PolicyLimits
      <4>3. Whole \in Seq(Word) /\ 0 \in Nat
        BY <1>1
      <4> HIDE DEF A, E, l, words, q
      <4>4. InPieces(Whole, 0, PolicyMax, ps, A, l, E)
        BY <1>3
      <4>5. w \in ToSet(ps[k])
        BY <2>2
      <4>6. \E y \in (A + 1)..E : w = Whole[y]
        BY <3>1, <4>1, <4>2, <4>3, <4>4, <4>5, PiecesFrom, SMTT(60)
      <4> QED BY <4>6
    <3>3. PICK y \in (to[a] + 1)..to[b] : w = Whole[y]
      BY <3>2
    <3> QED BY <3>3, WordOfRun
  <2> QED BY <1>4, <2>1, <2>2
<1> QED
  BY <1>3, <1>8, <1>9, <1>10 DEF ch, ps

\* The chunks of a policy are its text, and each is of the clause it names.
LEMMA PolicyStands == ASSUME TextTyped PROVE PolicyIsChunked
<1> DEFINE n == Len(text)
           N == Len(Whole)
           cl == Clauses
           p == Len(cl)
           S == Sentences(cl)
           list == [c \in 1..p |-> Chunked(cl[c])]
           C == PolicyChunks
<1>1. n \in Nat /\ Order \in Seq(Nat) /\ Len(Order) = n /\ 0 \in Nat /\ n \in 0..Len(Order)
  <2>1. n \in Nat /\ Order \in Seq(Nat) /\ Len(Order) = n
    BY TextIs
  <2> QED BY <2>1
<1>2. cl \in Seq(Clause) /\ RefsAre(cl) /\ InPieces(Order, 0, n, S, 0, n, n)
  BY ClausesInPieces DEF ClausesUpTo
<1>3. PICK to : Ends(to)
  BY WholeIs
<1>4. /\ N \in Nat /\ Whole \in Seq(Word) /\ to[0] = 0 /\ to[n] = N
  BY <1>3, EndsSay
<1>5. p \in Nat /\ DOMAIN cl = 1..p /\ DOMAIN S = 1..p /\ \A k \in 1..p : cl[k] \in Clause /\ S[k] = cl[k].sentences
  <2> HIDE DEF cl
  <2> QED BY <1>2 DEF Sentences
<1>6. PICK st, en : PiecesAt(Order, 0, n, S, 0, n, n, p, st, en)
  <2> HIDE DEF n, S, p, cl
  <2>1. PICK q, st, en : PiecesAt(Order, 0, n, S, 0, n, n, q, st, en)
    BY <1>2 DEF InPieces
  <2>2. q \in Nat /\ DOMAIN S = 1..q
    BY <2>1 DEF PiecesAt
  <2>3. \A x, y \in Nat : 1..x = 1..y => x = y
    OBVIOUS
  <2>4. q = p
    BY <1>5, <2>2, <2>3
  <2> QED BY <2>1, <2>4
<1>7. /\ st \in [1..p -> (0 + 1)..n] /\ en \in [0..p -> 0..n]
      /\ InPlace(0, p, st, en) /\ en[0] = 0 /\ en[p] = n
      /\ S = [k \in 1..p |-> SubSeq(Order, st[k], en[k])]
  BY <1>6 DEF PiecesAt
<1> HIDE DEF S, p, cl, n
<1>8. ASSUME NEW k \in 1..p
      PROVE  /\ k - 1 \in 0..p /\ k \in 0..p /\ en[k - 1] \in 0..n /\ en[k] \in 0..n /\ en[k - 1] <= en[k]
             /\ cl[k].sentences = Run(en[k - 1], en[k])
  <2>1. k \in 0..p /\ k - 1 \in 0..p
    BY <1>5
  <2> DEFINE x == st[k]
             y == en[k - 1]
             z == en[k]
  <2>2. x \in (0 + 1)..n /\ y \in 0..n /\ z \in 0..n /\ x <= y + 1 /\ y + 1 <= x + 0 /\ y <= z
    BY <1>7, <2>1 DEF InPlace
  <2>3. cl[k].sentences = SubSeq(Order, x, z)
    BY <1>5, <1>7
  <2> HIDE DEF x, y, z
  <2>4. x = y + 1
    BY <2>2
  <2> QED BY <2>1, <2>2, <2>3, <2>4 DEF Run, y, z
<1>9. ASSUME NEW k \in 1..p
      PROVE  /\ InPieces(Whole, 0, PolicyMax, PiecesOf(cl[k]), to[en[k - 1]], to[en[k]] + 1, to[en[k]])
             /\ Chunked(cl[k]) \in Seq(PolicyChunk) /\ WordsOf(Chunked(cl[k])) = PiecesOf(cl[k])
             /\ \A x \in ToSet(Chunked(cl[k])) :
                   /\ x.ref = cl[k].ref /\ Len(x.words) <= PolicyMax
                   /\ \A w \in ToSet(x.words) : w[1] \in (en[k - 1] + 1)..en[k]
  <2> DEFINE a == en[k - 1]
             b == en[k]
             c == cl[k]
  <2>1. a \in 0..Len(text) /\ b \in 0..Len(text) /\ a <= b /\ c \in Clause /\ c.sentences = Run(a, b)
    BY <1>5, <1>8 DEF n
  <2> HIDE DEF a, b, c
  <2>2. /\ InPieces(Whole, 0, PolicyMax, PiecesOf(c), to[a], to[b] + 1, to[b])
        /\ Chunked(c) \in Seq(PolicyChunk) /\ WordsOf(Chunked(c)) = PiecesOf(c)
        /\ \A x \in ToSet(Chunked(c)) :
                 /\ x.ref = c.ref /\ Len(x.words) <= PolicyMax
                 /\ \A w \in ToSet(x.words) : w[1] \in (a + 1)..b
    BY <1>3, <2>1, ClausePieces
  <2> QED BY <2>2 DEF a, b, c
<1>10. list \in [1..p -> Seq(PolicyChunk)] /\ C = FlattenSeq(list)
  <2>1. C = FlattenSeq([c \in DOMAIN cl |-> Chunked(cl[c])])
    BY PolicyChunksAre DEF cl
  <2>2. [c \in DOMAIN cl |-> Chunked(cl[c])] = list
    BY <1>5
  <2>3. list \in [1..p -> Seq(PolicyChunk)]
    BY <1>9
  <2> HIDE DEF list, C
  <2> QED BY <2>1, <2>2, <2>3
<1>11. \A k \in 1..p : list[k] = Chunked(cl[k])
  OBVIOUS
<1> HIDE DEF list, C
<1>12. PICK f \in [0..p -> Seq(PolicyChunk)] : Joins(f, list, p) /\ FlattenSeq(list) = f[p]
  BY <1>5, <1>10, FlattenIs
<1> DEFINE Good == {k \in 0..p : InPieces(Whole, 0, PolicyMax, WordsOf(f[k]), 0, to[en[k]] + 1, to[en[k]])}
<1>13. \A k \in 0..p : to[en[k]] \in 0..N /\ to[en[k]] \in Nat /\ to[en[k]] + 1 \in Nat
  <2>1. \A k \in 0..p : en[k] \in 0..n
    BY <1>7
  <2>2. \A i \in 0..n : to[i] \in 0..N
    BY <1>3, EndsSay DEF n
  <2> QED BY <1>4, <2>1, <2>2
<1>14. 0 \in Good
  <2>1. f[0] = <<>>
    BY <1>12 DEF Joins
  <2>2. WordsOf(<<>>) = <<>>
    BY DEF WordsOf
  <2>3. InPieces(Whole, 0, PolicyMax, <<>>, 0, 0 + 1, 0)
    BY PolicyLimits, PiecesNone
  <2>4. en[0] = 0 /\ to[0] = 0 /\ 0 \in 0..p
    BY <1>4, <1>5, <1>7
  <2>5. InPieces(Whole, 0, PolicyMax, WordsOf(f[0]), 0, to[en[0]] + 1, to[en[0]])
    BY <2>1, <2>2, <2>3, <2>4
  <2> QED BY <2>4, <2>5
<1>15. ASSUME NEW k \in 1..p, k - 1 \in Good PROVE k \in Good
  <2> DEFINE x == to[en[k - 1]]
             y == to[en[k]]
             cs == WordsOf(f[k - 1])
             ds == PiecesOf(cl[k])
             l == x + 1
             m == y + 1
  <2>1. InPieces(Whole, 0, PolicyMax, cs, 0, l, x) /\ InPieces(Whole, 0, PolicyMax, ds, x, m, y)
    BY <1>9, <1>15
  <2>2. x \in 0..Len(Whole) /\ x \in Nat /\ y \in 0..Len(Whole) /\ l \in Nat /\ m \in Nat
    BY <1>8, <1>13
  <2>3. WordsOf(f[k]) = cs \o ds
    <3>1. f[k] = f[k - 1] \o list[k]
      BY <1>12 DEF Joins
    <3>2. f[k - 1] \in Seq(PolicyChunk) /\ list[k] \in Seq(PolicyChunk)
      BY <1>8, <1>10, <1>12
    <3> QED BY <1>9, <1>11, <3>1, <3>2, WordsJoin
  <2> HIDE DEF x, y, cs, ds, l, m
  <2>4. InPieces(Whole, 0, PolicyMax, cs \o ds, 0, y + 1, y)
    BY <1>1, <1>4, <2>1, <2>2, PolicyLimits, PiecesJoin
  <2>5. k \in 0..p
    BY <1>8
  <2> QED BY <2>3, <2>4, <2>5 DEF y
<1>16. p \in Good
  <2>1. HandedOn(Good, p)
    BY <1>14, <1>15 DEF HandedOn
  <2>2. 0..p \subseteq Good /\ p \in 0..p
    <3> HIDE DEF Good
    <3> QED BY <1>5, <2>1, Along
  <2> QED BY <2>2
<1>17. C = f[p]
  BY <1>10, <1>12
<1>18. InPieces(Whole, 0, PolicyMax, WordsOf(C), 0, N + 1, N)
  BY <1>4, <1>7, <1>16, <1>17
<1>19. FlattenSeq(WordsOf(C)) = Whole
  <2>1. N + 1 \in Nat /\ N \in 0..Len(Whole)
    BY <1>4
  <2> DEFINE l == N + 1
  <2>2. l \in Nat /\ InPieces(Whole, 0, PolicyMax, WordsOf(C), 0, l, N)
    BY <1>18, <2>1
  <2> HIDE DEF l, N
  <2>3. FlattenSeq(WordsOf(C)) = SubSeq(Whole, 0 + 1, N)
    BY <1>1, <1>4, <2>1, <2>2, PolicyLimits, PiecesFlat
  <2>4. SubSeq(Whole, 0 + 1, N) = Whole
    <3> DEFINE W == SubSeq(Whole, 1, N)
    <3>1. W \in Seq(Word) /\ Len(W) = N /\ \A i \in 1..N : W[i] = Whole[i]
      BY <1>4, <2>1, Beginning
    <3> HIDE DEF W
    <3>2. W = Whole
      BY <1>4, <3>1, Extensional DEF N
    <3> QED BY <3>2 DEF W
  <2> QED BY <2>3, <2>4
<1>20. ASSUME NEW k \in DOMAIN C
       PROVE  /\ Len(C[k].words) <= PolicyMax
              /\ \A w \in ToSet(C[k].words) : C[k].ref = Max({0} \cup {h \in Headings : h <= w[1]})
  <2>1. C[k] \in ToSet(C)
    BY DEF ToSet
  <2>2. ToSet(C) = UNION {ToSet(list[i]) : i \in 1..p}
    BY <1>5, <1>10, FlattenHas
  <2>3. PICK i \in 1..p : C[k] \in ToSet(Chunked(cl[i]))
    BY <1>11, <2>1, <2>2
  <2>4. C[k].ref = cl[i].ref /\ Len(C[k].words) <= PolicyMax
        /\ \A w \in ToSet(C[k].words) : w[1] \in (en[i - 1] + 1)..en[i]
    BY <1>9, <2>3
  <2>5. ASSUME NEW w \in ToSet(C[k].words) PROVE cl[i].ref = RefOf(w[1])
    <3> DEFINE a == en[i - 1]
               b == en[i]
               j == w[1] - a
    <3>1. w[1] \in (a + 1)..b /\ a \in 0..Len(text) /\ b \in 0..Len(text) /\ a <= b /\ cl[i].sentences = Run(a, b)
      BY <1>8, <2>4, <2>5 DEF n
    <3> HIDE DEF a, b
    <3>2. j \in 1..(b - a) /\ a + j = w[1]
      <4> DEFINE v == w[1]
      <4>1. v \in (a + 1)..b /\ a \in Nat /\ b \in Nat
        BY <3>1
      <4> HIDE DEF v
      <4>2. v - a \in 1..(b - a) /\ a + (v - a) = v
        BY <4>1
      <4> QED BY <4>2 DEF v
    <3> HIDE DEF j
    <3>3. DOMAIN Run(a, b) = 1..(b - a) /\ Run(a, b)[j] = a + j
      BY <3>1, <3>2, RunIs
    <3>4. w[1] \in ToSet(cl[i].sentences)
      BY <3>1, <3>2, <3>3 DEF ToSet
    <3> QED BY <1>2, <1>5, <3>4 DEF RefsAre
  <2> QED BY <2>4, <2>5 DEF RefOf
<1> QED
  BY <1>19, <1>20 DEF PolicyIsChunked, WordsOf, C, Whole, Order

-----------------------------------------------------------------------------
(* The units of a page *)

LEMMA ChunkLimits ==
    /\ ChunkMax \in Nat /\ ChunkDefault \in Nat /\ ChunkOverlap \in Nat /\ MergeBelow \in Nat
    /\ 0 < ChunkDefault /\ ChunkDefault <= ChunkMax /\ ChunkOverlap < ChunkDefault /\ 0 < ChunkOverlap
<1>1. {ChunkMax, ChunkDefault, ChunkOverlap, MergeBelow} \subseteq Nat \ {0}
  BY ChunkAssumption
<1> QED
  BY <1>1, ChunkAssumption

\* The units of a page without blocks, a sentence at a time.
UnitStep(acc, s) ==
    CASE Size(s) > ChunkMax ->
           [units |-> acc.units \o Nonempty(acc.now) \o HardSplit(Words(s), ChunkDefault, 0),
            now |-> <<>>]
      [] Size(s) <= ChunkMax /\ acc.now # <<>> /\ Len(acc.now) + Size(s) > ChunkDefault ->
           [units |-> Append(acc.units, acc.now), now |-> Words(s)]
      [] OTHER -> [acc EXCEPT !.now = @ \o Words(s)]
UnitTotal(sentences) == FoldLeft(UnitStep, [units |-> <<>>, now |-> <<>>], sentences)

LEMMA UnitsAre ==
    ASSUME NEW sentences
    PROVE  SentenceUnits(sentences) = UnitTotal(sentences).units \o Nonempty(UnitTotal(sentences).now)
BY DEF SentenceUnits, UnitTotal, UnitStep, FoldLeft, MapThenFoldSet

\* What a fold of such steps is.
UnitFoldKept(acc, elements) ==
    [units |-> <<>>, now |-> <<>>] \in acc /\ \A a \in acc, e \in elements : UnitStep(a, e) \in acc
UnitFoldRun(h, n, seq, total, acc) ==
    /\ h \in [0..n -> acc] /\ h[0] = [units |-> <<>>, now |-> <<>>] /\ h[n] = total
    /\ \A i \in 1..n : h[i] = UnitStep(h[i - 1], seq[i])

LEMMA UnitFold ==
    ASSUME NEW n \in Nat, NEW elements, NEW acc, NEW seq \in [1..n -> elements],
           UnitFoldKept(acc, elements)
    PROVE  \E h : UnitFoldRun(h, n, seq, FoldLeft(UnitStep, [units |-> <<>>, now |-> <<>>], seq), acc)
<1> DEFINE op == [p \in acc \X elements |-> UnitStep(p[1], p[2])]
           Body(g) == g = [s \in SUBSET (1..n) |->
                              IF s = {} THEN [units |-> <<>>, now |-> <<>>] ELSE UnitStep(g[s \ {Max(s)}], seq[Max(s)])]
           total == FoldLeft(UnitStep, [units |-> <<>>, now |-> <<>>], seq)
<1>1. total = (CHOOSE g : Body(g))[1..n]
  <2>1. DOMAIN seq = 1..n
    OBVIOUS
  <2> QED BY <2>1 DEF FoldLeft, MapThenFoldSet
<1>2. op \in [acc \X elements -> acc]
  BY DEF UnitFoldKept
<1>3. PICK w : FoldTable(w, op, [units |-> <<>>, now |-> <<>>], seq, acc, n)
  <2> HIDE DEF op
  <2> QED BY <1>2, FoldExists DEF UnitFoldKept
<1>4. \A s \in SUBSET (1..n) :
          w[s] = IF s = {} THEN [units |-> <<>>, now |-> <<>>] ELSE UnitStep(w[s \ {Max(s)}], seq[Max(s)])
  <2>1. ASSUME NEW s \in SUBSET (1..n), s # {}
        PROVE  w[s] = UnitStep(w[s \ {Max(s)}], seq[Max(s)])
    <3>1. Max(s) \in 1..n
      BY <2>1, LastOfSome
    <3>2. w[s \ {Max(s)}] \in acc /\ seq[Max(s)] \in elements
      BY <1>3, <3>1 DEF FoldTable
    <3>3. w[s] = op[<<w[s \ {Max(s)}], seq[Max(s)]>>]
      BY <1>3, <2>1 DEF FoldTable, FoldStep
    <3> QED BY <3>2, <3>3
  <2>2. w[{}] = [units |-> <<>>, now |-> <<>>]
    BY <1>3 DEF FoldTable, FoldStep
  <2> QED BY <2>1, <2>2
<1>5. Body(w)
  BY <1>3, <1>4 DEF FoldTable
<1> HIDE DEF Body
<1>6. PICK g : Body(g) /\ total = g[1..n]
  BY <1>1, <1>5
<1>7. \A s \in SUBSET (1..n) : g[s] = w[s]
  <2>1. \A s \in SUBSET (1..n) :
            g[s] = IF s = {} THEN [units |-> <<>>, now |-> <<>>] ELSE UnitStep(g[s \ {Max(s)}], seq[Max(s)])
    BY <1>6 DEF Body
  <2>2. HandOn(g, w, n)
    BY <1>4, <2>1 DEF HandOn
  <2> QED BY <2>2, SameTable, SMTT(30)
<1>8. PICK h \in [0..n -> acc] :
          h[0] = [units |-> <<>>, now |-> <<>>] /\ h[n] = w[1..n] /\ \A i \in 1..n : h[i] = op[<<h[i - 1], seq[i]>>]
  <2> DEFINE base == [units |-> <<>>, now |-> <<>>]
  <2>1. FoldTable(w, op, base, seq, acc, n)
    BY <1>3
  <2> HIDE DEF op, base
  <2>2. \E h \in [0..n -> acc] :
          h[0] = base /\ h[n] = w[1..n] /\ \A i \in 1..n : h[i] = op[<<h[i - 1], seq[i]>>]
    BY <2>1, FoldAlong
  <2> QED BY <2>2 DEF base
<1>9. ASSUME NEW i \in 1..n PROVE h[i] = UnitStep(h[i - 1], seq[i])
  <2>1. h[i - 1] \in acc /\ seq[i] \in elements
    BY <1>8
  <2> QED BY <1>8, <2>1
<1>10. h[n] = total
  <2>1. 1..n \in SUBSET (1..n)
    OBVIOUS
  <2> QED BY <1>6, <1>7, <1>8, <2>1
<1> HIDE DEF total
<1>11. UnitFoldRun(h, n, seq, total, acc)
  BY <1>8, <1>9, <1>10 DEF UnitFoldRun
<1> QED
  BY <1>11 DEF total

UnitsInHand == [units : Seq(Seq(Word)), now : Seq(Word)]

\* The parts of a sentence are words.
LEMMA SplitTyped ==
    ASSUME TextTyped, NEW s \in 1..Len(text), NEW max \in Nat, 0 < max
    PROVE  HardSplit(Words(s), max, 0) \in Seq(Seq(Word))
<1> DEFINE parts == HardSplit(Words(s), max, 0)
<1>1. PICK to : Ends(to)
  BY WholeIs
<1> DEFINE x == to[s - 1]
           y == to[s]
           l == y + 1
<1>2. InPieces(Whole, 0, max, parts, x, l, y)
  BY <1>1, SentenceSplit
<1>3. x \in Nat /\ y \in 0..Len(Whole) /\ l \in Nat /\ Whole \in Seq(Word) /\ 0 \in Nat
  <2>1. s - 1 \in 0..Len(text) /\ s \in 0..Len(text)
    OBVIOUS
  <2> QED BY <1>1, <2>1, EndsSay
<1> HIDE DEF x, y, l, parts
<1>4. parts \in Seq(Seq(Word))
  BY <1>2, <1>3, PiecesAre
<1> QED
  BY <1>4 DEF parts

LEMMA UnitStepKeeps ==
    ASSUME TextTyped, NEW acc \in UnitsInHand, NEW s \in 1..Len(text)
    PROVE  UnitStep(acc, s) \in UnitsInHand
<1> DEFINE Q == Seq(Word)
           parts == HardSplit(Words(s), ChunkDefault, 0)
           now == acc.now
           units == acc.units
<1>1. units \in Seq(Q) /\ now \in Seq(Word)
  BY DEF UnitsInHand
<1>2. Words(s) \in Seq(Word)
  BY TextIs
<1>3. parts \in Seq(Q)
  BY ChunkLimits, SplitTyped
<1>4. Nonempty(now) \in Seq(Q)
  <2>1. now \in Q
    BY <1>1
  <2> HIDE DEF Q, now
  <2> QED BY <2>1 DEF Nonempty
<1>5. units \o Nonempty(now) \o parts \in Seq(Q) /\ Append(units, now) \in Seq(Q)
  <2> DEFINE e == Nonempty(now)
  <2>1. units \in Seq(Q) /\ e \in Seq(Q) /\ now \in Q
    BY <1>1, <1>4
  <2> HIDE DEF Q, parts, units, now, e
  <2> QED BY <1>3, <2>1 DEF e
<1>6. now \o Words(s) \in Seq(Word) /\ <<>> \in Seq(Word)
  <2> HIDE DEF now
  <2>1. now \in Seq(Word)
    BY <1>1 DEF now
  <2> QED BY <1>2, <2>1
<1> HIDE DEF parts
<1>7. UnitStep(acc, s) \in {[units |-> units \o Nonempty(now) \o parts, now |-> <<>>],
                            [units |-> Append(units, now), now |-> Words(s)],
                            [acc EXCEPT !.now = now \o Words(s)]}
  BY DEF UnitStep, parts
<1>8. [acc EXCEPT !.now = now \o Words(s)] = [units |-> units, now |-> now \o Words(s)]
  <2> DEFINE C == Seq(Seq(Word))
             D == Seq(Word)
             x == now \o Words(s)
  <2>1. acc \in [units : C, now : D]
    BY DEF UnitsInHand
  <2> HIDE DEF C, D, x
  <2>2. [acc EXCEPT !.now = x] = [units |-> acc.units, now |-> x]
    BY <2>1
  <2> QED BY <2>2 DEF x
<1> DEFINE both == units \o Nonempty(now) \o parts
           more == Append(units, now)
           on == now \o Words(s)
           C == Seq(Q)
           D == Seq(Word)
<1>9. both \in C /\ more \in C /\ on \in D /\ <<>> \in D /\ Words(s) \in D /\ units \in C
  BY <1>1, <1>2, <1>5, <1>6
<1>10. UnitStep(acc, s) \in {[units |-> both, now |-> <<>>], [units |-> more, now |-> Words(s)],
                             [units |-> units, now |-> on]}
  BY <1>7, <1>8
<1>11. UnitsInHand = [units : C, now : D]
  BY DEF UnitsInHand
<1> HIDE DEF both, more, on, C, D, units, now
<1>12. \A x \in C, y \in D : [units |-> x, now |-> y] \in UnitsInHand
  BY <1>11
<1> QED
  BY <1>9, <1>10, <1>12

LEMMA UnitStepHolds ==
    ASSUME TextTyped, NEW to, Ends(to), NEW s \in 1..Len(text), NEW acc \in UnitsInHand, NEW A \in Nat, NEW c,
           Held(ChunkMax, acc.units, acc.now, A, to[s - 1], c)
    PROVE  \E d : Held(ChunkMax, UnitStep(acc, s).units, UnitStep(acc, s).now, A, to[s], d)
<1> DEFINE new == UnitStep(acc, s)
<1>1. Size(s) \in Nat /\ Len(acc.now) \in Nat /\ (acc.now = <<>> => Len(acc.now) = 0)
  <2>1. acc.now \in Seq(Word)
    BY DEF UnitsInHand
  <2> QED BY <2>1, TextIs
<1>2. CASE Size(s) > ChunkMax
  <2>1. new = [units |-> acc.units \o Nonempty(acc.now) \o HardSplit(Words(s), ChunkDefault, 0), now |-> <<>>]
    BY <1>1, <1>2, ChunkLimits DEF UnitStep
  <2>2. Held(ChunkMax, acc.units \o Nonempty(acc.now) \o HardSplit(Words(s), ChunkDefault, 0), <<>>, A, to[s], to[s])
    BY ChunkLimits, HeldSplit
  <2> QED BY <2>1, <2>2
<1>3. CASE Size(s) <= ChunkMax /\ acc.now # <<>> /\ Len(acc.now) + Size(s) > ChunkDefault
  <2>1. new = [units |-> Append(acc.units, acc.now), now |-> Words(s)]
    BY <1>1, <1>3, ChunkLimits DEF UnitStep
  <2>2. Held(ChunkMax, Append(acc.units, acc.now), Words(s), A, to[s], to[s - 1])
    BY <1>3, ChunkLimits, HeldCut
  <2> QED BY <2>1, <2>2
<1>4. CASE Size(s) <= ChunkMax /\ ~(acc.now # <<>> /\ Len(acc.now) + Size(s) > ChunkDefault)
  <2>1. new = [acc EXCEPT !.now = acc.now \o Words(s)]
    BY <1>1, <1>4, ChunkLimits DEF UnitStep
  <2>2. new.units = acc.units /\ new.now = acc.now \o Words(s)
    BY <2>1 DEF UnitsInHand
  <2>3. Len(acc.now) + Size(s) <= ChunkMax
    BY <1>1, <1>4, ChunkLimits
  <2>4. Held(ChunkMax, acc.units, acc.now \o Words(s), A, to[s], c)
    BY <2>3, ChunkLimits, HeldGrows
  <2> QED BY <2>2, <2>4
<1> QED
  BY <1>1, <1>2, <1>3, <1>4, ChunkLimits

\* The units of a page without blocks are its text in pieces.
LEMMA UnitsInPieces ==
    ASSUME TextTyped
    PROVE  InPieces(Whole, 0, ChunkMax, SentenceUnits(Order), 0, Len(Whole) + 1, Len(Whole))
<1> DEFINE n == Len(text)
           N == Len(Whole)
           base == [units |-> <<>>, now |-> <<>>]
<1>0. PICK to : Ends(to)
  BY WholeIs
<1>1. /\ n \in Nat /\ Order \in Seq(Nat) /\ Len(Order) = n /\ \A i \in 1..n : Order[i] = i
      /\ N \in Nat /\ to[0] = 0 /\ to[n] = N
  BY <1>0, TextIs, EndsSay
<1>2. Order \in [1..n -> 1..n]
  <2>1. Order \in [1..n -> Nat]
    BY <1>1, SequenceIs
  <2> QED BY <1>1, <2>1
<1>3. UnitFoldKept(UnitsInHand, 1..n)
  <2>1. base \in UnitsInHand
    BY DEF UnitsInHand
  <2> QED BY <2>1, UnitStepKeeps DEF UnitFoldKept
<1> HIDE DEF n
<1>4. PICK h : UnitFoldRun(h, n, Order, FoldLeft(UnitStep, base, Order), UnitsInHand)
  BY <1>1, <1>2, <1>3, UnitFold
<1>5. /\ h \in [0..n -> UnitsInHand] /\ h[0] = base /\ h[n] = UnitTotal(Order)
      /\ \A i \in 1..n : h[i] = UnitStep(h[i - 1], Order[i])
  BY <1>4 DEF UnitFoldRun, UnitTotal
<1> DEFINE Good == {i \in 0..n : \E c : Held(ChunkMax, h[i].units, h[i].now, 0, to[i], c)}
<1>6. 0 \in Good
  <2>1. Held(ChunkMax, <<>>, <<>>, 0, 0, 0)
    <3>1. 0 \in 0..Len(Whole)
      BY <1>1
    <3> QED BY <3>1, ChunkLimits, HeldNone
  <2>2. h[0].units = <<>> /\ h[0].now = <<>> /\ 0 \in 0..n
    BY <1>1, <1>5
  <2>3. Held(ChunkMax, h[0].units, h[0].now, 0, to[0], 0)
    BY <1>1, <2>1, <2>2
  <2> QED BY <2>2, <2>3
<1>7. ASSUME NEW i \in 1..n, i - 1 \in Good PROVE i \in Good
  <2> DEFINE acc == h[i - 1]
  <2>1. PICK c : Held(ChunkMax, acc.units, acc.now, 0, to[i - 1], c)
    BY <1>7
  <2>2. i - 1 \in 0..n /\ i \in 0..n
    BY <1>1
  <2>3. acc \in UnitsInHand /\ h[i] = UnitStep(acc, i)
    BY <1>1, <1>5, <2>2
  <2> HIDE DEF acc
  <2>4. \E d : Held(ChunkMax, UnitStep(acc, i).units, UnitStep(acc, i).now, 0, to[i], d)
    <3>1. i \in 1..Len(text) /\ 0 \in Nat
      BY DEF n
    <3> QED BY <1>0, <2>1, <2>3, <3>1, UnitStepHolds
  <2> QED BY <2>2, <2>3, <2>4
<1>8. n \in Good
  <2>1. HandedOn(Good, n)
    BY <1>6, <1>7 DEF HandedOn
  <2>2. 0..n \subseteq Good /\ n \in 0..n
    <3> HIDE DEF Good
    <3> QED BY <1>1, <2>1, Along
  <2> QED BY <2>2
<1> DEFINE end == UnitTotal(Order)
<1>9. PICK c : Held(ChunkMax, end.units, end.now, 0, N, c)
  BY <1>1, <1>5, <1>8
<1>10. InPieces(Whole, 0, ChunkMax, end.units \o Nonempty(end.now), 0, N + 1, N)
  <2> DEFINE u == end.units
             v == end.now
  <2>1. Held(ChunkMax, u, v, 0, N, c) /\ N \in 0..Len(Whole) /\ 0 \in Nat
    BY <1>1, <1>9
  <2> HIDE DEF u, v, N
  <2>2. InPieces(Whole, 0, ChunkMax, u \o Nonempty(v), 0, N + 1, N)
    BY <2>1, ChunkLimits, HeldTaken
  <2> QED BY <2>2 DEF u, v
<1> QED
  BY <1>10, UnitsAre

-----------------------------------------------------------------------------
(* The drafts of a page *)

FitsDefault(words, unit) == Len(words) + Len(unit) <= ChunkDefault
FullOf(acc, unit) ==
    IF acc.now # <<>> /\ ~FitsDefault(acc.now, unit)
    THEN LET seed == OverlapOf(acc.last) IN
         [drafts |-> Append(acc.drafts, acc.now), last |-> <<>>,
          now |-> IF FitsDefault(seed, unit) THEN seed ELSE <<>>]
    ELSE acc
\* The drafts of a page, a unit at a time.
DraftStep(acc, unit) ==
    IF Len(unit) > ChunkMax
    THEN [drafts |-> acc.drafts \o Nonempty(acc.now) \o HardSplit(unit, ChunkDefault, ChunkOverlap),
          now |-> <<>>, last |-> <<>>]
    ELSE [FullOf(acc, unit) EXCEPT !.now = @ \o unit, !.last = unit]
NoDrafts == [drafts |-> <<>>, now |-> <<>>, last |-> <<>>]
DraftTotal(units) == FoldLeft(DraftStep, NoDrafts, units)

LEMMA DraftsAre ==
    ASSUME NEW units
    PROVE  Assemble(units) = DraftTotal(units).drafts \o Nonempty(DraftTotal(units).now)
BY DEF Assemble, DraftTotal, DraftStep, FullOf, FitsDefault, NoDrafts, FoldLeft, MapThenFoldSet

\* What a fold of such steps is.
DraftFoldKept(acc, elements) ==
    NoDrafts \in acc /\ \A a \in acc, e \in elements : DraftStep(a, e) \in acc
DraftFoldRun(h, n, seq, total, acc) ==
    /\ h \in [0..n -> acc] /\ h[0] = NoDrafts /\ h[n] = total
    /\ \A i \in 1..n : h[i] = DraftStep(h[i - 1], seq[i])

LEMMA DraftFold ==
    ASSUME NEW n \in Nat, NEW elements, NEW acc, NEW seq \in [1..n -> elements],
           DraftFoldKept(acc, elements)
    PROVE  \E h : DraftFoldRun(h, n, seq, FoldLeft(DraftStep, NoDrafts, seq), acc)
<1> DEFINE op == [p \in acc \X elements |-> DraftStep(p[1], p[2])]
           Body(g) == g = [s \in SUBSET (1..n) |->
                              IF s = {} THEN NoDrafts ELSE DraftStep(g[s \ {Max(s)}], seq[Max(s)])]
           total == FoldLeft(DraftStep, NoDrafts, seq)
<1>1. total = (CHOOSE g : Body(g))[1..n]
  <2>1. DOMAIN seq = 1..n
    OBVIOUS
  <2> QED BY <2>1 DEF FoldLeft, MapThenFoldSet
<1>2. op \in [acc \X elements -> acc]
  BY DEF DraftFoldKept
<1>3. PICK w : FoldTable(w, op, NoDrafts, seq, acc, n)
  <2> HIDE DEF op
  <2> QED BY <1>2, FoldExists DEF DraftFoldKept
<1>4. \A s \in SUBSET (1..n) :
          w[s] = IF s = {} THEN NoDrafts ELSE DraftStep(w[s \ {Max(s)}], seq[Max(s)])
  <2>1. ASSUME NEW s \in SUBSET (1..n), s # {}
        PROVE  w[s] = DraftStep(w[s \ {Max(s)}], seq[Max(s)])
    <3>1. Max(s) \in 1..n
      BY <2>1, LastOfSome
    <3>2. w[s \ {Max(s)}] \in acc /\ seq[Max(s)] \in elements
      BY <1>3, <3>1 DEF FoldTable
    <3>3. w[s] = op[<<w[s \ {Max(s)}], seq[Max(s)]>>]
      BY <1>3, <2>1 DEF FoldTable, FoldStep
    <3> QED BY <3>2, <3>3
  <2>2. w[{}] = NoDrafts
    BY <1>3 DEF FoldTable, FoldStep
  <2> QED BY <2>1, <2>2
<1>5. Body(w)
  BY <1>3, <1>4 DEF FoldTable
<1> HIDE DEF Body
<1>6. PICK g : Body(g) /\ total = g[1..n]
  BY <1>1, <1>5
<1>7. \A s \in SUBSET (1..n) : g[s] = w[s]
  <2>1. \A s \in SUBSET (1..n) :
            g[s] = IF s = {} THEN NoDrafts ELSE DraftStep(g[s \ {Max(s)}], seq[Max(s)])
    BY <1>6 DEF Body
  <2>2. HandOn(g, w, n)
    BY <1>4, <2>1 DEF HandOn
  <2> QED BY <2>2, SameTable, SMTT(30)
<1>8. PICK h \in [0..n -> acc] :
          h[0] = NoDrafts /\ h[n] = w[1..n] /\ \A i \in 1..n : h[i] = op[<<h[i - 1], seq[i]>>]
  <2> DEFINE base == NoDrafts
  <2>1. FoldTable(w, op, base, seq, acc, n)
    BY <1>3
  <2> HIDE DEF op, base
  <2>2. \E h \in [0..n -> acc] :
          h[0] = base /\ h[n] = w[1..n] /\ \A i \in 1..n : h[i] = op[<<h[i - 1], seq[i]>>]
    BY <2>1, FoldAlong
  <2> QED BY <2>2 DEF base
<1>9. ASSUME NEW i \in 1..n PROVE h[i] = DraftStep(h[i - 1], seq[i])
  <2>1. h[i - 1] \in acc /\ seq[i] \in elements
    BY <1>8
  <2> QED BY <1>8, <2>1
<1>10. h[n] = total
  <2>1. 1..n \in SUBSET (1..n)
    OBVIOUS
  <2> QED BY <1>6, <1>7, <1>8, <2>1
<1> HIDE DEF total
<1>11. DraftFoldRun(h, n, seq, total, acc)
  BY <1>8, <1>9, <1>10 DEF DraftFoldRun
<1> QED
  BY <1>11 DEF total

DraftsInHand == [drafts : Seq(Seq(Word)), now : Seq(Word), last : Seq(Word)]

\* What one chunk hands to the next is the end of its last unit, and short.
OverlapAt(T, l, e, unit, t) == t \in l..(e + 1) /\ e + 1 <= t + ChunkOverlap /\ OverlapOf(unit) = SubSeq(T, t, e)

LEMMA OverlapIs ==
    ASSUME NEW S, NEW T \in Seq(S), NEW l \in 1..(Len(T) + 1), NEW e \in 0..Len(T), l <= e + 1
    PROVE  \E t : OverlapAt(T, l, e, SubSeq(T, l, e), t)
<1> DEFINE unit == SubSeq(T, l, e)
           n == e + 1 - l
           over == ChunkOverlap
<1>1. unit \in Seq(S) /\ Len(unit) = n /\ \A x \in 1..n : unit[x] = T[l + x - 1]
  BY PieceHas
<1>2. n \in Nat /\ over \in Nat /\ Len(T) \in Nat /\ DOMAIN unit = 1..n
  BY <1>1, ChunkLimits
<1> DEFINE In(a) == SubSeq(unit, a, n)
<1>3. ASSUME NEW a \in 1..(n + 1)
      PROVE  In(a) = SubSeq(T, l + a - 1, e) /\ Len(In(a)) = n + 1 - a
  <2>1. a \in 1..(e + 2 - l) /\ n \in 0..(e + 1 - l) /\ a <= n + 1 /\ l + n - 1 = e
    BY <1>2
  <2>2. SubSeq(unit, a, n) = SubSeq(T, l + a - 1, l + n - 1)
    <3> HIDE DEF n
    <3> QED BY <2>1, Within
  <2>3. Len(SubSeq(unit, a, n)) = n + 1 - a
    <3> HIDE DEF unit, n
    <3> QED BY <1>1, <1>2, PieceHas
  <2> QED BY <2>1, <2>2, <2>3
<1> HIDE DEF unit, In
<1>4. ASSUME NEW a \in 1..(n + 1), n + 1 <= a + over, OverlapOf(unit) = In(a)
      PROVE  OverlapAt(T, l, e, unit, l + a - 1)
  <2>1. l + a - 1 \in l..(e + 1) /\ e + 1 <= (l + a - 1) + over
    BY <1>2, <1>4
  <2> QED BY <1>3, <1>4, <2>1 DEF OverlapAt
<1>5. CASE n <= over
  <2>1. OverlapOf(unit) = unit
    <3>1. Len(unit) <= ChunkOverlap /\ ~(Len(unit) > ChunkOverlap)
      BY <1>1, <1>2, <1>5
    <3> QED BY <3>1 DEF OverlapOf
  <2>2. unit = In(1)
    <3> HIDE DEF n
    <3> QED BY <1>1, <1>2 DEF In
  <2>3. 1 \in 1..(n + 1) /\ n + 1 <= 1 + over
    BY <1>2, <1>5
  <2> QED BY <1>4, <2>1, <2>2, <2>3 DEF unit
<1>6. CASE n > over
  <2> DEFINE same == {i \in DOMAIN unit : unit[i][1] = Last(unit)[1]}
             first == Min(same)
  <2>1. n \in same /\ same \subseteq 1..n
    <3>1. n \in 1..n /\ Last(unit) = unit[n]
      BY <1>1, <1>2, <1>6 DEF Last
    <3> HIDE DEF n
    <3> QED BY <1>2, <3>1
  <2>2. first \in 1..n
    <3> HIDE DEF n, unit, same
    <3>1. same \subseteq Nat /\ same # {}
      BY <1>2, <2>1
    <3>2. first \in same
      BY <3>1, FirstOfSome
    <3> QED BY <2>1, <3>2
  <2>3. OverlapOf(unit) = IF Len(In(first)) <= over THEN In(first) ELSE In(n - over + 1)
    <3>1. Len(unit) > ChunkOverlap /\ ~(Len(unit) <= ChunkOverlap)
      BY <1>1, <1>2, <1>6
    <3>2. In(first) = SubSeq(unit, first, Len(unit)) /\ In(n - over + 1) = SubSeq(unit, Len(unit) - ChunkOverlap + 1, Len(unit))
      BY <1>1 DEF In
    <3>3. Len(In(first)) <= over \/ Len(In(first)) > over
      <4> HIDE DEF first, n
      <4>1. first \in 1..(n + 1)
        BY <1>2, <2>2
      <4>2. Len(In(first)) = n + 1 - first
        BY <1>3, <4>1
      <4> QED BY <1>2, <2>2, <4>2
    <3> QED BY <3>1, <3>2, <3>3 DEF OverlapOf
  <2> HIDE DEF first, n
  <2>4. first \in 1..(n + 1) /\ n - over + 1 \in 1..(n + 1)
    BY <1>2, <1>6, <2>2
  <2>5. Len(In(first)) = n + 1 - first
    BY <1>3, <2>4
  <2>6. CASE Len(In(first)) <= over
    <3>1. n + 1 <= first + over
      BY <1>2, <2>2, <2>5, <2>6
    <3>2. OverlapAt(T, l, e, unit, l + first - 1)
      BY <1>4, <2>3, <2>4, <2>6, <3>1
    <3> QED BY <3>2 DEF unit
  <2>7. CASE ~(Len(In(first)) <= over)
    <3>1. n + 1 <= (n - over + 1) + over
      BY <1>2
    <3>2. OverlapAt(T, l, e, unit, l + (n - over + 1) - 1)
      BY <1>4, <2>3, <2>4, <2>7, <3>1
    <3> QED BY <3>2 DEF unit
  <2> QED BY <2>6, <2>7
<1> QED
  BY <1>2, <1>5, <1>6

LEMMA OverlapTyped ==
    ASSUME NEW unit \in Seq(Word)
    PROVE  OverlapOf(unit) \in Seq(Word)
<1> DEFINE n == Len(unit)
<1>1. n \in Nat /\ SubSeq(unit, 1, n) = unit
  OBVIOUS
<1>2. 1 \in 1..(Len(unit) + 1) /\ n \in 0..Len(unit) /\ 1 <= n + 1
  BY <1>1
<1> HIDE DEF n
<1>3. PICK t : OverlapAt(unit, 1, n, SubSeq(unit, 1, n), t)
  BY <1>2, OverlapIs
<1>4. t \in 1..(Len(unit) + 1) /\ t <= n + 1 /\ OverlapOf(unit) = SubSeq(unit, t, n)
  <2>1. t \in 1..(n + 1) /\ OverlapOf(unit) = SubSeq(unit, t, n)
    BY <1>1, <1>3 DEF OverlapAt
  <2> QED BY <1>1, <2>1 DEF n
<1> QED
  BY <1>2, <1>4, PieceHas

LEMMA UnitSplitTyped ==
    ASSUME NEW unit \in Seq(Word)
    PROVE  HardSplit(unit, ChunkDefault, ChunkOverlap) \in Seq(Seq(Word))
<1> DEFINE n == Len(unit)
           cs == HardSplit(SubSeq(unit, 1, n), ChunkDefault, ChunkOverlap)
           l == n + 1
           z == 1 - 1
<1>1. n \in Nat /\ SubSeq(unit, 1, n) = unit /\ 1 \in 1..(Len(unit) + 1) /\ n \in 0..Len(unit) /\ 1 <= n + 1
  OBVIOUS
<1>2. InPieces(unit, ChunkOverlap, ChunkDefault, cs, z, l, n)
  <2> HIDE DEF n
  <2> QED BY <1>1, ChunkLimits, HardSplitPieces
<1>3. l \in Nat /\ z \in Nat
  BY <1>1
<1> HIDE DEF cs, l, z
<1>4. ChunkOverlap \in Nat /\ ChunkDefault \in Nat
  BY ChunkLimits
<1>5. cs \in Seq(Seq(Word))
  <2> HIDE DEF n
  <2> QED BY <1>1, <1>2, <1>3, <1>4, PiecesAre
<1> QED
  BY <1>1, <1>5 DEF cs

LEMMA FullKeeps ==
    ASSUME NEW acc \in DraftsInHand, NEW unit \in Seq(Word)
    PROVE  FullOf(acc, unit) \in DraftsInHand
<1> DEFINE Q == Seq(Word)
           C == Seq(Q)
           more == Append(acc.drafts, acc.now)
           seed == OverlapOf(acc.last)
           on == IF FitsDefault(seed, unit) THEN seed ELSE <<>>
<1>1. acc.drafts \in C /\ acc.now \in Q /\ acc.last \in Q /\ <<>> \in Q /\ DraftsInHand = [drafts : C, now : Q, last : Q]
  BY DEF DraftsInHand
<1>2. seed \in Q
  BY <1>1, OverlapTyped
<1>3. on \in Q /\ more \in C
  <2> HIDE DEF Q, seed
  <2> QED BY <1>1, <1>2
<1>4. FullOf(acc, unit) \in {acc, [drafts |-> more, last |-> <<>>, now |-> on]}
  BY DEF FullOf
<1> HIDE DEF Q, C, more, seed, on
<1>5. [drafts |-> more, last |-> <<>>, now |-> on] \in DraftsInHand
  BY <1>1, <1>3
<1> QED
  BY <1>4, <1>5

LEMMA DraftStepKeeps ==
    ASSUME NEW acc \in DraftsInHand, NEW unit \in Seq(Word)
    PROVE  DraftStep(acc, unit) \in DraftsInHand
<1> DEFINE Q == Seq(Word)
           C == Seq(Q)
           parts == HardSplit(unit, ChunkDefault, ChunkOverlap)
           both == acc.drafts \o Nonempty(acc.now) \o parts
           f == FullOf(acc, unit)
           on == f.now \o unit
<1>1. acc.drafts \in C /\ acc.now \in Q /\ <<>> \in Q /\ unit \in Q /\ DraftsInHand = [drafts : C, now : Q, last : Q]
  BY DEF DraftsInHand
<1>2. f \in DraftsInHand /\ parts \in C
  BY FullKeeps, UnitSplitTyped
<1> HIDE DEF f, parts
<1>3. f.drafts \in C /\ f.now \in Q
  BY <1>1, <1>2
<1>4. on \in Q
  <2> DEFINE x == f.now
  <2>1. x \in Seq(Word)
    BY <1>3
  <2> HIDE DEF x
  <2>2. x \o unit \in Seq(Word)
    BY <2>1
  <2> QED BY <2>2 DEF x
<1>5. both \in C
  <2> DEFINE e == Nonempty(acc.now)
             d == acc.drafts
  <2> HIDE DEF Q
  <2>1. e \in Seq(Q)
    BY <1>1 DEF Nonempty
  <2>2. d \in Seq(Q) /\ parts \in Seq(Q)
    BY <1>1, <1>2
  <2> HIDE DEF d, e
  <2>3. d \o e \o parts \in Seq(Q)
    BY <2>1, <2>2
  <2> QED BY <2>3 DEF d, e
<1>6. DraftStep(acc, unit) \in {[drafts |-> both, now |-> <<>>, last |-> <<>>],
                                [f EXCEPT !.now = on, !.last = unit]}
  BY DEF DraftStep, f, parts
<1>7. [f EXCEPT !.now = on, !.last = unit] = [drafts |-> f.drafts, now |-> on, last |-> unit]
  <2> HIDE DEF Q, C, on
  <2>1. f \in [drafts : C, now : Q, last : Q]
    BY <1>1, <1>2
  <2>2. on \in Q /\ unit \in Q
    BY <1>1, <1>4
  <2> DEFINE g == [f EXCEPT !.now = on, !.last = unit]
  <2>3. g \in [drafts : C, now : Q, last : Q]
    BY <2>1, <2>2
  <2>4. g = [drafts |-> g.drafts, now |-> g.now, last |-> g.last]
    <3> HIDE DEF g
    <3> QED BY <2>3
  <2>5. g.drafts = f.drafts /\ g.now = on /\ g.last = unit
    BY <2>1
  <2>6. g = [drafts |-> f.drafts, now |-> on, last |-> unit]
    BY <2>4, <2>5
  <2> QED BY <2>6 DEF on
<1> DEFINE x == f.drafts
<1> HIDE DEF Q, C, both, on
<1>8. [drafts |-> both, now |-> <<>>, last |-> <<>>] \in DraftsInHand
  BY <1>1, <1>5
<1>9. [drafts |-> x, now |-> on, last |-> unit] \in DraftsInHand
  <2>1. x \in C
    BY <1>3
  <2> HIDE DEF x
  <2> QED BY <1>1, <1>4, <2>1
<1> QED
  BY <1>6, <1>7, <1>8, <1>9

\* T up to place e: the drafts up to b, a chunk from s on, and its last unit from l on.
Drafted(T, acc, e, b, s, l) ==
    /\ b \in 0..e /\ s \in 1..(b + 1) /\ l \in s..(e + 1)
    /\ InPieces(T, ChunkOverlap, ChunkMax, acc.drafts, 0, s, b)
    /\ b + 1 <= s + ChunkOverlap /\ e + 1 <= s + ChunkMax
    /\ acc.now = SubSeq(T, s, e) /\ acc.last = SubSeq(T, l, e)

LEMMA DraftedIs ==
    ASSUME NEW T \in Seq(Word), NEW acc \in DraftsInHand, NEW e \in 0..Len(T), NEW b, NEW s, NEW l,
           Drafted(T, acc, e, b, s, l)
    PROVE  /\ b \in 0..Len(T) /\ s \in 1..(Len(T) + 1) /\ l \in 1..(Len(T) + 1)
           /\ b <= e /\ s <= b + 1 /\ s <= e + 1 /\ s <= l /\ l <= e + 1
           /\ Len(acc.now) = e + 1 - s /\ (acc.now = <<>> <=> s = e + 1)
<1>1. b \in 0..e /\ s \in 1..(b + 1) /\ l \in s..(e + 1) /\ acc.now = SubSeq(T, s, e)
  BY DEF Drafted
<1>2. Len(T) \in Nat
  OBVIOUS
<1>3. /\ b \in 0..Len(T) /\ s \in 1..(Len(T) + 1) /\ l \in 1..(Len(T) + 1)
      /\ b <= e /\ s <= b + 1 /\ s <= e + 1 /\ s <= l /\ l <= e + 1
  BY <1>1, <1>2
<1>4. Len(acc.now) = e + 1 - s
  BY <1>1, <1>3, PieceHas
<1>5. acc.now = <<>> <=> Len(acc.now) = 0
  <2>1. acc.now \in Seq(Word)
    BY DEF DraftsInHand
  <2> QED BY <2>1
<1>6. e + 1 - s = 0 <=> s = e + 1
  BY <1>2, <1>3
<1> QED
  BY <1>3, <1>4, <1>5, <1>6

\* What is in hand becomes a draft.
LEMMA DraftTaken ==
    ASSUME NEW T \in Seq(Word), NEW acc \in DraftsInHand, NEW e \in 0..Len(T), NEW b, NEW s, NEW l,
           Drafted(T, acc, e, b, s, l), acc.now # <<>>
    PROVE  InPieces(T, ChunkOverlap, ChunkMax, Append(acc.drafts, acc.now), 0, s, e)
<1>1. /\ InPieces(T, ChunkOverlap, ChunkMax, acc.drafts, 0, s, b)
      /\ b + 1 <= s + ChunkOverlap /\ e + 1 <= s + ChunkMax /\ acc.now = SubSeq(T, s, e)
  BY DEF Drafted
<1>2. b \in 0..Len(T) /\ s \in 1..(Len(T) + 1) /\ b <= e /\ s <= b + 1
  BY DraftedIs
<1>3. s \in Nat /\ s <= s /\ 0 < s /\ 0 \in Nat
  BY <1>2
<1>4. ChunkOverlap \in Nat /\ ChunkMax \in Nat
  BY ChunkLimits
<1> DEFINE cs == acc.drafts
<1>5. InPieces(T, ChunkOverlap, ChunkMax, cs, 0, s, b)
  BY <1>1
<1> HIDE DEF cs
<1>6. InPieces(T, ChunkOverlap, ChunkMax, Append(cs, SubSeq(T, s, e)), 0, s, e)
  BY <1>1, <1>2, <1>3, <1>4, <1>5, PiecesMore
<1> QED
  BY <1>1, <1>6 DEF cs

LEMMA DraftsTaken ==
    ASSUME NEW T \in Seq(Word), NEW acc \in DraftsInHand, NEW e \in 0..Len(T), NEW b, NEW s, NEW l,
           Drafted(T, acc, e, b, s, l)
    PROVE  InPieces(T, ChunkOverlap, ChunkMax, acc.drafts \o Nonempty(acc.now), 0, e + 1, e)
<1>1. b \in 0..Len(T) /\ s \in 1..(Len(T) + 1) /\ b <= e /\ s <= b + 1 /\ s <= e + 1 /\ (acc.now = <<>> <=> s = e + 1)
  BY DraftedIs
<1>2. acc.drafts \in Seq(Seq(Word)) /\ acc.now \in Seq(Word)
  BY DEF DraftsInHand
<1> DEFINE Q == Seq(Word)
           x == acc.drafts
           y == acc.now
<1>3. x \in Seq(Q) /\ y \in Q
  BY <1>2
<1> HIDE DEF Q, x, y
<1>4. x \o Nonempty(y) = IF y = <<>> THEN x ELSE Append(x, y)
  <2>1. x \o <<y>> = Append(x, y) /\ x \o <<>> = x
    BY <1>3
  <2> QED BY <2>1 DEF Nonempty
<1> DEFINE m == e + 1
<1>5. m \in Nat /\ s \in Nat /\ s <= m /\ 0 \in Nat
  BY <1>1
<1>6. ChunkOverlap \in Nat /\ ChunkMax \in Nat
  BY ChunkLimits
<1>7. CASE y = <<>>
  <2>1. s = m /\ b = e
    BY <1>1, <1>7 DEF y
  <2>2. InPieces(T, ChunkOverlap, ChunkMax, x, 0, s, b)
    BY DEF Drafted, x
  <2> QED BY <1>4, <1>7, <2>1, <2>2 DEF x, y
<1>8. CASE y # <<>>
  <2>1. InPieces(T, ChunkOverlap, ChunkMax, Append(x, y), 0, s, e)
    BY <1>8, DraftTaken DEF x, y
  <2> HIDE DEF m
  <2>2. InPieces(T, ChunkOverlap, ChunkMax, Append(x, y), 0, m, e)
    BY <1>5, <1>6, <2>1, PiecesLater
  <2> QED BY <1>4, <1>8, <2>2 DEF x, y, m
<1> QED
  BY <1>7, <1>8

\* A unit above the limit is split.
LEMMA DraftSplit ==
    ASSUME NEW T \in Seq(Word), NEW acc \in DraftsInHand, NEW e \in 0..Len(T), NEW b, NEW s, NEW l,
           Drafted(T, acc, e, b, s, l), NEW f \in 0..Len(T), e <= f, NEW new,
           new = [drafts |-> acc.drafts \o Nonempty(acc.now)
                                 \o HardSplit(SubSeq(T, e + 1, f), ChunkDefault, ChunkOverlap),
                  now |-> <<>>, last |-> <<>>]
    PROVE  Drafted(T, new, f, f, f + 1, f + 1)
<1> DEFINE over == ChunkOverlap
           cs == acc.drafts \o Nonempty(acc.now)
           ds == HardSplit(SubSeq(T, e + 1, f), ChunkDefault, over)
           m == e + 1
           z == f + 1
<1>1. m \in Nat /\ z \in Nat /\ 0 \in Nat /\ m \in 1..(Len(T) + 1) /\ m <= f + 1 /\ m - 1 = e /\ f \in Nat /\ e \in Nat
  OBVIOUS
<1>2. over \in Nat /\ ChunkMax \in Nat /\ ChunkDefault \in Nat /\ over < ChunkDefault /\ ChunkDefault <= ChunkMax
  BY ChunkLimits
<1>3. InPieces(T, over, ChunkMax, cs, 0, m, e)
  BY DraftsTaken
<1> HIDE DEF m
<1>4. InPieces(T, over, ChunkDefault, HardSplit(SubSeq(T, m, f), ChunkDefault, over), m - 1, f + 1, f)
  <2> HIDE DEF over
  <2> QED BY <1>1, <1>2, HardSplitPieces
<1>5. InPieces(T, over, ChunkDefault, ds, e, z, f)
  BY <1>1, <1>4 DEF m
<1> HIDE DEF cs, ds, z, over
<1>6. InPieces(T, over, ChunkMax, ds, e, z, f)
  <2>1. over <= over
    BY <1>2
  <2> QED BY <1>1, <1>2, <1>5, <2>1, PiecesLooser
<1>7. InPieces(T, over, ChunkMax, cs \o ds, 0, f + 1, f)
  BY <1>1, <1>2, <1>3, <1>6, PiecesJoin
<1>8. f \in 0..f /\ z \in 1..(f + 1) /\ z \in z..(f + 1) /\ f + 1 <= z + over /\ f + 1 <= z + ChunkMax
  BY <1>1, <1>2 DEF z
<1>9. SubSeq(T, z, f) = <<>>
  BY <1>1 DEF z
<1>10. new.drafts = cs \o ds /\ new.now = <<>> /\ new.last = <<>>
  BY DEF cs, ds, over
<1> QED
  BY <1>7, <1>8, <1>9, <1>10 DEF Drafted, z, over

\* A unit joins what is in hand, after that became a draft where it was full.
LEMMA DraftFull ==
    ASSUME NEW T \in Seq(Word), NEW acc \in DraftsInHand, NEW e \in 0..Len(T), NEW b, NEW s, NEW l,
           Drafted(T, acc, e, b, s, l), NEW unit \in Seq(Word), Len(unit) <= ChunkMax
    PROVE  \E c, t, m : /\ Drafted(T, FullOf(acc, unit), e, c, t, m)
                        /\ Len(FullOf(acc, unit).now) + Len(unit) <= ChunkMax
<1> DEFINE over == ChunkOverlap
           f == FullOf(acc, unit)
           k == Len(unit)
<1>1. over \in Nat /\ ChunkMax \in Nat /\ ChunkDefault \in Nat /\ ChunkDefault <= ChunkMax
  BY ChunkLimits
<1>2. /\ b \in 0..Len(T) /\ s \in 1..(Len(T) + 1) /\ l \in 1..(Len(T) + 1) /\ b <= e /\ s <= b + 1
      /\ s <= e + 1 /\ s <= l /\ l <= e + 1 /\ Len(acc.now) = e + 1 - s
  BY DraftedIs
<1>3. k \in Nat /\ Len(T) \in Nat
  OBVIOUS
<1>4. CASE ~(acc.now # <<>> /\ ~FitsDefault(acc.now, unit))
  <2>1. f = acc
    BY <1>4 DEF FullOf
  <2>2. Len(acc.now) + k <= ChunkMax
    <3> DEFINE x == Len(acc.now)
    <3>1. x \in Nat /\ (acc.now = <<>> => x = 0)
      BY <1>2
    <3>2. x = 0 \/ x + k <= ChunkDefault
      BY <1>4, <3>1 DEF FitsDefault
    <3> HIDE DEF x, k
    <3>3. k <= ChunkMax
      BY DEF k
    <3> QED BY <1>1, <1>3, <3>1, <3>2, <3>3 DEF x
  <2> QED BY <2>1, <2>2
<1>5. CASE acc.now # <<>> /\ ~FitsDefault(acc.now, unit)
  <2> DEFINE seed == OverlapOf(acc.last)
             on == IF FitsDefault(seed, unit) THEN seed ELSE <<>>
             more == Append(acc.drafts, acc.now)
  <2>1. f = [drafts |-> more, last |-> <<>>, now |-> on]
    BY <1>5 DEF FullOf
  <2>2. InPieces(T, over, ChunkMax, more, 0, s, e)
    BY <1>5, DraftTaken
  <2>3. PICK t : OverlapAt(T, l, e, acc.last, t)
    <3>1. acc.last = SubSeq(T, l, e)
      BY DEF Drafted
    <3> QED BY <1>2, <3>1, OverlapIs
  <2>4. t \in l..(e + 1) /\ e + 1 <= t + over /\ seed = SubSeq(T, t, e)
    BY <2>3 DEF OverlapAt
  <2> DEFINE u == IF FitsDefault(seed, unit) THEN t ELSE e + 1
  <2>5. t \in l..(e + 1) /\ e + 1 \in l..(e + 1)
    BY <1>2, <2>4
  <2>6. u \in l..(e + 1) /\ e + 1 <= u + over /\ on = SubSeq(T, u, e)
    <3>1. SubSeq(T, e + 1, e) = <<>> /\ e + 1 <= (e + 1) + over
      BY <1>1
    <3> HIDE DEF seed
    <3> QED BY <2>4, <2>5, <3>1
  <2> HIDE DEF u, on
  <2>7. u \in 1..(Len(T) + 1) /\ u \in Nat /\ s \in Nat /\ s <= u /\ u <= e + 1 /\ 0 \in Nat /\ e \in Nat
    BY <1>2, <1>3, <2>6
  <2>8. Len(on) = e + 1 - u
    BY <2>6, <2>7, PieceHas
  <2>9. Len(on) + k <= ChunkMax
    <3>1. CASE FitsDefault(seed, unit)
      <4>1. on = seed /\ Len(seed) + k <= ChunkDefault
        BY <3>1 DEF FitsDefault, on
      <4> DEFINE x == Len(seed)
      <4>2. x \in Nat
        BY <2>7, <2>8, <4>1
      <4> HIDE DEF x, k, seed
      <4> QED BY <1>1, <1>3, <4>1, <4>2 DEF x
    <3>2. CASE ~FitsDefault(seed, unit)
      <4>1. on = <<>>
        BY <3>2 DEF on
      <4>2. Len(on) = 0
        BY <4>1
      <4> QED BY <1>3, <4>2
    <3> QED BY <3>1, <3>2
  <2> HIDE DEF more, over, k
  <2>10. InPieces(T, over, ChunkMax, more, 0, u, e)
    BY <1>1, <2>2, <2>7, PiecesLater
  <2>11. /\ e \in 0..e /\ u \in 1..(e + 1) /\ e + 1 \in u..(e + 1) /\ e + 1 <= u + ChunkMax
         /\ SubSeq(T, e + 1, e) = <<>>
    <3>1. e \in 0..e /\ u \in 1..(e + 1) /\ e + 1 \in u..(e + 1) /\ SubSeq(T, e + 1, e) = <<>>
      BY <2>7
    <3>2. e + 1 - u \in Nat /\ (e + 1 - u) + k <= ChunkMax
      BY <2>7, <2>8, <2>9
    <3> QED BY <1>1, <1>3, <2>7, <3>1, <3>2
  <2>12. f.drafts = more /\ f.last = <<>> /\ f.now = on
    BY <2>1
  <2>13. Drafted(T, f, e, e, u, e + 1)
    BY <2>6, <2>10, <2>11, <2>12 DEF Drafted, over
  <2>14. Len(f.now) + k <= ChunkMax
    BY <2>9, <2>12
  <2> QED BY <2>13, <2>14 DEF k
<1> QED
  BY <1>4, <1>5

LEMMA DraftGrows ==
    ASSUME NEW T \in Seq(Word), NEW acc \in DraftsInHand, NEW e \in 0..Len(T), NEW b, NEW s, NEW l,
           Drafted(T, acc, e, b, s, l), NEW f \in 0..Len(T), e <= f,
           NEW unit, unit = SubSeq(T, e + 1, f), Len(acc.now) + Len(unit) <= ChunkMax
    PROVE  Drafted(T, [acc EXCEPT !.now = @ \o unit, !.last = unit], f, b, s, e + 1)
<1> DEFINE new == [acc EXCEPT !.now = @ \o unit, !.last = unit]
           m == e + 1
<1>1. ChunkOverlap \in Nat /\ ChunkMax \in Nat
  BY ChunkLimits
<1>2. /\ b \in 0..Len(T) /\ s \in 1..(Len(T) + 1) /\ b <= e /\ s <= b + 1 /\ s <= e + 1
      /\ Len(acc.now) = e + 1 - s
  BY DraftedIs
<1>3. /\ InPieces(T, ChunkOverlap, ChunkMax, acc.drafts, 0, s, b)
      /\ b + 1 <= s + ChunkOverlap /\ acc.now = SubSeq(T, s, e) /\ s \in 1..(b + 1)
  BY DEF Drafted
<1>4. m \in 1..(Len(T) + 1) /\ m <= f + 1 /\ f + 1 - m = f - e
  OBVIOUS
<1>5. Len(unit) = f - e
  <2> HIDE DEF m
  <2>1. Len(SubSeq(T, m, f)) = f + 1 - m
    BY <1>4, PieceHas
  <2> QED BY <1>4, <2>1 DEF m
<1>6. acc.now \o unit = SubSeq(T, s, f)
  <2>1. SubSeq(T, s, e) \o SubSeq(T, e + 1, f) = SubSeq(T, s, f)
    BY <1>2, Adjacent
  <2> QED BY <1>3, <2>1
<1>7. new.drafts = acc.drafts /\ new.now = acc.now \o unit /\ new.last = unit
  <2> DEFINE C == Seq(Seq(Word))
             Q == Seq(Word)
             x == acc.now \o unit
  <2>1. acc \in [drafts : C, now : Q, last : Q]
    BY DEF DraftsInHand
  <2>2. new = [acc EXCEPT !.now = x, !.last = unit]
    OBVIOUS
  <2> HIDE DEF C, Q, x, new
  <2>3. new.drafts = acc.drafts /\ new.now = x /\ new.last = unit
    BY <2>1, <2>2
  <2> QED BY <2>3 DEF x
<1>8. b \in 0..f /\ e + 1 \in s..(f + 1) /\ f + 1 <= s + ChunkMax
  <2>1. (e + 1 - s) + (f - e) <= ChunkMax
    BY <1>2, <1>5
  <2> QED BY <1>1, <1>2, <2>1
<1> HIDE DEF new
<1>9. Drafted(T, new, f, b, s, e + 1)
  BY <1>3, <1>6, <1>7, <1>8 DEF Drafted
<1> QED
  BY <1>9 DEF new

LEMMA DraftStepHolds ==
    ASSUME NEW T \in Seq(Word), NEW acc \in DraftsInHand, NEW e \in 0..Len(T), NEW b, NEW s, NEW l,
           Drafted(T, acc, e, b, s, l), NEW f \in 0..Len(T), e <= f, NEW unit, unit = SubSeq(T, e + 1, f)
    PROVE  \E c, t, m : Drafted(T, DraftStep(acc, unit), f, c, t, m)
<1>1. unit \in Seq(Word) /\ Len(unit) \in Nat
  <2> DEFINE m == e + 1
  <2>1. m \in 1..(Len(T) + 1) /\ m <= f + 1
    OBVIOUS
  <2> HIDE DEF m
  <2>2. SubSeq(T, m, f) \in Seq(Word)
    BY <2>1, PieceHas
  <2>3. unit \in Seq(Word)
    BY <2>2 DEF m
  <2> QED BY <2>3
<1>2. CASE Len(unit) > ChunkMax
  <2> DEFINE new == DraftStep(acc, unit)
  <2>1. new = [drafts |-> acc.drafts \o Nonempty(acc.now)
                              \o HardSplit(SubSeq(T, e + 1, f), ChunkDefault, ChunkOverlap),
               now |-> <<>>, last |-> <<>>]
    BY <1>2 DEF DraftStep
  <2> HIDE DEF new
  <2>2. Drafted(T, new, f, f, f + 1, f + 1)
    BY <2>1, DraftSplit
  <2> QED BY <2>2 DEF new
<1>3. CASE ~(Len(unit) > ChunkMax)
  <2>1. Len(unit) <= ChunkMax
    BY <1>1, <1>3, ChunkLimits
  <2> DEFINE full == FullOf(acc, unit)
  <2>2. PICK c, t, m : Drafted(T, full, e, c, t, m) /\ Len(full.now) + Len(unit) <= ChunkMax
    BY <1>1, <2>1, DraftFull
  <2>3. full \in DraftsInHand
    BY <1>1, FullKeeps
  <2> HIDE DEF full
  <2>4. Drafted(T, [full EXCEPT !.now = @ \o unit, !.last = unit], f, c, t, e + 1)
    BY <2>2, <2>3, DraftGrows
  <2>5. DraftStep(acc, unit) = [full EXCEPT !.now = @ \o unit, !.last = unit]
    BY <1>3 DEF DraftStep, full
  <2> QED BY <2>4, <2>5
<1> QED
  BY <1>2, <1>3

\* The drafts of units that follow one another are the text in pieces.
LEMMA DraftsInPieces ==
    ASSUME NEW T \in Seq(Word), NEW L \in Nat, NEW units, NEW l \in Nat, InPieces(T, 0, L, units, 0, l, Len(T))
    PROVE  InPieces(T, ChunkOverlap, ChunkMax, Assemble(units), 0, Len(T) + 1, Len(T))
<1> DEFINE n == Len(units)
           N == Len(T)
           Q == Seq(Word)
<1>1. N \in Nat /\ N \in 0..Len(T) /\ 0 \in Nat
  OBVIOUS
<1> HIDE DEF N
<1>2. units \in Seq(Q) /\ n \in Nat
  <2>1. InPieces(T, 0, L, units, 0, l, N)
    BY DEF N
  <2>2. units \in Seq(Seq(Word)) /\ Len(units) \in Nat
    BY <1>1, <2>1, PiecesAre
  <2> QED BY <2>2
<1>3. units \in [1..n -> Q]
  <2> HIDE DEF Q
  <2> QED BY <1>2
<1>4. PICK st, en : PiecesAt(T, 0, L, units, 0, l, N, n, st, en)
  <2>1. InPieces(T, 0, L, units, 0, l, N)
    BY DEF N
  <2> QED BY <1>1, <2>1, PiecesSay
<1>5. /\ en \in [0..n -> 0..N] /\ en[0] = 0 /\ en[n] = N
      /\ \A k \in 1..n : en[k - 1] <= en[k] /\ units[k] = SubSeq(T, en[k - 1] + 1, en[k])
  <2>1. /\ st \in [1..n -> (0 + 1)..l] /\ en \in [0..n -> 0..N] /\ InPlace(0, n, st, en)
        /\ en[0] = 0 /\ en[n] = N /\ units = [k \in 1..n |-> SubSeq(T, st[k], en[k])]
    BY <1>4 DEF PiecesAt
  <2>2. ASSUME NEW k \in 1..n PROVE en[k - 1] <= en[k] /\ st[k] = en[k - 1] + 1
    <3>1. st[k] <= en[k - 1] + 1 /\ en[k - 1] + 1 <= st[k] + 0 /\ en[k - 1] <= en[k]
      BY <2>1 DEF InPlace
    <3>2. k - 1 \in 0..n /\ st[k] \in 1..l
      <4>1. k - 1 \in 0..n
        BY <1>2
      <4>2. st[k] \in (0 + 1)..l /\ 0 + 1 = 1
        BY <2>1
      <4> QED BY <4>1, <4>2
    <3>3. en[k - 1] \in 0..N
      BY <2>1, <3>2
    <3> DEFINE x == en[k - 1]
               y == st[k]
    <3> HIDE DEF x, y
    <3>4. y = x + 1
      <4>1. y <= x + 1 /\ x + 1 <= y + 0 /\ x \in Nat /\ y \in Nat
        BY <1>1, <3>1, <3>2, <3>3 DEF x, y
      <4> QED BY <4>1
    <3> QED BY <3>1, <3>4 DEF x, y
  <2> HIDE DEF n
  <2> QED BY <2>1, <2>2
<1>6. DraftFoldKept(DraftsInHand, Q)
  <2>1. NoDrafts \in DraftsInHand
    BY DEF NoDrafts, DraftsInHand
  <2> QED BY <2>1, DraftStepKeeps DEF DraftFoldKept
<1> HIDE DEF n, Q
<1>7. PICK h : DraftFoldRun(h, n, units, FoldLeft(DraftStep, NoDrafts, units), DraftsInHand)
  BY <1>2, <1>3, <1>6, DraftFold
<1>8. /\ h \in [0..n -> DraftsInHand] /\ h[0] = NoDrafts /\ h[n] = DraftTotal(units)
      /\ \A i \in 1..n : h[i] = DraftStep(h[i - 1], units[i])
  BY <1>7 DEF DraftFoldRun, DraftTotal
<1> DEFINE Good == {i \in 0..n : \E b, s, m : Drafted(T, h[i], en[i], b, s, m)}
<1>9. 0 \in Good
  <2>1. 0 \in 0..n /\ h[0].drafts = <<>> /\ h[0].now = <<>> /\ h[0].last = <<>>
    BY <1>2, <1>8 DEF NoDrafts
  <2>2. InPieces(T, ChunkOverlap, ChunkMax, <<>>, 0, 1, 0)
    <3>1. ChunkOverlap \in Nat /\ ChunkMax \in Nat /\ 0 \in Nat /\ 1 \in Nat
      BY ChunkLimits
    <3> QED BY <3>1, PiecesNone
  <2>3. /\ 0 \in 0..0 /\ 1 \in 1..(0 + 1) /\ 1 \in 1..(0 + 1) /\ 0 + 1 <= 1 + ChunkOverlap
        /\ 0 + 1 <= 1 + ChunkMax /\ SubSeq(T, 1, 0) = <<>>
    BY ChunkLimits
  <2>4. Drafted(T, h[0], 0, 0, 1, 1)
    BY <2>1, <2>2, <2>3 DEF Drafted
  <2> QED BY <1>5, <2>1, <2>4
<1>10. ASSUME NEW i \in 1..n, i - 1 \in Good PROVE i \in Good
  <2> DEFINE acc == h[i - 1]
             e == en[i - 1]
             f == en[i]
  <2>1. i - 1 \in 0..n /\ i \in 0..n
    BY <1>2
  <2>2. PICK b, s, m : Drafted(T, acc, e, b, s, m)
    BY <1>10
  <2>3. acc \in DraftsInHand /\ e \in 0..N /\ f \in 0..N /\ e <= f /\ units[i] = SubSeq(T, e + 1, f)
    BY <1>5, <1>8, <2>1
  <2>4. h[i] = DraftStep(acc, units[i])
    BY <1>8
  <2> HIDE DEF acc, e, f
  <2>5. \E c, t, k : Drafted(T, DraftStep(acc, units[i]), f, c, t, k)
    BY <2>2, <2>3, DraftStepHolds DEF N
  <2> QED BY <2>1, <2>4, <2>5 DEF f
<1>11. n \in Good
  <2>1. HandedOn(Good, n)
    BY <1>9, <1>10 DEF HandedOn
  <2>2. 0..n \subseteq Good /\ n \in 0..n
    <3> HIDE DEF Good
    <3> QED BY <1>2, <2>1, Along
  <2> QED BY <2>2
<1> DEFINE end == DraftTotal(units)
<1>12. PICK b, s, m : Drafted(T, end, N, b, s, m)
  BY <1>5, <1>8, <1>11
<1>13. end \in DraftsInHand
  <2>1. n \in 0..n
    BY <1>2
  <2> QED BY <1>8, <2>1
<1> HIDE DEF end
<1>14. InPieces(T, ChunkOverlap, ChunkMax, end.drafts \o Nonempty(end.now), 0, N + 1, N)
  BY <1>1, <1>12, <1>13, DraftsTaken
<1> QED
  BY <1>14, DraftsAre DEF end, N
\* The chunks of a page, a draft at a time.
MergeStep(merged, draft) ==
    IF /\ merged # <<>> /\ Len(draft) < MergeBelow
       /\ Len(Last(merged)) + Len(draft) <= ChunkMax
    THEN Append(Front(merged), Last(merged) \o draft)
    ELSE Append(merged, draft)

LEMMA MergedAre ==
    ASSUME NEW drafts
    PROVE  MergeTiny(drafts) = FoldLeft(MergeStep, <<>>, drafts)
BY DEF MergeTiny, MergeStep, FoldLeft, MapThenFoldSet

\* What a fold of such steps is.
MergeFoldKept(acc, elements) ==
    <<>> \in acc /\ \A a \in acc, e \in elements : MergeStep(a, e) \in acc
MergeFoldRun(h, n, seq, total, acc) ==
    /\ h \in [0..n -> acc] /\ h[0] = <<>> /\ h[n] = total
    /\ \A i \in 1..n : h[i] = MergeStep(h[i - 1], seq[i])

LEMMA MergeFold ==
    ASSUME NEW n \in Nat, NEW elements, NEW acc, NEW seq \in [1..n -> elements],
           MergeFoldKept(acc, elements)
    PROVE  \E h : MergeFoldRun(h, n, seq, FoldLeft(MergeStep, <<>>, seq), acc)
<1> DEFINE op == [p \in acc \X elements |-> MergeStep(p[1], p[2])]
           Body(g) == g = [s \in SUBSET (1..n) |->
                              IF s = {} THEN <<>> ELSE MergeStep(g[s \ {Max(s)}], seq[Max(s)])]
           total == FoldLeft(MergeStep, <<>>, seq)
<1>1. total = (CHOOSE g : Body(g))[1..n]
  <2>1. DOMAIN seq = 1..n
    OBVIOUS
  <2> QED BY <2>1 DEF FoldLeft, MapThenFoldSet
<1>2. op \in [acc \X elements -> acc]
  BY DEF MergeFoldKept
<1>3. PICK w : FoldTable(w, op, <<>>, seq, acc, n)
  <2> HIDE DEF op
  <2> QED BY <1>2, FoldExists DEF MergeFoldKept
<1>4. \A s \in SUBSET (1..n) :
          w[s] = IF s = {} THEN <<>> ELSE MergeStep(w[s \ {Max(s)}], seq[Max(s)])
  <2>1. ASSUME NEW s \in SUBSET (1..n), s # {}
        PROVE  w[s] = MergeStep(w[s \ {Max(s)}], seq[Max(s)])
    <3>1. Max(s) \in 1..n
      BY <2>1, LastOfSome
    <3>2. w[s \ {Max(s)}] \in acc /\ seq[Max(s)] \in elements
      BY <1>3, <3>1 DEF FoldTable
    <3>3. w[s] = op[<<w[s \ {Max(s)}], seq[Max(s)]>>]
      BY <1>3, <2>1 DEF FoldTable, FoldStep
    <3> QED BY <3>2, <3>3
  <2>2. w[{}] = <<>>
    BY <1>3 DEF FoldTable, FoldStep
  <2> QED BY <2>1, <2>2
<1>5. Body(w)
  BY <1>3, <1>4 DEF FoldTable
<1> HIDE DEF Body
<1>6. PICK g : Body(g) /\ total = g[1..n]
  BY <1>1, <1>5
<1>7. \A s \in SUBSET (1..n) : g[s] = w[s]
  <2>1. \A s \in SUBSET (1..n) :
            g[s] = IF s = {} THEN <<>> ELSE MergeStep(g[s \ {Max(s)}], seq[Max(s)])
    BY <1>6 DEF Body
  <2>2. HandOn(g, w, n)
    BY <1>4, <2>1 DEF HandOn
  <2> QED BY <2>2, SameTable, SMTT(30)
<1>8. PICK h \in [0..n -> acc] :
          h[0] = <<>> /\ h[n] = w[1..n] /\ \A i \in 1..n : h[i] = op[<<h[i - 1], seq[i]>>]
  <2> DEFINE base == <<>>
  <2>1. FoldTable(w, op, base, seq, acc, n)
    BY <1>3
  <2> HIDE DEF op, base
  <2>2. \E h \in [0..n -> acc] :
          h[0] = base /\ h[n] = w[1..n] /\ \A i \in 1..n : h[i] = op[<<h[i - 1], seq[i]>>]
    BY <2>1, FoldAlong
  <2> QED BY <2>2 DEF base
<1>9. ASSUME NEW i \in 1..n PROVE h[i] = MergeStep(h[i - 1], seq[i])
  <2>1. h[i - 1] \in acc /\ seq[i] \in elements
    BY <1>8
  <2> QED BY <1>8, <2>1
<1>10. h[n] = total
  <2>1. 1..n \in SUBSET (1..n)
    OBVIOUS
  <2> QED BY <1>6, <1>7, <1>8, <2>1
<1> HIDE DEF total
<1>11. MergeFoldRun(h, n, seq, total, acc)
  BY <1>8, <1>9, <1>10 DEF MergeFoldRun
<1> QED
  BY <1>11 DEF total

LEMMA MergeStepKeeps ==
    ASSUME NEW S, NEW merged \in Seq(Seq(S)), NEW draft \in Seq(S)
    PROVE  MergeStep(merged, draft) \in Seq(Seq(S))
<1> DEFINE Q == Seq(S)
<1>1. merged \in Seq(Q) /\ draft \in Q
  OBVIOUS
<1>2. Append(merged, draft) \in Seq(Q)
  <2> HIDE DEF Q
  <2> QED BY <1>1
<1>3. ASSUME merged # <<>> PROVE Append(Front(merged), Last(merged) \o draft) \in Seq(Q)
  <2> DEFINE f == Front(merged)
             x == Last(merged)
  <2>1. f \in Seq(Q) /\ x \in Q
    <3> HIDE DEF Q
    <3>1. Len(merged) \in Nat \ {0}
      BY <1>1, <1>3
    <3> QED BY <1>1, <3>1 DEF Front, Last
  <2> HIDE DEF f, x
  <2>2. x \o draft \in Q
    BY <2>1
  <2> DEFINE y == x \o draft
  <2> HIDE DEF Q, y
  <2>3. Append(f, y) \in Seq(Q)
    BY <2>1, <2>2 DEF y
  <2> QED BY <2>3 DEF f, x, y
<1> QED
  BY <1>2, <1>3 DEF MergeStep

\* The drafts are the text in pieces: the chunks hold it.
LEMMA MergedInSpans ==
    ASSUME NEW S, NEW T \in Seq(S), NEW over \in Nat, NEW drafts, NEW l \in Nat,
           InPieces(T, over, ChunkMax, drafts, 0, l, Len(T))
    PROVE  /\ MergeTiny(drafts) \in Seq(Seq(S))
           /\ \E m : m \in Nat /\ InSpans(T, over, ChunkMax, MergeTiny(drafts), m, Len(T))
<1> DEFINE n == Len(drafts)
           N == Len(T)
           Q == Seq(S)
           C == Seq(Q)
<1>1. N \in Nat /\ N \in 0..Len(T) /\ 0 \in Nat /\ ChunkMax \in Nat
  BY ChunkLimits
<1> HIDE DEF N
<1>2. drafts \in Seq(Q) /\ n \in Nat
  <2>1. InPieces(T, over, ChunkMax, drafts, 0, l, N)
    BY DEF N
  <2>2. drafts \in Seq(Seq(S)) /\ Len(drafts) \in Nat
    BY <1>1, <2>1, PiecesAre
  <2> QED BY <2>2
<1>3. drafts \in [1..n -> Q]
  <2> HIDE DEF Q
  <2> QED BY <1>2
<1>4. PICK st, en : PiecesAt(T, over, ChunkMax, drafts, 0, l, N, n, st, en)
  <2>1. InPieces(T, over, ChunkMax, drafts, 0, l, N)
    BY DEF N
  <2> QED BY <1>1, <2>1, PiecesSay
<1>5. /\ en \in [0..n -> 0..N] /\ en[0] = 0 /\ en[n] = N /\ st \in [1..n -> 1..l]
      /\ \A k \in 1..n : /\ st[k] <= en[k - 1] + 1 /\ en[k - 1] + 1 <= st[k] + over /\ en[k - 1] <= en[k]
                         /\ drafts[k] = SubSeq(T, st[k], en[k]) /\ en[k] + 1 <= st[k] + ChunkMax
      /\ \A j, k \in 1..n : j < k => st[j] <= st[k]
  <2>1. /\ st \in [1..n -> (0 + 1)..l] /\ en \in [0..n -> 0..N] /\ InPlace(over, n, st, en)
        /\ en[0] = 0 /\ en[n] = N /\ drafts = [k \in 1..n |-> SubSeq(T, st[k], en[k])]
        /\ \A k \in 1..n : en[k] + 1 <= st[k] + ChunkMax
    BY <1>4 DEF PiecesAt
  <2>2. 0 + 1 = 1
    OBVIOUS
  <2> HIDE DEF n
  <2>3. st \in [1..n -> 1..l]
    BY <2>1, <2>2
  <2>4. \A k \in 1..n : drafts[k] = SubSeq(T, st[k], en[k])
    BY <2>1
  <2> QED BY <2>1, <2>3, <2>4, Zenon DEF InPlace
<1> HIDE DEF n
<1>6. MergeFoldKept(C, Q)
  <2>1. <<>> \in C
    <3> HIDE DEF Q
    <3> QED OBVIOUS
  <2> QED BY <2>1, MergeStepKeeps DEF MergeFoldKept
<1> DEFINE total == FoldLeft(MergeStep, <<>>, drafts)
<1> HIDE DEF C, Q, total
<1>7. PICK h : MergeFoldRun(h, n, drafts, total, C)
  BY <1>2, <1>3, <1>6, MergeFold DEF total
<1>8. h \in [0..n -> C] /\ h[0] = <<>> /\ h[n] = total /\ \A i \in 1..n : h[i] = MergeStep(h[i - 1], drafts[i])
  BY <1>7 DEF MergeFoldRun
<1> DEFINE base(i) == IF i = 0 THEN 0 ELSE st[i]
           Good == {i \in 0..n : InSpans(T, over, ChunkMax, h[i], base(i), en[i])}
<1>9. 0 \in Good
  <2>1. InSpans(T, over, ChunkMax, <<>>, 0, 0)
    BY <1>1, SpansNone
  <2>2. 0 \in 0..n /\ base(0) = 0
    BY <1>2
  <2> QED BY <1>5, <1>8, <2>1, <2>2
<1>10. ASSUME NEW i \in 1..n, i - 1 \in Good PROVE i \in Good
  <2> DEFINE cs == h[i - 1]
             draft == drafts[i]
             k == base(i - 1)
             s == st[i]
             e == en[i - 1]
             f == en[i]
  <2>1. i - 1 \in 0..n /\ i \in 0..n /\ i # 0 /\ (i - 1 # 0 => i - 1 \in 1..n /\ i - 1 < i)
    BY <1>2
  <2>2. InSpans(T, over, ChunkMax, cs, k, e) /\ cs \in C /\ h[i] = MergeStep(cs, draft)
    BY <1>8, <1>10, <2>1
  <2>3. /\ e \in 0..N /\ f \in 0..N /\ s \in 1..l /\ k \in Nat /\ k <= s /\ s <= e + 1 /\ e + 1 <= s + over /\ e <= f
        /\ f + 1 <= s + ChunkMax /\ draft = SubSeq(T, s, f)
    <3>1. e \in 0..N /\ f \in 0..N /\ s \in 1..l
      BY <1>5, <2>1
    <3>2. k \in Nat /\ k <= s
      <4>1. CASE i - 1 = 0
        BY <3>1, <4>1
      <4>2. CASE i - 1 # 0
        <5>1. k = st[i - 1] /\ i - 1 \in 1..n /\ i - 1 < i
          BY <2>1, <4>2
        <5>2. st[i - 1] \in 1..l /\ st[i - 1] <= st[i]
          BY <1>5, <5>1
        <5> QED BY <5>1, <5>2
      <4> QED BY <4>1, <4>2
    <3>3. s <= e + 1 /\ e + 1 <= s + over /\ e <= f /\ f + 1 <= s + ChunkMax /\ draft = SubSeq(T, s, f)
      BY <1>5
    <3> QED BY <3>1, <3>2, <3>3
  <2> HIDE DEF cs, draft, k, s, e, f
  <2>4. s \in 1..(Len(T) + 1) /\ f \in 0..Len(T) /\ s <= f + 1 /\ s \in Nat /\ e \in Nat /\ f \in Nat /\ 0 < s
    BY <1>1, <2>3 DEF N
  <2>5. draft \in Seq(S) /\ Len(draft) = f + 1 - s /\ ToSet(draft) = ValuesIn(T, s, f)
    BY <2>3, <2>4, PieceHas, PieceSpan
  <2>6. Len(draft) <= ChunkMax /\ cs \in Seq(Seq(S))
    BY <1>1, <2>2, <2>3, <2>4, <2>5 DEF C, Q
  <2>7. InSpans(T, over, ChunkMax, MergeStep(cs, draft), s, f)
    <3>1. InSpans(T, over, ChunkMax, Append(cs, draft), s, f)
      BY <1>1, <2>2, <2>3, <2>4, <2>5, <2>6, SpansMore
    <3>2. ASSUME cs # <<>>, Len(Last(cs)) + Len(draft) <= ChunkMax
          PROVE  InSpans(T, over, ChunkMax, Append(Front(cs), Last(cs) \o draft), s, f)
      BY <1>1, <2>2, <2>3, <2>4, <2>5, <2>6, <3>2, SpansOn
    <3> QED BY <3>1, <3>2 DEF MergeStep
  <2> QED BY <2>1, <2>2, <2>7 DEF s, f
<1>11. n \in Good
  <2>1. HandedOn(Good, n)
    BY <1>9, <1>10 DEF HandedOn
  <2>2. 0..n \subseteq Good /\ n \in 0..n
    <3> HIDE DEF Good
    <3> QED BY <1>2, <2>1, Along
  <2> QED BY <2>2
<1>12. InSpans(T, over, ChunkMax, total, base(n), N) /\ base(n) \in Nat /\ total \in C
  <2>1. n \in 0..n /\ (n # 0 => n \in 1..n)
    BY <1>2
  <2>2. n # 0 => st[n] \in Nat
    BY <1>5, <2>1
  <2> QED BY <1>5, <1>8, <1>11, <2>1, <2>2
<1> HIDE DEF base
<1> QED
  BY <1>12, MergedAre DEF total, C, Q, N

OfFirst(cs, m) == UNION {ToSet(cs[j]) : j \in 1..m}
\* The first chunks hold what is up to the end of the last of them.
LEMMA SpansUpTo ==
    ASSUME NEW S, NEW T, NEW over \in Nat, NEW limit \in Nat, NEW cs \in Seq(Seq(S)), NEW l \in Nat, NEW e \in Nat,
           NEW p, NEW st, NEW en, SpansAt(T, over, limit, cs, l, e, p, st, en), NEW m \in 0..p
    PROVE  OfFirst(cs, m) = ValuesIn(T, 1, en[m])
<1>1. /\ p \in Nat /\ Len(cs) = p /\ st \in [1..p -> 1..l] /\ en \in [0..p -> 0..e]
      /\ InPlace(over, p, st, en) /\ en[0] = 0 /\ en[p] = e
      /\ \A k \in 1..p : ToSet(cs[k]) = ValuesIn(T, st[k], en[k])
  BY DEF SpansAt
<1>2. ASSUME NEW j \in 1..m PROVE ToSet(cs[j]) \subseteq ValuesIn(T, 1, en[m])
  <2>1. j \in 1..p /\ m \in 1..p /\ j <= m /\ j \in 0..p
    BY <1>1
  <2>2. en[j] <= en[m] /\ en[j] \in 0..e /\ en[m] \in 0..e /\ st[j] \in 1..l
    <3>1. en[j] \in 0..e /\ en[m] \in 0..e /\ st[j] \in 1..l
      BY <1>1, <2>1
    <3>2. j = m \/ j < m
      BY <1>1, <2>1
    <3>3. j < m => en[j] <= en[m]
      BY <1>1, <2>1 DEF InPlace
    <3> QED BY <3>1, <3>2, <3>3
  <2> DEFINE y == en[j]
             z == en[m]
             x == st[j]
  <2>3. y <= z /\ y \in Nat /\ z \in Nat /\ x \in Nat /\ 1 <= x
    BY <2>2
  <2>4. ToSet(cs[j]) = ValuesIn(T, x, y)
    BY <1>1, <2>1
  <2> HIDE DEF x, y, z
  <2>5. \A u \in x..y : u \in 1..z
    BY <2>3
  <2> QED BY <2>4, <2>5 DEF ValuesIn, z
<1>3. ASSUME NEW x \in 1..en[m] PROVE \E j \in 1..m : T[x] \in ToSet(cs[j])
  <2> DEFINE far == {k \in 0..m : x <= en[k]}
  <2>1. en[m] \in 0..e /\ x \in Nat /\ 1 <= x /\ x <= en[m] /\ m \in Nat
    BY <1>1
  <2>2. far \in SUBSET Nat /\ far # {}
    <3>1. m \in far
      BY <2>1
    <3> QED BY <3>1
  <2>3. PICK k \in far : \A j \in far : k <= j
    BY <2>2, LeastNat
  <2>4. k # 0 /\ k \in 0..m
    BY <1>1, <2>1, <2>3
  <2>5. k - 1 \in 0..m /\ k \in 1..m /\ k \in 1..p /\ k \in 0..p /\ k - 1 \in 0..p /\ ~(k <= k - 1)
    BY <1>1, <2>1, <2>4
  <2>6. ~(x <= en[k - 1]) /\ x <= en[k]
    BY <2>3, <2>5
  <2>7. st[k] <= en[k - 1] + 1 /\ en[k - 1] \in 0..e /\ en[k] \in 0..e /\ st[k] \in 1..l
    <3>1. st[k] <= en[k - 1] + 1
      BY <1>1, <2>5 DEF InPlace
    <3>2. en[k - 1] \in 0..e /\ en[k] \in 0..e /\ st[k] \in 1..l
      BY <1>1, <2>5
    <3> QED BY <3>1, <3>2
  <2> DEFINE u == st[k]
             v == en[k - 1]
             w == en[k]
  <2>8. u <= v + 1 /\ v \in Nat /\ w \in Nat /\ u \in Nat /\ ~(x <= v) /\ x <= w
    BY <2>6, <2>7
  <2> HIDE DEF u, v, w
  <2>9. x \in u..w
    BY <2>1, <2>8
  <2>10. T[x] \in ValuesIn(T, u, w)
    BY <2>9 DEF ValuesIn
  <2> QED BY <1>1, <2>5, <2>10 DEF u, w
<1>4. ASSUME NEW w \in UNION {ToSet(cs[j]) : j \in 1..m} PROVE w \in ValuesIn(T, 1, en[m])
  BY <1>2
<1>5. ASSUME NEW w \in ValuesIn(T, 1, en[m]) PROVE w \in UNION {ToSet(cs[j]) : j \in 1..m}
  <2>1. PICK x \in 1..en[m] : w = T[x]
    BY DEF ValuesIn
  <2>2. PICK j \in 1..m : T[x] \in ToSet(cs[j])
    BY <1>3
  <2> QED BY <2>1, <2>2
<1> QED
  BY <1>4, <1>5 DEF OfFirst

LEMMA SpanSize ==
    ASSUME NEW T, NEW i \in Nat, NEW j \in Nat
    PROVE  /\ IsFiniteSet(ValuesIn(T, i, j)) /\ Cardinality(ValuesIn(T, i, j)) \in Nat
           /\ \A n \in Nat : j + 1 <= i + n => Cardinality(ValuesIn(T, i, j)) <= n
<1> DEFINE D == i..j
           f == [x \in D |-> T[x]]
<1>1. IsFiniteSet(D) /\ Cardinality(D) = IF i > j THEN 0 ELSE j - i + 1
  BY FS_Interval
<1>2. f \in Surjection(D, ValuesIn(T, i, j))
  <2>1. f \in [D -> ValuesIn(T, i, j)]
    BY DEF ValuesIn
  <2>2. \A w \in ValuesIn(T, i, j) : \E x \in D : f[x] = w
    BY DEF ValuesIn
  <2> QED BY <2>1, <2>2 DEF Surjection
<1> HIDE DEF D, f
<1>3. IsFiniteSet(ValuesIn(T, i, j)) /\ Cardinality(ValuesIn(T, i, j)) <= Cardinality(D)
  BY <1>1, <1>2, FS_Surjection
<1>4. Cardinality(ValuesIn(T, i, j)) \in Nat
  BY <1>3, FS_CardinalityType
<1> QED
  BY <1>1, <1>3, <1>4

\* A place of the text is in one sentence.
WordAt(to, x, s) == /\ s \in 1..Len(text) /\ x \in (to[s - 1] + 1)..to[s] /\ Whole[x] = <<s, x - to[s - 1]>>
LEMMA WordIs ==
    ASSUME TextTyped, NEW to, Ends(to), NEW x \in 1..Len(Whole)
    PROVE  \E s : WordAt(to, x, s)
<1> DEFINE n == Len(text)
           N == Len(Whole)
           far == {k \in 0..n : x <= to[k]}
<1>1. /\ n \in Nat /\ N \in Nat /\ Whole \in Seq(Word) /\ to[0] = 0 /\ to[n] = N /\ \A a \in 0..n : to[a] \in 0..N
  BY EndsSay, TextIs
<1>2. x \in Nat /\ 1 <= x /\ x <= N
  BY <1>1
<1> HIDE DEF n, N
<1>3. far \in SUBSET Nat /\ far # {}
  <2>1. n \in far
    BY <1>1, <1>2
  <2> QED BY <2>1
<1>4. PICK s \in far : \A k \in far : s <= k
  BY <1>3, LeastNat
<1>5. s # 0 /\ s \in 0..n
  BY <1>1, <1>2, <1>4
<1>6. s - 1 \in 0..n /\ s \in 1..n /\ ~(s <= s - 1)
  BY <1>1, <1>5
<1>7. ~(x <= to[s - 1]) /\ x <= to[s] /\ to[s - 1] \in 0..N /\ to[s] \in 0..N
  BY <1>1, <1>4, <1>6
<1> DEFINE A == to[s - 1]
           B == to[s]
           u == A + 1
           i == x - A
<1>8. to[s] = to[s - 1] + Size(s) /\ Words(s) = SubSeq(Whole, to[s - 1] + 1, to[s])
  BY <1>6, EndsSay DEF n
<1>9. /\ Size(s) \in Nat /\ \A w \in 1..Size(s) : Words(s)[w] = <<s, w>>
  BY <1>6, TextIs DEF n
<1>10. B = A + Size(s) /\ Words(s) = SubSeq(Whole, u, B) /\ ~(x <= A) /\ x <= B /\ A \in 0..N /\ B \in 0..N
  BY <1>7, <1>8
<1> DEFINE m == Size(s)
<1> HIDE DEF A, B, m
<1>11. u \in 1..(N + 1) /\ u <= B + 1 /\ i \in 1..(B + 1 - u) /\ u + i - 1 = x /\ i \in 1..m /\ x \in u..B
  <2>1. B = A + m /\ m \in Nat
    BY <1>9, <1>10 DEF m
  <2> QED BY <1>1, <1>2, <1>10, <2>1
<1> HIDE DEF u, i
<1>12. SubSeq(Whole, u, B)[i] = Whole[u + i - 1]
  BY <1>1, <1>10, <1>11, PieceHas DEF N
<1>13. Whole[x] = <<s, i>>
  BY <1>9, <1>10, <1>11, <1>12 DEF m
<1>14. WordAt(to, x, s)
  BY <1>6, <1>11, <1>13 DEF WordAt, A, B, u, i, n
<1> QED
  BY <1>14

\* The words of the text are in its order.
LEMMA WholeSorted ==
    ASSUME TextTyped, NEW x \in 1..Len(Whole), NEW y \in 1..Len(Whole), y < x
    PROVE  /\ Whole[y][1] < Whole[x][1] \/ (Whole[y][1] = Whole[x][1] /\ Whole[y][2] < Whole[x][2])
           /\ Whole[x] # Whole[y]
<1>1. PICK to : Ends(to)
  BY WholeIs
<1>2. PICK s : WordAt(to, x, s)
  BY <1>1, WordIs
<1>3. PICK t : WordAt(to, y, t)
  BY <1>1, WordIs
<1> DEFINE n == Len(text)
           N == Len(Whole)
<1>4. /\ n \in Nat /\ N \in Nat /\ (\A a \in 0..n : to[a] \in 0..N) /\ \A a, b \in 0..n : a <= b => to[a] <= to[b]
  BY <1>1, EndsSay, TextIs
<1>5. s \in 1..n /\ x \in (to[s - 1] + 1)..to[s] /\ Whole[x] = <<s, x - to[s - 1]>>
  BY <1>2 DEF WordAt
<1>6. t \in 1..n /\ y \in (to[t - 1] + 1)..to[t] /\ Whole[y] = <<t, y - to[t - 1]>>
  BY <1>3 DEF WordAt
<1>7. x \in Nat /\ y \in Nat
  BY <1>4
<1> HIDE DEF n, N
<1>8. s - 1 \in 0..n /\ t - 1 \in 0..n /\ s \in 0..n /\ t \in 0..n /\ s \in Nat /\ t \in Nat
  BY <1>4, <1>5, <1>6
<1> DEFINE a == to[s - 1]
           b == to[s]
           c == to[t - 1]
           d == to[t]
<1>9. a \in Nat /\ b \in Nat /\ c \in Nat /\ d \in Nat
  BY <1>4, <1>8
<1>10. x \in (a + 1)..b /\ y \in (c + 1)..d /\ Whole[x] = <<s, x - a>> /\ Whole[y] = <<t, y - c>>
  BY <1>5, <1>6
<1>11. ~(s < t)
  <2> SUFFICES ASSUME s < t PROVE FALSE
    OBVIOUS
  <2>1. s <= t - 1
    BY <1>8
  <2>2. b <= c
    BY <1>4, <1>8, <2>1
  <2> HIDE DEF a, b, c, d
  <2> QED BY <1>7, <1>9, <1>10, <2>2
<1>12. t < s \/ t = s
  BY <1>8, <1>11
<1>13. CASE t < s
  <2>1. Whole[y][1] = t /\ Whole[x][1] = s
    BY <1>10
  <2> QED BY <1>8, <1>13, <2>1
<1>14. CASE t = s
  <2>1. c = a
    BY <1>14
  <2> HIDE DEF a, b, c, d
  <2>2. Whole[y][1] = t /\ Whole[x][1] = s /\ Whole[y][2] = y - c /\ Whole[x][2] = x - a
    BY <1>10
  <2>3. y - c < x - a
    BY <1>7, <1>9, <2>1
  <2> QED BY <1>14, <2>2, <2>3, <1>9, <1>7
<1> QED
  BY <1>12, <1>13, <1>14

LEMMA AllIsWhole ==
    ASSUME TextTyped
    PROVE  AllWords = ValuesIn(Whole, 1, Len(Whole))
<1> DEFINE n == Len(text)
           N == Len(Whole)
<1>1. PICK to : Ends(to)
  BY WholeIs
<1>2. /\ n \in Nat /\ N \in Nat /\ Whole \in Seq(Word) /\ DOMAIN text = 1..n
      /\ \A a \in 0..n : to[a] \in 0..N
      /\ \A a, b \in 0..n : a <= b => to[a] <= to[b]
  BY <1>1, EndsSay, TextIs
<1>3. ASSUME NEW s \in 1..n
      PROVE  ToSet(Words(s)) = ValuesIn(Whole, to[s - 1] + 1, to[s]) /\ to[s - 1] \in 0..N /\ to[s] \in 0..N
  <2>1. s - 1 \in 0..n /\ s \in 0..n /\ s - 1 <= s
    BY <1>2
  <2>2. Words(s) = SubSeq(Whole, to[s - 1] + 1, to[s])
    BY <1>1, EndsSay
  <2>3. to[s - 1] \in 0..N /\ to[s] \in 0..N /\ to[s - 1] <= to[s]
    BY <1>2, <2>1
  <2> DEFINE u == to[s - 1] + 1
             B == to[s]
  <2>4. u \in 1..(N + 1) /\ B \in 0..N /\ u <= B + 1
    BY <1>2, <2>3
  <2> HIDE DEF u, B
  <2>5. ToSet(SubSeq(Whole, u, B)) = ValuesIn(Whole, u, B)
    BY <1>2, <2>4, PieceSpan
  <2> QED BY <2>2, <2>3, <2>5 DEF u, B
<1> HIDE DEF n, N
<1>4. ASSUME NEW w \in AllWords PROVE w \in ValuesIn(Whole, 1, N)
  <2>1. PICK s \in 1..n : w \in ToSet(Words(s))
    BY <1>2 DEF AllWords
  <2>2. w \in ValuesIn(Whole, to[s - 1] + 1, to[s]) /\ to[s - 1] \in 0..N /\ to[s] \in 0..N
    BY <1>3, <2>1
  <2> DEFINE A == to[s - 1]
             B == to[s]
  <2>3. A \in Nat /\ B \in Nat /\ B <= N
    BY <1>2, <2>2
  <2> HIDE DEF A, B
  <2>4. \A x \in (A + 1)..B : x \in 1..N
    BY <1>2, <2>3
  <2> QED BY <2>2, <2>4 DEF ValuesIn, A, B
<1>5. ASSUME NEW w \in ValuesIn(Whole, 1, N) PROVE w \in AllWords
  <2>1. PICK x \in 1..N : w = Whole[x]
    BY DEF ValuesIn
  <2>2. PICK s : WordAt(to, x, s)
    BY <1>1, WordIs DEF N
  <2>3. s \in 1..n /\ w \in ValuesIn(Whole, to[s - 1] + 1, to[s])
    BY <2>1, <2>2 DEF WordAt, ValuesIn, n
  <2>4. w \in ToSet(Words(s))
    BY <1>3, <2>3
  <2> QED BY <1>2, <2>3, <2>4 DEF AllWords
<1> QED
  BY <1>4, <1>5 DEF N

\* The units of a page are its text in pieces.
LEMMA PageUnits ==
    ASSUME TextTyped
    PROVE  \E L, units : /\ L \in Nat /\ PageChunks = MergeTiny(Assemble(units))
                         /\ InPieces(Whole, 0, L, units, 0, Len(Whole) + 1, Len(Whole))
<1> DEFINE n == Len(text)
           N == Len(Whole)
           bs == Blocks
<1>1. n \in Nat /\ Order \in Seq(Nat) /\ Len(Order) = n /\ N \in Nat
  BY TextIs, WholeIs
<1>2. InPieces(Order, 0, n, bs, 0, n, n)
  BY BlocksInPieces
<1>3. CASE Len(bs) = 1
  <2>1. bs[1] = Order
    <3>1. PICK p, st, en : PiecesAt(Order, 0, n, bs, 0, n, n, p, st, en)
      BY <1>2 DEF InPieces
    <3>2. /\ p \in Nat /\ st \in [1..p -> (0 + 1)..n] /\ InPlace(0, p, st, en) /\ en[0] = 0 /\ en[p] = n
          /\ bs = [k \in 1..p |-> SubSeq(Order, st[k], en[k])]
      BY <3>1 DEF PiecesAt
    <3>3. p = 1
      <4> HIDE DEF bs
      <4>1. bs \in Seq({SubSeq(Order, st[k], en[k]) : k \in 1..p}) /\ DOMAIN bs = 1..p
        <5> DEFINE R == {SubSeq(Order, st[k], en[k]) : k \in 1..p}
        <5>1. bs \in [1..p -> R]
          BY <3>2
        <5> HIDE DEF R
        <5>2. bs \in Seq(R) /\ DOMAIN bs = 1..p
          BY <3>2, <5>1, IsSequence
        <5> QED BY <5>2 DEF R
      <4> DEFINE R == {SubSeq(Order, st[k], en[k]) : k \in 1..p}
      <4> HIDE DEF R
      <4>2. Len(bs) = p
        <5>1. bs \in Seq(R) /\ DOMAIN bs = 1..p
          BY <4>1 DEF R
        <5> QED BY <3>2, <5>1
      <4> QED BY <1>3, <4>2
    <3>4. st[1] = 1
      <4>1. 1 \in 1..p
        BY <3>3
      <4>2. st[1] <= en[1 - 1] + 1
        BY <3>2, <4>1 DEF InPlace
      <4>3. 1 - 1 = 0 /\ 0 + 1 = 1
        OBVIOUS
      <4>4. st[1] \in 1..n
        BY <3>2, <4>1, <4>3
      <4> QED BY <3>2, <4>2, <4>3, <4>4
    <3>5. bs[1] = SubSeq(Order, 1, n)
      <4> HIDE DEF bs
      <4> QED BY <3>2, <3>3, <3>4
    <3>6. SubSeq(Order, 1, n) = Order
      <4> HIDE DEF n
      <4> QED BY <1>1
    <3> QED BY <3>5, <3>6
  <2>2. PageChunks = MergeTiny(Assemble(SentenceUnits(Order)))
    BY <1>3, <2>1 DEF PageChunks
  <2>3. InPieces(Whole, 0, ChunkMax, SentenceUnits(Order), 0, N + 1, N) /\ ChunkMax \in Nat
    BY UnitsInPieces, ChunkLimits
  <2> QED BY <2>2, <2>3
<1>4. CASE Len(bs) # 1
  <2> DEFINE units == [b \in DOMAIN bs |-> Joined(bs[b])]
  <2>1. PageChunks = MergeTiny(Assemble(units))
    BY <1>4 DEF PageChunks
  <2>2. PICK to : Ends(to)
    BY WholeIs
  <2> HIDE DEF bs, N
  <2>3. InPieces(Whole, 0, Len(Whole), [b \in DOMAIN bs |-> Joined(bs[b])], 0, Len(Whole) + 1, Len(Whole))
    BY <1>1, <1>2, <2>2, JoinedPieces DEF n
  <2> QED BY <1>1, <2>1, <2>3 DEF N
<1> QED
  BY <1>3, <1>4

\* Every word of a page is in a chunk, in the order of the text, no chunk is above the
\* limit, and what a chunk repeats of the ones before it is an overlap.
THEOREM PageStands ==
    ASSUME TextTyped
    PROVE  PageIsChunked
<1> DEFINE N == Len(Whole)
           chunks == PageChunks
           over == ChunkOverlap
           Before(k) == UNION {ToSet(chunks[j]) : j \in 1..(k - 1)}
<1>1. Whole \in Seq(Word) /\ N \in Nat /\ over \in Nat /\ ChunkMax \in Nat
  BY WholeIs, ChunkLimits
<1>2. /\ chunks \in Seq(Seq(Word))
      /\ \E m : m \in Nat /\ InSpans(Whole, over, ChunkMax, chunks, m, N)
  <2>1. PICK L, units : /\ L \in Nat /\ chunks = MergeTiny(Assemble(units))
                        /\ InPieces(Whole, 0, L, units, 0, N + 1, N)
    BY PageUnits
  <2> DEFINE l == N + 1
             drafts == Assemble(units)
  <2>2. l \in Nat /\ InPieces(Whole, 0, L, units, 0, l, Len(Whole))
    BY <1>1, <2>1
  <2> HIDE DEF l
  <2>3. InPieces(Whole, over, ChunkMax, drafts, 0, Len(Whole) + 1, Len(Whole))
    BY <1>1, <2>1, <2>2, DraftsInPieces
  <2> HIDE DEF drafts, over
  <2>4. InPieces(Whole, over, ChunkMax, drafts, 0, l, Len(Whole))
    BY <2>3 DEF l
  <2>5. /\ MergeTiny(drafts) \in Seq(Seq(Word))
        /\ \E m : m \in Nat /\ InSpans(Whole, over, ChunkMax, MergeTiny(drafts), m, Len(Whole))
    BY <1>1, <2>2, <2>4, MergedInSpans
  <2> QED BY <2>1, <2>5 DEF drafts
<1>3. PICK m : m \in Nat /\ InSpans(Whole, over, ChunkMax, chunks, m, N)
  BY <1>2
<1>4. PICK p, st, en : SpansAt(Whole, over, ChunkMax, chunks, m, N, p, st, en)
  BY <1>3 DEF InSpans
<1> HIDE DEF chunks, N, over
<1>5. /\ p \in Nat /\ Len(chunks) = p /\ st \in [1..p -> 1..m] /\ en \in [0..p -> 0..N]
      /\ InPlace(over, p, st, en) /\ en[p] = N
      /\ \A k \in 1..p : Len(chunks[k]) <= ChunkMax /\ ToSet(chunks[k]) = ValuesIn(Whole, st[k], en[k])
  BY <1>4 DEF SpansAt
<1>6. ASSUME NEW k \in 0..p PROVE OfFirst(chunks, k) = ValuesIn(Whole, 1, en[k])
  <2>1. /\ over \in Nat /\ ChunkMax \in Nat /\ chunks \in Seq(Seq(Word)) /\ m \in Nat /\ N \in Nat
        /\ SpansAt(Whole, over, ChunkMax, chunks, m, N, p, st, en)
    BY <1>1, <1>2, <1>3, <1>4
  <2> QED BY <2>1, SpansUpTo
<1>7. DOMAIN chunks = 1..p
  <2> DEFINE Q == Seq(Word)
  <2>1. chunks \in Seq(Q)
    BY <1>2
  <2> HIDE DEF Q
  <2> QED BY <1>5, <2>1
<1>8. UNION {ToSet(c) : c \in ToSet(chunks)} = AllWords
  <2>1. ToSet(chunks) = {chunks[j] : j \in 1..p}
    BY <1>7 DEF ToSet
  <2>2. UNION {ToSet(c) : c \in ToSet(chunks)} = UNION {ToSet(chunks[j]) : j \in 1..p}
    BY <2>1
  <2>3. p \in 0..p
    BY <1>5
  <2>4. OfFirst(chunks, p) = ValuesIn(Whole, 1, N)
    BY <1>5, <1>6, <2>3
  <2> QED BY <2>2, <2>4, AllIsWhole DEF N, OfFirst
<1>9. ASSUME NEW k \in 1..p
      PROVE  /\ Cardinality(ToSet(chunks[k]) \cap Before(k)) <= over
             /\ \A w \in ToSet(chunks[k]) \ Before(k), v \in Before(k) :
                   v[1] < w[1] \/ (v[1] = w[1] /\ v[2] < w[2])
  <2> DEFINE i == st[k]
             a == en[k - 1]
             b == en[k]
  <2>1. k - 1 \in 0..p /\ k \in 0..p
    BY <1>5
  <2>2. i \in Nat /\ 1 <= i /\ a \in 0..N /\ b \in 0..N /\ a + 1 <= i + over
    <3>1. a + 1 <= i + over
      BY <1>5 DEF InPlace
    <3>2. i \in 1..m /\ a \in 0..N /\ b \in 0..N
      BY <1>5, <2>1
    <3> QED BY <1>3, <3>1, <3>2
  <2>3. Before(k) = ValuesIn(Whole, 1, a) /\ ToSet(chunks[k]) = ValuesIn(Whole, i, b)
    BY <1>5, <1>6, <2>1 DEF OfFirst
  <2> HIDE DEF i, a, b, Before
  <2>4. \A x, y \in 1..N : Whole[x] = Whole[y] => x = y
    <3> SUFFICES ASSUME NEW x \in 1..N, NEW y \in 1..N, x # y PROVE Whole[x] # Whole[y]
      OBVIOUS
    <3>1. x < y \/ y < x
      BY <1>1
    <3> QED BY <3>1, WholeSorted DEF N
  <2>5. \A x \in i..b : x \in 1..N
    BY <1>1, <2>2
  <2>6. \A x \in 1..a : x \in 1..N
    BY <1>1, <2>2
  <2>7. ValuesIn(Whole, i, b) \cap ValuesIn(Whole, 1, a) \subseteq ValuesIn(Whole, i, a)
    <3> SUFFICES ASSUME NEW w \in ValuesIn(Whole, i, b), w \in ValuesIn(Whole, 1, a) PROVE w \in ValuesIn(Whole, i, a)
      OBVIOUS
    <3>1. PICK x \in i..b : w = Whole[x]
      BY DEF ValuesIn
    <3>2. PICK y \in 1..a : w = Whole[y]
      BY DEF ValuesIn
    <3>3. x = y
      BY <2>4, <2>5, <2>6, <3>1, <3>2
    <3>4. x \in i..a
      BY <1>1, <2>2, <3>3
    <3> QED BY <3>1, <3>4 DEF ValuesIn
  <2>8. Cardinality(ValuesIn(Whole, i, b) \cap ValuesIn(Whole, 1, a)) <= over
    <3> DEFINE both == ValuesIn(Whole, i, b) \cap ValuesIn(Whole, 1, a)
               all == ValuesIn(Whole, i, a)
    <3>1. a \in Nat
      BY <1>1, <2>2
    <3>2. IsFiniteSet(all) /\ Cardinality(all) \in Nat /\ Cardinality(all) <= over
      BY <1>1, <2>2, <3>1, SpanSize
    <3>3. both \in SUBSET all
      BY <2>7
    <3> HIDE DEF both, all
    <3>4. IsFiniteSet(both) /\ Cardinality(both) <= Cardinality(all)
      BY <3>2, <3>3, FS_Subset
    <3>5. Cardinality(both) \in Nat
      BY <3>4, FS_CardinalityType
    <3>6. Cardinality(both) <= over
      BY <1>1, <3>2, <3>4, <3>5
    <3> QED BY <3>6 DEF both
  <2>9. ASSUME NEW w \in ValuesIn(Whole, i, b), w \notin ValuesIn(Whole, 1, a), NEW v \in ValuesIn(Whole, 1, a)
        PROVE  v[1] < w[1] \/ (v[1] = w[1] /\ v[2] < w[2])
    <3>1. PICK x \in i..b : w = Whole[x]
      BY DEF ValuesIn
    <3>2. PICK y \in 1..a : v = Whole[y]
      BY DEF ValuesIn
    <3>3. x \in 1..N /\ y \in 1..N
      BY <2>5, <2>6
    <3>4. x \notin 1..a
      BY <2>9, <3>1 DEF ValuesIn
    <3>5. y < x
      BY <1>1, <2>2, <3>3, <3>4
    <3> QED BY <3>1, <3>2, <3>3, <3>5, WholeSorted DEF N
  <2> QED BY <2>3, <2>8, <2>9
<1> QED
  BY <1>5, <1>7, <1>8, <1>9 DEF PageIsChunked, chunks, over

-----------------------------------------------------------------------------
(* What is kept of a curriculum *)

LinesTyped == marks \in Seq(Lines)

\* A line that speaks of no other program.
LEMMA LineIsTargets ==
    ASSUME NEW l \in Lines, NEW target, ~(l[1] \in {"header", "mention"} /\ l[2] # target)
    PROVE  l[2] \in {target, "none"}
BY DEF Lines

\* Every line that is kept speaks of no other program.
LEMMA SectionIsOfTarget == ASSUME LinesTyped PROVE SectionIsTargets
<1> SUFFICES ASSUME NEW target \in {"cs", "it"}, NEW l \in ToSet(SectionOf(target))
             PROVE  l[2] \in {target, "none"}
  BY DEF SectionIsTargets
<1> DEFINE begins == {i \in DOMAIN marks : marks[i] = <<"header", target>>}
           others(lines) == \E i \in DOMAIN lines : lines[i][1] \in {"header", "mention"} /\ lines[i][2] # target
           start == Min(begins)
           ends == {i \in DOMAIN marks : i > start /\ IsMarker(marks[i])}
           to == IF ends = {} THEN Len(marks) ELSE Min(ends) - 1
           kept == SubSeq(marks, start, to)
           S == SectionOf(target)
<1>1. S \in {<<>>, marks} \/ (begins # {} /\ S = kept)
  BY DEF SectionOf
<1>2. S = <<>> \/ ~others(S)
  BY DEF SectionOf
<1> HIDE DEF S
<1>3. marks \in Seq(Lines) /\ Len(marks) \in Nat /\ DOMAIN marks = 1..Len(marks)
  BY DEF LinesTyped
<1>4. S \in Seq(Lines)
  <2>1. CASE S \in {<<>>, marks}
    <3>1. \A T : <<>> \in Seq(T)
      OBVIOUS
    <3> QED BY <1>3, <2>1, <3>1, Zenon
  <2>2. CASE begins # {} /\ S = kept
    <3>1. begins \in SUBSET Nat /\ begins \in SUBSET (1..Len(marks))
      BY <1>3
    <3>2. start \in 1..Len(marks)
      <4> HIDE DEF begins
      <4> QED BY <2>2, <3>1, FirstOfSome
    <3>3. to \in 0..Len(marks)
      <4>1. ends \in SUBSET Nat /\ ends \in SUBSET (1..Len(marks))
        BY <1>3
      <4>2. ends # {} => Min(ends) \in 1..Len(marks)
        <5> HIDE DEF ends
        <5> QED BY <4>1, FirstOfSome
      <4> HIDE DEF ends
      <4> QED BY <1>3, <4>2
    <3> HIDE DEF start, to, begins
    <3>4. kept \in Seq(Lines)
      BY <1>3, <3>2, <3>3
    <3> QED BY <2>2, <3>4
  <2> QED BY <1>1, <2>1, <2>2
<1>5. PICK i \in DOMAIN S : l = S[i]
  BY DEF ToSet, S
<1>6. S # <<>> /\ l \in Lines
  BY <1>4, <1>5
<1>7. ~(S[i][1] \in {"header", "mention"} /\ S[i][2] # target)
  BY <1>2, <1>5, <1>6
<1> QED
  BY <1>5, <1>6, <1>7, LineIsTargets

-----------------------------------------------------------------------------
(* The Course Contents of a syllabus *)

SyllabusTyped ==
    /\ syllabus \in Seq(Seq(Table))
    /\ \A p \in DOMAIN syllabus : Len(syllabus[p]) <= TablesOnPage

LEMMA TablesAre ==
    ASSUME SyllabusTyped
    PROVE  /\ Len(syllabus) \in Nat /\ DOMAIN syllabus = 1..Len(syllabus)
           /\ \A p \in DOMAIN syllabus :
                 /\ TablesOf(p) \subseteq 1..TablesOnPage /\ IsFiniteSet(TablesOf(p))
                 /\ \A t \in TablesOf(p) : syllabus[p][t].rows \in Nat \ {0}
<1>1. Len(syllabus) \in Nat /\ DOMAIN syllabus = 1..Len(syllabus)
      /\ \A p \in DOMAIN syllabus : syllabus[p] \in Seq(Table)
  BY DEF SyllabusTyped
<1>2. ASSUME NEW p \in DOMAIN syllabus
      PROVE  /\ TablesOf(p) \subseteq 1..TablesOnPage /\ IsFiniteSet(TablesOf(p))
             /\ \A t \in TablesOf(p) : syllabus[p][t].rows \in Nat \ {0}
  <2> DEFINE s == syllabus[p]
  <2>1. s \in Seq(Table) /\ Len(s) <= TablesOnPage /\ TablesOnPage \in Nat /\ RowsOfTable \in Nat
    BY <1>1, ChunkAssumption DEF SyllabusTyped
  <2>2. TablesOf(p) = DOMAIN s
    BY DEF TablesOf
  <2> HIDE DEF s
  <2>3. Len(s) \in Nat /\ DOMAIN s = 1..Len(s) /\ \A t \in DOMAIN s : s[t] \in Table
    BY <2>1
  <2>4. IsFiniteSet(DOMAIN s)
    BY <2>3, Segment
  <2>5. \A t \in DOMAIN s : s[t].rows \in Nat \ {0}
    BY <2>1, <2>3 DEF Table
  <2>6. DOMAIN s \subseteq 1..TablesOnPage
    BY <2>1, <2>3
  <2> QED BY <2>2, <2>4, <2>5, <2>6 DEF s
<1> QED
  BY <1>1, <1>2

\* The headers found lie on the pages, the first of them on the first such page.
LEMMA HeadersAre ==
    ASSUME SyllabusTyped, Unambiguous
    PROVE  /\ First \in Located /\ First[1] = Min(HeaderPages)
           /\ \A l \in Located : l[1] \in DOMAIN syllabus /\ l[2] \in TablesOf(l[1]) /\ l = <<l[1], l[2]>>
           /\ \A l, m \in Located : l[1] = m[1] => l = m
           /\ \A l \in Located : l[1] >= First[1] /\ First[1]..l[1] \subseteq HeaderPages
<1> DEFINE P == DOMAIN syllabus
<1>1. Len(syllabus) \in Nat /\ P = 1..Len(syllabus)
  BY TablesAre
<1>2. \A l \in Located : l[1] \in P /\ l[2] \in TablesOf(l[1]) /\ l = <<l[1], l[2]>>
  BY DEF Located
<1>3. HeaderPages \in SUBSET (1..Len(syllabus)) /\ HeaderPages # {}
  BY <1>1, <1>2 DEF HeaderPages, Unambiguous
<1>4. Min(HeaderPages) \in HeaderPages /\ \A p \in HeaderPages : Min(HeaderPages) <= p
  <2>1. HeaderPages \in SUBSET Nat
    BY <1>3
  <2> QED BY <1>3, <2>1, FirstOfSome
<1>5. First \in Located /\ First[1] = Min(HeaderPages)
  <2>1. \E l \in Located : l[1] = Min(HeaderPages)
    BY <1>4 DEF HeaderPages
  <2> QED BY <2>1 DEF First
<1>6. \A l, m \in Located : l[1] = m[1] => l = m
  <2> DEFINE h == [l \in Located |-> l[1]]
  <2>1. IsFiniteSet(Located)
    <3>1. IsFiniteSet(P)
      BY <1>1, Segment
    <3>2. IsFiniteSet(1..TablesOnPage)
      BY ChunkAssumption, Segment
    <3>3. IsFiniteSet(P \X (1..TablesOnPage))
      BY <3>1, <3>2, FS_Product
    <3> QED BY <3>3, FS_Subset DEF Located
  <2>2. h \in Surjection(Located, HeaderPages)
    BY DEF Surjection, HeaderPages
  <2>3. Cardinality(HeaderPages) = Cardinality(Located)
    BY DEF Unambiguous
  <2> HIDE DEF h
  <2>4. h \in Injection(Located, HeaderPages)
    BY <2>1, <2>2, <2>3, FS_Surjection
  <2>5. \A l, m \in Located : h[l] = h[m] => l = m
    BY <2>4 DEF Injection, IsInjective
  <2> QED BY <2>5 DEF h
<1>7. ASSUME NEW l \in Located PROVE l[1] >= First[1] /\ First[1]..l[1] \subseteq HeaderPages
  <2>1. l[1] \in HeaderPages /\ l[1] \in Nat /\ First[1] \in Nat
    BY <1>1, <1>2, <1>5 DEF HeaderPages
  <2>2. HeaderPages = First[1]..Max(HeaderPages)
    BY <1>5 DEF Unambiguous
  <2>3. Max(HeaderPages) \in Nat
    <3>1. Max(HeaderPages) \in HeaderPages
      BY <1>1, <1>3, LastOfSome
    <3>2. \A p \in 1..Len(syllabus) : p \in Nat
      BY <1>1
    <3> QED BY <1>3, <3>1, <3>2
  <2> HIDE DEF P
  <2>4. l[1] >= First[1] /\ l[1] <= Max(HeaderPages)
    BY <2>1, <2>2, <2>3
  <2> QED BY <2>1, <2>2, <2>3, <2>4
<1> QED
  BY <1>2, <1>5, <1>6, <1>7

\* The pages that follow the first header have a continuation.
LEMMA PagesFollow ==
    ASSUME SyllabusTyped, Unambiguous
    PROVE  /\ First[1] \in 1..Len(syllabus) /\ LastPage \in First[1]..Len(syllabus)
           /\ \A q \in (First[1] + 1)..LastPage : Continuing(q) # {}
           /\ \A l \in Located : l[1] <= LastPage
<1> DEFINE n == Len(syllabus)
           f == First[1]
           G == {p \in f..n : \A q \in (f + 1)..p : Continuing(q) # {}}
<1>1. n \in Nat /\ DOMAIN syllabus = 1..n
  BY TablesAre
<1>2. f \in 1..n
  BY <1>1, HeadersAre
<1>3. G \in SUBSET (1..n) /\ f \in G /\ LastPage = Max(G)
  <2>1. LastPage = Max(G)
    BY DEF LastPage
  <2> HIDE DEF f, n
  <2> QED BY <1>1, <1>2, <2>1
<1>4. Max(G) \in G /\ \A y \in G : y <= Max(G)
  <2> HIDE DEF G, n
  <2> QED BY <1>1, <1>3, LastOfSome
<1>5. ASSUME NEW l \in Located PROVE l[1] \in G
  <2>1. /\ l[1] \in 1..n /\ l[1] >= f /\ f..l[1] \subseteq HeaderPages
    BY <1>1, HeadersAre
  <2>2. ASSUME NEW q \in (f + 1)..l[1] PROVE Continuing(q) # {}
    <3>1. q \in HeaderPages
      <4> HIDE DEF f
      <4> QED BY <1>2, <2>1
    <3>2. PICK m \in Located : m[1] = q
      BY <3>1 DEF HeaderPages
    <3>3. m[2] \in TablesOf(q) /\ Shape(m) = Shape(First)
      BY <3>2, HeadersAre DEF Unambiguous
    <3>4. m[2] \in Continuing(q)
      BY <3>2, <3>3 DEF Continuing, Shape
    <3> QED BY <3>4
  <2> HIDE DEF f, n
  <2> QED BY <1>2, <2>1, <2>2
<1> QED
  BY <1>2, <1>3, <1>4, <1>5

\* The contents are the rows of a table from each page of them.
LEMMA ContentsAre ==
    ASSUME SyllabusTyped PROVE ContentsAreOneTable
<1> DEFINE C == CourseContents
           rows == ToSet(C)
           from == {<<r[1], r[2]>> : r \in rows}
           f == First[1]
           n == LastPage - f + 1
           Pick(i) == IF i = 1 THEN First[2] ELSE CHOOSE t \in Continuing(f + i - 1) : TRUE
           list == [i \in 1..n |-> RowsFrom(f + i - 1, Pick(i))]
           S == Nat \X Nat \X Nat
<1> SUFFICES ASSUME rows # {}
             PROVE  /\ \A l, m \in from : Shape(l) = Shape(m) /\ (l[1] = m[1] => l = m)
                    /\ \A l \in from : \A r \in 1..syllabus[l[1]][l[2]].rows : <<l[1], l[2], r>> \in rows
                    /\ \A l \in Located : l \in from
  BY DEF ContentsAreOneTable
<1>1. C # <<>>
  <2>1. C = <<>> => rows = {}
    BY DEF ToSet
  <2> QED BY <2>1
<1>2. Unambiguous /\ \A p \in (f + 1)..LastPage : ~(Cardinality(Continuing(p)) > 1)
  BY <1>1 DEF CourseContents
<1>3. /\ f \in 1..Len(syllabus) /\ LastPage \in f..Len(syllabus) /\ Len(syllabus) \in Nat
      /\ \A q \in (f + 1)..LastPage : Continuing(q) # {}
  BY <1>2, PagesFollow, TablesAre
<1>4. n \in Nat \ {0} /\ \A i \in 1..n : f + i - 1 \in f..LastPage
  <2> HIDE DEF f
  <2> QED BY <1>3
<1>5. f + 1 - 1 = f
  BY <1>3
<1>6. C = FlattenSeq(list)
  <2>1. C = FlattenSeq([i \in 1..n |->
             IF i = 1 THEN RowsFrom(First[1], First[2])
             ELSE RowsFrom(First[1] + i - 1, CHOOSE t \in Continuing(First[1] + i - 1) : TRUE)])
    BY <1>1 DEF CourseContents
  <2>2. \A i \in 1..n : list[i] = IF i = 1 THEN RowsFrom(First[1], First[2])
             ELSE RowsFrom(First[1] + i - 1, CHOOSE t \in Continuing(First[1] + i - 1) : TRUE)
    BY <1>5
  <2> QED BY <2>1, <2>2
<1>7. ASSUME NEW i \in 1..n
      PROVE  /\ f + i - 1 \in DOMAIN syllabus /\ Pick(i) \in TablesOf(f + i - 1)
             /\ Shape(<<f + i - 1, Pick(i)>>) = Shape(First)
             /\ i # 1 => \A t \in Continuing(f + i - 1) : t = Pick(i)
  <2>0. f + i - 1 \in DOMAIN syllabus /\ f + i - 1 \in f..LastPage
    <3>1. f + i - 1 \in f..LastPage /\ DOMAIN syllabus = 1..Len(syllabus)
      BY <1>4, TablesAre
    <3> HIDE DEF f
    <3> QED BY <1>3, <3>1
  <2>1. CASE i = 1
    <3>1. Pick(i) = First[2] /\ f + i - 1 = f
      BY <1>5, <2>1
    <3>2. First[2] \in TablesOf(f) /\ First = <<First[1], First[2]>>
      BY <1>2, HeadersAre
    <3> QED BY <2>0, <2>1, <3>1, <3>2
  <2>2. CASE i # 1
    <3> DEFINE p == f + i - 1
    <3>1. p \in (f + 1)..LastPage
      <4> HIDE DEF f, n
      <4> QED BY <1>3, <1>4, <2>0, <2>2
    <3>2. Pick(i) \in Continuing(p)
      <4>1. Continuing(p) # {}
        BY <1>3, <3>1
      <4>2. Pick(i) = CHOOSE t \in Continuing(p) : TRUE
        BY <2>2
      <4> HIDE DEF Pick, p
      <4> QED BY <4>1, <4>2
    <3>3. IsFiniteSet(Continuing(p))
      <4>1. IsFiniteSet(TablesOf(p))
        BY <2>0, TablesAre
      <4> QED BY <4>1, FS_Subset DEF Continuing
    <3>4. ASSUME NEW t \in Continuing(p), t # Pick(i) PROVE FALSE
      <4> DEFINE k == Pick(i)
      <4>1. k \in Continuing(p) /\ t # k
        BY <3>2, <3>4
      <4> HIDE DEF k
      <4> DEFINE R == Continuing(p)
      <4>2. ~(Cardinality(R) > 1) /\ IsFiniteSet(R) /\ t \in R /\ k \in R
        BY <1>2, <3>1, <3>3, <4>1
      <4> HIDE DEF R
      <4>3. Cardinality({t}) = 1 /\ IsFiniteSet({t}) /\ k \notin {t}
        BY <4>1, FS_Singleton
      <4>4. Cardinality({t} \cup {k}) = 2
        <5>1. Cardinality({t} \cup {k}) = Cardinality({t}) + 1
          BY <4>3, FS_AddElement
        <5> QED BY <4>3, <5>1
      <4>5. Cardinality({t} \cup {k}) <= Cardinality(R) /\ Cardinality(R) \in Nat
        <5>1. {t} \cup {k} \subseteq R
          BY <4>2
        <5> QED BY <4>2, <5>1, FS_Subset, FS_CardinalityType
      <4> DEFINE c == Cardinality(R)
                 e == Cardinality({t} \cup {k})
      <4>6. ~(c > 1) /\ c \in Nat /\ e = 2 /\ e <= c
        BY <4>2, <4>4, <4>5
      <4> HIDE DEF c, e, list, rows, from, n, f, p
      <4> QED BY <4>6
    <3>5. \A t \in Continuing(p) : t \in TablesOf(p) /\ Shape(<<p, t>>) = Shape(First)
      BY DEF Continuing, Shape
    <3> HIDE DEF Pick
    <3> QED BY <2>0, <3>2, <3>4, <3>5
  <2> QED BY <2>1, <2>2
<1> HIDE DEF Pick
<1>8. \A i \in 1..n : list[i] \in Seq(S)
      /\ ToSet(list[i]) = {<<f + i - 1, Pick(i), r>> : r \in 1..syllabus[f + i - 1][Pick(i)].rows}
  <2> SUFFICES ASSUME NEW i \in 1..n
               PROVE  /\ list[i] \in Seq(S)
                      /\ ToSet(list[i]) = {<<f + i - 1, Pick(i), r>> : r \in 1..syllabus[f + i - 1][Pick(i)].rows}
    OBVIOUS
  <2> DEFINE p == f + i - 1
             t == Pick(i)
             k == syllabus[p][t].rows
  <2>1. p \in Nat /\ t \in Nat /\ k \in Nat
    <3>1. p \in DOMAIN syllabus /\ t \in TablesOf(p)
      BY <1>7
    <3> HIDE DEF p, t
    <3>2. TablesOf(p) \subseteq 1..TablesOnPage /\ k \in Nat
      BY <3>1, TablesAre
    <3> QED BY <3>1, <3>2, TablesAre
  <2>2. list[i] = [r \in 1..k |-> <<p, t, r>>]
    BY DEF RowsFrom
  <2> HIDE DEF list, p, t, k
  <2>3. list[i] \in [1..k -> S]
    BY <2>1, <2>2
  <2>4. ToSet(list[i]) = {<<p, t, r>> : r \in 1..k}
    BY <2>2 DEF ToSet
  <2> HIDE DEF S
  <2> QED BY <2>1, <2>3, <2>4, IsSequence DEF p, t, k
<1>9. \A x : x \in rows <=> \E i \in 1..n : \E r \in 1..syllabus[f + i - 1][Pick(i)].rows : x = <<f + i - 1, Pick(i), r>>
  <2>1. list \in [1..n -> Seq(S)]
    BY <1>8
  <2> HIDE DEF list, S
  <2>2. ToSet(FlattenSeq(list)) = UNION {ToSet(list[i]) : i \in 1..n}
    BY <1>4, <2>1, FlattenHas
  <2> QED BY <1>6, <1>8, <2>2
<1>10. \A i \in 1..n : 1 \in 1..syllabus[f + i - 1][Pick(i)].rows
  <2> SUFFICES ASSUME NEW i \in 1..n PROVE 1 \in 1..syllabus[f + i - 1][Pick(i)].rows
    OBVIOUS
  <2>1. syllabus[f + i - 1][Pick(i)].rows \in Nat \ {0}
    BY <1>7, TablesAre
  <2> QED BY <2>1
<1>11. \A l : l \in from <=> \E i \in 1..n : l = <<f + i - 1, Pick(i)>>
  <2>1. ASSUME NEW l \in from PROVE \E i \in 1..n : l = <<f + i - 1, Pick(i)>>
    BY <1>9, <2>1
  <2>2. ASSUME NEW i \in 1..n PROVE <<f + i - 1, Pick(i)>> \in from
    <3>1. <<f + i - 1, Pick(i), 1>> \in rows
      BY <1>9, <1>10
    <3> HIDE DEF rows
    <3> QED BY <3>1
  <2> QED BY <2>1, <2>2
<1>12. ASSUME NEW l \in from, NEW m \in from PROVE Shape(l) = Shape(m) /\ (l[1] = m[1] => l = m)
  <2>1. PICK i \in 1..n : l = <<f + i - 1, Pick(i)>>
    BY <1>11
  <2>2. PICK j \in 1..n : m = <<f + j - 1, Pick(j)>>
    BY <1>11
  <2>3. Shape(l) = Shape(First) /\ Shape(m) = Shape(First)
    BY <1>7, <2>1, <2>2
  <2>4. l[1] = m[1] => i = j
    <3> HIDE DEF f, from, n
    <3> QED BY <1>3, <1>4, <2>1, <2>2
  <2> QED BY <2>1, <2>2, <2>3, <2>4
<1>13. ASSUME NEW l \in from, NEW r \in 1..syllabus[l[1]][l[2]].rows PROVE <<l[1], l[2], r>> \in rows
  <2>1. PICK i \in 1..n : l = <<f + i - 1, Pick(i)>>
    BY <1>11
  <2>2. l[1] = f + i - 1 /\ l[2] = Pick(i)
    BY <2>1
  <2> QED BY <1>9, <2>2
<1>14. ASSUME NEW l \in Located PROVE l \in from
  <2>1. l = <<l[1], l[2]>> /\ l[1] \in DOMAIN syllabus /\ l[2] \in TablesOf(l[1]) /\ l[1] >= f /\ l[1] <= LastPage
        /\ Shape(l) = Shape(First) /\ First \in Located /\ \A m \in Located : l[1] = m[1] => l = m
    BY <1>2, HeadersAre, PagesFollow DEF Unambiguous
  <2> DEFINE i == l[1] - f + 1
  <2>2. i \in 1..n /\ f + i - 1 = l[1]
    <3>1. l[1] \in Nat
      BY <2>1, TablesAre
    <3> HIDE DEF f
    <3> QED BY <1>3, <2>1, <3>1
  <2>3. Pick(i) = l[2]
    <3>1. CASE i = 1
      <4>1. l[1] = First[1]
        BY <1>3, <2>2, <3>1
      <4>2. l = First
        BY <2>1, <4>1
      <4> QED BY <3>1, <4>2 DEF Pick
    <3>2. CASE i # 1
      <4>1. l[2] \in Continuing(l[1])
        BY <2>1 DEF Continuing, Shape
      <4> HIDE DEF i, f, n
      <4>2. l[2] \in Continuing(f + i - 1)
        BY <2>2, <4>1
      <4> QED BY <1>7, <2>2, <3>2, <4>2
    <3> QED BY <3>1, <3>2
  <2> HIDE DEF i, from, f, n
  <2>4. l = <<f + i - 1, Pick(i)>>
    BY <2>1, <2>2, <2>3
  <2> QED BY <1>11, <2>2, <2>4
<1> QED
  BY <1>12, <1>13, <1>14

-----------------------------------------------------------------------------
(* Texts, lines and pages are put together piece by piece *)

TextInv == TextTyped /\ LinesTyped /\ SyllabusTyped

LEMMA InitText == TextInit => TextInv
<1> SUFFICES ASSUME TextInit PROVE TextInv
  OBVIOUS
<1>1. text = <<>> /\ marks = <<>> /\ syllabus = <<>>
  BY DEF TextInit
<1>2. \A S : <<>> \in Seq(S)
  OBVIOUS
<1>3. DOMAIN syllabus = {}
  BY <1>1
<1> QED
  BY <1>1, <1>2, <1>3, Zenon DEF TextInv, TextTyped, LinesTyped, SyllabusTyped

\* Every step adds a piece of its kind.
LEMMA StepText == TextInv /\ [TextNext]_textVars => TextInv'
<1> SUFFICES ASSUME TextInv, [TextNext]_textVars PROVE TextInv'
  OBVIOUS
<1>1. TextTyped /\ LinesTyped /\ SyllabusTyped
  BY DEF TextInv
<1>2. CASE UNCHANGED textVars
  BY <1>1, <1>2 DEF TextInv, TextTyped, LinesTyped, SyllabusTyped, textVars
<1>3. CASE AddSentence
  <2>1. UNCHANGED <<marks, syllabus>>
    BY <1>3 DEF AddSentence
  <2>2. PICK size \in SentenceSizes, opens \in BOOLEAN : text' = Append(text, [size |-> size, opens |-> opens])
    BY <1>3 DEF AddSentence
  <2>3. size \in Nat \ {0}
    BY ChunkAssumption
  <2> DEFINE R == [size : Nat \ {0}, opens : BOOLEAN]
             s == [size |-> size, opens |-> opens]
  <2>4. s \in R /\ text \in Seq(R)
    BY <1>1, <2>3 DEF TextTyped
  <2> HIDE DEF R, s
  <2>5. text' \in Seq(R)
    BY <2>2, <2>4 DEF s
  <2>6. TextTyped'
    BY <2>5 DEF TextTyped, R
  <2> QED BY <1>1, <2>1, <2>6 DEF TextInv, LinesTyped, SyllabusTyped
<1>4. CASE AddLine
  <2>1. UNCHANGED <<text, syllabus>>
    BY <1>4 DEF AddLine
  <2>2. PICK line \in Lines : marks' = Append(marks, line)
    BY <1>4 DEF AddLine
  <2>3. marks' \in Seq(Lines)
    BY <1>1, <2>2 DEF LinesTyped
  <2> QED BY <1>1, <2>1, <2>3 DEF TextInv, TextTyped, LinesTyped, SyllabusTyped
<1>5. CASE AddPage
  <2>1. UNCHANGED <<text, marks>>
    BY <1>5 DEF AddPage
  <2>2. PICK n \in 0..TablesOnPage : \E tables \in [1..n -> Table] : syllabus' = Append(syllabus, tables)
    BY <1>5 DEF AddPage
  <2>3. PICK tables \in [1..n -> Table] : syllabus' = Append(syllabus, tables)
    BY <2>2
  <2>4. TablesOnPage \in Nat
    BY ChunkAssumption
  <2>5. n \in Nat /\ n <= TablesOnPage
    BY <2>4
  <2>6. tables \in Seq(Table) /\ Len(tables) = n
    BY <2>5, IsSequence
  <2> DEFINE Q == Seq(Table)
             k == Len(syllabus)
  <2>7. syllabus \in Seq(Q) /\ tables \in Q
    BY <1>1, <2>6 DEF SyllabusTyped
  <2> HIDE DEF Q
  <2>8. k \in Nat /\ DOMAIN syllabus = 1..k
    BY <2>7
  <2>9. syllabus' \in Seq(Q) /\ DOMAIN syllabus' = 1..(k + 1) /\ syllabus'[k + 1] = tables
        /\ \A p \in 1..k : syllabus'[p] = syllabus[p]
    BY <2>3, <2>7
  <2>10. ASSUME NEW p \in DOMAIN syllabus' PROVE Len(syllabus'[p]) <= TablesOnPage
    <3>1. p = k + 1 \/ p \in 1..k
      BY <2>8, <2>9
    <3>2. CASE p = k + 1
      BY <2>5, <2>6, <2>9, <3>2
    <3>3. CASE p \in 1..k
      BY <1>1, <2>8, <2>9, <3>3 DEF SyllabusTyped
    <3> QED BY <3>1, <3>2, <3>3
  <2>11. SyllabusTyped'
    BY <2>9, <2>10 DEF SyllabusTyped, Q
  <2> QED BY <1>1, <2>1, <2>11 DEF TextInv, TextTyped, LinesTyped
<1> QED
  BY <1>2, <1>3, <1>4, <1>5 DEF TextNext

\* However a text is put together, its chunks hold every word of it in its order, none above
\* the limit, and repeat at most an overlap; the chunks of a policy are its text word for word
\* and name their clause; what is kept of a curriculum speaks of no other program; and the
\* contents of a syllabus are whole tables of consecutive pages.
THEOREM TextStaysChunked == TextInit /\ [][TextNext]_textVars => []TextStands
<1>1. TextInv => TextStands
  BY PageStands, PolicyStands, SectionIsOfTarget, ContentsAre DEF TextInv, TextStands
<1> QED
  BY <1>1, InitText, StepText, PTL
-----------------------------------------------------------------------------
(* The running headers and footers of a document *)

SheetLine == [kind : LineKinds, page : Nat, at : Nat]
\* A line knows its place.
Sheet(lines, p) ==
    /\ lines \in Seq(SheetLine)
    /\ \A i \in DOMAIN lines : lines[i].page = p /\ lines[i].at = i
SheetsTyped ==
    /\ sheets \in Seq(Seq(SheetLine))
    /\ \A p \in DOMAIN sheets : Sheet(sheets[p], p)

\* What is left of a page: lines of it, in order.
PartOf(left, lines) ==
    /\ left \in Seq(SheetLine)
    /\ \A i \in DOMAIN left : left[i].at \in DOMAIN lines /\ left[i] = lines[left[i].at]
    /\ \A i, j \in DOMAIN left : i < j => left[i].at < left[j].at

LEMMA LineHas == ASSUME NEW l \in SheetLine PROVE l.kind \in LineKinds /\ l.page \in Nat /\ l.at \in Nat
BY DEF SheetLine

LEMMA PartAll == ASSUME NEW lines, NEW p, Sheet(lines, p) PROVE PartOf(lines, lines)
BY DEF Sheet, PartOf

\* A piece of a part is a part, and holds what lies between its ends.
LEMMA PartCut ==
    ASSUME NEW left, NEW lines, PartOf(left, lines), NEW i \in 1..(Len(left) + 1), NEW j \in 0..Len(left), i <= j + 1
    PROVE  /\ PartOf(SubSeq(left, i, j), lines)
           /\ \A x \in i..j : left[x] \in ToSet(SubSeq(left, i, j))
           /\ \A l \in ToSet(SubSeq(left, i, j)) : \E x \in i..j : x \in DOMAIN left /\ l = left[x]
<1> DEFINE c == SubSeq(left, i, j)
           n == j + 1 - i
<1>1. left \in Seq(SheetLine) /\ Len(left) \in Nat /\ DOMAIN left = 1..Len(left)
  BY DEF PartOf
<1>2. c \in Seq(SheetLine) /\ Len(c) = n /\ \A x \in 1..n : c[x] = left[i + x - 1]
  BY <1>1, PieceHas
<1>3. n \in Nat /\ DOMAIN c = 1..n /\ \A x \in 1..n : i + x - 1 \in DOMAIN left /\ i + x - 1 \in i..j
  BY <1>1, <1>2
<1> HIDE DEF c
<1>4. PartOf(c, lines)
  <2>1. \A x \in DOMAIN c : c[x].at \in DOMAIN lines /\ c[x] = lines[c[x].at]
    BY <1>2, <1>3 DEF PartOf
  <2>2. ASSUME NEW x \in DOMAIN c, NEW y \in DOMAIN c, x < y PROVE c[x].at < c[y].at
    <3>1. i + x - 1 < i + y - 1
      BY <1>3, <2>2
    <3> QED BY <1>2, <1>3, <3>1 DEF PartOf
  <2> QED BY <1>2, <2>1, <2>2 DEF PartOf
<1>5. ASSUME NEW x \in i..j PROVE left[x] \in ToSet(c)
  <2>1. x - i + 1 \in 1..n /\ i + (x - i + 1) - 1 = x
    BY <1>1
  <2>2. c[x - i + 1] = left[x]
    BY <1>2, <2>1
  <2> QED BY <1>3, <2>1, <2>2 DEF ToSet
<1>6. \A l \in ToSet(c) : \E x \in i..j : x \in DOMAIN left /\ l = left[x]
  BY <1>2, <1>3 DEF ToSet
<1> QED
  BY <1>4, <1>5, <1>6 DEF c

\* So is a page without some lines of its own in a row.
LEMMA PartAround ==
    ASSUME NEW lines, NEW p, Sheet(lines, p), NEW a \in 1..Len(lines), NEW b \in a..Len(lines)
    PROVE  LET left == SubSeq(lines, 1, a - 1) \o SubSeq(lines, b + 1, Len(lines)) IN
           /\ PartOf(left, lines)
           /\ \A i \in DOMAIN lines : i \notin a..b => lines[i] \in ToSet(left)
           /\ a > 1 => left # <<>> /\ left[1] = lines[1]
<1> DEFINE n == Len(lines)
           m == n - b
           before == SubSeq(lines, 1, a - 1)
           after == SubSeq(lines, b + 1, n)
           left == before \o after
<1>1. lines \in Seq(SheetLine) /\ n \in Nat /\ DOMAIN lines = 1..n /\ m \in Nat /\ a \in Nat /\ b \in Nat
  BY DEF Sheet
<1>2. before \in Seq(SheetLine) /\ Len(before) = a - 1 /\ \A x \in 1..(a - 1) : before[x] = lines[x]
  <2>1. 1 \in 1..(Len(lines) + 1) /\ a - 1 \in 0..Len(lines) /\ 1 <= (a - 1) + 1 /\ (a - 1) + 1 - 1 = a - 1
    BY <1>1
  <2>2. \A x \in 1..(a - 1) : 1 + x - 1 = x
    BY <1>1
  <2>3. before \in Seq(SheetLine) /\ Len(before) = (a - 1) + 1 - 1 /\ \A x \in 1..((a - 1) + 1 - 1) : before[x] = lines[1 + x - 1]
    BY <1>1, <2>1, PieceHas
  <2> QED BY <2>1, <2>2, <2>3
<1>3. after \in Seq(SheetLine) /\ Len(after) = m /\ \A x \in 1..m : after[x] = lines[b + x]
  <2>1. b + 1 \in 1..(Len(lines) + 1) /\ n \in 0..Len(lines) /\ b + 1 <= n + 1 /\ n + 1 - (b + 1) = m
    <3>1. b \in 1..n /\ n \in Nat
      BY <1>1
    <3> HIDE DEF n
    <3> QED BY <3>1 DEF n
  <2>2. \A x \in 1..m : (b + 1) + x - 1 = b + x
    BY <1>1
  <2>3. after \in Seq(SheetLine) /\ Len(after) = n + 1 - (b + 1) /\ \A x \in 1..(n + 1 - (b + 1)) : after[x] = lines[(b + 1) + x - 1]
    <3> DEFINE k == b + 1
    <3> HIDE DEF n, k
    <3> QED BY <1>1, <2>1, PieceHas DEF k
  <2> QED BY <2>1, <2>2, <2>3
<1> HIDE DEF before, after, m
<1>4. /\ left \in Seq(SheetLine) /\ Len(left) = (a - 1) + m
      /\ \A x \in 1..((a - 1) + m) : left[x] = IF x <= a - 1 THEN lines[x] ELSE lines[b + (x - (a - 1))]
  <2>1. left \in Seq(SheetLine) /\ Len(left) = Len(before) + Len(after)
        /\ \A x \in 1..(Len(before) + Len(after)) : left[x] = IF x <= Len(before) THEN before[x] ELSE after[x - Len(before)]
    BY <1>2, <1>3
  <2>2. \A x \in 1..((a - 1) + m) : (x <= a - 1 => x \in 1..(a - 1)) /\ (~(x <= a - 1) => x - (a - 1) \in 1..m)
    BY <1>1
  <2> HIDE DEF left
  <2> QED BY <1>2, <1>3, <2>1, <2>2
<1> HIDE DEF left
<1> DEFINE N == (a - 1) + m
           from(x) == IF x <= a - 1 THEN x ELSE b + (x - (a - 1))
<1>5. N \in Nat /\ DOMAIN left = 1..N
  BY <1>1, <1>4
<1>6. \A x \in 1..N : from(x) \in 1..n /\ left[x] = lines[from(x)] /\ left[x].at = from(x)
  <2>1. ASSUME NEW x \in 1..N PROVE from(x) \in 1..n
    BY <1>1 DEF m
  <2> QED BY <1>1, <1>4, <2>1 DEF Sheet
<1>7. \A x, y \in 1..N : x < y => from(x) < from(y)
  BY <1>1
<1>8. PartOf(left, lines)
  <2> HIDE DEF from, N, n
  <2> QED BY <1>1, <1>4, <1>5, <1>6, <1>7 DEF PartOf
<1>9. ASSUME NEW i \in DOMAIN lines, i \notin a..b PROVE lines[i] \in ToSet(left)
  <2>1. CASE i < a
    <3>1. i \in 1..N /\ from(i) = i
      BY <1>1, <2>1
    <3> QED BY <1>5, <1>6, <3>1 DEF ToSet
  <2>2. CASE i > b
    <3> DEFINE x == (i - b) + (a - 1)
    <3>1. x \in 1..N /\ from(x) = i
      BY <1>1, <2>2 DEF m
    <3> HIDE DEF x, from
    <3> QED BY <1>5, <1>6, <3>1 DEF ToSet
  <2> QED BY <1>1, <1>9, <2>1, <2>2
<1>10. ASSUME a > 1 PROVE left # <<>> /\ left[1] = lines[1]
  <2>1. 1 \in 1..N /\ from(1) = 1
    BY <1>1, <1>10
  <2>2. left[1] = lines[1] /\ Len(left) # 0
    BY <1>1, <1>4, <1>5, <1>6, <2>1
  <2> QED BY <2>2
<1> QED
  BY <1>8, <1>9, <1>10 DEF left, before, after

\* A line that lies between two anchors of the header.
Between(lines, i) ==
    \E a \in 1..(i - 1), b \in (i + 1)..Min({Len(lines), HeaderScanLimit}) :
       lines[a].kind = "anchor" /\ lines[b].kind = "anchor"

\* The known header takes no text of its own from outside, and no title before it.
LEMMA KnownHeader ==
    ASSUME NEW lines, NEW p, Sheet(lines, p)
    PROVE  LET left == WithoutKnownHeader(lines) IN
           /\ PartOf(left, lines)
           /\ \A i \in DOMAIN lines : lines[i].kind = "own" => lines[i] \in ToSet(left) \/ Between(lines, i)
           /\ lines # <<>> /\ lines[1].kind = "running" => left # <<>> /\ left[1] = lines[1]
<1> DEFINE n == Len(lines)
           top == Min({Len(lines), HeaderScanLimit})
           anchors == {i \in 1..top : lines[i].kind = "anchor"}
           begins == {i \in 1..Min(anchors) : i = 1 \/ ~HeaderLike(lines[i - 1])}
           ends == {i \in Max(anchors)..n : i = n \/ ~HeaderLike(lines[i + 1])}
           start == Max(begins)
           end == Min(ends)
           left == WithoutKnownHeader(lines)
<1>1. lines \in Seq(SheetLine) /\ n \in Nat /\ DOMAIN lines = 1..n
  BY DEF Sheet
<1>2. left = IF Cardinality(anchors) < 2 THEN lines
             ELSE SubSeq(lines, 1, start - 1) \o SubSeq(lines, end + 1, n)
  BY DEF WithoutKnownHeader
<1>3. top \in 0..n
  <2>1. HeaderScanLimit \in Nat
    BY ExtractionAssumption
  <2> QED BY <1>1, <2>1, MinOfTwo
<1> HIDE DEF top, n, left
<1>4. CASE Cardinality(anchors) < 2
  <2>1. left = lines
    BY <1>2, <1>4
  <2>2. PartOf(lines, lines)
    BY PartAll
  <2>3. \A i \in DOMAIN lines : lines[i] \in ToSet(lines)
    BY DEF ToSet
  <2> QED BY <2>1, <2>2, <2>3 DEF left
<1>5. CASE ~(Cardinality(anchors) < 2)
  <2> DEFINE lo == Min(anchors)
             hi == Max(anchors)
  <2>1. IsFiniteSet(anchors) /\ anchors \subseteq 1..top /\ anchors \subseteq 1..n /\ anchors \subseteq Nat
    <3>1. IsFiniteSet(1..top)
      BY <1>3, FS_Interval
    <3>2. anchors \in SUBSET (1..top)
      OBVIOUS
    <3> HIDE DEF anchors
    <3>3. IsFiniteSet(anchors)
      BY <3>1, <3>2, FS_Subset
    <3>4. \A x \in 1..top : x \in 1..n /\ x \in Nat
      BY <1>1, <1>3
    <3> QED BY <3>2, <3>3, <3>4
  <2>2. Cardinality(anchors) >= 2 /\ anchors # {}
    <3>1. Cardinality(anchors) \in Nat
      BY <2>1, FS_CardinalityType
    <3> HIDE DEF anchors
    <3> QED BY <1>5, <3>1, FS_EmptySet
  <2>3. lo \in anchors /\ hi \in anchors /\ \A y \in anchors : lo <= y /\ y <= hi
    <3> HIDE DEF anchors
    <3>1. lo \in anchors /\ \A y \in anchors : lo <= y
      BY <2>1, <2>2, FirstOfSome
    <3>2. hi \in anchors /\ \A y \in anchors : y <= hi
      <4>1. anchors \in SUBSET (1..n)
        BY <2>1
      <4> QED BY <1>1, <2>2, <4>1, LastOfSome
    <3> QED BY <3>1, <3>2
  <2>4. lo < hi
    <3> SUFFICES ASSUME lo = hi PROVE FALSE
      <4>1. lo \in Nat /\ hi \in Nat /\ lo <= hi
        BY <2>1, <2>3
      <4> HIDE DEF lo, hi
      <4> QED BY <4>1
    <3> HIDE DEF anchors, lo, hi
    <3>1. \A y \in anchors : y = lo
      BY <2>1, <2>3
    <3>2. anchors \subseteq {lo} /\ IsFiniteSet(anchors)
      BY <2>1, <3>1
    <3>3. Cardinality(anchors) <= 1 /\ Cardinality(anchors) \in Nat
      BY <3>2, AtMostOne, FS_CardinalityType
    <3> QED BY <2>2, <3>3
  <2>5. /\ lo \in 1..top /\ hi \in 1..top /\ lo \in 1..n /\ hi \in 1..n
        /\ lines[lo].kind = "anchor" /\ lines[hi].kind = "anchor"
    <3>1. lo \in {i \in 1..top : lines[i].kind = "anchor"} /\ hi \in {i \in 1..top : lines[i].kind = "anchor"}
      BY <2>3
    <3>2. lo \in 1..n /\ hi \in 1..n
      BY <2>1, <2>3
    <3> HIDE DEF lo, hi
    <3> QED BY <3>1, <3>2
  <2>6. begins = {i \in 1..lo : i = 1 \/ ~HeaderLike(lines[i - 1])} /\ ends = {i \in hi..n : i = n \/ ~HeaderLike(lines[i + 1])}
    OBVIOUS
  <2> HIDE DEF anchors, lo, hi, begins, ends
  <2>7. start \in begins /\ \A y \in begins : y <= start
    <3>1. 1 \in begins /\ begins \subseteq 1..lo /\ lo \in Nat
      BY <1>1, <2>5, <2>6
    <3>2. begins # {} /\ begins \in SUBSET (1..lo)
      BY <3>1
    <3> QED BY <3>1, <3>2, LastOfSome
  <2>8. end \in ends /\ \A y \in ends : end <= y
    <3>1. n \in ends /\ ends \subseteq Nat
      BY <1>1, <2>5, <2>6
    <3>2. ends # {} /\ ends \in SUBSET Nat
      BY <3>1
    <3> QED BY <3>2, FirstOfSome
  <2>9. start \in 1..lo /\ end \in hi..n
    BY <2>6, <2>7, <2>8
  <2> HIDE DEF start, end
  <2>10. start \in 1..n /\ end \in start..n
    BY <1>1, <2>4, <2>5, <2>9
  <2>11. left = SubSeq(lines, 1, start - 1) \o SubSeq(lines, end + 1, n)
    BY <1>2, <1>5
  <2>12. /\ PartOf(left, lines)
         /\ \A i \in DOMAIN lines : i \notin start..end => lines[i] \in ToSet(left)
         /\ start > 1 => left # <<>> /\ left[1] = lines[1]
    BY <2>10, <2>11, PartAround DEF n
  <2>13. ASSUME NEW i \in DOMAIN lines, lines[i].kind = "own", i \in start..end
         PROVE  Between(lines, i)
    <3>1. i # lo /\ i # hi
      BY <2>5, <2>13
    <3>2. ~HeaderLike(lines[i])
      BY <2>13 DEF HeaderLike
    <3>3. ~(i < lo)
      <4>1. SUFFICES ASSUME i < lo PROVE FALSE
        OBVIOUS
      <4>2. i + 1 \in 1..lo /\ (i + 1) - 1 = i
        BY <1>1, <2>5, <4>1
      <4>3. i + 1 \in begins
        BY <2>6, <3>2, <4>2
      <4>4. i + 1 <= start
        BY <2>7, <4>3
      <4> QED BY <1>1, <2>10, <2>13, <4>4
    <3>4. ~(i > hi)
      <4>1. SUFFICES ASSUME i > hi PROVE FALSE
        OBVIOUS
      <4>2. i - 1 \in hi..n /\ (i - 1) + 1 = i
        BY <1>1, <2>5, <4>1
      <4>3. i - 1 \in ends
        BY <2>6, <3>2, <4>2
      <4>4. end <= i - 1
        BY <2>8, <4>3
      <4> QED BY <1>1, <2>10, <2>13, <4>4
    <3>5. lo \in 1..(i - 1) /\ hi \in (i + 1)..top
      BY <1>1, <1>3, <2>5, <3>1, <3>3, <3>4
    <3> QED BY <2>5, <3>5 DEF Between, top
  <2>14. ASSUME lines # <<>>, lines[1].kind = "running" PROVE left # <<>> /\ left[1] = lines[1]
    <3>1. lo # 1
      BY <2>5, <2>14
    <3>2. 2 \in 1..lo /\ 2 - 1 = 1
      BY <2>5, <3>1
    <3>3. 2 \in begins
      <4>1. ~HeaderLike(lines[1])
        BY <2>14 DEF HeaderLike
      <4> QED BY <2>6, <3>2, <4>1
    <3>4. start > 1
      <4>1. 2 <= start
        BY <2>7, <3>3
      <4> QED BY <2>10, <4>1
    <3> QED BY <2>12, <3>4
  <2> QED BY <2>12, <2>13, <2>14 DEF left
<1> QED
  BY <1>4, <1>5

LEMMA ThresholdIs ==
    ASSUME NEW texts, Len(texts) \in Nat
    PROVE  Threshold(texts) \in Nat /\ Threshold(texts) >= 2
<1> DEFINE x == (Len(texts) * 2 + 2) \div 3
<1>1. x \in Nat
  OBVIOUS
<1> HIDE DEF x
<1>2. \A y \in {2, x} : y \in 0..(x + 2)
  BY <1>1
<1>3. {2, x} \in SUBSET (0..(x + 2)) /\ {2, x} # {}
  BY <1>2
<1> DEFINE S == {2, x}
<1>4. S \in SUBSET (0..(x + 2)) /\ S # {} /\ x + 2 \in Nat
  BY <1>1, <1>3
<1> HIDE DEF S
<1>5. Max(S) \in S /\ \A y \in S : y <= Max(S)
  BY <1>4, LastOfNumbers
<1>6. Max(S) \in Nat /\ 2 <= Max(S)
  BY <1>1, <1>5 DEF S
<1> QED
  BY <1>6 DEF Threshold, S, x

\* Pages of a document, each with some of its lines left.
Left(texts) ==
    /\ DOMAIN texts = 1..Len(sheets) /\ Len(texts) = Len(sheets)
    /\ \A p \in 1..Len(sheets) : PartOf(texts[p], sheets[p])

LEMMA LeftLine ==
    ASSUME SheetsTyped, NEW texts, Left(texts), NEW p \in 1..Len(sheets), NEW i \in DOMAIN texts[p]
    PROVE  /\ texts[p][i] \in SheetLine /\ texts[p][i].page = p /\ texts[p][i].at \in DOMAIN sheets[p]
           /\ texts[p][i] = sheets[p][texts[p][i].at]
<1>1. p \in DOMAIN sheets /\ Sheet(sheets[p], p)
  BY DEF SheetsTyped
<1>2. texts[p] \in Seq(SheetLine) /\ texts[p][i].at \in DOMAIN sheets[p] /\ texts[p][i] = sheets[p][texts[p][i].at]
  BY DEF Left, PartOf
<1>3. texts[p][i] \in SheetLine
  BY <1>2
<1> QED
  BY <1>1, <1>2, <1>3 DEF Sheet

\* A signature is the line itself, or the kind of one that is not text of its own.
LEMMA SignaturesOf ==
    ASSUME NEW l \in SheetLine
    PROVE  /\ HeaderSignature(l) \in SheetLine /\ HeaderSignature(l).kind = l.kind
           /\ FooterSignature(l) \in SheetLine /\ FooterSignature(l).kind = l.kind
           /\ l.kind = "own" => HeaderSignature(l) = l /\ FooterSignature(l) = l
           /\ l.kind = "running" => HeaderSignature(l) = [kind |-> "running", page |-> 0, at |-> 0]
<1> DEFINE bare == [l EXCEPT !.page = 0, !.at = 0]
<1>1. bare \in SheetLine /\ bare.kind = l.kind /\ bare.page = 0 /\ bare.at = 0
  BY DEF SheetLine
<1>2. bare = [kind |-> bare.kind, page |-> bare.page, at |-> bare.at]
  <2> HIDE DEF bare
  <2> QED BY <1>1 DEF SheetLine
<1>3. bare = [kind |-> l.kind, page |-> 0, at |-> 0]
  BY <1>1, <1>2
<1>4. HeaderSignature(l) \in {l, bare} /\ FooterSignature(l) \in {l, bare}
  BY DEF HeaderSignature, FooterSignature
<1>5. l.kind = "own" => HeaderSignature(l) = l /\ FooterSignature(l) = l
  BY DEF HeaderSignature, FooterSignature
<1>6. l.kind = "running" => HeaderSignature(l) = bare
  BY DEF HeaderSignature
<1> HIDE DEF bare
<1> QED
  BY <1>1, <1>3, <1>4, <1>5, <1>6

HeaderTop(lines) == Min({Len(lines), MaxBoilerplateLines})
Shown(lines, l) == \E i \in 1..HeaderTop(lines) : HeaderSignature(lines[i]) = HeaderSignature(l)
Showing(texts, l) == {p \in DOMAIN texts : Shown(texts[p], l)}
Dropped(texts, l) == ~HasSignature(l) \/ Cardinality(Showing(texts, l)) >= Threshold(texts) \/ HeaderLike(l)
HeadOf(texts, lines) == {n \in 0..HeaderTop(lines) : \A i \in 1..n : Dropped(texts, lines[i])}

LEMMA HeaderlessIs ==
    ASSUME NEW texts, NEW p \in DOMAIN texts
    PROVE  WithoutHeaderLines(texts)[p] = SubSeq(texts[p], Max(HeadOf(texts, texts[p])) + 1, Len(texts[p]))
BY DEF WithoutHeaderLines, HeaderTop, Shown, Showing, Dropped, HeadOf

LEMMA HeaderTopIs ==
    ASSUME NEW lines, Len(lines) \in Nat
    PROVE  HeaderTop(lines) \in 0..Len(lines) /\ (Len(lines) >= 1 => HeaderTop(lines) >= 1)
<1> DEFINE m == MaxBoilerplateLines
           n == Len(lines)
<1>1. m \in Nat /\ m >= 1
  BY ExtractionAssumption
<1> HIDE DEF m, n
<1>2. n \in Nat
  BY DEF n
<1>3. Min({n, m}) = IF n <= m THEN n ELSE m
  BY <1>1, <1>2, MinOfTwo
<1>4. Min({n, m}) \in 0..n /\ (n >= 1 => Min({n, m}) >= 1)
  BY <1>1, <1>2, <1>3
<1> QED
  BY <1>4 DEF n, m, HeaderTop

\* Text of its own is on one page, and no header takes it.
LEMMA OwnNotDropped ==
    ASSUME SheetsTyped, NEW texts, Left(texts), NEW p \in 1..Len(sheets), NEW i \in DOMAIN texts[p],
           texts[p][i].kind = "own"
    PROVE  ~Dropped(texts, texts[p][i])
<1> DEFINE l == texts[p][i]
<1>1. Len(sheets) \in Nat /\ DOMAIN texts = 1..Len(sheets) /\ Len(texts) = Len(sheets)
  BY DEF SheetsTyped, Left
<1>2. l \in SheetLine /\ l.page = p
  BY LeftLine
<1>3. ASSUME NEW q \in Showing(texts, l) PROVE q = p
  <2>1. q \in 1..Len(sheets) /\ Shown(texts[q], l)
    BY <1>1 DEF Showing
  <2>2. Len(texts[q]) \in Nat /\ DOMAIN texts[q] = 1..Len(texts[q])
    BY <2>1 DEF Left, PartOf
  <2>3. PICK j \in 1..HeaderTop(texts[q]) : HeaderSignature(texts[q][j]) = HeaderSignature(l)
    BY <2>1 DEF Shown
  <2>4. j \in DOMAIN texts[q]
    BY <2>2, HeaderTopIs
  <2> DEFINE k == texts[q][j]
  <2>5. k \in SheetLine /\ k.page = q
    BY <2>1, <2>4, LeftLine
  <2>6. HeaderSignature(k) = HeaderSignature(l) /\ l.kind = "own"
    BY <2>3
  <2> HIDE DEF k, l
  <2>7. k = l
    BY <1>2, <2>5, <2>6, SignaturesOf
  <2> QED BY <1>2, <2>5, <2>7
<1>4. Showing(texts, l) \in SUBSET (1..Len(sheets)) /\ Showing(texts, l) \subseteq {p}
  <2>1. Showing(texts, l) \subseteq DOMAIN texts
    BY DEF Showing
  <2> HIDE DEF l
  <2> QED BY <1>1, <1>3, <2>1
<1>5. IsFiniteSet(Showing(texts, l))
  <2>1. IsFiniteSet(1..Len(sheets))
    BY <1>1, FS_Interval
  <2> HIDE DEF l
  <2> QED BY <1>4, <2>1, FS_Subset
<1>6. Cardinality(Showing(texts, l)) <= 1 /\ Cardinality(Showing(texts, l)) \in Nat
  <2> HIDE DEF l
  <2> QED BY <1>4, <1>5, AtMostOne, FS_CardinalityType
<1>7. Threshold(texts) \in Nat /\ Threshold(texts) >= 2
  BY <1>1, ThresholdIs
<1>8. HasSignature(l) /\ ~HeaderLike(l)
  BY DEF HasSignature, HeaderLike
<1>9. ~(Cardinality(Showing(texts, l)) >= Threshold(texts))
  <2> HIDE DEF l
  <2> QED BY <1>6, <1>7
<1> QED
  BY <1>8, <1>9 DEF Dropped

\* A page keeps what follows its header, and all text of its own.
LEMMA HeaderTaken ==
    ASSUME SheetsTyped, NEW texts, Left(texts), NEW p \in 1..Len(sheets)
    PROVE  LET kept == WithoutHeaderLines(texts)[p] IN
           /\ PartOf(kept, sheets[p])
           /\ \A i \in DOMAIN texts[p] : texts[p][i].kind = "own" => texts[p][i] \in ToSet(kept)
           /\ texts[p] # <<>> /\ Dropped(texts, texts[p][1]) => texts[p][1] \notin ToSet(kept)
<1> DEFINE lines == texts[p]
           n == Len(lines)
           heads == HeadOf(texts, lines)
           m == Max(heads)
           kept == WithoutHeaderLines(texts)[p]
<1>1. PartOf(lines, sheets[p]) /\ DOMAIN texts = 1..Len(sheets)
  BY DEF Left
<1>2. n \in Nat /\ DOMAIN lines = 1..n
  BY <1>1 DEF PartOf
<1>3. kept = SubSeq(lines, m + 1, n)
  BY <1>1, HeaderlessIs
<1>4. ASSUME NEW i \in DOMAIN lines, lines[i].kind = "own" PROVE ~Dropped(texts, lines[i])
  BY <1>4, OwnNotDropped
<1> HIDE DEF kept, lines
<1>5. HeaderTop(lines) \in 0..n /\ (n >= 1 => HeaderTop(lines) >= 1)
  BY <1>2, HeaderTopIs
<1>6. m \in heads /\ \A y \in heads : y <= m
  <2>1. 0 \in heads
    BY <1>2, <1>5 DEF HeadOf
  <2>2. heads \in SUBSET (0..n)
    <3> HIDE DEF n
    <3> QED BY <1>2, <1>5 DEF HeadOf
  <2> HIDE DEF heads, n
  <2> QED BY <1>2, <2>1, <2>2, LastOfNumbers
<1>7. m \in 0..HeaderTop(lines) /\ \A i \in 1..m : Dropped(texts, lines[i])
  BY <1>6 DEF HeadOf
<1> HIDE DEF m, n
<1>8. m \in 0..n /\ m + 1 \in 1..(n + 1) /\ n \in 0..n /\ m + 1 <= n + 1
  BY <1>2, <1>5, <1>7
<1> DEFINE c == SubSeq(lines, m + 1, n)
<1>9. /\ PartOf(c, sheets[p])
      /\ \A x \in (m + 1)..n : lines[x] \in ToSet(c)
      /\ \A l \in ToSet(c) : \E x \in (m + 1)..n : x \in DOMAIN lines /\ l = lines[x]
  <2>1. m + 1 \in 1..(Len(lines) + 1) /\ n \in 0..Len(lines) /\ m + 1 <= n + 1 /\ PartOf(lines, sheets[p])
    BY <1>1, <1>8 DEF n, lines
  <2> DEFINE k == m + 1
  <2> HIDE DEF k
  <2> QED BY <2>1, PartCut DEF k
<1> HIDE DEF c
<1>10. ASSUME NEW i \in DOMAIN lines, lines[i].kind = "own" PROVE lines[i] \in ToSet(c)
  <2>1. i \notin 1..m
    BY <1>4, <1>7, <1>10
  <2>2. i \in (m + 1)..n
    BY <1>2, <1>8, <2>1
  <2> QED BY <1>9, <2>2
<1>11. ASSUME lines # <<>>, Dropped(texts, lines[1]) PROVE lines[1] \notin ToSet(c)
  <2>1. n >= 1
    <3>1. lines \in Seq(SheetLine)
      BY <1>1 DEF PartOf, lines
    <3> QED BY <1>2, <1>11, <3>1 DEF n
  <2>2. 1 \in 0..HeaderTop(lines) /\ \A i \in 1..1 : Dropped(texts, lines[i])
    BY <1>2, <1>5, <1>11, <2>1
  <2>3. 1 \in heads
    BY <2>2 DEF HeadOf
  <2>4. m >= 1
    BY <1>6, <1>8, <2>3
  <2>5. ASSUME NEW x \in (m + 1)..n, x \in DOMAIN lines PROVE lines[1] # lines[x]
    <3>1. 1 \in DOMAIN lines /\ 1 < x
      BY <1>2, <1>8, <2>1, <2>4
    <3>2. lines[1].at < lines[x].at
      BY <1>1, <2>5, <3>1 DEF PartOf, lines
    <3>3. lines[1].at \in Nat
      <4>1. lines \in Seq(SheetLine)
        BY <1>1 DEF PartOf, lines
      <4>2. lines[1] \in SheetLine
        BY <3>1, <4>1
      <4> QED BY <4>2, LineHas
    <3> QED BY <3>2, <3>3
  <2> QED BY <1>9, <2>5
<1>12. kept = c
  BY <1>3 DEF c
<1> QED
  BY <1>9, <1>10, <1>11, <1>12 DEF lines, kept

FooterSigned(lines, size) == size <= Len(lines) /\ \A i \in 0..(size - 1) : HasSignature(lines[Len(lines) - i])
EndingIn(texts, footer) == {p \in DOMAIN texts : EndsIn(texts[p], footer)}
RepeatedEnds(texts) ==
    {v \in (DOMAIN texts) \X (1..MaxBoilerplateLines) :
        /\ FooterSigned(texts[v[1]], v[2])
        /\ Cardinality(EndingIn(texts, Ending(texts[v[1]], v[2]))) >= Threshold(texts)}
LongestEnd(ends) == CHOOSE v \in ends : \A w \in ends : w[2] <= v[2]

LEMMA FooterIs ==
    ASSUME NEW texts
    PROVE  Footer(texts) = IF RepeatedEnds(texts) = {} THEN <<>>
                           ELSE Ending(texts[LongestEnd(RepeatedEnds(texts))[1]], LongestEnd(RepeatedEnds(texts))[2])
BY DEF Footer, FooterSigned, EndingIn, RepeatedEnds, LongestEnd

LEMMA LongestIn ==
    ASSUME NEW S, NEW m \in Nat, NEW ends \in SUBSET (S \X (1..m)), ends # {}
    PROVE  LongestEnd(ends) \in ends
<1> DEFINE sizes == {v[2] : v \in ends}
<1>1. sizes \in SUBSET (0..m) /\ sizes # {}
  <2>1. ASSUME NEW v \in ends PROVE v[2] \in 0..m
    OBVIOUS
  <2>2. PICK v \in ends : TRUE
    OBVIOUS
  <2>3. v[2] \in sizes
    OBVIOUS
  <2> QED BY <2>1, <2>3
<1>2. \A v \in ends : v[2] \in sizes
  OBVIOUS
<1>3. \A x \in sizes : \E v \in ends : x = v[2]
  OBVIOUS
<1> HIDE DEF sizes
<1>4. Max(sizes) \in sizes /\ \A y \in sizes : y <= Max(sizes)
  BY <1>1, LastOfNumbers
<1>5. PICK v \in ends : v[2] = Max(sizes)
  BY <1>3, <1>4
<1>6. \A w \in ends : w[2] <= v[2]
  BY <1>2, <1>4, <1>5
<1> QED
  BY <1>6 DEF LongestEnd

\* What ends two pages is text of neither.
LEMMA FooterSigns ==
    ASSUME SheetsTyped, NEW texts, Left(texts)
    PROVE  Footer(texts) \in Seq(SheetLine) /\ \A i \in DOMAIN Footer(texts) : Footer(texts)[i].kind # "own"
<1> DEFINE ends == RepeatedEnds(texts)
           v == LongestEnd(ends)
<1>1. CASE ends = {}
  <2>1. Footer(texts) = <<>>
    BY <1>1, FooterIs
  <2>2. <<>> \in Seq(SheetLine) /\ DOMAIN <<>> = {}
    OBVIOUS
  <2> QED BY <2>1, <2>2
<1>2. CASE ends # {}
  <2>1. Len(sheets) \in Nat /\ DOMAIN texts = 1..Len(sheets) /\ Len(texts) = Len(sheets)
    BY DEF SheetsTyped, Left
  <2>2. v \in ends
    <3>1. ends \in SUBSET ((DOMAIN texts) \X (1..MaxBoilerplateLines))
      BY DEF RepeatedEnds
    <3>2. MaxBoilerplateLines \in Nat
      BY ExtractionAssumption
    <3> HIDE DEF ends
    <3> QED BY <1>2, <3>1, <3>2, LongestIn
  <2> DEFINE q == v[1]
             size == v[2]
             F == Ending(texts[q], size)
             pages == EndingIn(texts, F)
  <2>3. /\ q \in 1..Len(sheets) /\ size \in Nat /\ size <= Len(texts[q])
        /\ Cardinality(pages) >= Threshold(texts)
    <3>1. v \in (DOMAIN texts) \X (1..MaxBoilerplateLines) /\ FooterSigned(texts[v[1]], v[2])
          /\ Cardinality(EndingIn(texts, Ending(texts[v[1]], v[2]))) >= Threshold(texts)
      BY <2>2 DEF RepeatedEnds
    <3> HIDE DEF v
    <3>2. v[1] \in 1..Len(sheets) /\ v[2] \in Nat
      <4>1. MaxBoilerplateLines \in Nat
        BY ExtractionAssumption
      <4> QED BY <2>1, <3>1, <4>1
    <3> QED BY <3>1, <3>2 DEF FooterSigned
  <2>4. Footer(texts) = F
    BY <1>2, FooterIs
  <2> HIDE DEF v, q, size, F
  <2>5. ASSUME NEW p \in 1..Len(sheets), size <= Len(texts[p]), NEW i \in 1..size
        PROVE  LET l == texts[p][Len(texts[p]) - size + i] IN
               /\ l \in SheetLine /\ l.page = p
               /\ FooterSignature(l) \in SheetLine /\ Ending(texts[p], size)[i] = FooterSignature(l)
    <3>1. Len(texts[p]) \in Nat /\ DOMAIN texts[p] = 1..Len(texts[p])
      BY DEF Left, PartOf
    <3> DEFINE j == Len(texts[p]) - size + i
               l == texts[p][j]
    <3>2. j \in DOMAIN texts[p]
      BY <2>3, <2>5, <3>1
    <3>3. Ending(texts[p], size)[i] = FooterSignature(l)
      BY DEF Ending
    <3> HIDE DEF j
    <3>4. l \in SheetLine /\ l.page = p
      BY <3>2, LeftLine
    <3> HIDE DEF l
    <3>5. FooterSignature(l) \in SheetLine
      BY <3>4, SignaturesOf
    <3> QED BY <3>3, <3>4, <3>5 DEF l, j
  <2>6. F \in [1..size -> SheetLine]
    <3>1. \A i \in 1..size : Ending(texts[q], size)[i] \in SheetLine
      BY <2>3, <2>5
    <3>2. Ending(texts[q], size) = [i \in 1..size |-> Ending(texts[q], size)[i]]
      BY DEF Ending
    <3> QED BY <3>1, <3>2 DEF F
  <2>7. F \in Seq(SheetLine) /\ Len(F) = size /\ DOMAIN F = 1..size
    BY <2>3, <2>6
  <2>8. ASSUME NEW i \in 1..size, F[i].kind = "own" PROVE FALSE
    <3>1. ASSUME NEW p \in pages PROVE p = F[i].page
      <4>1. p \in 1..Len(sheets) /\ size <= Len(texts[p]) /\ Ending(texts[p], size) = F
        <5>1. p \in 1..Len(sheets) /\ EndsIn(texts[p], F)
          BY <2>1 DEF EndingIn
        <5>2. Len(texts[p]) >= size /\ Ending(texts[p], size) = F /\ Len(texts[p]) \in Nat
          BY <2>7, <5>1 DEF EndsIn, Left, PartOf
        <5> QED BY <2>3, <5>1, <5>2
      <4> DEFINE l == texts[p][Len(texts[p]) - size + i]
      <4>2. l \in SheetLine /\ l.page = p /\ F[i] = FooterSignature(l)
        BY <2>5, <4>1
      <4> HIDE DEF l
      <4>3. l.kind = "own"
        BY <2>8, <4>2, SignaturesOf
      <4>4. F[i] = l
        BY <4>2, <4>3, SignaturesOf
      <4> QED BY <4>2, <4>4
    <3>2. pages \in SUBSET (1..Len(sheets)) /\ pages \subseteq {F[i].page}
      BY <2>1, <3>1 DEF EndingIn
    <3> HIDE DEF pages
    <3>3. IsFiniteSet(pages)
      <4>1. IsFiniteSet(1..Len(sheets))
        BY <2>1, FS_Interval
      <4> QED BY <3>2, <4>1, FS_Subset
    <3>4. Cardinality(pages) <= 1 /\ Cardinality(pages) \in Nat
      BY <3>2, <3>3, AtMostOne, FS_CardinalityType
    <3>5. Threshold(texts) \in Nat /\ Threshold(texts) >= 2
      BY <2>1, ThresholdIs
    <3> QED BY <2>3, <3>4, <3>5
  <2> QED BY <2>4, <2>7, <2>8
<1> QED
  BY <1>1, <1>2

-----------------------------------------------------------------------------

\* The footer is matched from the end of a page.
LastSigned(lines, n) == Max({0} \cup {i \in 1..n : HasSignature(lines[i])})
MatchStep(n, signature, lines) ==
    IF n >= 0 /\ LastSigned(lines, n) > 0 /\ FooterSignature(lines[LastSigned(lines, n)]) = signature
    THEN LastSigned(lines, n) - 1 ELSE -1
Unmatched(lines, footer) == FoldLeft(LAMBDA x, y : MatchStep(x, y, lines), Len(lines), Reverse(footer))

LEMMA FooterlessIs ==
    ASSUME NEW lines, NEW footer
    PROVE  WithoutFooter(lines, footer) =
             IF footer = <<>> \/ Len(lines) < Len(footer) \/ Unmatched(lines, footer) < 0
             THEN lines ELSE SubSeq(lines, 1, Unmatched(lines, footer))
BY DEF WithoutFooter, Unmatched, MatchStep, LastSigned, FoldLeft, MapThenFoldSet

\* What a fold of such matches is.
MatchFoldKept(acc, elements, lines) ==
    Len(lines) \in acc /\ \A a \in acc, e \in elements : MatchStep(a, e, lines) \in acc
MatchFoldRun(h, n, seq, total, acc, lines) ==
    /\ h \in [0..n -> acc] /\ h[0] = Len(lines) /\ h[n] = total
    /\ \A i \in 1..n : h[i] = MatchStep(h[i - 1], seq[i], lines)

LEMMA MatchFold ==
    ASSUME NEW n \in Nat, NEW elements, NEW acc, NEW lines, NEW seq \in [1..n -> elements],
           MatchFoldKept(acc, elements, lines)
    PROVE  \E h : MatchFoldRun(h, n, seq, FoldLeft(LAMBDA x, y : MatchStep(x, y, lines), Len(lines), seq), acc, lines)
<1> DEFINE op == [p \in acc \X elements |-> MatchStep(p[1], p[2], lines)]
           Body(g) == g = [s \in SUBSET (1..n) |->
                              IF s = {} THEN Len(lines) ELSE MatchStep(g[s \ {Max(s)}], seq[Max(s)], lines)]
           total == FoldLeft(LAMBDA x, y : MatchStep(x, y, lines), Len(lines), seq)
<1>1. total = (CHOOSE g : Body(g))[1..n]
  <2>1. DOMAIN seq = 1..n
    OBVIOUS
  <2> QED BY <2>1 DEF FoldLeft, MapThenFoldSet
<1>2. op \in [acc \X elements -> acc]
  BY DEF MatchFoldKept
<1>3. PICK w : FoldTable(w, op, Len(lines), seq, acc, n)
  <2> HIDE DEF op
  <2> QED BY <1>2, FoldExists DEF MatchFoldKept
<1>4. \A s \in SUBSET (1..n) :
          w[s] = IF s = {} THEN Len(lines) ELSE MatchStep(w[s \ {Max(s)}], seq[Max(s)], lines)
  <2>1. ASSUME NEW s \in SUBSET (1..n), s # {}
        PROVE  w[s] = MatchStep(w[s \ {Max(s)}], seq[Max(s)], lines)
    <3>1. Max(s) \in 1..n
      BY <2>1, LastOfSome
    <3>2. w[s \ {Max(s)}] \in acc /\ seq[Max(s)] \in elements
      BY <1>3, <3>1 DEF FoldTable
    <3>3. w[s] = op[<<w[s \ {Max(s)}], seq[Max(s)]>>]
      BY <1>3, <2>1 DEF FoldTable, FoldStep
    <3> QED BY <3>2, <3>3
  <2>2. w[{}] = Len(lines)
    BY <1>3 DEF FoldTable, FoldStep
  <2> QED BY <2>1, <2>2
<1>5. Body(w)
  BY <1>3, <1>4 DEF FoldTable
<1> HIDE DEF Body
<1>6. PICK g : Body(g) /\ total = g[1..n]
  BY <1>1, <1>5
<1>7. \A s \in SUBSET (1..n) : g[s] = w[s]
  <2>1. \A s \in SUBSET (1..n) :
            g[s] = IF s = {} THEN Len(lines) ELSE MatchStep(g[s \ {Max(s)}], seq[Max(s)], lines)
    BY <1>6 DEF Body
  <2>2. HandOn(g, w, n)
    BY <1>4, <2>1 DEF HandOn
  <2> QED BY <2>2, SameTable, SMTT(30)
<1>8. PICK h \in [0..n -> acc] :
          h[0] = Len(lines) /\ h[n] = w[1..n] /\ \A i \in 1..n : h[i] = op[<<h[i - 1], seq[i]>>]
  <2> DEFINE base == Len(lines)
  <2>1. FoldTable(w, op, base, seq, acc, n)
    BY <1>3
  <2> HIDE DEF op, base
  <2>2. \E h \in [0..n -> acc] :
          h[0] = base /\ h[n] = w[1..n] /\ \A i \in 1..n : h[i] = op[<<h[i - 1], seq[i]>>]
    BY <2>1, FoldAlong
  <2> QED BY <2>2 DEF base
<1>9. ASSUME NEW i \in 1..n PROVE h[i] = MatchStep(h[i - 1], seq[i], lines)
  <2>1. h[i - 1] \in acc /\ seq[i] \in elements
    BY <1>8
  <2> QED BY <1>8, <2>1
<1>10. h[n] = total
  <2>1. 1..n \in SUBSET (1..n)
    OBVIOUS
  <2> QED BY <1>6, <1>7, <1>8, <2>1
<1> HIDE DEF total
<1>11. MatchFoldRun(h, n, seq, total, acc, lines)
  BY <1>8, <1>9, <1>10 DEF MatchFoldRun
<1> QED
  BY <1>11 DEF total

\* Up to place n of a page there is something with a signature, and nothing after it.
LEMMA LastSignedIs ==
    ASSUME NEW lines, NEW n \in Nat
    PROVE  /\ LastSigned(lines, n) \in 0..n
           /\ \A i \in 1..n : HasSignature(lines[i]) => i <= LastSigned(lines, n)
<1> DEFINE S == {0} \cup {i \in 1..n : HasSignature(lines[i])}
<1>1. S \in SUBSET (0..n) /\ S # {}
  OBVIOUS
<1>2. \A i \in 1..n : HasSignature(lines[i]) => i \in S
  OBVIOUS
<1> HIDE DEF S
<1>3. Max(S) \in S /\ \A y \in S : y <= Max(S)
  BY <1>1, LastOfNumbers
<1>4. Max(S) \in 0..n /\ \A i \in 1..n : HasSignature(lines[i]) => i <= Max(S)
  BY <1>1, <1>2, <1>3
<1> QED
  BY <1>4 DEF LastSigned, S

LEMMA MatchStepKeeps ==
    ASSUME NEW lines, Len(lines) \in Nat, NEW n \in (-1)..Len(lines), NEW signature
    PROVE  MatchStep(n, signature, lines) \in (-1)..Len(lines)
<1> DEFINE z == LastSigned(lines, n)
<1>1. CASE n >= 0
  <2>1. n \in Nat
    BY <1>1
  <2>2. z \in 0..n
    BY <2>1, LastSignedIs
  <2>3. MatchStep(n, signature, lines) \in {z - 1, -1}
    BY DEF MatchStep
  <2> HIDE DEF z
  <2> QED BY <2>1, <2>2, <2>3
<1>2. CASE ~(n >= 0)
  BY <1>2 DEF MatchStep
<1> QED
  BY <1>1, <1>2

\* Past place n no text of its own was taken.
NoneOwn(lines, n) == n >= 0 => \A i \in (n + 1)..Len(lines) : lines[i].kind # "own"

LEMMA MatchStepHolds ==
    ASSUME NEW lines \in Seq(SheetLine), NEW n \in (-1)..Len(lines), NoneOwn(lines, n),
           NEW signature \in SheetLine, signature.kind # "own"
    PROVE  NoneOwn(lines, MatchStep(n, signature, lines))
<1> DEFINE z == LastSigned(lines, n)
           m == MatchStep(n, signature, lines)
<1>1. Len(lines) \in Nat /\ DOMAIN lines = 1..Len(lines)
  OBVIOUS
<1>2. CASE n >= 0 /\ z > 0 /\ FooterSignature(lines[z]) = signature
  <2>1. n \in Nat /\ n <= Len(lines) /\ m = z - 1
    BY <1>2 DEF MatchStep
  <2>2. z \in 0..n /\ \A i \in 1..n : HasSignature(lines[i]) => i <= z
    BY <2>1, LastSignedIs
  <2>3. z \in DOMAIN lines
    BY <1>1, <1>2, <2>1, <2>2
  <2> HIDE DEF z
  <2>4. lines[z] \in SheetLine
    BY <2>3
  <2>5. lines[z].kind # "own"
    BY <1>2, <2>4, SignaturesOf
  <2>6. ASSUME NEW i \in z..Len(lines) PROVE lines[i].kind # "own"
    <3>1. CASE i = z
      BY <2>5, <3>1
    <3>2. CASE i \in (z + 1)..n
      <4>1. ~HasSignature(lines[i])
        BY <2>2, <3>2
      <4> QED BY <4>1 DEF HasSignature
    <3>3. CASE i \in (n + 1)..Len(lines)
      BY <1>2, <3>3 DEF NoneOwn
    <3>4. i = z \/ i \in (z + 1)..n \/ i \in (n + 1)..Len(lines)
      BY <1>1, <2>1, <2>2
    <3> QED BY <3>1, <3>2, <3>3, <3>4
  <2>7. m + 1 = z
    BY <2>1, <2>2
  <2> HIDE DEF m
  <2>8. NoneOwn(lines, m)
    BY <2>6, <2>7 DEF NoneOwn
  <2> QED BY <2>8 DEF m
<1>3. CASE ~(n >= 0 /\ z > 0 /\ FooterSignature(lines[z]) = signature)
  <2>1. m = -1
    BY <1>3 DEF MatchStep
  <2> QED BY <2>1 DEF NoneOwn
<1> QED
  BY <1>2, <1>3

LEMMA UnmatchedIs ==
    ASSUME NEW lines \in Seq(SheetLine), NEW footer \in Seq(SheetLine),
           \A i \in DOMAIN footer : footer[i].kind # "own"
    PROVE  Unmatched(lines, footer) \in (-1)..Len(lines) /\ NoneOwn(lines, Unmatched(lines, footer))
<1> DEFINE n == Len(footer)
           back == Reverse(footer)
           acc == (-1)..Len(lines)
           total == Unmatched(lines, footer)
<1>1. n \in Nat /\ DOMAIN footer = 1..n /\ Len(lines) \in Nat
  OBVIOUS
<1>2. back \in [1..n -> SheetLine] /\ \A i \in 1..n : back[i].kind # "own"
  <2>1. back = [i \in 1..n |-> footer[(n - i) + 1]]
    BY DEF Reverse
  <2>2. \A i \in 1..n : (n - i) + 1 \in 1..n
    BY <1>1
  <2> HIDE DEF n, back
  <2>3. \A i \in 1..n : footer[(n - i) + 1] \in SheetLine /\ footer[(n - i) + 1].kind # "own"
    <3>1. \A j \in 1..n : footer[j] \in SheetLine /\ footer[j].kind # "own"
      BY <1>1
    <3> QED BY <2>2, <3>1
  <2> QED BY <2>1, <2>3
<1> HIDE DEF n, back, total
<1>3. MatchFoldKept(acc, SheetLine, lines)
  <2>1. Len(lines) \in acc
    BY <1>1
  <2>2. \A a \in acc, e \in SheetLine : MatchStep(a, e, lines) \in acc
    BY <1>1, MatchStepKeeps
  <2> QED BY <2>1, <2>2 DEF MatchFoldKept
<1> HIDE DEF acc
<1>4. PICK h : MatchFoldRun(h, n, back, total, acc, lines)
  <2>1. \E h : MatchFoldRun(h, n, back, FoldLeft(LAMBDA x, y : MatchStep(x, y, lines), Len(lines), back), acc, lines)
    BY <1>1, <1>2, <1>3, MatchFold
  <2> QED BY <2>1 DEF total, Unmatched, back
<1>5. /\ h \in [0..n -> acc] /\ h[0] = Len(lines) /\ h[n] = total
      /\ \A i \in 1..n : h[i] = MatchStep(h[i - 1], back[i], lines)
  BY <1>4 DEF MatchFoldRun
<1> DEFINE Good == {i \in 0..n : NoneOwn(lines, h[i])}
<1>6. 0 \in Good
  <2>1. NoneOwn(lines, Len(lines))
    BY <1>1 DEF NoneOwn
  <2> QED BY <1>1, <1>5, <2>1
<1>7. ASSUME NEW i \in 1..n, i - 1 \in Good PROVE i \in Good
  <2>1. i - 1 \in 0..n /\ i \in 0..n
    BY <1>1
  <2>2. h[i - 1] \in (-1)..Len(lines) /\ NoneOwn(lines, h[i - 1]) /\ back[i] \in SheetLine /\ back[i].kind # "own"
    BY <1>2, <1>5, <1>7, <2>1 DEF acc
  <2>3. NoneOwn(lines, MatchStep(h[i - 1], back[i], lines))
    BY <2>2, MatchStepHolds
  <2> QED BY <1>5, <2>1, <2>3
<1>8. n \in Good
  <2>1. HandedOn(Good, n)
    BY <1>6, <1>7 DEF HandedOn
  <2>2. 0..n \subseteq Good /\ n \in 0..n
    <3> HIDE DEF Good
    <3> QED BY <1>1, <2>1, Along
  <2> QED BY <2>2
<1>9. total \in acc /\ NoneOwn(lines, total)
  <2>1. n \in 0..n
    BY <1>1
  <2> QED BY <1>5, <1>8, <2>1
<1> QED
  BY <1>9 DEF total, acc

\* A page keeps what comes before its footer, and all text of its own.
LEMMA FooterTaken ==
    ASSUME NEW lines, NEW sheet, PartOf(lines, sheet), NEW footer \in Seq(SheetLine),
           \A i \in DOMAIN footer : footer[i].kind # "own"
    PROVE  LET kept == WithoutFooter(lines, footer) IN
           /\ PartOf(kept, sheet) /\ ToSet(kept) \subseteq ToSet(lines)
           /\ \A i \in DOMAIN lines : lines[i].kind = "own" => lines[i] \in ToSet(kept)
<1> DEFINE m == Unmatched(lines, footer)
           kept == WithoutFooter(lines, footer)
           n == Len(lines)
<1>1. lines \in Seq(SheetLine) /\ n \in Nat /\ DOMAIN lines = 1..n
  BY DEF PartOf
<1>2. kept = IF footer = <<>> \/ n < Len(footer) \/ m < 0 THEN lines ELSE SubSeq(lines, 1, m)
  BY FooterlessIs
<1>3. m \in (-1)..n /\ NoneOwn(lines, m)
  BY <1>1, UnmatchedIs
<1> HIDE DEF m, kept
<1>4. CASE kept = lines
  <2>1. \A i \in DOMAIN lines : lines[i] \in ToSet(lines)
    BY DEF ToSet
  <2> QED BY <1>4, <2>1 DEF kept
<1>5. CASE ~(m < 0) /\ kept = SubSeq(lines, 1, m)
  <2>1. m \in Nat /\ m <= n /\ 1 \in 1..(n + 1) /\ m \in 0..n /\ 1 <= m + 1
    BY <1>1, <1>3, <1>5
  <2>2. /\ PartOf(SubSeq(lines, 1, m), sheet)
        /\ \A x \in 1..m : lines[x] \in ToSet(SubSeq(lines, 1, m))
        /\ \A l \in ToSet(SubSeq(lines, 1, m)) : \E x \in 1..m : x \in DOMAIN lines /\ l = lines[x]
    BY <2>1, PartCut
  <2>3. ASSUME NEW i \in DOMAIN lines, lines[i].kind = "own" PROVE lines[i] \in ToSet(kept)
    <3>1. ~(i \in (m + 1)..n)
      BY <1>3, <2>1, <2>3 DEF NoneOwn
    <3>2. i \in 1..m
      BY <1>1, <2>1, <3>1
    <3> QED BY <1>5, <2>2, <3>2
  <2>4. ToSet(kept) \subseteq ToSet(lines)
    <3>1. \A x \in DOMAIN lines : lines[x] \in ToSet(lines)
      BY DEF ToSet
    <3> QED BY <1>5, <2>2, <3>1
  <2> QED BY <1>5, <2>2, <2>3, <2>4 DEF kept
<1> QED
  BY <1>2, <1>4, <1>5

Titled == {p \in DOMAIN sheets : sheets[p] # <<>> /\ sheets[p][1].kind = "running"}
Headless == [p \in DOMAIN sheets |-> WithoutKnownHeader(sheets[p])]

LEMMA SheetsAre ==
    ASSUME SheetsTyped
    PROVE  /\ Len(sheets) \in Nat /\ DOMAIN sheets = 1..Len(sheets) /\ Left(sheets) /\ Left(Headless)
           /\ \A p \in 1..Len(sheets) : Sheet(sheets[p], p) /\ DOMAIN sheets[p] = 1..Len(sheets[p])
<1>1. sheets \in Seq(Seq(SheetLine)) /\ \A p \in DOMAIN sheets : Sheet(sheets[p], p)
  BY DEF SheetsTyped
<1>2. Len(sheets) \in Nat /\ DOMAIN sheets = 1..Len(sheets)
  BY <1>1
<1>3. ASSUME NEW p \in 1..Len(sheets) PROVE Sheet(sheets[p], p) /\ sheets[p] \in Seq(SheetLine)
  <2>1. Sheet(sheets[p], p)
    BY <1>1, <1>2
  <2> QED BY <2>1 DEF Sheet
<1>4. \A p \in 1..Len(sheets) : PartOf(sheets[p], sheets[p])
  BY <1>3, PartAll
<1>5. Left(sheets)
  BY <1>2, <1>4 DEF Left
<1>6. DOMAIN Headless = 1..Len(sheets) /\ Len(Headless) = Len(sheets)
  <2>1. Headless = [p \in 1..Len(sheets) |-> WithoutKnownHeader(sheets[p])]
    BY <1>2 DEF Headless
  <2> QED BY <1>2, <2>1
<1>7. \A p \in 1..Len(sheets) : PartOf(WithoutKnownHeader(sheets[p]), sheets[p])
  BY <1>3, KnownHeader
<1>8. \A p \in 1..Len(sheets) : Headless[p] = WithoutKnownHeader(sheets[p])
  BY <1>2 DEF Headless
<1>9. Left(Headless)
  BY <1>6, <1>7, <1>8 DEF Left
<1> QED
  BY <1>2, <1>3, <1>5, <1>9

LEMMA TitledCount ==
    ASSUME SheetsTyped
    PROVE  /\ Titled \in SUBSET (1..Len(sheets)) /\ IsFiniteSet(Titled) /\ Cardinality(Titled) \in Nat
           /\ Cardinality(Titled) <= Len(sheets) /\ Threshold(sheets) \in Nat /\ Threshold(sheets) >= 2
<1>1. Len(sheets) \in Nat /\ DOMAIN sheets = 1..Len(sheets)
  BY SheetsAre
<1>2. Titled \in SUBSET (1..Len(sheets))
  BY <1>1 DEF Titled
<1>3. IsFiniteSet(1..Len(sheets)) /\ Cardinality(1..Len(sheets)) = Len(sheets)
  BY <1>1, Segment
<1>4. IsFiniteSet(Titled) /\ Cardinality(Titled) <= Len(sheets)
  BY <1>2, <1>3, FS_Subset
<1> QED
  BY <1>1, <1>2, <1>4, FS_CardinalityType, ThresholdIs

\* A title that opens enough pages is what their headers have in common.
LEMMA TitleDropped ==
    ASSUME SheetsTyped, Cardinality(Titled) >= Threshold(sheets), NEW p \in Titled
    PROVE  Headless[p] # <<>> /\ Headless[p][1] = sheets[p][1] /\ Dropped(Headless, Headless[p][1])
<1> DEFINE title == [kind |-> "running", page |-> 0, at |-> 0]
<1>1. /\ Left(Headless) /\ Titled \in SUBSET (1..Len(sheets)) /\ IsFiniteSet(Titled)
      /\ Len(sheets) \in Nat /\ DOMAIN sheets = 1..Len(sheets)
  BY SheetsAre, TitledCount
<1>2. ASSUME NEW q \in Titled
      PROVE  /\ Headless[q] # <<>> /\ Headless[q][1] = sheets[q][1] /\ HeaderSignature(Headless[q][1]) = title
             /\ 1 \in 1..HeaderTop(Headless[q])
  <2>1. q \in 1..Len(sheets) /\ sheets[q] # <<>> /\ sheets[q][1].kind = "running"
    BY <1>1 DEF Titled
  <2>2. Sheet(sheets[q], q) /\ Headless[q] = WithoutKnownHeader(sheets[q])
    BY <1>1, <2>1, SheetsAre DEF Headless
  <2>3. Headless[q] # <<>> /\ Headless[q][1] = sheets[q][1]
    BY <2>1, <2>2, KnownHeader
  <2>4. Headless[q] \in Seq(SheetLine)
    BY <1>1, <2>1 DEF Left, PartOf
  <2>5. Len(Headless[q]) \in Nat /\ Len(Headless[q]) >= 1 /\ Headless[q][1] \in SheetLine
    BY <2>3, <2>4
  <2>6. 1 \in 1..HeaderTop(Headless[q])
    BY <2>5, HeaderTopIs
  <2> DEFINE l == Headless[q][1]
  <2>7. l \in SheetLine /\ l.kind = "running"
    BY <2>1, <2>3, <2>5
  <2> HIDE DEF l
  <2>8. HeaderSignature(l) = title
    BY <2>7, SignaturesOf
  <2> QED BY <2>3, <2>6, <2>8 DEF l
<1> DEFINE l == Headless[p][1]
           pages == Showing(Headless, l)
<1>3. HeaderSignature(l) = title
  BY <1>2
<1>4. Titled \subseteq pages
  <2>1. ASSUME NEW q \in Titled PROVE q \in Showing(Headless, l)
    <3>1. q \in DOMAIN Headless
      BY <1>1 DEF Left
    <3>2. Shown(Headless[q], l)
      BY <1>2, <1>3 DEF Shown
    <3> QED BY <3>1, <3>2 DEF Showing
  <2> QED BY <2>1
<1>5. IsFiniteSet(pages)
  <2>1. pages \in SUBSET (1..Len(sheets))
    BY <1>1 DEF Showing, Left
  <2>2. IsFiniteSet(1..Len(sheets))
    BY <1>1, FS_Interval
  <2> HIDE DEF pages
  <2> QED BY <2>1, <2>2, FS_Subset
<1> HIDE DEF pages
<1>6. Cardinality(Titled) <= Cardinality(pages) /\ Cardinality(pages) \in Nat /\ Cardinality(Titled) \in Nat
  BY <1>1, <1>4, <1>5, FS_Subset, FS_CardinalityType
<1>7. Threshold(Headless) = Threshold(sheets) /\ Threshold(sheets) \in Nat
  <2>1. Len(Headless) = Len(sheets)
    BY <1>1 DEF Left
  <2> QED BY <2>1, TitledCount DEF Threshold
<1>8. Cardinality(pages) >= Threshold(Headless)
  BY <1>6, <1>7
<1>9. Dropped(Headless, l)
  BY <1>8 DEF Dropped, pages
<1> QED
  BY <1>2, <1>9

\* What is left of page p: some of its lines in order, all text of its own outside the known
\* header, and no title that opens most pages.
Clean(kept, p) ==
    /\ PartOf(kept, sheets[p])
    /\ \A i \in DOMAIN sheets[p] : sheets[p][i].kind = "own" => sheets[p][i] \in ToSet(kept) \/ Between(sheets[p], i)
    /\ Cardinality(Titled) >= Threshold(sheets) /\ p \in Titled => sheets[p][1] \notin ToSet(kept)

LEMMA FewSheets == ASSUME SheetsTyped, Len(sheets) < 2, NEW p \in 1..Len(sheets) PROVE Clean(sheets[p], p)
<1>1. PartOf(sheets[p], sheets[p]) /\ Len(sheets) \in Nat
  BY SheetsAre DEF Left
<1>2. \A i \in DOMAIN sheets[p] : sheets[p][i] \in ToSet(sheets[p])
  BY DEF ToSet
<1>3. ~(Cardinality(Titled) >= Threshold(sheets))
  BY <1>1, TitledCount
<1> QED
  BY <1>1, <1>2, <1>3 DEF Clean

LEMMA ManySheets ==
    ASSUME SheetsTyped, NEW p \in 1..Len(sheets)
    PROVE  Clean(WithoutFooter(WithoutHeaderLines(Headless)[p], Footer(WithoutHeaderLines(Headless))), p)
<1> DEFINE texts == WithoutHeaderLines(Headless)
           footer == Footer(texts)
           kept == WithoutFooter(texts[p], footer)
<1>1. /\ Left(Headless) /\ Len(sheets) \in Nat /\ DOMAIN sheets = 1..Len(sheets)
      /\ Sheet(sheets[p], p) /\ Headless[p] = WithoutKnownHeader(sheets[p])
  BY SheetsAre DEF Headless
<1>2. ASSUME NEW q \in 1..Len(sheets)
      PROVE  /\ PartOf(texts[q], sheets[q])
             /\ \A i \in DOMAIN Headless[q] : Headless[q][i].kind = "own" => Headless[q][i] \in ToSet(texts[q])
             /\ Headless[q] # <<>> /\ Dropped(Headless, Headless[q][1]) => Headless[q][1] \notin ToSet(texts[q])
  BY <1>1, HeaderTaken
<1>3. Left(texts)
  <2>1. DOMAIN Headless = 1..Len(sheets)
    BY <1>1 DEF Left
  <2>2. DOMAIN texts = 1..Len(sheets) /\ Len(texts) = Len(sheets)
    <3>1. DOMAIN texts = DOMAIN Headless
      BY DEF WithoutHeaderLines
    <3>2. texts = [q \in 1..Len(sheets) |-> texts[q]]
      BY <2>1 DEF WithoutHeaderLines
    <3> HIDE DEF texts
    <3> QED BY <1>1, <2>1, <3>1, <3>2
  <2> QED BY <1>2, <2>2 DEF Left
<1> HIDE DEF texts
<1>4. footer \in Seq(SheetLine) /\ \A i \in DOMAIN footer : footer[i].kind # "own"
  BY <1>3, FooterSigns
<1> HIDE DEF footer
<1>5. /\ PartOf(kept, sheets[p]) /\ ToSet(kept) \subseteq ToSet(texts[p])
      /\ \A i \in DOMAIN texts[p] : texts[p][i].kind = "own" => texts[p][i] \in ToSet(kept)
  <2> DEFINE lines == texts[p]
  <2>1. PartOf(lines, sheets[p])
    BY <1>2
  <2> HIDE DEF lines
  <2>2. /\ PartOf(WithoutFooter(lines, footer), sheets[p]) /\ ToSet(WithoutFooter(lines, footer)) \subseteq ToSet(lines)
        /\ \A i \in DOMAIN lines : lines[i].kind = "own" => lines[i] \in ToSet(WithoutFooter(lines, footer))
    BY <1>4, <2>1, FooterTaken
  <2> QED BY <2>2 DEF lines
<1> HIDE DEF kept
<1>6. ASSUME NEW i \in DOMAIN sheets[p], sheets[p][i].kind = "own", ~Between(sheets[p], i)
      PROVE  sheets[p][i] \in ToSet(kept)
  <2>1. sheets[p][i] \in ToSet(Headless[p])
    BY <1>1, <1>6, KnownHeader
  <2>2. PICK j \in DOMAIN Headless[p] : Headless[p][j] = sheets[p][i]
    BY <2>1 DEF ToSet
  <2>3. sheets[p][i] \in ToSet(texts[p])
    BY <1>2, <1>6, <2>2
  <2>4. PICK k \in DOMAIN texts[p] : texts[p][k] = sheets[p][i]
    BY <2>3 DEF ToSet
  <2> QED BY <1>5, <1>6, <2>4
<1>7. ASSUME Cardinality(Titled) >= Threshold(sheets), p \in Titled PROVE sheets[p][1] \notin ToSet(kept)
  <2>1. Headless[p] # <<>> /\ Headless[p][1] = sheets[p][1] /\ Dropped(Headless, Headless[p][1])
    BY <1>7, TitleDropped
  <2>2. sheets[p][1] \notin ToSet(texts[p])
    BY <1>2, <2>1
  <2> QED BY <1>5, <2>2
<1>8. Clean(kept, p)
  BY <1>5, <1>6, <1>7 DEF Clean
<1> QED
  BY <1>8 DEF kept, footer, texts

\* Running headers and footers are dropped and no text of its own with them.
LEMMA OwnTextIsKept == ASSUME SheetsTyped PROVE OwnTextStays
<1> DEFINE clean == Stripped(sheets)
<1>1. Len(sheets) \in Nat /\ DOMAIN sheets = 1..Len(sheets)
  BY SheetsAre
<1>2. DOMAIN clean = 1..Len(sheets) /\ Len(clean) = Len(sheets) /\ \A p \in 1..Len(sheets) : Clean(clean[p], p)
  <2>1. CASE Len(sheets) < 2
    <3>1. clean = sheets
      BY <2>1 DEF Stripped
    <3> QED BY <1>1, <2>1, <3>1, FewSheets
  <2>2. CASE ~(Len(sheets) < 2)
    <3> DEFINE C == WithoutHeaderLines(Headless)
               F == Footer(C)
    <3>1. clean = [p \in 1..Len(sheets) |-> WithoutFooter(C[p], F)]
      BY <1>1, <2>2 DEF Stripped, Headless
    <3>2. \A p \in 1..Len(sheets) : Clean(WithoutFooter(C[p], F), p)
      BY ManySheets
    <3> HIDE DEF C, F, clean
    <3> QED BY <1>1, <3>1, <3>2
  <2> QED BY <2>1, <2>2
<1> HIDE DEF clean
<1>3. ASSUME NEW p \in DOMAIN sheets
      PROVE  /\ ToSet(clean[p]) \subseteq ToSet(sheets[p])
             /\ \A i, j \in DOMAIN clean[p] : i < j => clean[p][i].at < clean[p][j].at
  <2>1. PartOf(clean[p], sheets[p])
    BY <1>1, <1>2 DEF Clean
  <2> QED BY <2>1 DEF PartOf, ToSet
<1>4. ASSUME NEW p \in DOMAIN sheets, NEW i \in DOMAIN sheets[p], sheets[p][i].kind = "own"
      PROVE  sheets[p][i] \in ToSet(clean[p]) \/
             \E a \in 1..(i - 1), b \in (i + 1)..Min({Len(sheets[p]), HeaderScanLimit}) :
                sheets[p][a].kind = "anchor" /\ sheets[p][b].kind = "anchor"
  BY <1>1, <1>2, <1>4 DEF Clean, Between
<1>5. Cardinality(Titled) >= Threshold(sheets) => \A p \in Titled : sheets[p][1] \notin ToSet(clean[p])
  BY <1>1, <1>2, TitledCount DEF Clean
<1> QED
  BY <1>2, <1>3, <1>4, <1>5 DEF OwnTextStays, clean, Titled

-----------------------------------------------------------------------------

LEMMA InitSheets == ExtractionInit => SheetsTyped
<1> SUFFICES ASSUME ExtractionInit PROVE SheetsTyped
  OBVIOUS
<1>1. sheets = <<>> /\ <<>> \in Seq(Seq(SheetLine)) /\ DOMAIN <<>> = {}
  BY DEF ExtractionInit
<1> QED
  BY <1>1 DEF SheetsTyped

LEMMA StepSheets == SheetsTyped /\ [ExtractionNext]_extractionVars => SheetsTyped'
<1> SUFFICES ASSUME SheetsTyped, [ExtractionNext]_extractionVars PROVE SheetsTyped'
  OBVIOUS
<1> DEFINE n == Len(sheets)
           Q == Seq(SheetLine)
<1>1. sheets \in Seq(Q) /\ n \in Nat /\ DOMAIN sheets = 1..n /\ \A p \in 1..n : Sheet(sheets[p], p)
  BY SheetsAre DEF SheetsTyped
<1>2. CASE UNCHANGED sheets
  BY <1>2 DEF SheetsTyped, Sheet
<1>3. CASE AddSheet
  <2>1. sheets' = Append(sheets, <<>>)
    BY <1>3 DEF AddSheet
  <2>2. <<>> \in Q /\ DOMAIN <<>> = {}
    OBVIOUS
  <2> HIDE DEF Q
  <2>3. sheets' \in Seq(Q) /\ DOMAIN sheets' = 1..(n + 1) /\ sheets'[n + 1] = <<>>
        /\ \A p \in 1..n : sheets'[p] = sheets[p]
    BY <1>1, <2>1, <2>2
  <2>4. ASSUME NEW p \in DOMAIN sheets' PROVE Sheet(sheets'[p], p)
    <3>1. p \in 1..n \/ p = n + 1
      BY <1>1, <2>3
    <3>2. Sheet(<<>>, p)
      BY <2>2 DEF Sheet, Q
    <3> QED BY <1>1, <2>3, <3>1, <3>2
  <2> QED BY <2>3, <2>4 DEF SheetsTyped, Sheet, Q
<1>4. CASE AddTextLine
  <2>1. PICK kind \in LineKinds :
          sheets' = [sheets EXCEPT ![n] = Append(sheets[n], [kind |-> kind, page |-> n, at |-> Len(sheets[n]) + 1])]
    BY <1>4 DEF AddTextLine
  <2>2. sheets # <<>>
    BY <1>4 DEF AddTextLine
  <2>3. n \in 1..n
    <3>1. n # 0
      BY <1>1, <2>2
    <3> HIDE DEF n
    <3> QED BY <1>1, <3>1
  <2> DEFINE lines == sheets[n]
             m == Len(lines)
             l == [kind |-> kind, page |-> n, at |-> m + 1]
             more == Append(lines, l)
  <2>4. Sheet(lines, n) /\ lines \in Seq(SheetLine) /\ m \in Nat /\ DOMAIN lines = 1..m
    <3>1. Sheet(lines, n)
      BY <1>1, <2>3
    <3> HIDE DEF n, lines
    <3> QED BY <3>1 DEF Sheet
  <2>5. l \in SheetLine /\ l.page = n /\ l.at = m + 1
    <3> HIDE DEF n, m
    <3> QED BY <1>1, <2>4 DEF SheetLine
  <2>6. sheets' = [sheets EXCEPT ![n] = more]
    BY <2>1
  <2> HIDE DEF l, lines, m
  <2>7. more \in Seq(SheetLine) /\ DOMAIN more = 1..(m + 1) /\ more[m + 1] = l /\ \A i \in 1..m : more[i] = lines[i]
    BY <2>4, <2>5 DEF m
  <2> HIDE DEF more
  <2>8. Sheet(more, n)
    <3>1. ASSUME NEW i \in 1..(m + 1) PROVE more[i].page = n /\ more[i].at = i
      <4>1. i = m + 1 \/ i \in 1..m
        BY <2>4
      <4> QED BY <2>4, <2>5, <2>7, <4>1 DEF Sheet
    <3> QED BY <2>7, <3>1 DEF Sheet
  <2>9. sheets' \in Seq(Q) /\ DOMAIN sheets' = 1..n /\ \A p \in 1..n : sheets'[p] = IF p = n THEN more ELSE sheets[p]
    <3>1. sheets \in [1..n -> Q] /\ more \in Q
      BY <1>1, <2>7
    <3> HIDE DEF n, Q
    <3>2. sheets' \in [1..n -> Q] /\ \A p \in 1..n : sheets'[p] = IF p = n THEN more ELSE sheets[p]
      BY <2>6, <3>1
    <3> QED BY <1>1, <3>2, IsSequence
  <2>10. \A p \in DOMAIN sheets' : Sheet(sheets'[p], p)
    BY <1>1, <2>8, <2>9
  <2> QED BY <2>9, <2>10 DEF SheetsTyped, Sheet, Q
<1> QED
  BY <1>2, <1>3, <1>4 DEF ExtractionNext, extractionVars, Open, ReadPage, Acquire, SaveLimit, SetLimit, Recognise, Release

\* Whatever pages a document has, what is dropped as a running header or footer is no text of
\* one page only, unless it lies within the known header; the rest stays in order, and a title
\* that opens most pages goes.
THEOREM OwnTextAlwaysStays == ExtractionInit /\ [][ExtractionNext]_extractionVars => []OwnTextStays
<1>1. SheetsTyped => OwnTextStays
  BY OwnTextIsKept
<1> QED
  BY <1>1, InitSheets, StepSheets, PTL
=============================================================================
