----------------------------- MODULE Flattening -----------------------------
(***************************************************************************)
(* What FlattenSeq of SequencesExt does, for sequences of every length:    *)
(* it is defined by recursion, so each fact is shown by induction.  The    *)
(* induction is one over a set of numbers, which every prover can use.     *)
(***************************************************************************)
EXTENDS SequencesExt, WellFoundedInduction, TLAPS

Smaller == {ss \in Nat \X Nat : ss[1] < ss[2]}

\* A set of numbers that is not empty has a least one.
LEMMA LeastNat ==
  ASSUME NEW T, T \subseteq Nat, T # {}
  PROVE  \E n \in T : \A m \in T : n <= m
<1>1. IsWellFoundedOn(Smaller, Nat) BY NatLessThanWellFounded DEF OpToRel, Smaller
<1>2. PICK n \in T : \A m \in T : <<m, n>> \notin Smaller BY <1>1, WFMin
<1>3. ASSUME NEW m \in T PROVE n <= m
  <2>1. <<m, n>> \in Nat \X Nat /\ <<m, n>> \notin Smaller BY <1>2
  <2>. QED BY <2>1 DEF Smaller
<1>. QED BY <1>3

\* Induction: a set with 0 and each successor has every number.
LEMMA SetInduction ==
  ASSUME NEW T, 0 \in T, \A n \in Nat : n \in T => n + 1 \in T
  PROVE  Nat \subseteq T
<1>. SUFFICES ASSUME ~(Nat \subseteq T) PROVE FALSE  OBVIOUS
<1>1. Nat \ T \subseteq Nat /\ Nat \ T # {} OBVIOUS
<1>2. PICK n \in Nat \ T : \A m \in Nat \ T : n <= m BY <1>1, LeastNat
<1>3. n # 0 OBVIOUS
<1>4. n - 1 \in Nat /\ n - 1 \in T BY <1>2, <1>3
<1>. QED BY <1>2, <1>4

----------------------------------------------------------------------------

\* The recursion of FlattenSeq, over the first n sequences.
Recursion(seqs, n, f) ==
  f = [i \in 1..n |-> IF i = 1 THEN seqs[i] ELSE f[i - 1] \o seqs[i]]

\* There is a function that satisfies it.
LEMMA RecursionExists ==
  ASSUME NEW seqs, NEW n \in Nat
  PROVE  \E f : Recursion(seqs, n, f)
<1>. DEFINE T == {k \in Nat : \E f : Recursion(seqs, k, f)}
<1>1. 0 \in T
  <2>1. Recursion(seqs, 0, [i \in 1..0 |-> 0]) BY DEF Recursion
  <2>. QED BY <2>1
<1>2. ASSUME NEW k \in Nat, k \in T PROVE k + 1 \in T
  <2>1. PICK f : Recursion(seqs, k, f) BY <1>2
  <2>. DEFINE g == [i \in 1..(k + 1) |->
                      IF i <= k THEN f[i]
                      ELSE IF i = 1 THEN seqs[i] ELSE f[i - 1] \o seqs[i]]
  <2>2. ASSUME NEW i \in 1..(k + 1)
        PROVE  g[i] = IF i = 1 THEN seqs[i] ELSE g[i - 1] \o seqs[i]
    <3>1. i # 1 => i - 1 \in 1..(k + 1) /\ i - 1 <= k OBVIOUS
    <3>2. i # 1 => g[i - 1] = f[i - 1] BY <3>1
    <3>3. i <= k => i \in 1..k OBVIOUS
    <3>4. i <= k => f[i] = IF i = 1 THEN seqs[i] ELSE f[i - 1] \o seqs[i]
      BY <2>1, <3>3 DEF Recursion
    <3>. QED BY <3>2, <3>4
  <2>3. g = [i \in 1..(k + 1) |-> IF i = 1 THEN seqs[i] ELSE g[i - 1] \o seqs[i]]
    BY <2>2
  <2>4. Recursion(seqs, k + 1, g) BY <2>3 DEF Recursion
  <2>. QED BY <2>4
<1>. HIDE DEF T
<1>3. Nat \subseteq T BY <1>1, <1>2, SetInduction
<1>. QED BY <1>3 DEF T

\* And it looks at the first sequences only.
LEMMA RecursionUnique ==
  ASSUME NEW r, NEW s, NEW f, NEW g, NEW m \in Nat, NEW n \in Nat, m <= n,
         Recursion(r, m, f), Recursion(s, n, g), \A i \in 1..m : r[i] = s[i]
  PROVE  \A i \in 1..m : f[i] = g[i]
<1>. DEFINE T == {k \in Nat : k \in 1..m => f[k] = g[k]}
<1>1. 0 \in T OBVIOUS
<1>2. ASSUME NEW k \in Nat, k \in T PROVE k + 1 \in T
  <2>. SUFFICES ASSUME k + 1 \in 1..m PROVE f[k + 1] = g[k + 1]  OBVIOUS
  <2>1. k + 1 \in 1..n /\ r[k + 1] = s[k + 1] /\ (k + 1) - 1 = k OBVIOUS
  <2>2. f[k + 1] = IF k + 1 = 1 THEN r[k + 1] ELSE f[(k + 1) - 1] \o r[k + 1]
    BY DEF Recursion
  <2>3. g[k + 1] = IF k + 1 = 1 THEN s[k + 1] ELSE g[(k + 1) - 1] \o s[k + 1]
    BY <2>1 DEF Recursion
  <2>4. k + 1 # 1 => f[k] = g[k] BY <1>2
  <2>. HIDE DEF T
  <2>. QED BY <2>1, <2>2, <2>3, <2>4
<1>. HIDE DEF T
<1>3. Nat \subseteq T BY <1>1, <1>2, SetInduction
<1>. QED BY <1>3 DEF T

LEMMA FlattenIsRecursive ==
  ASSUME NEW seqs, NEW f, Len(seqs) \in Nat \ {0}, Recursion(seqs, Len(seqs), f)
  PROVE  FlattenSeq(seqs) = f[Len(seqs)]
<1>. DEFINE n == Len(seqs)
            h == CHOOSE x : Recursion(seqs, n, x)
<1>1. Recursion(seqs, n, h) OBVIOUS
<1>2. FlattenSeq(seqs) = h[n] BY DEF FlattenSeq, Recursion
<1>3. n \in 1..n OBVIOUS
<1>. HIDE DEF h, n
<1>4. n \in Nat /\ Recursion(seqs, n, f) BY DEF n
<1>5. h[n] = f[n] BY <1>1, <1>3, <1>4, RecursionUnique
<1>. QED BY <1>2, <1>5 DEF n

----------------------------------------------------------------------------

\* Nothing flattens to nothing.
LEMMA FlattenEmpty == FlattenSeq(<<>>) = <<>>
BY DEF FlattenSeq

\* The sequences up to the k-th flatten to those before it and the k-th.
LEMMA FlattenNext ==
  ASSUME NEW S, NEW seqs \in Seq(Seq(S)), NEW k \in 1..Len(seqs)
  PROVE  FlattenSeq(SubSeq(seqs, 1, k)) = FlattenSeq(SubSeq(seqs, 1, k - 1)) \o seqs[k]
<1>. DEFINE a == SubSeq(seqs, 1, k)
            b == SubSeq(seqs, 1, k - 1)
<1>1. /\ Len(a) = k /\ Len(b) = k - 1 /\ k \in Nat \ {0} /\ k - 1 \in Nat /\ k - 1 <= k
      /\ \A i \in 1..k : a[i] = seqs[i]
      /\ \A i \in 1..(k - 1) : b[i] = seqs[i]
  OBVIOUS
<1>2. seqs[k] \in Seq(S) /\ k \in 1..k OBVIOUS
<1>3. k = 1 => b = <<>> OBVIOUS
<1>. HIDE DEF a, b
<1>4. PICK f : Recursion(a, k, f) BY <1>1, RecursionExists
<1>5. FlattenSeq(a) = f[k] BY <1>1, <1>4, FlattenIsRecursive
<1>6. f[k] = IF k = 1 THEN a[k] ELSE f[k - 1] \o a[k] BY <1>2, <1>4 DEF Recursion
<1>7. a[k] = seqs[k] BY <1>1, <1>2
<1>8. CASE k = 1
  <2>1. <<>> \o seqs[k] = seqs[k] BY <1>2
  <2>2. FlattenSeq(b) = <<>> BY <1>3, <1>8, FlattenEmpty
  <2>. QED BY <1>5, <1>6, <1>7, <1>8, <2>1, <2>2 DEF a, b
<1>9. CASE k # 1
  <2>. DEFINE p == k - 1
  <2>1. p \in Nat \ {0} /\ p \in 1..p /\ p <= k BY <1>1, <1>9
  <2>2. Len(b) = p /\ \A i \in 1..p : b[i] = a[i] BY <1>1
  <2>3. f[k] = f[p] \o seqs[k] BY <1>6, <1>7, <1>9
  <2>. HIDE DEF p
  <2>4. PICK g : Recursion(b, p, g) BY <2>1, RecursionExists
  <2>5. FlattenSeq(b) = g[p] BY <2>1, <2>2, <2>4, FlattenIsRecursive
  <2>6. \A i \in 1..p : g[i] = f[i]
    <3>1. p \in Nat /\ k \in Nat /\ p <= k /\ \A i \in 1..p : b[i] = a[i]
      BY <1>1, <2>1, <2>2
    <3>2. ASSUME NEW r, NEW t
          PROVE  /\ Recursion(r, k, f) /\ Recursion(t, p, g)
                 /\ \A i \in 1..p : t[i] = r[i]
                 => \A i \in 1..p : g[i] = f[i]
      BY <3>1, RecursionUnique
    <3>. QED BY <1>4, <2>4, <3>1, <3>2
  <2>7. g[p] = f[p] BY <2>1, <2>6
  <2>. QED BY <1>5, <2>3, <2>5, <2>7 DEF a, b
<1>. QED BY <1>8, <1>9

\* Flattened, the sequences over a set are one sequence over it, and the first
\* of them are the beginning of it.
LEMMA FlattenType ==
  ASSUME NEW S, NEW seqs \in Seq(Seq(S)), NEW k \in 0..Len(seqs)
  PROVE  FlattenSeq(SubSeq(seqs, 1, k)) \in Seq(S)
<1>. DEFINE T == {j \in Nat : j <= Len(seqs) => FlattenSeq(SubSeq(seqs, 1, j)) \in Seq(S)}
<1>1. 0 \in T
  <2>1. SubSeq(seqs, 1, 0) = <<>> /\ <<>> \in Seq(S) OBVIOUS
  <2>. QED BY <2>1, FlattenEmpty
<1>2. ASSUME NEW j \in Nat, j \in T PROVE j + 1 \in T
  <2>. SUFFICES ASSUME j + 1 <= Len(seqs)
                PROVE  FlattenSeq(SubSeq(seqs, 1, j + 1)) \in Seq(S)
    OBVIOUS
  <2>1. FlattenSeq(SubSeq(seqs, 1, j)) \in Seq(S) BY <1>2
  <2>2. j + 1 \in 1..Len(seqs) /\ (j + 1) - 1 = j OBVIOUS
  <2>3. seqs[j + 1] \in Seq(S) BY <2>2
  <2>4. FlattenSeq(SubSeq(seqs, 1, j + 1)) = FlattenSeq(SubSeq(seqs, 1, j)) \o seqs[j + 1]
    BY <2>2, FlattenNext
  <2>. HIDE DEF T
  <2>5. \A x, y : x \in Seq(S) /\ y \in Seq(S) => x \o y \in Seq(S) OBVIOUS
  <2>. QED BY <2>1, <2>3, <2>4, <2>5
<1>. HIDE DEF T
<1>3. Nat \subseteq T BY <1>1, <1>2, SetInduction
<1>4. k \in Nat /\ k <= Len(seqs) OBVIOUS
<1>. QED BY <1>3, <1>4 DEF T

LEMMA FlattenWhole ==
  ASSUME NEW S, NEW seqs \in Seq(Seq(S))
  PROVE  /\ FlattenSeq(seqs) = FlattenSeq(SubSeq(seqs, 1, Len(seqs)))
         /\ FlattenSeq(seqs) \in Seq(S)
<1>1. SubSeq(seqs, 1, Len(seqs)) = seqs /\ Len(seqs) \in 0..Len(seqs) OBVIOUS
<1>. QED BY <1>1, FlattenType

\* Of the first j sequences the flattened cells stay where they are when more
\* sequences follow.
LEMMA FlattenPrefix ==
  ASSUME NEW S, NEW seqs \in Seq(Seq(S)),
         NEW j \in 0..Len(seqs), NEW k \in 0..Len(seqs), j <= k
  PROVE  LET a == FlattenSeq(SubSeq(seqs, 1, j))
             b == FlattenSeq(SubSeq(seqs, 1, k))
         IN  Len(a) <= Len(b) /\ \A i \in 1..Len(a) : b[i] = a[i]
<1>. DEFINE F(n) == FlattenSeq(SubSeq(seqs, 1, n))
            T == {d \in Nat : j + d <= Len(seqs) =>
                    Len(F(j)) <= Len(F(j + d)) /\ \A i \in 1..Len(F(j)) : F(j + d)[i] = F(j)[i]}
<1>1. \A n \in 0..Len(seqs) : F(n) \in Seq(S) BY FlattenType
<1>2. \A n \in 1..Len(seqs) : F(n) = F(n - 1) \o seqs[n] BY FlattenNext
<1>. HIDE DEF F
<1>3. 0 \in T
  <2>1. j \in 0..Len(seqs) /\ j + 0 = j OBVIOUS
  <2>2. Len(F(j)) \in Nat BY <1>1, <2>1
  <2>. QED BY <2>1, <2>2
<1>4. ASSUME NEW d \in Nat, d \in T PROVE d + 1 \in T
  <2>. SUFFICES ASSUME j + (d + 1) <= Len(seqs)
                PROVE  /\ Len(F(j)) <= Len(F(j + (d + 1)))
                       /\ \A i \in 1..Len(F(j)) : F(j + (d + 1))[i] = F(j)[i]
    OBVIOUS
  <2>. DEFINE m == j + d
              n == j + (d + 1)
  <2>1. n \in 1..Len(seqs) /\ m \in 0..Len(seqs) /\ n - 1 = m OBVIOUS
  <2>2. Len(F(j)) <= Len(F(m)) /\ \A i \in 1..Len(F(j)) : F(m)[i] = F(j)[i]
    BY <1>4, <2>1
  <2>. HIDE DEF T, m, n
  <2>3. F(n) = F(m) \o seqs[n] BY <1>2, <2>1
  <2>4. F(j) \in Seq(S) /\ F(m) \in Seq(S) /\ seqs[n] \in Seq(S) BY <1>1, <2>1
  <2>5. /\ Len(F(j)) \in Nat /\ Len(F(m)) \in Nat /\ Len(F(n)) = Len(F(m)) + Len(seqs[n])
        /\ \A i \in 1..Len(F(m)) : F(n)[i] = F(m)[i]
    BY <2>3, <2>4
  <2>6. Len(F(j)) <= Len(F(n)) BY <2>2, <2>4, <2>5
  <2>7. \A i \in 1..Len(F(j)) : F(n)[i] = F(j)[i] BY <2>2, <2>5
  <2>. QED BY <2>6, <2>7 DEF n
<1>. HIDE DEF T
<1>5. Nat \subseteq T BY <1>3, <1>4, SetInduction
<1>6. k - j \in Nat /\ j + (k - j) = k /\ k <= Len(seqs) OBVIOUS
<1>7. k - j \in T BY <1>5, <1>6
<1>. QED BY <1>6, <1>7 DEF T, F

\* How much of the flattened sequence the first k sequences are.
Before(seqs, k) == Len(FlattenSeq(SubSeq(seqs, 1, k)))

\* Where the sequences lie in the flattened one: each begins where the one
\* before it ends, and none of them is cut.
LEMMA FlattenAt ==
  ASSUME NEW S, NEW seqs \in Seq(Seq(S))
  PROVE  /\ FlattenSeq(seqs) \in Seq(S)
         /\ Before(seqs, 0) = 0 /\ Before(seqs, Len(seqs)) = Len(FlattenSeq(seqs))
         /\ \A k \in 0..Len(seqs) : Before(seqs, k) \in 0..Len(FlattenSeq(seqs))
         /\ \A k \in 1..Len(seqs) :
              /\ Before(seqs, k) = Before(seqs, k - 1) + Len(seqs[k])
              /\ \A i \in 1..Len(seqs[k]) :
                   FlattenSeq(seqs)[Before(seqs, k - 1) + i] = seqs[k][i]
<1>. DEFINE F(n)  == FlattenSeq(SubSeq(seqs, 1, n))
            whole == FlattenSeq(seqs)
<1>1. \A n \in 0..Len(seqs) : F(n) \in Seq(S) BY FlattenType
<1>2. \A n \in 1..Len(seqs) : F(n) = F(n - 1) \o seqs[n] BY FlattenNext
<1>3. F(Len(seqs)) = whole /\ whole \in Seq(S) BY FlattenWhole
<1>4. F(0) = <<>>
  <2>1. SubSeq(seqs, 1, 0) = <<>> OBVIOUS
  <2>. QED BY <2>1, FlattenEmpty
<1>5. \A n \in 0..Len(seqs) :
        Len(F(n)) <= Len(F(Len(seqs))) /\ \A i \in 1..Len(F(n)) : F(Len(seqs))[i] = F(n)[i]
  <2>1. Len(seqs) \in 0..Len(seqs) /\ \A n \in 0..Len(seqs) : n <= Len(seqs) OBVIOUS
  <2>. QED BY <2>1, FlattenPrefix
<1>. HIDE DEF F, whole
<1>6. ASSUME NEW n \in 0..Len(seqs) PROVE Len(F(n)) \in 0..Len(whole)
  <2>1. Len(F(n)) \in Nat /\ Len(whole) \in Nat BY <1>1, <1>3
  <2>. QED BY <1>3, <1>5, <2>1
<1>7. ASSUME NEW k \in 1..Len(seqs)
      PROVE  /\ Len(F(k)) = Len(F(k - 1)) + Len(seqs[k])
             /\ \A i \in 1..Len(seqs[k]) : whole[Len(F(k - 1)) + i] = seqs[k][i]
  <2>. DEFINE p == k - 1
  <2>1. p \in 0..Len(seqs) /\ k \in 0..Len(seqs) /\ seqs[k] \in Seq(S) OBVIOUS
  <2>2. F(k) = F(p) \o seqs[k] BY <1>2
  <2>. HIDE DEF p
  <2>3. F(p) \in Seq(S) BY <1>1, <2>1
  <2>4. Len(F(k)) = Len(F(p)) + Len(seqs[k]) BY <2>1, <2>2, <2>3
  <2>5. ASSUME NEW i \in 1..Len(seqs[k]) PROVE whole[Len(F(p)) + i] = seqs[k][i]
    <3>1. Len(F(p)) + i \in 1..Len(F(k)) BY <2>1, <2>3, <2>4
    <3>2. F(k)[Len(F(p)) + i] = seqs[k][i] BY <2>1, <2>2, <2>3
    <3>. QED BY <1>3, <1>5, <2>1, <3>1, <3>2
  <2>. QED BY <2>4, <2>5 DEF p
<1>8. Len(F(0)) = 0 BY <1>4
<1>. QED BY <1>3, <1>6, <1>7, <1>8 DEF Before, F, whole
=============================================================================
