----------------------------- MODULE Recursion_proofs -----------------------------
(***************************************************************************)
(* Facts about natural numbers and recursive definitions that the proofs   *)
(* about files and screens share.  Induction is stated for a set of        *)
(* numbers and recursion for a step that is a function, so that a proof    *)
(* gives the set or the function and nothing has to be instantiated.       *)
(***************************************************************************)
EXTENDS Integers, Sequences, FiniteSetsExt, SequencesExt, SequenceTheorems, WellFoundedInduction, TLAPS

\* A set of natural numbers has a least element.
LEMMA Smallest ==
  ASSUME NEW T, T \subseteq Nat, T # {}
  PROVE  \E x \in T : \A y \in T : x <= y
<1>1. PICK x \in T : \A y \in T : ~(<<y, x>> \in OpToRel(<, Nat))
  BY NatLessThanWellFounded, WFMin
<1>2. \A y \in T : ~(y < x)
  BY <1>1 DEF OpToRel
<1> QED
  BY <1>2

\* Min finds it.
LEMMA MinFacts ==
  ASSUME NEW T, T \subseteq Nat, T # {}
  PROVE  Min(T) \in T /\ Min(T) \in Nat /\ \A y \in T : Min(T) <= y
BY Smallest DEF Min

\* Any element that no other one is below is the one that Min finds, and the
\* same for Max.
LEMMA MinIs ==
  ASSUME NEW T, T \subseteq Int, NEW x \in T, \A y \in T : x <= y
  PROVE  Min(T) = x
<1>1. Min(T) \in T /\ \A y \in T : Min(T) <= y
  BY DEF Min
<1>2. Min(T) <= x /\ x <= Min(T) /\ Min(T) \in Int /\ x \in Int
  BY <1>1
<1> QED
  BY <1>2

LEMMA MaxIs ==
  ASSUME NEW T, T \subseteq Int, NEW x \in T, \A y \in T : x >= y
  PROVE  Max(T) = x
<1>1. Max(T) \in T /\ \A y \in T : Max(T) >= y
  BY DEF Max
<1>2. Max(T) >= x /\ x >= Max(T) /\ Max(T) \in Int /\ x \in Int
  BY <1>1
<1> QED
  BY <1>2

\* A set that holds 0 and the successors of its elements holds every number.
LEMMA NatInduct ==
  ASSUME NEW T, 0 \in T, \A n \in Nat : n \in T => n + 1 \in T
  PROVE  \A n \in Nat : n \in T
<1> DEFINE U == Nat \ T
<1> SUFFICES ASSUME U # {}
             PROVE  FALSE
  OBVIOUS
<1>1. PICK x \in U : \A y \in U : x <= y
  BY Smallest
<1>2. x \in Nat \ {0} /\ x - 1 \in Nat
  BY <1>1
<1>3. x - 1 \in T
  BY <1>1, <1>2
<1> QED
  BY <1>1, <1>2, <1>3

\* Quotient and remainder.
LEMMA DivFacts ==
  ASSUME NEW j \in Nat, NEW B \in Nat \ {0}
  PROVE  /\ j \div B \in Nat /\ j % B \in 0..(B - 1)
         /\ j = B * (j \div B) + (j % B)
OBVIOUS

LEMMA DivUnique ==
  ASSUME NEW j \in Nat, NEW B \in Nat \ {0}, NEW q \in Nat, NEW r \in 0..(B - 1), j = B * q + r
  PROVE  j \div B = q /\ j % B = r
OBVIOUS

LEMMA DivSmall ==
  ASSUME NEW B \in Nat \ {0}, NEW j \in 0..(B - 1)
  PROVE  j \div B = 0 /\ j % B = j
OBVIOUS

LEMMA DivBelow ==
  ASSUME NEW j \in Nat, NEW B \in Nat \ {0}, NEW n \in Nat, NEW m \in Nat, j < m, m <= B * n
  PROVE  j \div B \in 0..(n - 1)
<1>1. PICK q \in Nat, r \in 0..(B - 1) : j = B * q + r /\ q = j \div B
  BY DivFacts
<1>2. q < n
  BY <1>1
<1> QED
  BY <1>1, <1>2

\* The step of a recursion on numbers, with values in A, and what it defines.
IsStep(step, A) == step \in [Nat \X A -> A]

Repeats(g, a, step) == g[0] = a /\ \A n \in Nat : g[n + 1] = step[<<n, g[n]>>]

\* A step that is a function can be repeated from a start.
LEMMA Recursion ==
  ASSUME NEW A, NEW a \in A, NEW step, IsStep(step, A)
  PROVE  \E g \in [Nat -> A] : Repeats(g, a, step)
<1> USE DEF IsStep, Repeats
<1> DEFINE Upto(n, g) == g \in [0..n -> A] /\ g[0] = a /\ \A i \in 0..(n - 1) : g[i + 1] = step[<<i, g[i]>>]
           T == {n \in Nat : \E g \in [0..n -> A] : Upto(n, g)}
           pick == [n \in Nat |-> CHOOSE g \in [0..n -> A] : Upto(n, g)]
           h == [n \in Nat |-> pick[n][n]]
<1>1. 0 \in T
  <2>1. Upto(0, [i \in 0..0 |-> a])
    OBVIOUS
  <2> QED
    BY <2>1
<1>2. ASSUME NEW n \in Nat, n \in T
      PROVE  n + 1 \in T
  <2>1. PICK g \in [0..n -> A] : Upto(n, g)
    BY <1>2
  <2> DEFINE k == [i \in 0..(n + 1) |-> IF i = n + 1 THEN step[<<n, g[n]>>] ELSE g[i]]
  <2>2. k \in [0..(n + 1) -> A]
    BY <2>1
  <2>3. k[0] = a /\ k[n + 1] = step[<<n, k[n]>>]
    <3>1. n \in 0..(n + 1) /\ n # n + 1 /\ 0 \in 0..(n + 1) /\ 0 # n + 1 /\ n + 1 \in 0..(n + 1)
      OBVIOUS
    <3>2. k[n] = g[n] /\ k[0] = g[0] /\ k[n + 1] = step[<<n, g[n]>>]
      BY <3>1
    <3> QED
      BY <2>1, <3>2
  <2>4. \A i \in 0..(n - 1) : k[i + 1] = step[<<i, k[i]>>]
    BY <2>1
  <2> HIDE DEF k
  <2>5. \A i \in 0..n : k[i + 1] = step[<<i, k[i]>>]
    <3>1. \A i \in 0..n : i = n \/ i \in 0..(n - 1)
      OBVIOUS
    <3> QED
      BY <2>3, <2>4, <3>1
  <2>6. Upto(n + 1, k)
    BY <2>2, <2>3, <2>5
  <2> QED
    BY <2>2, <2>6
<1>3. \A n \in Nat : n \in T
  <2> HIDE DEF T
  <2> QED
    BY <1>1, <1>2, NatInduct
<1>4. \A n \in Nat : Upto(n, pick[n])
  BY <1>3
<1>5. ASSUME NEW n \in Nat
      PROVE  \A i \in 0..n : pick[n + 1][i] = pick[n][i]
  <2> DEFINE E == {i \in Nat : i <= n => pick[n + 1][i] = pick[n][i]}
  <2> HIDE DEF pick, Upto
  <2>1. Upto(n, pick[n]) /\ Upto(n + 1, pick[n + 1])
    BY <1>4
  <2> USE DEF Upto
  <2>2. 0 \in E
    BY <2>1
  <2>3. ASSUME NEW i \in Nat, i \in E
        PROVE  i + 1 \in E
    <3> SUFFICES ASSUME i + 1 <= n
                 PROVE  pick[n + 1][i + 1] = pick[n][i + 1]
      OBVIOUS
    <3>1. pick[n + 1][i] = pick[n][i]
      BY <2>3
    <3>2. i \in 0..(n - 1) /\ i \in 0..((n + 1) - 1)
      OBVIOUS
    <3> QED
      BY <2>1, <3>1, <3>2
  <2>4. \A i \in Nat : i \in E
    <3> HIDE DEF E
    <3> QED
      BY <2>2, <2>3, NatInduct
  <2> QED
    BY <2>4
<1> HIDE DEF pick
<1>6. h \in [Nat -> A]
  BY <1>4
<1>7. h[0] = a
  BY <1>4
<1>8. ASSUME NEW n \in Nat
      PROVE  h[n + 1] = step[<<n, h[n]>>]
  <2>1. Upto(n + 1, pick[n + 1]) /\ n \in 0..((n + 1) - 1)
    BY <1>4
  <2>2. pick[n + 1][n + 1] = step[<<n, pick[n + 1][n]>>]
    BY <2>1
  <2>3. pick[n + 1][n] = pick[n][n]
    BY <1>5
  <2> QED
    BY <2>2, <2>3
<1> QED
  BY <1>6, <1>7, <1>8

\* seqs consists of n sequences over S.
Pieces(seqs, n, S) == n = Len(seqs) /\ \A i \in 1..n : seqs[i] \in Seq(S)

\* g joins them one after the other, and FlattenSeq gives the last of g.
Joins(g, seqs, n) ==
  /\ g[1] = seqs[1] /\ \A i \in 2..n : g[i] = g[i - 1] \o seqs[i]
  /\ FlattenSeq(seqs) = g[n]

\* FlattenSeq joins one sequence after the other.
LEMMA FlattenSteps ==
  ASSUME NEW S, NEW seqs, NEW n \in Nat \ {0}, Pieces(seqs, n, S)
  PROVE  \E g \in [1..n -> Seq(S)] : Joins(g, seqs, n)
<1> DEFINE G(g, i) == IF i = 1 THEN seqs[i] ELSE g[i - 1] \o seqs[i]
           flatten == CHOOSE g : g = [i \in 1..n |-> G(g, i)]
           step == [x \in Nat \X Seq(S) |-> IF x[1] + 2 \in 1..n THEN x[2] \o seqs[x[1] + 2] ELSE x[2]]
<1>0. /\ \A i \in 1..n : seqs[i] \in Seq(S)
      /\ 1 \in 1..n /\ \A i \in 1..n : i = 1 \/ i \in 2..n
  BY DEF Pieces
<1>1. FlattenSeq(seqs) = flatten[n]
  BY DEF FlattenSeq, Pieces
<1>2. step \in [Nat \X Seq(S) -> Seq(S)]
  <2> SUFFICES ASSUME NEW x \in Nat \X Seq(S), x[1] + 2 \in 1..n
               PROVE  x[2] \o seqs[x[1] + 2] \in Seq(S)
    OBVIOUS
  <2>1. x[2] \in Seq(S) /\ seqs[x[1] + 2] \in Seq(S)
    BY <1>0
  <2> QED
    BY <2>1
<1>3. \A m \in Nat, s \in Seq(S) : m + 2 \in 1..n => step[<<m, s>>] = s \o seqs[m + 2]
  OBVIOUS
<1> HIDE DEF step
<1>4. PICK h \in [Nat -> Seq(S)] : h[0] = seqs[1] /\ \A m \in Nat : h[m + 1] = step[<<m, h[m]>>]
  <2>1. PICK A : A = Seq(S)
    OBVIOUS
  <2>2. seqs[1] \in A /\ IsStep(step, A)
    BY <1>0, <1>2, <2>1 DEF IsStep
  <2>3. PICK h \in [Nat -> A] : Repeats(h, seqs[1], step)
    BY <2>2, Recursion
  <2> QED
    BY <2>1, <2>3 DEF Repeats
<1>5. ASSUME NEW i \in 2..n
      PROVE  h[i - 1] = h[i - 2] \o seqs[i]
  <2>1. i - 2 \in Nat /\ (i - 2) + 1 = i - 1 /\ (i - 2) + 2 = i
    OBVIOUS
  <2>2. h[(i - 2) + 1] = step[<<i - 2, h[i - 2]>>] /\ h[i - 2] \in Seq(S)
    BY <1>4, <2>1
  <2>3. step[<<i - 2, h[i - 2]>>] = h[i - 2] \o seqs[(i - 2) + 2]
    <3>1. (i - 2) + 2 \in 1..n
      OBVIOUS
    <3> QED
      BY <1>3, <2>1, <2>2, <3>1
  <2> QED
    BY <2>1, <2>2, <2>3
<1> DEFINE g == [i \in 1..n |-> h[i - 1]]
<1>6. g[1] = seqs[1] /\ \A i \in 2..n : g[i] = g[i - 1] \o seqs[i]
  <2>1. g[1] = seqs[1]
    BY <1>4, SMTT(30)
  <2>2. \A i \in 2..n : g[i] = h[i - 1] /\ g[i - 1] = h[i - 2]
    OBVIOUS
  <2> QED
    BY <1>5, <2>1, <2>2
<1>7. DOMAIN g = 1..n
  OBVIOUS
<1>8. g = [i \in 1..n |-> g[i]]
  OBVIOUS
<1> HIDE DEF g
<1>9. \A i \in 1..n : g[i] = G(g, i)
  <2> TAKE i \in 1..n
  <2>1. i = 1 \/ (i \in 2..n /\ i # 1)
    BY <1>0
  <2> QED
    BY <1>6, <2>1
<1>10. g = [i \in 1..n |-> G(g, i)]
  BY <1>8, <1>9
<1>11. flatten = [i \in 1..n |-> G(flatten, i)]
  <2> DEFINE P(f) == f = [i \in 1..n |-> G(f, i)]
  <2>1. P(g)
    BY <1>10
  <2>2. flatten = CHOOSE f : P(f)
    OBVIOUS
  <2> HIDE DEF P
  <2>3. P(flatten)
    BY <2>1, <2>2, Zenon
  <2> HIDE DEF flatten
  <2> QED
    BY <2>3 DEF P
<1> HIDE DEF flatten
<1>12. flatten[1] = seqs[1] /\ \A i \in 2..n : flatten[i] = flatten[i - 1] \o seqs[i]
  <2>1. \A i \in 1..n : flatten[i] = G(flatten, i)
    BY <1>11, Zenon
  <2>2. flatten[1] = seqs[1]
    BY <1>0, <2>1
  <2>3. ASSUME NEW i \in 2..n
        PROVE  flatten[i] = flatten[i - 1] \o seqs[i]
    <3>1. i \in 1..n /\ i # 1
      OBVIOUS
    <3> QED
      BY <2>1, <3>1
  <2> QED
    BY <2>2, <2>3
<1> DEFINE T == {m \in Nat : m + 1 <= n => flatten[m + 1] \in Seq(S)}
<1>13. 0 \in T
  BY <1>0, <1>12
<1>14. ASSUME NEW m \in Nat, m \in T
       PROVE  m + 1 \in T
  <2> SUFFICES ASSUME (m + 1) + 1 <= n
               PROVE  flatten[(m + 1) + 1] \in Seq(S)
    OBVIOUS
  <2>1. (m + 1) + 1 \in 2..n /\ ((m + 1) + 1) - 1 = m + 1 /\ m + 1 <= n
    OBVIOUS
  <2>2. flatten[m + 1] \in Seq(S)
    BY <1>14, <2>1
  <2>3. flatten[(m + 1) + 1] = flatten[m + 1] \o seqs[(m + 1) + 1]
    BY <1>12, <2>1
  <2> QED
    BY <1>0, <2>1, <2>2, <2>3
<1>15. \A m \in Nat : m \in T
  <2> HIDE DEF T
  <2> QED
    BY <1>13, <1>14, NatInduct
<1>16. \A i \in 1..n : flatten[i] \in Seq(S)
  <2> TAKE i \in 1..n
  <2>1. i - 1 \in Nat /\ (i - 1) + 1 = i /\ (i - 1) + 1 <= n
    OBVIOUS
  <2>2. i - 1 \in T
    BY <1>15, <2>1
  <2> QED
    BY <2>1, <2>2
<1>17. flatten \in [1..n -> Seq(S)]
  BY <1>11, <1>16
<1>18. Joins(flatten, seqs, n)
  BY <1>1, <1>12, Zenon DEF Joins
<1> QED
  BY <1>17, <1>18, Zenon

\* What a concatenation holds.
LEMMA CatFacts ==
  ASSUME NEW S, NEW s \in Seq(S), NEW t \in Seq(S)
  PROVE  /\ s \o t \in Seq(S) /\ Len(s \o t) = Len(s) + Len(t)
         /\ Len(s) \in Nat /\ Len(t) \in Nat
         /\ \A k \in 1..Len(s) : (s \o t)[k] = s[k]
         /\ \A k \in 1..Len(t) : (s \o t)[Len(s) + k] = t[k]
OBVIOUS

\* n sequences over S of the length B, the last one perhaps shorter.
InBlocks(seqs, n, S, B) ==
  /\ Pieces(seqs, n, S)
  /\ \A i \in 1..(n - 1) : Len(seqs[i]) = B
  /\ Len(seqs[n]) <= B

\* s has at position j what is at position j % B of the sequence number j \div B.
Blockwise(s, seqs, n, S, B) ==
  /\ s \in Seq(S) /\ Len(s) = B * (n - 1) + Len(seqs[n])
  /\ \A j \in Nat : j < Len(s) => s[j + 1] = seqs[(j \div B) + 1][(j % B) + 1]

\* FlattenSeq joins them into such a sequence.
LEMMA FlattenBlocks ==
  ASSUME NEW S, NEW seqs, NEW n \in Nat \ {0}, NEW B \in Nat \ {0}, InBlocks(seqs, n, S, B)
  PROVE  Blockwise(FlattenSeq(seqs), seqs, n, S, B)
<1>b. /\ Pieces(seqs, n, S)
      /\ \A i \in 1..(n - 1) : Len(seqs[i]) = B
      /\ Len(seqs[n]) <= B
  BY Zenon DEF InBlocks
<1>1a. PICK g \in [1..n -> Seq(S)] : Joins(g, seqs, n)
  BY <1>b, FlattenSteps
<1>1. /\ g[1] = seqs[1] /\ \A i \in 2..n : g[i] = g[i - 1] \o seqs[i]
      /\ FlattenSeq(seqs) = g[n]
  BY <1>1a, Zenon DEF Joins
<1> DEFINE At(j) == seqs[(j \div B) + 1][(j % B) + 1]
           Size(i) == B * (i - 1) + Len(seqs[i])
           Good(i) == /\ Len(g[i]) = Size(i)
                      /\ \A j \in 0..(Size(i) - 1) : g[i][j + 1] = At(j)
           T == {m \in Nat : m + 1 <= n => Good(m + 1)}
<1>0. \A i \in 1..n : seqs[i] \in Seq(S) /\ Len(seqs[i]) \in Nat /\ g[i] \in Seq(S) /\ Len(seqs[i]) <= B
  <2> TAKE i \in 1..n
  <2>1. seqs[i] \in Seq(S) /\ g[i] \in Seq(S)
    BY <1>1, <1>b DEF Pieces
  <2>2. Len(seqs[i]) \in Nat
    BY <2>1
  <2>3. i = n \/ i \in 1..(n - 1)
    OBVIOUS
  <2>4. CASE i = n
    BY <1>b, <2>1, <2>2, <2>4
  <2>5. CASE i \in 1..(n - 1)
    <3>1. Len(seqs[i]) = B
      BY <1>b, <2>5
    <3> QED
      BY <2>1, <2>2, <3>1
  <2> QED
    BY <2>3, <2>4, <2>5
<1>2. 0 \in T
  <2>1. PICK q \in Nat : q = Len(seqs[1]) /\ q <= B /\ g[1] = seqs[1] /\ Len(g[1]) = q
    <3>1. 1 \in 1..n
      OBVIOUS
    <3>2. Len(seqs[1]) \in Nat /\ Len(seqs[1]) <= B
      BY <1>0, <3>1, Zenon
    <3> QED
      BY <1>1, <3>2, Zenon
  <2>2. Size(1) = q
    <3>1. B * (1 - 1) + q = q
      OBVIOUS
    <3>2. Size(1) = B * (1 - 1) + q
      BY <2>1, Zenon
    <3> QED
      BY <3>1, <3>2, Zenon
  <2>3. ASSUME NEW j \in 0..(q - 1)
        PROVE  g[1][j + 1] = At(j)
    <3>1. j \in 0..(B - 1)
      BY <2>1, <2>3
    <3>2. j \div B = 0 /\ j % B = j
      BY <3>1, DivSmall
    <3>3. At(j) = seqs[0 + 1][j + 1]
      BY <3>2
    <3> HIDE DEF At
    <3> QED
      BY <2>1, <3>3
  <2> HIDE DEF At
  <2>4. Good(1)
    BY <2>1, <2>2, <2>3
  <2> HIDE DEF Good
  <2> QED
    BY <2>4
<1>3. ASSUME NEW m \in Nat, m \in T
      PROVE  m + 1 \in T
  <2>0. SUFFICES ASSUME m + 2 <= n
                 PROVE  Good(m + 2)
    <3> HIDE DEF Good
    <3>1. (m + 1) + 1 = m + 2
      OBVIOUS
    <3> QED
      BY <3>1
  <2>1. m + 2 \in 2..n /\ (m + 2) - 1 = m + 1 /\ m + 1 \in 1..(n - 1) /\ m + 1 \in 1..n /\ m + 2 \in 1..n
    BY <2>0
  <2>2. Good(m + 1)
    <3> HIDE DEF Good
    <3> QED
      BY <1>3, <2>1
  <2>3. PICK s \in Seq(S), t \in Seq(S) : s = g[m + 1] /\ t = seqs[m + 2]
    BY <1>0, <2>1
  <2>4. g[m + 2] = s \o t
    BY <1>1, <2>1, <2>3
  <2>5. Size(m + 1) = B * (m + 1)
    <3>1. Len(seqs[m + 1]) = B
      BY <1>b, <2>1
    <3> QED
      BY <2>1, <3>1
  <2>6. PICK p \in Nat, q \in Nat : p = B * (m + 1) /\ q = Len(t)
    <3>1. B * (m + 1) \in Nat /\ Len(t) \in Nat
      OBVIOUS
    <3> QED
      BY <3>1, Zenon
  <2>7. q <= B
    BY <1>0, <2>1, <2>3, <2>6
  <2>8. Len(s) = p /\ \A j \in 0..(p - 1) : s[j + 1] = At(j)
    <3> HIDE DEF At, Size
    <3> QED
      BY <2>2, <2>3, <2>5, <2>6
  <2>9. Size(m + 2) = p + q
    BY <2>1, <2>3, <2>6
  <2>10. /\ Len(g[m + 2]) = p + q
         /\ \A k \in 1..p : g[m + 2][k] = s[k]
         /\ \A k \in 1..q : g[m + 2][p + k] = t[k]
    <3>1. /\ Len(s \o t) = Len(s) + Len(t)
          /\ \A k \in 1..Len(s) : (s \o t)[k] = s[k]
          /\ \A k \in 1..Len(t) : (s \o t)[Len(s) + k] = t[k]
      BY CatFacts
    <3>2. Len(s) = p /\ Len(t) = q
      BY <2>6, <2>8
    <3> QED
      BY <2>4, <3>1, <3>2, Zenon
  <2>11. ASSUME NEW j \in 0..(p + q - 1)
         PROVE  g[m + 2][j + 1] = At(j)
    <3>1. CASE j < p
      <4>1. j \in 0..(p - 1) /\ j + 1 \in 1..p
        BY <2>11, <3>1
      <4> HIDE DEF At
      <4> QED
        BY <2>8, <2>10, <4>1
    <3>2. CASE j >= p
      <4>1. PICK r \in Nat : r = j - p
        BY <2>11, <3>2
      <4>2. r \in 0..(B - 1) /\ r + 1 \in 1..q /\ j = B * (m + 1) + r /\ j \in Nat /\ m + 1 \in Nat
        BY <2>6, <2>7, <2>11, <3>2, <4>1
      <4>3. j \div B = m + 1 /\ j % B = r
        BY <4>2, DivUnique
      <4>4. At(j) = seqs[(m + 1) + 1][r + 1] /\ (m + 1) + 1 = m + 2
        BY <4>3, SMTT(30)
      <4>5. j + 1 = p + (r + 1)
        BY <4>1, <4>2
      <4> HIDE DEF At
      <4> QED
        BY <2>3, <2>10, <4>2, <4>4, <4>5
    <3> QED
      BY <2>11, <3>1, <3>2
  <2> HIDE DEF At, Size
  <2> QED
    BY <2>9, <2>10, <2>11
<1>4. \A m \in Nat : m \in T
  <2> HIDE DEF T
  <2> QED
    BY <1>2, <1>3, NatInduct
<1>5. Good(n)
  <2>1. n - 1 \in Nat /\ (n - 1) + 1 = n /\ (n - 1) + 1 <= n
    OBVIOUS
  <2> HIDE DEF Good
  <2>2. n - 1 \in T
    BY <1>4, <2>1
  <2> QED
    BY <2>1, <2>2
<1>6. g[n] \in Seq(S) /\ FlattenSeq(seqs) = g[n]
  BY <1>0, <1>1
<1>7. PICK L \in Nat : L = B * (n - 1) + Len(seqs[n])
  <2>1. n \in 1..n
    OBVIOUS
  <2>2. PICK q \in Nat : q = Len(seqs[n])
    BY <1>0, <2>1, Zenon
  <2>3. B * (n - 1) + q \in Nat
    <3>1. PICK m \in Nat : m = n - 1
      OBVIOUS
    <3>2. PICK x \in Nat : x = B * m
      OBVIOUS
    <3>3. B * m + q \in Nat
      <4>1. x + q \in Nat
        OBVIOUS
      <4> QED
        BY <3>2, <4>1, Zenon
    <3> QED
      BY <3>1, <3>3, Zenon
  <2> QED
    BY <2>2, <2>3, Zenon
<1>8. Size(n) = L
  BY <1>7, Zenon
<1> HIDE DEF Size, T
<1>9. Len(g[n]) = L /\ \A j \in 0..(L - 1) : g[n][j + 1] = At(j)
  <2> HIDE DEF At
  <2> QED
    BY <1>5, <1>8
<1>10. Len(FlattenSeq(seqs)) = B * (n - 1) + Len(seqs[n])
  BY <1>6, <1>7, <1>9, Zenon
<1>11. ASSUME NEW j \in Nat, j < Len(FlattenSeq(seqs))
       PROVE  FlattenSeq(seqs)[j + 1] = seqs[(j \div B) + 1][(j % B) + 1]
  <2>1. j \in 0..(L - 1)
    BY <1>6, <1>9, <1>11
  <2>2. g[n][j + 1] = At(j)
    BY <1>9, <2>1, Zenon
  <2> QED
    BY <1>6, <2>2, Zenon
<1> QED
  BY <1>6, <1>10, <1>11, Zenon DEF Blockwise

\* The smaller of two numbers.
LEMMA MinOfTwo ==
  ASSUME NEW a \in Int, NEW b \in Int
  PROVE  Min({a, b}) = IF a <= b THEN a ELSE b
<1>1. CASE a <= b
  <2>1. \A y \in {a, b} : a <= y
    BY <1>1
  <2> QED
    BY <1>1, <2>1, MinIs
<1>2. CASE ~(a <= b)
  <2>1. \A y \in {a, b} : b <= y
    BY <1>2
  <2> QED
    BY <1>2, <2>1, MinIs
<1> QED
  BY <1>1, <1>2

LEMMA MaxWithZero ==
  ASSUME NEW c \in Nat
  PROVE  Max({c, 0}) = c
<1>1. \A y \in {c, 0} : c >= y
  OBVIOUS
<1> QED
  BY <1>1, MaxIs

\* The first part of a sequence.
LEMMA Prefix ==
  ASSUME NEW S, NEW s \in Seq(S), NEW L \in Nat, L <= Len(s)
  PROVE  /\ SubSeq(s, 1, L) \in Seq(S) /\ Len(SubSeq(s, 1, L)) = L
         /\ \A k \in 1..L : SubSeq(s, 1, L)[k] = s[k]
OBVIOUS

\* A first part of a sequence and the stretch after it are a longer first part.
LEMMA PrefixGrows ==
  ASSUME NEW S, NEW w \in Seq(S), NEW pos \in Nat, NEW c \in Nat, pos + c <= Len(w),
         NEW d \in Seq(S), Len(d) = c, \A k \in 1..c : d[k] = w[pos + k]
  PROVE  SubSeq(w, 1, pos) \o d = SubSeq(w, 1, pos + c)
<1> DEFINE s == SubSeq(w, 1, pos)
           n == pos + c
           t == SubSeq(w, 1, n)
           u == s \o d
<1>1. n \in Nat /\ n <= Len(w) /\ pos <= Len(w)
  OBVIOUS
<1>2. s \in Seq(S) /\ Len(s) = pos /\ \A k \in 1..pos : s[k] = w[k]
  BY <1>1, Prefix
<1> HIDE DEF s, n
<1>3. t \in Seq(S) /\ Len(t) = n /\ \A k \in 1..n : t[k] = w[k]
  BY <1>1, Prefix
<1>4. /\ u \in Seq(S) /\ Len(u) = pos + c
      /\ \A k \in 1..pos : u[k] = s[k]
      /\ \A k \in 1..c : u[pos + k] = d[k]
  <2>1. /\ u \in Seq(S) /\ Len(u) = Len(s) + Len(d)
        /\ \A k \in 1..Len(s) : u[k] = s[k]
        /\ \A k \in 1..Len(d) : u[Len(s) + k] = d[k]
    <3>1. s \in Seq(S)
      BY <1>2
    <3>2. \A x \in Seq(S), y \in Seq(S) :
            /\ x \o y \in Seq(S) /\ Len(x \o y) = Len(x) + Len(y)
            /\ \A k \in 1..Len(x) : (x \o y)[k] = x[k]
            /\ \A k \in 1..Len(y) : (x \o y)[Len(x) + k] = y[k]
      BY CatFacts
    <3> QED
      BY <3>1, <3>2, Zenon
  <2> HIDE DEF u
  <2> QED
    BY <1>2, <2>1, Zenon
<1> HIDE DEF t, u
<1>5. ASSUME NEW k \in 1..n
      PROVE  u[k] = t[k]
  <2>1. CASE k <= pos
    <3>1. k \in 1..pos
      BY <1>1, <2>1
    <3> QED
      BY <1>2, <1>3, <1>4, <3>1, Zenon
  <2>2. CASE ~(k <= pos)
    <3>1. k - pos \in 1..c /\ pos + (k - pos) = k
      BY <2>2 DEF n
    <3> QED
      BY <1>3, <1>4, <3>1
  <2> QED
    BY <2>1, <2>2
<1>6. u = t
  BY <1>3, <1>4, <1>5, SeqEqual DEF n
<1> QED
  BY <1>6 DEF u, t, s, n

=============================================================================
