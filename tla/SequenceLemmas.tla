--------------------------- MODULE SequenceLemmas ---------------------------
(***************************************************************************)
(* Lemmas about the operators on sequences that EcrScript is built from:   *)
(* the least and the greatest number of a set, a sequence of sequences     *)
(* that is made into one, sums over a sequence and over a set, in whatever *)
(* order they are taken, and the averages and variances of Statistics.     *)
(* What a recursive function computes is shown by taking the least         *)
(* argument where it would be something else.                              *)
(***************************************************************************)
EXTENDS Integers, Sequences, FiniteSets, FiniteSetsExt, SequencesExt, Statistics,
        FiniteSetTheorems, WellFoundedInduction, TLAPS

-----------------------------------------------------------------------------
(* Numbers                                                                  *)

LEMMA Least ==
  ASSUME NEW T \in SUBSET Nat, T # {}
  PROVE  \E n \in T : \A m \in T : n <= m
<1>1. IsWellFoundedOn(OpToRel(<, Nat), Nat)
  BY NatLessThanWellFounded
<1>2. PICK x \in T : \A y \in T : ~ (<<y, x>> \in OpToRel(<, Nat))
  BY <1>1, WFMin
<1>3. \A y \in T : ~ (y < x)
  BY <1>2 DEF OpToRel
<1> QED
  BY <1>3

\* Induction, for the members of a set.
LEMMA Induct ==
  ASSUME NEW T, 0 \in T, \A n \in Nat : n \in T => n + 1 \in T
  PROVE  \A n \in Nat : n \in T
<1> DEFINE U == Nat \ T
<1> SUFFICES ASSUME U # {} PROVE FALSE
  OBVIOUS
<1>1. PICK n \in U : \A m \in U : n <= m
  BY Least
<1>2. n # 0 /\ n - 1 \in Nat /\ n - 1 \notin U
  BY <1>1
<1> QED
  BY <1>1, <1>2

\* The last index of those in I, where I is what a test leaves of 1 .. n.
LEMMA Greatest ==
  ASSUME NEW n \in Nat, NEW I \in SUBSET (1 .. n), I # {}
  PROVE  Max(I) \in I /\ \A k \in I : k <= Max(I)
<1> DEFINE T == {m \in Nat : n - m \in I}
<1>1. \A k \in I : k \in 1 .. n
  OBVIOUS
<1>2. \A k \in I : n - k \in T
  BY <1>1
<1>3. T \in SUBSET Nat /\ T # {}
  BY <1>2
<1>4. PICK t \in T : \A u \in T : t <= u
  BY <1>3, Least
<1> DEFINE x == n - t
<1>5. x \in I /\ x \in Int
  BY <1>1
<1>6. \A k \in I : x >= k
  <2> TAKE k \in I
  <2>1. n - k \in T /\ k \in Int /\ t \in Int
    BY <1>1, <1>2
  <2>2. t <= n - k
    BY <1>4, <2>1
  <2> QED
    BY <2>1, <2>2
<1> HIDE DEF x
<1>7. \E y \in I : \A k \in I : y >= k
  BY <1>5, <1>6
<1>8. Max(I) \in I /\ \A k \in I : Max(I) >= k
  BY <1>7 DEF Max
<1> QED
  BY <1>1, <1>8

LEMMA Smallest ==
  ASSUME NEW I \in SUBSET Nat, I # {}
  PROVE  Min(I) \in I /\ \A k \in I : Min(I) <= k
BY Least DEF Min

-----------------------------------------------------------------------------
(* A sequence of sequences, made into one                                   *)

\* c is b put behind a: where the members of either are, and where all of c's are.
Joined(c, a, b, p) ==
  /\ p = Len(a) /\ Len(c) = p + Len(b)
  /\ \A j \in 1 .. Len(a) : j \in 1 .. Len(c) /\ c[j] = a[j]
  /\ \A i \in 1 .. Len(b) : p + i \in 1 .. Len(c) /\ c[p + i] = b[i]
  /\ \A j \in 1 .. Len(c) : j \in 1 .. Len(a) \/ \E i \in 1 .. Len(b) : j = p + i

LEMMA Concatenation ==
  ASSUME NEW S, NEW a \in Seq(S), NEW b \in Seq(S)
  PROVE  a \o b \in Seq(S) /\ Joined(a \o b, a, b, Len(a))
<1> DEFINE c == a \o b
           p == Len(a)
<1>1. /\ c \in Seq(S) /\ Len(c) = p + Len(b)
      /\ \A j \in 1 .. Len(a) : j \in 1 .. Len(c) /\ c[j] = a[j]
      /\ \A i \in 1 .. Len(b) : p + i \in 1 .. Len(c) /\ c[p + i] = b[i]
  OBVIOUS
<1>2. ASSUME NEW j \in 1 .. Len(c), j \notin 1 .. Len(a)
      PROVE  \E i \in 1 .. Len(b) : j = p + i
  <2>1. j - p \in 1 .. Len(b) /\ j = p + (j - p)
    BY <1>1, <1>2
  <2> QED
    BY <2>1
<1> QED
  BY <1>1, <1>2 DEF Joined

\* M is L without its first d members.
Kept(L, M, d) ==
  /\ d \in Nat /\ Len(M) = Len(L) - d
  /\ \A k \in 1 .. Len(M) : k + d \in 1 .. Len(L) /\ M[k] = L[k + d]

LEMMA KeptAll ==
  ASSUME NEW S, NEW L \in Seq(S)
  PROVE  Kept(L, L, 0)
BY DEF Kept

LastOnes(L, m) == SubSeq(L, Len(L) - m + 1, Len(L))

LEMMA KeptLast ==
  ASSUME NEW S, NEW L \in Seq(S), NEW m \in Int, m > 0, Len(L) > m
  PROVE  /\ LastOnes(L, m) \in Seq(S) /\ Len(LastOnes(L, m)) = m
         /\ Kept(L, LastOnes(L, m), Len(L) - m)
<1> DEFINE M == LastOnes(L, m)
<1>1. PICK n \in Nat : n = Len(L)
  OBVIOUS
<1>2. M = SubSeq(L, n - m + 1, n) /\ n > m
  BY <1>1 DEF LastOnes
<1> HIDE DEF M
<1>3. M \in Seq(S) /\ Len(M) = m
  BY <1>1, <1>2
<1>4. \A k \in 1 .. m : M[k] = L[k + (n - m)]
  BY <1>1, <1>2
<1>5. n - m \in Nat /\ \A k \in 1 .. m : k + (n - m) \in 1 .. n
  BY <1>2
<1>6. Kept(L, M, Len(L) - m)
  BY <1>1, <1>3, <1>4, <1>5 DEF Kept
<1> QED
  BY <1>3, <1>6 DEF M

\* FlattenSeq is defined by a function on the prefixes of ss.
LEMMA FlattenEquation ==
  ASSUME NEW S, NEW ss \in Seq(Seq(S)), Len(ss) # 0
  PROVE  \E f \in [1 .. Len(ss) -> Seq(S)] :
           /\ FlattenSeq(ss) = f[Len(ss)]
           /\ f[1] = ss[1]
           /\ \A i \in 2 .. Len(ss) : f[i] = f[i - 1] \o ss[i]
<1> DEFINE n == Len(ss)
           Value(g, i) == IF i = 1 THEN ss[i] ELSE g[i - 1] \o ss[i]
           Correct(g, m) == \A i \in 1 .. m : g[i] = Value(g, i)
           Upto(m) == m <= n => \E g \in [1 .. m -> Seq(S)] : Correct(g, m)
           T == {m \in Nat : Upto(m)}
<1>1. n \in Nat \ {0} /\ \A i \in 1 .. n : ss[i] \in Seq(S)
  OBVIOUS
<1>2. Upto(0)
  <2>1. [i \in 1 .. 0 |-> <<>>] \in [1 .. 0 -> Seq(S)]
    OBVIOUS
  <2>2. Correct([i \in 1 .. 0 |-> <<>>], 0)
    OBVIOUS
  <2> QED
    BY <2>1, <2>2
<1>3. ASSUME NEW m \in Nat, Upto(m) PROVE Upto(m + 1)
  <2> SUFFICES ASSUME m + 1 <= n
               PROVE  \E g \in [1 .. m + 1 -> Seq(S)] : Correct(g, m + 1)
    OBVIOUS
  <2>1. PICK g \in [1 .. m -> Seq(S)] : Correct(g, m)
    <3>1. m <= n
      BY <1>1
    <3> QED
      BY <1>3, <3>1
  <2> DEFINE last == IF m = 0 THEN ss[1] ELSE g[m] \o ss[m + 1]
             h == [i \in 1 .. m + 1 |-> IF i <= m THEN g[i] ELSE last]
  <2>2. last \in Seq(S)
    <3>1. CASE m = 0
      BY <1>1, <3>1
    <3>2. CASE m # 0
      BY <1>1, <3>2
    <3> QED
      BY <3>1, <3>2
  <2>3. h \in [1 .. m + 1 -> Seq(S)]
    BY <2>2
  <2>4. ASSUME NEW i \in 1 .. m + 1 PROVE h[i] = Value(h, i)
    <3>1. CASE i <= m
      <4>1. i \in 1 .. m /\ h[i] = g[i] /\ (i # 1 => h[i - 1] = g[i - 1])
        BY <3>1
      <4> QED
        BY <2>1, <4>1
    <3>2. CASE i = m + 1
      <4>1. h[i] = last /\ (i # 1 => h[i - 1] = g[m])
        BY <3>2
      <4> QED
        BY <3>2, <4>1
    <3> QED
      BY <3>1, <3>2
  <2> QED
    BY <2>3, <2>4
<1>4. \E g \in [1 .. n -> Seq(S)] : Correct(g, n)
  <2> HIDE DEF Upto
  <2>1. 0 \in T /\ \A m \in Nat : m \in T => m + 1 \in T
    BY <1>2, <1>3
  <2> HIDE DEF T
  <2>2. \A m \in Nat : m \in T
    BY <2>1, Induct
  <2> USE DEF T
  <2>3. Upto(n)
    BY <1>1, <2>2
  <2> QED
    BY <1>1, <2>3 DEF Upto
<1>5. PICK g \in [1 .. n -> Seq(S)] : Correct(g, n)
  BY <1>4
<1> DEFINE f == CHOOSE h : h = [i \in 1 .. n |-> IF i = 1 THEN ss[i] ELSE h[i - 1] \o ss[i]]
<1>6. f = [i \in 1 .. n |-> Value(f, i)]
  <2>1. g = [i \in 1 .. n |-> Value(g, i)]
    BY <1>5
  <2> QED
    BY <2>1
<1>7. FlattenSeq(ss) = f[n]
  BY DEF FlattenSeq
<1> HIDE DEF f
<1> DEFINE Same(m) == m \in 1 .. n => f[m] = g[m]
           U == {m \in Nat : Same(m)}
<1>8. ASSUME NEW m \in Nat, Same(m) PROVE Same(m + 1)
  <2> SUFFICES ASSUME m + 1 \in 1 .. n PROVE f[m + 1] = g[m + 1]
    OBVIOUS
  <2>1. f[m + 1] = Value(f, m + 1) /\ g[m + 1] = Value(g, m + 1)
    BY <1>5, <1>6
  <2>2. m # 0 => f[m] = g[m]
    BY <1>1, <1>8
  <2>3. (m + 1) - 1 = m /\ (m = 0 <=> m + 1 = 1)
    OBVIOUS
  <2> QED
    BY <2>1, <2>2, <2>3
<1>9. Same(n)
  <2>1. Same(0)
    OBVIOUS
  <2> HIDE DEF Same
  <2>2. 0 \in U /\ \A m \in Nat : m \in U => m + 1 \in U
    BY <1>8, <2>1
  <2> HIDE DEF U
  <2>3. \A m \in Nat : m \in U
    BY <2>2, Induct
  <2> QED
    BY <1>1, <2>3 DEF U
<1>10. FlattenSeq(ss) = g[n]
  BY <1>1, <1>7, <1>9
<1>11. g[1] = ss[1]
  <2>1. 1 \in 1 .. n
    OBVIOUS
  <2>2. g[1] = Value(g, 1)
    BY <1>5, <2>1
  <2> QED
    BY <2>2
<1>12. ASSUME NEW i \in 2 .. n PROVE g[i] = g[i - 1] \o ss[i]
  <2>1. i \in 1 .. n /\ i # 1
    OBVIOUS
  <2> QED
    BY <1>5, <2>1
<1> QED
  BY <1>10, <1>11, <1>12

\* Where the pieces of a flattened sequence lie: piece k is what follows pos[k].
Cut(ss, all, pos) ==
  /\ pos \in [1 .. Len(ss) + 1 -> Nat]
  /\ pos[1] = 0 /\ pos[Len(ss) + 1] = Len(all)
  /\ \A k \in 1 .. Len(ss) :
       /\ pos[k + 1] = pos[k] + Len(ss[k])
       /\ \A i \in 1 .. Len(ss[k]) : pos[k] + i \in 1 .. Len(all) /\ all[pos[k] + i] = ss[k][i]
  /\ \A j \in 1 .. Len(all) :
       \E k \in 1 .. Len(ss) : \E i \in 1 .. Len(ss[k]) : j = pos[k] + i

LEMMA FlattenCut ==
  ASSUME NEW S, NEW ss \in Seq(Seq(S))
  PROVE  FlattenSeq(ss) \in Seq(S) /\ \E pos : Cut(ss, FlattenSeq(ss), pos)
<1> DEFINE n == Len(ss)
<1>1. n \in Nat /\ \A i \in 1 .. n : ss[i] \in Seq(S) /\ Len(ss[i]) \in Nat
  OBVIOUS
<1>2. CASE n = 0
  <2>1. FlattenSeq(ss) = ss /\ ss = <<>>
    BY <1>2 DEF FlattenSeq
  <2>2. Cut(<<>>, <<>>, [k \in 1 .. 1 |-> 0])
    BY DEF Cut
  <2> QED
    BY <2>1, <2>2
<1>3. CASE n # 0
  <2>1. PICK f \in [1 .. n -> Seq(S)] :
          /\ FlattenSeq(ss) = f[n]
          /\ f[1] = ss[1]
          /\ \A i \in 2 .. n : f[i] = f[i - 1] \o ss[i]
    BY <1>3, FlattenEquation
  <2> DEFINE pos == [k \in 1 .. n + 1 |-> IF k = 1 THEN 0 ELSE Len(f[k - 1])]
             Ok(m) == m \in 1 .. n =>
               /\ Len(f[m]) = pos[m] + Len(ss[m])
               /\ \A k \in 1 .. m : \A i \in 1 .. Len(ss[k]) :
                    pos[k] + i \in 1 .. Len(f[m]) /\ f[m][pos[k] + i] = ss[k][i]
               /\ \A j \in 1 .. Len(f[m]) :
                    \E k \in 1 .. m : \E i \in 1 .. Len(ss[k]) : j = pos[k] + i
             T == {m \in Nat : Ok(m)}
  <2>2. /\ pos \in [1 .. n + 1 -> Nat] /\ pos[1] = 0
        /\ \A k \in 1 .. n : pos[k + 1] = Len(f[k]) /\ Len(f[k]) \in Nat
    <3>1. ASSUME NEW k \in 1 .. n PROVE f[k] \in Seq(S) /\ Len(f[k]) \in Nat
      <4>1. f[k] \in Seq(S)
        OBVIOUS
      <4> QED
        BY <4>1
    <3>2. ASSUME NEW k \in 1 .. n + 1 PROVE pos[k] \in Nat
      <4>1. CASE k = 1
        BY <4>1
      <4>2. CASE k # 1
        <5>1. k - 1 \in 1 .. n /\ pos[k] = Len(f[k - 1])
          BY <1>1, <4>2
        <5> QED
          BY <3>1, <5>1
      <4> QED
        BY <4>1, <4>2
    <3>3. pos \in [1 .. n + 1 -> Nat]
      BY <3>2
    <3>4. pos[1] = 0
      BY <1>1
    <3>5. ASSUME NEW k \in 1 .. n PROVE pos[k + 1] = Len(f[k])
      <4>1. k + 1 \in 1 .. n + 1 /\ k + 1 # 1 /\ (k + 1) - 1 = k
        BY <1>1
      <4> QED
        BY <4>1
    <3> QED
      BY <3>1, <3>3, <3>4, <3>5
  <2> HIDE DEF pos
  <2>3. ASSUME NEW m \in Nat, Ok(m) PROVE Ok(m + 1)
    <3> SUFFICES ASSUME m + 1 \in 1 .. n PROVE Ok(m + 1)
      OBVIOUS
    <3>1. CASE m = 0
      <4>1. f[m + 1] = ss[1] /\ pos[1] = 0 /\ Len(ss[1]) \in Nat
        BY <1>1, <2>1, <2>2, <3>1
      <4> QED
        BY <3>1, <4>1
    <3>2. CASE m # 0
      <4>1. m \in 1 .. n /\ (m + 1) - 1 = m /\ m + 1 \in 2 .. n
        BY <1>1, <3>2
      <4>2. f[m + 1] = f[m] \o ss[m + 1] /\ f[m] \in Seq(S) /\ ss[m + 1] \in Seq(S)
        BY <1>1, <2>1, <4>1
      <4>3. pos[m + 1] = Len(f[m])
        BY <2>2, <4>1
      <4>4. /\ Len(f[m + 1]) = pos[m + 1] + Len(ss[m + 1])
            /\ \A j \in 1 .. Len(f[m]) :
                 j \in 1 .. Len(f[m + 1]) /\ f[m + 1][j] = f[m][j]
            /\ \A i \in 1 .. Len(ss[m + 1]) :
                 /\ pos[m + 1] + i \in 1 .. Len(f[m + 1])
                 /\ f[m + 1][pos[m + 1] + i] = ss[m + 1][i]
            /\ \A j \in 1 .. Len(f[m + 1]) :
                 j \in 1 .. Len(f[m]) \/ \E i \in 1 .. Len(ss[m + 1]) : j = pos[m + 1] + i
        <5>1. Joined(f[m] \o ss[m + 1], f[m], ss[m + 1], Len(f[m]))
          BY <4>2, Concatenation
        <5>2. Joined(f[m + 1], f[m], ss[m + 1], pos[m + 1])
          BY <4>2, <4>3, <5>1
        <5> QED
          BY <5>2, Zenon DEF Joined
      <4>5. ASSUME NEW k \in 1 .. m + 1, NEW i \in 1 .. Len(ss[k])
            PROVE  pos[k] + i \in 1 .. Len(f[m + 1]) /\ f[m + 1][pos[k] + i] = ss[k][i]
        <5>1. CASE k \in 1 .. m
          <6>1. pos[k] + i \in 1 .. Len(f[m]) /\ f[m][pos[k] + i] = ss[k][i]
            BY <2>3, <4>1, <5>1
          <6> QED
            BY <4>4, <6>1, Zenon
        <5>2. CASE k = m + 1
          BY <4>4, <5>2, Zenon
        <5> QED
          BY <5>1, <5>2
      <4>6. ASSUME NEW j \in 1 .. Len(f[m + 1])
            PROVE  \E k \in 1 .. m + 1 : \E i \in 1 .. Len(ss[k]) : j = pos[k] + i
        <5>1. CASE j \in 1 .. Len(f[m])
          <6>1. PICK k \in 1 .. m : \E i \in 1 .. Len(ss[k]) : j = pos[k] + i
            BY <2>3, <4>1, <5>1
          <6> QED
            BY <6>1
        <5>2. CASE \E i \in 1 .. Len(ss[m + 1]) : j = pos[m + 1] + i
          <6>1. m + 1 \in 1 .. m + 1
            OBVIOUS
          <6> QED
            BY <5>2, <6>1
        <5> QED
          BY <4>4, <5>1, <5>2, Zenon
      <4> QED
        BY <4>4, <4>5, <4>6
    <3> QED
      BY <3>1, <3>2
  <2>4. Ok(n)
    <3>1. Ok(0)
      OBVIOUS
    <3> HIDE DEF Ok
    <3>2. 0 \in T /\ \A m \in Nat : m \in T => m + 1 \in T
      BY <2>3, <3>1
    <3> HIDE DEF T
    <3>3. \A m \in Nat : m \in T
      BY <3>2, Induct
    <3> QED
      BY <1>1, <3>3 DEF T
  <2>5. /\ \A k \in 1 .. n : pos[k + 1] = pos[k] + Len(ss[k])
    <3>1. ASSUME NEW k \in 1 .. n PROVE Len(f[k]) = pos[k] + Len(ss[k])
      <4>1. CASE k = 1
        BY <1>1, <2>1, <2>2, <4>1
      <4>2. CASE k # 1
        <5>1. k \in 2 .. n /\ k - 1 \in 1 .. n /\ (k - 1) + 1 = k
          BY <1>1, <4>2
        <5>2. f[k] = f[k - 1] \o ss[k] /\ f[k - 1] \in Seq(S) /\ ss[k] \in Seq(S)
              /\ pos[k] = Len(f[k - 1])
          BY <1>1, <2>1, <2>2, <5>1
        <5> QED
          BY <5>2
      <4> QED
        BY <4>1, <4>2
    <3> QED
      BY <2>2, <3>1
  <2>6. n \in 1 .. n
    BY <1>1, <1>3
  <2>7. Cut(ss, FlattenSeq(ss), pos)
    BY <2>1, <2>2, <2>4, <2>5, <2>6 DEF Cut
  <2>8. FlattenSeq(ss) \in Seq(S)
    BY <2>1, <2>6
  <2> QED
    BY <2>7, <2>8
<1> QED
  BY <1>2, <1>3

-----------------------------------------------------------------------------
(* Sums                                                                     *)

\* P[k] is the sum of the first k values.
Sums(P, values) ==
  /\ P \in [0 .. Len(values) -> Int] /\ P[0] = 0
  /\ \A k \in 1 .. Len(values) : P[k] = P[k - 1] + values[k]

\* FoldLeft is defined by a function on the sets of indices.
LEMMA SumEquation ==
  ASSUME NEW values \in Seq(Int)
  PROVE  \E f \in [SUBSET (1 .. Len(values)) -> Int] :
           /\ Sum(values) = f[1 .. Len(values)]
           /\ f[{}] = 0
           /\ \A s \in SUBSET (1 .. Len(values)) :
                s # {} => f[s] = f[s \ {Max(s)}] + values[Max(s)]
<1> DEFINE n == Len(values)
           Value(g, s) == IF s = {} THEN 0 ELSE g[s \ {Max(s)}] + values[Max(s)]
           Correct(g, m) == \A s \in SUBSET (1 .. m) : g[s] = Value(g, s)
           Upto(m) == m <= n => \E g \in [SUBSET (1 .. m) -> Int] : Correct(g, m)
           T == {m \in Nat : Upto(m)}
<1>1. n \in Nat /\ DOMAIN values = 1 .. n /\ \A i \in 1 .. n : values[i] \in Int
  OBVIOUS
<1> HIDE DEF n
<1>2. Upto(0)
  <2> DEFINE g == [s \in SUBSET (1 .. 0) |-> 0]
  <2>1. \A s \in SUBSET (1 .. 0) : s = {}
    OBVIOUS
  <2>2. g \in [SUBSET (1 .. 0) -> Int] /\ Correct(g, 0)
    BY <2>1
  <2> QED
    BY <2>2
<1>3. ASSUME NEW m \in Nat, Upto(m) PROVE Upto(m + 1)
  <2> SUFFICES ASSUME m + 1 <= n
               PROVE  \E g \in [SUBSET (1 .. m + 1) -> Int] : Correct(g, m + 1)
    OBVIOUS
  <2>1. PICK g \in [SUBSET (1 .. m) -> Int] : Correct(g, m)
    <3>1. m <= n
      BY <1>1
    <3> QED
      BY <1>3, <3>1
  <2> DEFINE h == [s \in SUBSET (1 .. m + 1) |->
                    IF s \in SUBSET (1 .. m) THEN g[s] ELSE g[s \ {m + 1}] + values[m + 1]]
  <2>2. values[m + 1] \in Int
    BY <1>1
  <2>3. \A s \in SUBSET (1 .. m + 1) : s \ {m + 1} \in SUBSET (1 .. m)
    OBVIOUS
  <2>4. h \in [SUBSET (1 .. m + 1) -> Int]
    BY <2>2, <2>3
  <2>5. ASSUME NEW s \in SUBSET (1 .. m + 1) PROVE h[s] = Value(h, s)
    <3>1. CASE s = {}
      <4>1. s \in SUBSET (1 .. m) /\ h[s] = g[s]
        BY <3>1
      <4> QED
        BY <2>1, <3>1, <4>1
    <3>2. CASE s # {} /\ s \in SUBSET (1 .. m)
      <4>1. s \ {Max(s)} \in SUBSET (1 .. m)
        BY <3>2
      <4>2. h[s] = g[s] /\ h[s \ {Max(s)}] = g[s \ {Max(s)}]
        BY <3>2, <4>1
      <4>3. g[s] = g[s \ {Max(s)}] + values[Max(s)]
        BY <2>1, <3>2
      <4> QED
        BY <3>2, <4>2, <4>3
    <3>3. CASE s \notin SUBSET (1 .. m)
      <4>1. m + 1 \in s /\ s # {}
        BY <3>3
      <4>2. Max(s) = m + 1
        <5>1. m + 1 \in Nat
          OBVIOUS
        <5>2. Max(s) \in s /\ \A k \in s : k <= Max(s)
          BY <4>1, <5>1, Greatest
        <5>3. m + 1 <= Max(s) /\ Max(s) \in 1 .. m + 1
          BY <4>1, <5>2
        <5> QED
          BY <5>3
      <4>3. h[s] = g[s \ {m + 1}] + values[m + 1] /\ h[s \ {m + 1}] = g[s \ {m + 1}]
        BY <2>3, <3>3
      <4> QED
        BY <4>1, <4>2, <4>3
    <3> QED
      BY <3>1, <3>2, <3>3
  <2> QED
    BY <2>4, <2>5
<1>4. Upto(n)
  <2> HIDE DEF Upto
  <2>1. 0 \in T /\ \A m \in Nat : m \in T => m + 1 \in T
    BY <1>2, <1>3
  <2> HIDE DEF T
  <2>2. \A m \in Nat : m \in T
    BY <2>1, Induct
  <2> USE DEF T
  <2> QED
    BY <1>1, <2>2
<1>5. PICK g \in [SUBSET (1 .. n) -> Int] : Correct(g, n)
  <2> HIDE DEF Correct
  <2>1. n <= n
    BY <1>1
  <2> QED
    BY <1>4, <2>1
<1> DEFINE f == CHOOSE h : h = [s \in SUBSET (1 .. n) |->
                  IF s = {} THEN 0 ELSE h[s \ {Max(s)}] + values[Max(s)]]
<1>6. f = [s \in SUBSET (1 .. n) |-> Value(f, s)]
  <2>1. g = [s \in SUBSET (1 .. n) |-> Value(g, s)]
    BY <1>5
  <2> QED
    BY <2>1
<1>7. Sum(values) = f[1 .. n]
  BY <1>1 DEF Sum, FoldLeft, MapThenFoldSet
<1> HIDE DEF f
<1> DEFINE Same(m) == m <= n => \A s \in SUBSET (1 .. m) : f[s] = g[s]
           U == {m \in Nat : Same(m)}
<1>8. Same(0)
  <2>1. f[{}] = Value(f, {}) /\ g[{}] = Value(g, {})
    BY <1>5, <1>6
  <2>2. \A s \in SUBSET (1 .. 0) : s = {}
    OBVIOUS
  <2> QED
    BY <2>1, <2>2
<1>9. ASSUME NEW m \in Nat, Same(m) PROVE Same(m + 1)
  <2> SUFFICES ASSUME m + 1 <= n, NEW s \in SUBSET (1 .. m + 1) PROVE f[s] = g[s]
    OBVIOUS
  <2>1. \A u \in SUBSET (1 .. m) : f[u] = g[u]
    BY <1>1, <1>9
  <2>2. CASE s \in SUBSET (1 .. m)
    BY <2>1, <2>2
  <2>3. CASE s \notin SUBSET (1 .. m)
    <3>1. m + 1 \in s /\ s # {} /\ s \in SUBSET (1 .. n)
      BY <1>1, <2>3
    <3>2. Max(s) = m + 1
      <4>1. m + 1 \in Nat
        OBVIOUS
      <4>2. Max(s) \in s /\ \A k \in s : k <= Max(s)
        BY <3>1, <4>1, Greatest
      <4>3. m + 1 <= Max(s) /\ Max(s) \in 1 .. m + 1
        BY <3>1, <4>2
      <4> QED
        BY <4>3
    <3>3. s \ {m + 1} \in SUBSET (1 .. m)
      OBVIOUS
    <3>4. f[s] = Value(f, s) /\ g[s] = Value(g, s)
      BY <1>5, <1>6, <3>1
    <3> QED
      BY <2>1, <3>1, <3>2, <3>3, <3>4
  <2> QED
    BY <2>2, <2>3
<1>10. \A s \in SUBSET (1 .. n) : f[s] = g[s]
  <2> HIDE DEF Same
  <2>1. 0 \in U /\ \A m \in Nat : m \in U => m + 1 \in U
    BY <1>8, <1>9
  <2> HIDE DEF U
  <2>2. \A m \in Nat : m \in U
    BY <2>1, Induct
  <2>3. Same(n)
    BY <1>1, <2>2 DEF U
  <2> QED
    BY <1>1, <2>3 DEF Same
<1>11. Sum(values) = g[1 .. n]
  BY <1>7, <1>10
<1>12. g[{}] = 0
  BY <1>5
<1>13. ASSUME NEW s \in SUBSET (1 .. n), s # {} PROVE g[s] = g[s \ {Max(s)}] + values[Max(s)]
  BY <1>5, <1>13
<1> QED
  BY <1>11, <1>12, <1>13 DEF n

LEMMA SumOfPrefixes ==
  ASSUME NEW values \in Seq(Int)
  PROVE  \E P : Sums(P, values) /\ Sum(values) = P[Len(values)]
<1>1. PICK n \in Nat : n = Len(values)
  OBVIOUS
<1>2. PICK f \in [SUBSET (1 .. n) -> Int] :
        /\ Sum(values) = f[1 .. n]
        /\ f[{}] = 0
        /\ \A s \in SUBSET (1 .. n) : s # {} => f[s] = f[s \ {Max(s)}] + values[Max(s)]
  BY <1>1, SumEquation
<1> DEFINE P == [k \in 0 .. n |-> f[1 .. k]]
<1>3. P \in [0 .. n -> Int]
  <2>1. \A k \in 0 .. n : 1 .. k \in SUBSET (1 .. n)
    OBVIOUS
  <2> QED
    BY <2>1
<1>4. P[0] = 0
  <2>1. 1 .. 0 = {} /\ 0 \in 0 .. n
    OBVIOUS
  <2> QED
    BY <1>2, <2>1
<1>5. ASSUME NEW k \in 1 .. n PROVE P[k] = P[k - 1] + values[k]
  <2> DEFINE s == 1 .. k
  <2>1. s \in SUBSET (1 .. n) /\ k \in s /\ s \in SUBSET (1 .. k) /\ k \in Nat
    OBVIOUS
  <2>2. s \ {k} = 1 .. k - 1
    OBVIOUS
  <2>3. P[k] = f[s] /\ P[k - 1] = f[1 .. k - 1]
    OBVIOUS
  <2> HIDE DEF s
  <2>4. Max(s) = k
    <3>1. Max(s) \in s /\ \A j \in s : j <= Max(s)
      BY <2>1, Greatest
    <3>2. k <= Max(s) /\ Max(s) \in 1 .. k
      BY <2>1, <3>1
    <3> QED
      BY <3>2
  <2>5. f[s] = f[s \ {k}] + values[k]
    BY <1>2, <2>1, <2>4
  <2> QED
    BY <2>2, <2>3, <2>5
<1>6. P[n] = f[1 .. n]
  OBVIOUS
<1> HIDE DEF P
<1>7. Sums(P, values)
  BY <1>1, <1>3, <1>4, <1>5 DEF Sums
<1> QED
  BY <1>1, <1>2, <1>6, <1>7

LEMMA AverageTyped ==
  ASSUME NEW values \in Seq(Int)
  PROVE  Sum(values) \in Int /\ average(values) \in Int
<1>1. PICK P : Sums(P, values) /\ Sum(values) = P[Len(values)]
  BY SumOfPrefixes
<1>2. PICK n \in Nat : n = Len(values)
  OBVIOUS
<1>3. Sum(values) \in Int
  <2>1. P \in [0 .. n -> Int]
    BY <1>1, <1>2 DEF Sums
  <2>2. n \in 0 .. n
    OBVIOUS
  <2> QED
    BY <1>1, <1>2, <2>1, <2>2
<1>4. (IF values = <<>> THEN 1 ELSE Len(values)) \in Nat \ {0}
  BY <1>2
<1>5. \A a \in Int, b \in Nat \ {0} : a \div b \in Int
  OBVIOUS
<1> QED
  BY <1>3, <1>4, <1>5 DEF average

LEMMA SumBy ==
  ASSUME NEW values \in Seq(Int), NEW P, Sums(P, values)
  PROVE  Sum(values) = P[Len(values)]
<1>1. PICK Q : Sums(Q, values) /\ Sum(values) = Q[Len(values)]
  BY SumOfPrefixes
<1>2. PICK n \in Nat : n = Len(values)
  OBVIOUS
<1> DEFINE T == {m \in Nat : m <= n => P[m] = Q[m]}
<1>3. 0 \in T
  BY <1>1 DEF Sums
<1>4. ASSUME NEW m \in Nat, m \in T PROVE m + 1 \in T
  <2> SUFFICES ASSUME m + 1 <= n PROVE P[m + 1] = Q[m + 1]
    OBVIOUS
  <2>1. m + 1 \in 1 .. n /\ (m + 1) - 1 = m /\ P[m] = Q[m]
    BY <1>4
  <2> QED
    BY <1>1, <1>2, <2>1 DEF Sums
<1> HIDE DEF T
<1>5. n \in T
  BY <1>3, <1>4, Induct
<1>6. P[n] = Q[n]
  BY <1>5 DEF T
<1> QED
  BY <1>1, <1>2, <1>6

LEMMA SumOfZeros ==
  ASSUME NEW values \in Seq({0})
  PROVE  Sum(values) = 0 /\ average(values) = 0
<1>1. PICK n \in Nat : n = Len(values)
  OBVIOUS
<1> DEFINE P == [k \in 0 .. n |-> 0]
<1>2. values \in Seq(Int)
  OBVIOUS
<1>3. Sums(P, values)
  BY <1>1 DEF Sums
<1>4. P[n] = 0
  OBVIOUS
<1> HIDE DEF P
<1>5. Sum(values) = 0
  BY <1>1, <1>2, <1>3, <1>4, SumBy
<1>6. (IF values = <<>> THEN 1 ELSE n) \in Nat \ {0}
  BY <1>1
<1>7. \A b \in Nat \ {0} : 0 \div b = 0
  OBVIOUS
<1> QED
  BY <1>1, <1>5, <1>6, <1>7 DEF average

\* One value changes the sum by as much.
LEMMA SumOfChanged ==
  ASSUME NEW n \in Nat, NEW v \in [1 .. n -> Int], NEW w \in [1 .. n -> Int],
         NEW j \in 1 .. n, \A i \in 1 .. n : i # j => v[i] = w[i]
  PROVE  Sum(v) = Sum(w) + (v[j] - w[j])
<1>1. v \in Seq(Int) /\ w \in Seq(Int) /\ Len(v) = n /\ Len(w) = n
  OBVIOUS
<1>2. PICK Q : Sums(Q, w) /\ Sum(w) = Q[n]
  BY <1>1, SumOfPrefixes
<1>3. Q \in [0 .. n -> Int] /\ Q[0] = 0 /\ \A k \in 1 .. n : Q[k] = Q[k - 1] + w[k]
  BY <1>1, <1>2 DEF Sums
<1>4. PICK d \in Int : d = v[j] - w[j]
  OBVIOUS
<1> DEFINE P == [k \in 0 .. n |-> IF k < j THEN Q[k] ELSE Q[k] + d]
<1>5. P \in [0 .. n -> Int]
  BY <1>3
<1>6. P[0] = 0 /\ P[n] = Q[n] + d
  BY <1>3
<1>7. ASSUME NEW k \in 1 .. n PROVE P[k] = P[k - 1] + v[k]
  <2>1. P[k] = (IF k < j THEN Q[k] ELSE Q[k] + d) /\ P[k - 1] = (IF k - 1 < j THEN Q[k - 1] ELSE Q[k - 1] + d)
    OBVIOUS
  <2>2. Q[k] = Q[k - 1] + w[k] /\ Q[k - 1] \in Int /\ w[k] \in Int /\ v[k] \in Int
    BY <1>3
  <2>3. CASE k < j
    BY <2>1, <2>2, <2>3
  <2>4. CASE k = j
    BY <1>4, <2>1, <2>2, <2>4
  <2>5. CASE k > j
    BY <2>1, <2>2, <2>5
  <2> QED
    BY <2>3, <2>4, <2>5
<1> HIDE DEF P
<1>8. Sums(P, v)
  BY <1>1, <1>5, <1>6, <1>7 DEF Sums
<1> QED
  BY <1>1, <1>2, <1>4, <1>6, <1>8, SumBy

\* The squares of the differences to a, in terms of the values and their squares.
LEMMA SumOfSquares ==
  ASSUME NEW n \in Nat, NEW v \in [1 .. n -> Int], NEW a \in Int
  PROVE  Sum([i \in 1 .. n |-> (v[i] - a) * (v[i] - a)]) =
           Sum([i \in 1 .. n |-> v[i] * v[i]]) - 2 * (a * Sum(v)) + n * (a * a)
<1> DEFINE w == [i \in 1 .. n |-> v[i] * v[i]]
           x == [i \in 1 .. n |-> (v[i] - a) * (v[i] - a)]
<1>1. \A i, j \in Int : i * j \in Int
  OBVIOUS
<1>2. v \in Seq(Int) /\ w \in Seq(Int) /\ x \in Seq(Int)
  BY <1>1
<1>3. Len(v) = n /\ Len(w) = n /\ Len(x) = n
  OBVIOUS
<1>4. PICK P : Sums(P, v) /\ Sum(v) = P[n]
  BY <1>2, <1>3, SumOfPrefixes
<1>5. PICK Q : Sums(Q, w) /\ Sum(w) = Q[n]
  <2> HIDE DEF w
  <2> QED
    BY <1>2, <1>3, SumOfPrefixes
<1> DEFINE R == [k \in 0 .. n |-> Q[k] - 2 * (a * P[k]) + k * (a * a)]
<1>6. P \in [0 .. n -> Int] /\ P[0] = 0 /\ \A k \in 1 .. n : P[k] = P[k - 1] + v[k]
  BY <1>3, <1>4 DEF Sums
<1>7. Q \in [0 .. n -> Int] /\ Q[0] = 0 /\ \A k \in 1 .. n : Q[k] = Q[k - 1] + w[k]
  <2> HIDE DEF w
  <2> QED
    BY <1>3, <1>5 DEF Sums
<1>8. R \in [0 .. n -> Int] /\ R[0] = 0
  <2>1. \A k \in 0 .. n : Q[k] \in Int /\ a * P[k] \in Int /\ k * (a * a) \in Int
    BY <1>1, <1>6, <1>7
  <2>2. R \in [0 .. n -> Int]
    BY <2>1
  <2>3. R[0] = Q[0] - 2 * (a * P[0]) + 0 * (a * a)
    OBVIOUS
  <2>4. a * 0 = 0 /\ 0 * (a * a) = 0
    OBVIOUS
  <2> QED
    BY <1>6, <1>7, <2>2, <2>3, <2>4
<1>9. /\ \A k \in 0 .. n : R[k] = Q[k] - 2 * (a * P[k]) + k * (a * a)
      /\ \A k \in 1 .. n : w[k] = v[k] * v[k] /\ x[k] = (v[k] - a) * (v[k] - a)
  OBVIOUS
<1> HIDE DEF R, w, x
<1>10. ASSUME NEW k \in 1 .. n PROVE R[k] = R[k - 1] + x[k]
  <2>1. k \in 0 .. n /\ k - 1 \in 0 .. n /\ k \in Int
    OBVIOUS
  <2>2. PICK p \in Int, q \in Int, t \in Int : p = P[k - 1] /\ q = Q[k - 1] /\ t = v[k]
    BY <1>6, <1>7, <2>1
  <2>3. P[k] = p + t /\ Q[k] = q + t * t
    BY <1>6, <1>7, <1>9, <2>2
  <2>4. /\ R[k] = (q + t * t) - 2 * (a * (p + t)) + k * (a * a)
        /\ R[k - 1] = q - 2 * (a * p) + (k - 1) * (a * a)
        /\ x[k] = (t - a) * (t - a)
    BY <1>9, <2>1, <2>2, <2>3
  <2>5. (q + t * t) - 2 * (a * (p + t)) + k * (a * a) =
          (q - 2 * (a * p) + (k - 1) * (a * a)) + (t - a) * (t - a)
    BY <2>1
  <2> QED
    BY <2>4, <2>5
<1>14. R[n] = Q[n] - 2 * (a * P[n]) + n * (a * a)
  BY <1>9
<1>11. Sums(R, x)
  BY <1>3, <1>8, <1>10 DEF Sums
<1>12. Sum(x) = R[n]
  BY <1>2, <1>3, <1>11, SumBy
<1>13. Sum(x) = Sum(w) - 2 * (a * Sum(v)) + n * (a * a)
  BY <1>4, <1>5, <1>12, <1>14
<1> QED
  BY <1>13 DEF w, x

\* f adds up F on the subsets of a set, as MapThenFoldSet does: a member at a time.
OneOf(s) == CHOOSE x \in s : TRUE
Adds(f, S, F) ==
  \A s \in SUBSET S : f[s] = IF s = {} THEN 0 ELSE F[OneOf(s)] + f[s \ {OneOf(s)}]

LEMMA OneOfMany ==
  ASSUME NEW s, s # {}
  PROVE  OneOf(s) \in s
BY DEF OneOf

\* No matter in which order its members are taken.
Enumerates(h, n, S) ==
  /\ h \in [1 .. n -> S] /\ \A x \in S : \E i \in 1 .. n : h[i] = x
  /\ \A i, j \in 1 .. n : h[i] = h[j] => i = j
AddsUp(S, F, sum) == \E G \in [SUBSET S -> Int] : Adds(G, S, F) /\ G[S] = sum

LEMMA SumOfSet ==
  ASSUME NEW S, NEW F \in [S -> Int], NEW n \in Nat, NEW h, Enumerates(h, n, S)
  PROVE  AddsUp(S, F, Sum([i \in 1 .. n |-> F[h[i]]]))
<1> USE DEF Enumerates
<1> DEFINE Terms(s) == [i \in 1 .. n |-> IF h[i] \in s THEN F[h[i]] ELSE 0]
           G == [s \in SUBSET S |-> Sum(Terms(s))]
<1>1. \A s \in SUBSET S : Terms(s) \in [1 .. n -> Int] /\ Terms(s) \in Seq(Int)
  OBVIOUS
<1>2. G \in [SUBSET S -> Int]
  BY <1>1, AverageTyped
<1>3. G[{}] = 0
  <2>1. Terms({}) \in Seq({0})
    OBVIOUS
  <2>2. Sum(Terms({})) = 0
    BY <2>1, SumOfZeros
  <2> QED
    BY <2>2
<1>4. ASSUME NEW s \in SUBSET S, NEW x \in s PROVE G[s] = F[x] + G[s \ {x}]
  <2> DEFINE v == Terms(s)
             w == Terms(s \ {x})
  <2>1. PICK j \in 1 .. n : h[j] = x
    OBVIOUS
  <2>2. v \in [1 .. n -> Int] /\ w \in [1 .. n -> Int]
    OBVIOUS
  <2>3. \A i \in 1 .. n : i # j => v[i] = w[i]
    BY <2>1
  <2>4. v[j] = F[x] /\ w[j] = 0 /\ F[x] \in Int
    BY <2>1
  <2>5. G[s] = Sum(v) /\ G[s \ {x}] = Sum(w) /\ G[s \ {x}] \in Int
    BY <1>2
  <2> HIDE DEF v, w, G
  <2>6. Sum(v) = Sum(w) + (v[j] - w[j])
    BY <2>2, <2>3, SumOfChanged
  <2> QED
    BY <2>4, <2>5, <2>6
<1>5. G[S] = Sum([i \in 1 .. n |-> F[h[i]]])
  <2>1. Terms(S) = [i \in 1 .. n |-> F[h[i]]]
    OBVIOUS
  <2> QED
    BY <2>1
<1> HIDE DEF G
<1>6. Adds(G, S, F)
  <2> SUFFICES ASSUME NEW s \in SUBSET S, s # {}
               PROVE  G[s] = F[OneOf(s)] + G[s \ {OneOf(s)}]
    BY <1>3 DEF Adds
  <2> QED
    BY <1>4, OneOfMany
<1> QED
  BY <1>2, <1>5, <1>6 DEF AddsUp

LEMMA AddsAlike ==
  ASSUME NEW S, IsFiniteSet(S), NEW F, NEW f, NEW g, Adds(f, S, F), Adds(g, S, F)
  PROVE  f[S] = g[S]
<1> DEFINE Alike(m) == \A s \in SUBSET S : Cardinality(s) = m => f[s] = g[s]
           T == {m \in Nat : Alike(m)}
<1>1. \A s \in SUBSET S : IsFiniteSet(s) /\ Cardinality(s) \in Nat
  BY FS_Subset, FS_CardinalityType
<1>2. Alike(0)
  <2> SUFFICES ASSUME NEW s \in SUBSET S, Cardinality(s) = 0 PROVE f[s] = g[s]
    OBVIOUS
  <2>1. s = {}
    BY <1>1, FS_EmptySet
  <2> QED
    BY <2>1 DEF Adds
<1>3. ASSUME NEW m \in Nat, Alike(m) PROVE Alike(m + 1)
  <2> SUFFICES ASSUME NEW s \in SUBSET S, Cardinality(s) = m + 1 PROVE f[s] = g[s]
    OBVIOUS
  <2> DEFINE x == OneOf(s)
  <2>1. IsFiniteSet(s)
    BY <1>1
  <2>2. s # {}
    BY FS_EmptySet
  <2>3. x \in s
    BY <2>2, OneOfMany
  <2>4. Cardinality(s \ {x}) = m
    <3> HIDE DEF x
    <3>1. Cardinality(s \ {x}) = Cardinality(s) - 1
      BY <2>1, <2>3, FS_RemoveElement
    <3>2. (m + 1) - 1 = m
      OBVIOUS
    <3> QED
      BY <3>1, <3>2
  <2>5. f[s \ {x}] = g[s \ {x}]
    <3> HIDE DEF x
    <3>1. s \ {x} \in SUBSET S
      OBVIOUS
    <3> QED
      BY <1>3, <2>4, <3>1
  <2>6. f[s] = F[x] + f[s \ {x}] /\ g[s] = F[x] + g[s \ {x}]
    BY <2>2 DEF Adds
  <2> QED
    BY <2>5, <2>6
<1>4. \A m \in Nat : m \in T
  <2> HIDE DEF Alike
  <2>1. 0 \in T /\ \A m \in Nat : m \in T => m + 1 \in T
    BY <1>2, <1>3
  <2> HIDE DEF T
  <2> QED
    BY <2>1, Induct
<1>5. Alike(Cardinality(S))
  <2>1. Cardinality(S) \in Nat
    BY <1>1
  <2> HIDE DEF Alike
  <2> QED
    BY <1>4, <2>1
<1> QED
  BY <1>5

-----------------------------------------------------------------------------
(* What is left of words                                                    *)

\* Sequences of none or one, one after the other.
LEMMA FlattenTyped ==
  ASSUME NEW S, NEW ss \in Seq(Seq(S))
  PROVE  FlattenSeq(ss) \in Seq(S)
<1>1. CASE Len(ss) = 0
  <2>1. FlattenSeq(ss) = ss /\ ss = <<>>
    BY <1>1 DEF FlattenSeq
  <2> QED
    BY <2>1
<1>2. CASE Len(ss) # 0
  <2>1. PICK n \in Nat \ {0} : n = Len(ss)
    BY <1>2
  <2>2. PICK f \in [1 .. n -> Seq(S)] : FlattenSeq(ss) = f[n]
    BY <1>2, <2>1, FlattenEquation
  <2> QED
    BY <2>2
<1> QED
  BY <1>1, <1>2

\* The first ones empty, and the others of one each.
LEMMA FlattenTail ==
  ASSUME NEW S, NEW n \in Nat \ {0}, NEW c \in 0 .. n - 1, NEW w \in [1 .. n - c -> S]
  PROVE  FlattenSeq([i \in 1 .. n |-> IF i <= c THEN <<>> ELSE <<w[i - c]>>]) = w
<1> DEFINE ss == [i \in 1 .. n |-> IF i <= c THEN <<>> ELSE <<w[i - c]>>]
<1>1. /\ ss \in Seq(Seq(S)) /\ Len(ss) = n
      /\ \A i \in 1 .. n : ss[i] = IF i <= c THEN <<>> ELSE <<w[i - c]>>
  <2>1. ASSUME NEW i \in 1 .. n
        PROVE  (IF i <= c THEN <<>> ELSE <<w[i - c]>>) \in Seq(S)
    <3>1. CASE i <= c
      BY <3>1
    <3>2. CASE ~ i <= c
      <4>1. i - c \in 1 .. n - c
        BY <3>2
      <4>2. w[i - c] \in S
        BY <4>1
      <4> QED
        BY <3>2, <4>2
    <3> QED
      BY <3>1, <3>2
  <2> QED
    BY <2>1
<1> HIDE DEF ss
<1>2. PICK f \in [1 .. n -> Seq(S)] :
        /\ FlattenSeq(ss) = f[n]
        /\ f[1] = ss[1]
        /\ \A i \in 2 .. n : f[i] = f[i - 1] \o ss[i]
  <2>1. Len(ss) # 0
    BY <1>1
  <2>2. \E f \in [1 .. Len(ss) -> Seq(S)] :
          /\ FlattenSeq(ss) = f[Len(ss)]
          /\ f[1] = ss[1]
          /\ \A i \in 2 .. Len(ss) : f[i] = f[i - 1] \o ss[i]
    BY <1>1, <2>1, FlattenEquation
  <2>3. Len(ss) = n
    BY <1>1
  <2> QED
    BY <2>2, <2>3
<1> DEFINE First(m) == [j \in 1 .. m |-> w[j]]
           So(m) == IF m <= c THEN <<>> ELSE First(m - c)
           T == {m \in Nat : m \in 1 .. n => f[m] = So(m)}
<1>3. ASSUME NEW x \in S PROVE <<>> \o <<x>> = <<x>>
  OBVIOUS
<1>4. ASSUME NEW m \in 1 .. n - c PROVE First(m) \in Seq(S) /\ Len(First(m)) = m /\ w[m] \in S
  OBVIOUS
<1>5. ASSUME NEW k \in 1 .. n
      PROVE  /\ k = 1 => So(k) = ss[k]
             /\ k # 1 => So(k) = So(k - 1) \o ss[k]
  <2>1. CASE k <= c
    <3>1. ss[k] = <<>> /\ So(k) = <<>> /\ (k # 1 => So(k - 1) = <<>>)
      BY <1>1, <2>1
    <3>2. <<>> \o <<>> = <<>>
      OBVIOUS
    <3> QED
      BY <3>1, <3>2
  <2>2. CASE k = c + 1
    <3>1. k - c = 1 /\ 1 \in 1 .. n - c /\ ~ k <= c /\ k - 1 <= c
      BY <2>2
    <3>2. ss[k] = <<w[1]>> /\ So(k) = First(1) /\ So(k - 1) = <<>>
      BY <1>1, <3>1
    <3>3. First(1) = <<w[1]>>
      OBVIOUS
    <3>4. w[1] \in S
      BY <3>1
    <3> HIDE DEF So, First
    <3> QED
      BY <1>3, <3>2, <3>3, <3>4
  <2>3. CASE k > c + 1
    <3>1. /\ ~ k <= c /\ ~ k - 1 <= c /\ k # 1 /\ k - c \in 1 .. n - c
          /\ (k - 1) - c \in 1 .. n - c /\ k - c = ((k - 1) - c) + 1
      BY <2>3
    <3>2. ss[k] = <<w[k - c]>> /\ So(k) = First(k - c) /\ So(k - 1) = First((k - 1) - c)
      BY <1>1, <3>1
    <3>3. PICK m \in Nat : m = (k - 1) - c /\ k - c = m + 1 /\ m \in 1 .. n - c /\ m + 1 \in 1 .. n - c
      BY <3>1
    <3>4. First(m + 1) = First(m) \o <<w[m + 1]>>
      <4>1. First(m) \in Seq(S) /\ Len(First(m)) = m /\ w[m + 1] \in S
        BY <1>4, <3>3
      <4> QED
        BY <4>1
    <3> HIDE DEF So, First
    <3> QED
      BY <3>1, <3>2, <3>3, <3>4
  <2>4. k <= c \/ k = c + 1 \/ k > c + 1
    OBVIOUS
  <2> HIDE DEF So, First
  <2> QED
    BY <2>1, <2>2, <2>3, <2>4
<1> HIDE DEF So, First
<1>6. ASSUME NEW m \in Nat, m \in T PROVE m + 1 \in T
  <2> SUFFICES ASSUME m + 1 \in 1 .. n PROVE f[m + 1] = So(m + 1)
    OBVIOUS
  <2>1. CASE m = 0
    <3>1. m + 1 = 1 /\ 1 \in 1 .. n
      BY <2>1
    <3>2. So(1) = ss[1]
      BY <1>5, <3>1
    <3> QED
      BY <1>2, <3>1, <3>2
  <2>2. CASE m # 0
    <3>1. m + 1 \in 2 .. n /\ m \in 1 .. n /\ (m + 1) - 1 = m /\ m + 1 # 1
      BY <2>2
    <3>2. f[m] = So(m)
      BY <1>6, <3>1
    <3> QED
      BY <1>2, <1>5, <3>1, <3>2
  <2> QED
    BY <2>1, <2>2
<1>7. 0 \in T
  OBVIOUS
<1> HIDE DEF T
<1>8. n \in T
  BY <1>6, <1>7, Induct
<1>9. f[n] = So(n)
  BY <1>8 DEF T
<1>10. So(n) = w
  <2>1. ~ n <= c
    OBVIOUS
  <2> QED
    BY <2>1 DEF So, First
<1> QED
  BY <1>2, <1>9, <1>10 DEF ss

-----------------------------------------------------------------------------
(* The average and the variance                                             *)

LEMMA AverageOf ==
  ASSUME NEW n \in Nat \ {0}, NEW v \in [1 .. n -> Int]
  PROVE  /\ Sum(v) \in Int /\ average(v) \in Int
         /\ average(v) = Sum(v) \div n
         /\ n * average(v) <= Sum(v) /\ Sum(v) < n * average(v) + n
<1>1. v \in Seq(Int) /\ v # <<>> /\ Len(v) = n
  OBVIOUS
<1>2. average(v) = Sum(v) \div n
  BY <1>1 DEF average
<1>3. Sum(v) \in Int /\ average(v) \in Int
  BY <1>1, AverageTyped
<1>4. \A a \in Int : n * (a \div n) <= a /\ a < n * (a \div n) + n
  OBVIOUS
<1> QED
  BY <1>2, <1>3, <1>4

\* With the average rounded down by r / n, and the variance by u / n, it is off by
\* r * r - n * u, in units of 1 / (n * n).
LEMMA RoundedVariance ==
  ASSUME NEW n \in Nat \ {0}, NEW S \in Int, NEW Q \in Int, NEW A \in Int, NEW D \in Int,
         NEW V \in Int, n * A <= S, S < n * A + n, n * V <= D, D < n * V + n,
         D = Q - 2 * (A * S) + n * (A * A)
  PROVE  n * n * V - (n * Q - S * S) \in - (n * n) .. n * n
<1>1. PICK r \in Int : r = S - n * A
  OBVIOUS
<1>2. PICK u \in Int : u = D - n * V
  OBVIOUS
<1>3. 0 <= r /\ r < n /\ 0 <= u /\ u < n
  BY <1>1, <1>2
<1>4. n * n * V - (n * Q - S * S) = r * r - n * u
  <2>1. S = r + n * A /\ n * V = D - u
    BY <1>1, <1>2
  <2>2. n * n * V = n * (D - u)
    <3>1. n * n * V = n * (n * V)
      OBVIOUS
    <3> QED
      BY <2>1, <3>1
  <2>3. n * (D - u) = n * D - n * u
    OBVIOUS
  <2>4. n * D = n * Q - 2 * (n * (A * S)) + n * (n * (A * A))
    OBVIOUS
  <2>5. r * r = S * S - 2 * (n * (A * S)) + n * (n * (A * A))
    BY <1>1
  <2> QED
    BY <2>2, <2>3, <2>4, <2>5
<1>5. 0 <= r * r /\ r * r <= n * n
  BY <1>3
<1>6. 0 <= n * u /\ n * u <= n * n
  BY <1>3
<1> QED
  BY <1>4, <1>5, <1>6

LEMMA VarianceOf ==
  ASSUME NEW n \in Nat \ {0}, NEW v \in [1 .. n -> Int]
  PROVE  LET S == Sum(v)
             Q == Sum([i \in 1 .. n |-> v[i] * v[i]])
         IN  n * n * variance(average(v), v) - (n * Q - S * S) \in - (n * n) .. n * n
<1> DEFINE A == average(v)
           w == [i \in 1 .. n |-> v[i] * v[i]]
           x == [i \in 1 .. n |-> (v[i] - A) * (v[i] - A)]
<1>1. /\ Sum(v) \in Int /\ A \in Int
      /\ n * A <= Sum(v) /\ Sum(v) < n * A + n
  BY AverageOf
<1> HIDE DEF A
<1>2. \A a, b \in Int : a * b \in Int /\ a - b \in Int
  OBVIOUS
<1>3. w \in [1 .. n -> Int] /\ x \in [1 .. n -> Int]
  BY <1>1, <1>2
<1>4. variance(A, v) = average(x)
  <2>1. DOMAIN v = 1 .. n
    OBVIOUS
  <2> QED
    BY <2>1 DEF variance
<1>5. Sum(x) = Sum(w) - 2 * (A * Sum(v)) + n * (A * A)
  BY <1>1, SumOfSquares
<1> HIDE DEF w, x
<1>6. /\ Sum(x) \in Int /\ average(x) \in Int
      /\ n * average(x) <= Sum(x) /\ Sum(x) < n * average(x) + n
  BY <1>3, AverageOf
<1>7. Sum(w) \in Int
  BY <1>3, AverageOf
<1>8. n * n * average(x) - (n * Sum(w) - Sum(v) * Sum(v)) \in - (n * n) .. n * n
  BY <1>1, <1>5, <1>6, <1>7, RoundedVariance
<1> QED
  BY <1>4, <1>8 DEF A, w

=============================================================================
