----------------------------- MODULE FilesProofs ----------------------------
(***************************************************************************)
(* Proofs about what is made of files: the chunks of a file (Chunking) and *)
(* the graph of a tree (FileGraph), for any files, tokens, edges and sizes *)
(* of a window that ChunkingAssumption allows.  First what the loops over  *)
(* lists do, each by induction over a length, which the theorems about the *)
(* computations cite too.  Then three arguments: windows and sections tile *)
(* the text they are made of; the layers of a breadth-first walk are the   *)
(* steps of the graph, and close a component after as many hops as there   *)
(* are nodes, so that two communities are equal or disjoint; and a stable  *)
(* sort by a score is a permutation.                                       *)
(***************************************************************************)
EXTENDS Chunking, FileGraph, TLAPS, WellFoundedInduction, FiniteSetTheorems

-----------------------------------------------------------------------------
(* Numbers, lists and loops.                                               *)

\* What is made of the members of a finite set is finite.
LEMMA ImageIsFinite ==
    ASSUME NEW S, IsFiniteSet(S), NEW f, DOMAIN f = S
    PROVE  IsFiniteSet({f[x] : x \in S})
<1> DEFINE T == {f[x] : x \in S}
           g == [x \in S |-> f[x]]
<1>1. g \in Surjection(S, T)
  BY DEF Surjection
<1> QED
  BY <1>1, FS_Surjection

\* The first n numbers are finitely many: n.
LEMMA FirstNumbers == \A n \in Nat : IsFiniteSet(1 .. n) /\ Cardinality(1 .. n) = n
<1> SUFFICES ASSUME NEW n \in Nat PROVE IsFiniteSet(1 .. n) /\ Cardinality(1 .. n) = n
  OBVIOUS
<1>1. 1 \in Int /\ n \in Int
  OBVIOUS
<1>2. IsFiniteSet(1 .. n) /\ Cardinality(1 .. n) = IF 1 > n THEN 0 ELSE n - 1 + 1
  BY <1>1, FS_Interval, Zenon
<1> QED
  BY <1>2

\* A set in the order of what is ahead of each member: every member once, and
\* what is ahead of it before it.
LEMMA SortedIs ==
    ASSUME NEW S, IsFiniteSet(S), NEW ahead \in [S -> SUBSET S],
           \A x \in S : x \notin ahead[x],
           \A x, y \in S : x # y => x \in ahead[y] \/ y \in ahead[x],
           \A x, y \in S : x \in ahead[y] => ahead[x] \subseteq ahead[y]
    PROVE  /\ Sorted(S, ahead) \in [1 .. Cardinality(S) -> S]
           /\ \A x \in S : \E n \in 1 .. Cardinality(S) : Sorted(S, ahead)[n] = x
           /\ \A i, j \in 1 .. Cardinality(S) :
                 Sorted(S, ahead)[i] \in ahead[Sorted(S, ahead)[j]] <=> i < j
<1> DEFINE N == Cardinality(S)
           place == [x \in S |-> Cardinality(ahead[x]) + 1]
<1>1. N \in Nat /\ \A x \in S : IsFiniteSet(ahead[x]) /\ Cardinality(ahead[x]) \in Nat
  BY FS_CardinalityType, FS_Subset
<1>2. ASSUME NEW x \in S, NEW T \in SUBSET S, ahead[x] \subseteq T, x \in T
      PROVE  Cardinality(ahead[x]) < Cardinality(T)
  <2>1. IsFiniteSet(T) /\ Cardinality(T) \in Nat
    BY FS_CardinalityType, FS_Subset
  <2>2. Cardinality(ahead[x]) <= Cardinality(T) /\ (Cardinality(ahead[x]) = Cardinality(T) => ahead[x] = T)
    BY <2>1, <1>2, FS_Subset
  <2> QED
    BY <1>1, <1>2, <2>1, <2>2
<1>3. \A x, y \in S : x \in ahead[y] => Cardinality(ahead[x]) < Cardinality(ahead[y])
  BY <1>2
<1>4. place \in [S -> 1 .. N]
  <2>1. \A x \in S : Cardinality(ahead[x]) < N
    BY <1>2
  <2> QED
    BY <1>1, <2>1
<1>5. \A x, y \in S : place[x] = place[y] => x = y
  BY <1>1, <1>3
<1>6. \A n \in 1 .. N : \E x \in S : place[x] = n
  <2>1. IsFiniteSet(1 .. N) /\ Cardinality(1 .. N) = N
    BY <1>1, FS_Interval
  <2> HIDE DEF place, N
  <2>2. place \in Injection(S, 1 .. N)
    BY <1>4, <1>5 DEF Injection, IsInjective
  <2>3. place \in Surjection(S, 1 .. N)
    BY <2>1, <2>2, FS_Injection DEF N
  <2> QED
    BY <2>3 DEF Surjection
<1> DEFINE sorted == Sorted(S, ahead)
<1>7. ASSUME NEW n \in 1 .. N PROVE sorted[n] \in S /\ place[sorted[n]] = n
  <2>1. PICK x \in S : Cardinality(ahead[x]) = n - 1
    BY <1>1, <1>6
  <2>2. sorted[n] = CHOOSE y \in S : Cardinality(ahead[y]) = n - 1
    BY DEF Sorted
  <2>3. sorted[n] \in S /\ Cardinality(ahead[sorted[n]]) = n - 1
    BY <2>1, <2>2
  <2> QED
    BY <2>3
<1>8. sorted \in [1 .. N -> S]
  <2>1. sorted = [n \in 1 .. N |-> sorted[n]]
    BY DEF Sorted
  <2> QED
    BY <1>7, <2>1
<1>9. \A x \in S : \E n \in 1 .. N : sorted[n] = x
  <2> HIDE DEF sorted, place
  <2> QED
    BY <1>4, <1>5, <1>7
<1>10. ASSUME NEW i \in 1 .. N, NEW j \in 1 .. N PROVE sorted[i] \in ahead[sorted[j]] <=> i < j
  <2>1. sorted[i] \in S /\ sorted[j] \in S /\ place[sorted[i]] = i /\ place[sorted[j]] = j
    BY <1>7
  <2> HIDE DEF sorted
  <2>2. Cardinality(ahead[sorted[i]]) = i - 1 /\ Cardinality(ahead[sorted[j]]) = j - 1
    BY <1>1, <2>1
  <2>3. sorted[i] \in ahead[sorted[j]] => i < j
    BY <1>3, <2>1, <2>2
  <2>4. i < j => sorted[i] \in ahead[sorted[j]]
    BY <1>3, <2>1, <2>2
  <2> QED
    BY <2>3, <2>4
<1> QED
  BY <1>8, <1>9, <1>10

(* Lists made in loops.                                                      *)
(* Induction over numbers, by the least one that fails.                    *)
LEMMA Least == ASSUME NEW T \in SUBSET Nat, T # {} PROVE \E n \in T : \A m \in T : n <= m
<1>1. PICK n \in T : \A m \in T : <<m, n>> \notin OpToRel(<, Nat)
  BY WFMin, NatLessThanWellFounded, Zenon
<1>2. \A m \in T : ~(m < n)
  BY <1>1, Zenon DEF OpToRel
<1> QED
  BY <1>2

LEMMA UpTo ==
    ASSUME NEW n \in Nat, NEW G, 0 \in G, \A i \in 1 .. n : i - 1 \in G => i \in G
    PROVE  n \in G
<1> DEFINE Bad == {i \in 0 .. n : i \notin G}
<1> SUFFICES ASSUME Bad # {} PROVE FALSE
  OBVIOUS
<1>1. PICK i \in Bad : \A m \in Bad : i <= m
  <2>1. Bad \in SUBSET Nat
    OBVIOUS
  <2> HIDE DEF Bad
  <2> QED
    BY <2>1, Least
<1>2. i # 0 /\ i \in 1 .. n /\ i - 1 \in 0 .. n
  OBVIOUS
<1>3. i - 1 \in G
  BY <1>1, <1>2
<1> QED
  BY <1>2, <1>3

Step(list, S, f, i) ==
    IF i = 0 THEN <<>>
    ELSE IF list[i] \in S THEN f[i - 1] ELSE Append(f[i - 1], list[i])

LEMMA KeptIs ==
    ASSUME NEW s, NEW S, Len(s) \in Nat
    PROVE  /\ Kept(s, S)[0] = <<>>
           /\ \A i \in 1 .. Len(s) :
                 Kept(s, S)[i] = IF s[i] \in S THEN Kept(s, S)[i - 1] ELSE Append(Kept(s, S)[i - 1], s[i])
<1> DEFINE Fn(f, n) == f = [i \in 0 .. n |-> Step(s, S, f, i)]
           G == {n \in Nat : \E f : Fn(f, n)}
<1>1. 0 \in G
  <2>1. Fn([i \in 0 .. 0 |-> <<>>], 0)
    BY DEF Step
  <2> QED
    BY <2>1
<1>2. \A n \in 1 .. Len(s) : n - 1 \in G => n \in G
  <2> SUFFICES ASSUME NEW n \in 1 .. Len(s), NEW f, Fn(f, n - 1) PROVE \E g : Fn(g, n)
    OBVIOUS
  <2> DEFINE g == [i \in 0 .. n |-> IF i = n THEN Step(s, S, f, n) ELSE f[i]]
  <2>1. ASSUME NEW i \in 0 .. n PROVE g[i] = Step(s, S, g, i)
    <3>1. i # 0 => i - 1 \in 0 .. n - 1 /\ g[i - 1] = f[i - 1]
      OBVIOUS
    <3>2. g[i] = Step(s, S, f, i)
      <4>1. CASE i = n
        BY <4>1
      <4>2. CASE i # n
        <5>1. i \in 0 .. n - 1
          BY <4>2
        <5> QED
          BY <4>2, <5>1
      <4> QED
        BY <4>1, <4>2
    <3> QED
      BY <3>1, <3>2 DEF Step
  <2> QED
    BY <2>1
<1>3. Len(s) \in G
  <2> HIDE DEF G
  <2> QED
    BY <1>1, <1>2, UpTo
<1>4. PICK f : Fn(f, Len(s))
  BY <1>3
<1> DEFINE k == Kept(s, S)
<1>5. k = [i \in 0 .. Len(s) |-> Step(s, S, k, i)]
  BY <1>4 DEF Kept, Step
<1> HIDE DEF k
<1>6. \A i \in 0 .. Len(s) : k[i] = Step(s, S, k, i)
  BY <1>5
<1>7. k[0] = <<>>
  BY <1>6 DEF Step
<1>8. ASSUME NEW i \in 1 .. Len(s)
      PROVE  k[i] = IF s[i] \in S THEN k[i - 1] ELSE Append(k[i - 1], s[i])
  <2>1. i \in 0 .. Len(s) /\ i # 0
    OBVIOUS
  <2> QED
    BY <1>6, <2>1 DEF Step
<1> QED
  BY <1>7, <1>8 DEF k

\* e tells where the members were that are not in D, of a list of n members.
Remain(e, D, n) ==
    /\ e \in Seq(1 .. n)
    /\ \A i, j \in 1 .. Len(e) : i < j => e[i] < e[j]
    /\ \A i \in 1 .. n : i \notin D <=> \E k \in 1 .. Len(e) : e[k] = i

\* S has the members of s at D.
Marks(s, S, D, n) == Len(s) = n /\ \A i \in 1 .. n : s[i] \in S <=> i \in D

\* e tells what is left of any list without its members at D.
Tells(e, D, n) ==
    /\ Remain(e, D, n)
    /\ \A s, S : Marks(s, S, D, n) => Without(s, S) = [k \in 1 .. Len(e) |-> s[e[k]]]

LEMMA WithoutIs == ASSUME NEW N \in Nat, NEW D PROVE \E e : Tells(e, D, N)
<1> DEFINE Left(e, n) == \A s, S : Marks(s, S, D, N) => Kept(s, S)[n] = [k \in 1 .. Len(e) |-> s[e[k]]]
           Fine(n) == \E e : Remain(e, D, n) /\ Left(e, n)
           G == {n \in Nat : Fine(n)}
<1>1. 0 \in G
  <2>1. Remain(<<>>, D, 0)
    BY DEF Remain
  <2>2. Left(<<>>, 0)
    <3> SUFFICES ASSUME NEW s, NEW S, Marks(s, S, D, N) PROVE Kept(s, S)[0] = [k \in 1 .. Len(<<>>) |-> s[<<>>[k]]]
      OBVIOUS
    <3> QED
      BY KeptIs DEF Marks
  <2> QED
    BY <2>1, <2>2
<1>2. \A n \in 1 .. N : n - 1 \in G => n \in G
  <2> SUFFICES ASSUME NEW n \in 1 .. N, Fine(n - 1) PROVE Fine(n)
    <3> HIDE DEF Fine
    <3> QED
      OBVIOUS
  <2> PICK e : Remain(e, D, n - 1) /\ Left(e, n - 1)
    OBVIOUS
  <2>0. /\ e \in Seq(1 .. n - 1) /\ Len(e) \in Nat
        /\ \A k \in 1 .. Len(e) : e[k] \in 1 .. n - 1
    BY DEF Remain
  <2>1. CASE n \in D
    <3>1. Remain(e, D, n)
      <4>1. e \in Seq(1 .. n)
        <5>1. 1 .. n - 1 \subseteq 1 .. n
          OBVIOUS
        <5> QED
          BY ONLY <2>0, <5>1
      <4>2. \A i \in 1 .. n : i = n \/ i \in 1 .. n - 1
        OBVIOUS
      <4>3. ~ \E k \in 1 .. Len(e) : e[k] = n
        BY ONLY <2>0
      <4>4. /\ \A i, j \in 1 .. Len(e) : i < j => e[i] < e[j]
            /\ \A i \in 1 .. n - 1 : i \notin D <=> \E k \in 1 .. Len(e) : e[k] = i
        BY Zenon DEF Remain
      <4>5. \A i \in 1 .. n : i \notin D <=> \E k \in 1 .. Len(e) : e[k] = i
        BY <2>1, <4>2, <4>3, <4>4, Zenon
      <4> QED
        BY <4>1, <4>4, <4>5, Zenon DEF Remain
    <3>2. ASSUME NEW s, NEW S, Marks(s, S, D, N) PROVE Kept(s, S)[n] = Kept(s, S)[n - 1]
      <4>1. s[n] \in S /\ Len(s) = N
        BY <2>1, <3>2 DEF Marks
      <4> HIDE DEF Fine, G, Left
      <4> QED
        BY <4>1, KeptIs
    <3> QED
      BY <3>1, <3>2
  <2>2. CASE n \notin D
    <3> DEFINE d == Append(e, n)
    <3>1. /\ d \in Seq(1 .. n) /\ Len(d) = Len(e) + 1 /\ d[Len(d)] = n
          /\ \A k \in 1 .. Len(e) : d[k] = e[k]
      BY <2>0
    <3>2. ASSUME NEW s, NEW S, Marks(s, S, D, N)
          PROVE  Kept(s, S)[n] = [k \in 1 .. Len(d) |-> s[d[k]]]
      <4> DEFINE old == [k \in 1 .. Len(e) |-> s[e[k]]]
                 new == [k \in 1 .. Len(d) |-> s[d[k]]]
      <4>0. s[n] \notin S /\ Len(s) = N
        BY <2>2, <3>2 DEF Marks
      <4>1. Kept(s, S)[n] = Append(Kept(s, S)[n - 1], s[n])
        <5> HIDE DEF Fine, G, Left
        <5>1. \A i \in 1 .. Len(s) :
                 Kept(s, S)[i] = IF s[i] \in S THEN Kept(s, S)[i - 1] ELSE Append(Kept(s, S)[i - 1], s[i])
          BY <4>0, KeptIs
        <5>2. n \in 1 .. Len(s)
          BY <4>0
        <5> QED
          BY <4>0, <5>1, <5>2, Zenon
      <4>2. Kept(s, S)[n] = Append(old, s[n])
        BY <3>2, <4>1
      <4>3. old \in Seq({s[k] : k \in 1 .. n}) /\ Len(old) = Len(e)
        BY <2>0
      <4>4. Append(old, s[n]) = [k \in 1 .. Len(e) + 1 |-> IF k <= Len(e) THEN old[k] ELSE s[n]]
        <5> HIDE DEF old
        <5> QED
          BY <4>3
      <4>5. ASSUME NEW k \in 1 .. Len(e) + 1
            PROVE  (IF k <= Len(e) THEN old[k] ELSE s[n]) = s[d[k]]
        <5>1. CASE k <= Len(e)
          BY <2>0, <3>1, <5>1
        <5>2. CASE ~(k <= Len(e))
          BY <2>0, <3>1, <5>2
        <5> QED
          BY <5>1, <5>2
      <4> HIDE DEF d, old
      <4> QED
        BY <3>1, <4>2, <4>4, <4>5
    <3>3. Remain(d, D, n)
      <4>0. \A k \in 1 .. Len(d) : k \in 1 .. Len(e) \/ k = Len(d)
        BY <2>0, <3>1
      <4>1. Len(d) \in 1 .. Len(d) /\ \A k \in 1 .. Len(e) : k \in 1 .. Len(d)
        BY <2>0, <3>1
      <4> HIDE DEF d
      <4>2. ASSUME NEW i \in 1 .. Len(d), NEW j \in 1 .. Len(d), i < j PROVE d[i] < d[j]
        <5>1. i \in 1 .. Len(e)
          BY <2>0, <3>1, <4>2
        <5>2. CASE j \in 1 .. Len(e)
          BY <3>1, <4>2, <5>1, <5>2 DEF Remain
        <5>3. CASE j = Len(d)
          BY <2>0, <3>1, <5>1, <5>3
        <5> QED
          BY <4>0, <5>2, <5>3
      <4>3. ASSUME NEW i \in 1 .. n PROVE i \notin D <=> \E k \in 1 .. Len(d) : d[k] = i
        <5>1. CASE i = n
          BY <2>2, <3>1, <4>1, <5>1
        <5>2. CASE i # n
          <6>1. i \in 1 .. n - 1
            BY <5>2
          <6>2. i \notin D <=> \E k \in 1 .. Len(e) : e[k] = i
            BY <6>1 DEF Remain
          <6>3. (\E k \in 1 .. Len(e) : e[k] = i) <=> \E k \in 1 .. Len(d) : d[k] = i
            BY <3>1, <4>0, <4>1, <5>2
          <6> QED
            BY <6>2, <6>3
        <5> QED
          BY <5>1, <5>2
      <4> QED
        BY <3>1, <4>2, <4>3 DEF Remain
    <3> HIDE DEF d
    <3> QED
      BY <3>2, <3>3
  <2> QED
    BY <2>1, <2>2
<1>3. N \in G
  <2> HIDE DEF G
  <2> QED
    BY <1>1, <1>2, UpTo
<1>4. PICK e : Remain(e, D, N) /\ Left(e, N)
  BY <1>3
<1>5. \A s, S : Marks(s, S, D, N) => Without(s, S) = [k \in 1 .. Len(e) |-> s[e[k]]]
  BY <1>4 DEF Without, Marks
<1> QED
  BY <1>4, <1>5 DEF Tells

LEMMA WithoutSet ==
    ASSUME NEW T, NEW s \in Seq(T), NEW S
    PROVE  Without(s, S) \in Seq(T) /\ ToSet(Without(s, S)) = ToSet(s) \ S
<1> DEFINE rest == Without(s, S)
           D == {i \in 1 .. Len(s) : s[i] \in S}
<1>1. Len(s) \in Nat /\ DOMAIN s = 1 .. Len(s) /\ \A i \in 1 .. Len(s) : s[i] \in T
  OBVIOUS
<1>2. PICK e : Tells(e, D, Len(s))
  BY <1>1, WithoutIs
<1>3. Remain(e, D, Len(s)) /\ rest = [k \in 1 .. Len(e) |-> s[e[k]]]
  BY <1>2 DEF Tells, Marks
<1>4. Len(e) \in Nat /\ \A k \in 1 .. Len(e) : e[k] \in 1 .. Len(s)
  BY <1>3 DEF Remain
<1>5. rest \in Seq(T) /\ DOMAIN rest = 1 .. Len(e)
  BY <1>1, <1>3, <1>4
<1>6. \A k \in 1 .. Len(e) : s[e[k]] \notin S
  BY <1>3, <1>4 DEF Remain
<1>7. \A i \in 1 .. Len(s) : s[i] \notin S => \E k \in 1 .. Len(e) : e[k] = i
  BY <1>3 DEF Remain
<1> HIDE DEF rest
<1>8. ToSet(rest) \subseteq ToSet(s) \ S
  BY <1>1, <1>3, <1>4, <1>5, <1>6 DEF ToSet
<1>9. ASSUME NEW x \in ToSet(s), x \notin S PROVE x \in ToSet(rest)
  <2>1. PICK i \in 1 .. Len(s) : x = s[i]
    BY <1>1 DEF ToSet
  <2>2. PICK k \in 1 .. Len(e) : e[k] = i
    BY <1>7, <1>9, <2>1
  <2> QED
    BY <1>3, <1>5, <2>1, <2>2 DEF ToSet
<1>10. ToSet(rest) = ToSet(s) \ S
  BY <1>8, <1>9
<1> QED
  BY <1>5, <1>10, Zenon DEF rest

\* A sequence is a function, and joining two puts one behind the other.
LEMMA ListIs ==
    ASSUME NEW T, NEW s \in Seq(T)
    PROVE  Len(s) \in Nat /\ DOMAIN s = 1 .. Len(s) /\ \A i \in 1 .. Len(s) : s[i] \in T
OBVIOUS

LEMMA JoinIs ==
    ASSUME NEW T, NEW s \in Seq(T), NEW t \in Seq(T)
    PROVE  /\ s \o t \in Seq(T) /\ Len(s \o t) = Len(s) + Len(t)
           /\ \A i \in 1 .. Len(s) : (s \o t)[i] = s[i]
           /\ \A i \in 1 .. Len(t) : (s \o t)[Len(s) + i] = t[i]
<1>1. s \o t \in Seq(T) /\ Len(s \o t) = Len(s) + Len(t)
  OBVIOUS
<1>2. \A i \in 1 .. Len(s) : (s \o t)[i] = s[i]
  OBVIOUS
<1>3. \A i \in 1 .. Len(t) : (s \o t)[Len(s) + i] = t[i]
  OBVIOUS
<1> QED
  BY <1>1, <1>2, <1>3

\* A value for each number, each made of the one before.
Grows(f, n, A, a, step) ==
    f \in [0 .. n -> A] /\ f[0] = a /\ \A i \in 1 .. n : f[i] = step[<<i, f[i - 1]>>]

LEMMA Recursion ==
    ASSUME NEW n \in Nat, NEW A, NEW a \in A, NEW step \in [(1 .. n) \X A -> A]
    PROVE  \E f : Grows(f, n, A, a, step)
<1> DEFINE Fn(f, m) == f[0] = a /\ \A i \in 1 .. m : f[i] = step[<<i, f[i - 1]>>]
           G == {m \in 0 .. n : \E f \in [0 .. m -> A] : Fn(f, m)}
<1>1. 0 \in G
  <2> DEFINE f == [i \in 0 .. 0 |-> a]
  <2>1. f \in [0 .. 0 -> A] /\ f[0] = a
    OBVIOUS
  <2> HIDE DEF f
  <2> QED
    BY <2>1
<1>2. ASSUME NEW m \in 1 .. n, m - 1 \in G PROVE m \in G
  <2> PICK f \in [0 .. m - 1 -> A] : Fn(f, m - 1)
    BY <1>2
  <2> DEFINE g == [i \in 0 .. m |-> IF i = m THEN step[<<m, f[m - 1]>>] ELSE f[i]]
  <2>1. f[m - 1] \in A /\ step[<<m, f[m - 1]>>] \in A
    OBVIOUS
  <2>2. g \in [0 .. m -> A]
    BY <2>1
  <2>3. g[0] = a
    OBVIOUS
  <2>4. ASSUME NEW i \in 1 .. m PROVE g[i] = step[<<i, g[i - 1]>>]
    <3>1. i - 1 \in 0 .. m - 1 /\ i - 1 \in 0 .. m /\ i - 1 # m /\ g[i - 1] = f[i - 1]
      OBVIOUS
    <3>2. CASE i = m
      BY <3>1, <3>2
    <3>3. CASE i # m
      <4>1. i \in 1 .. m - 1 /\ g[i] = f[i]
        BY <3>3
      <4> HIDE DEF g
      <4> QED
        BY <3>1, <4>1
    <3> QED
      BY <3>2, <3>3
  <2> HIDE DEF g
  <2> QED
    BY <2>2, <2>3, <2>4
<1>3. n \in G
  <2> HIDE DEF G
  <2> QED
    BY <1>1, <1>2, UpTo
<1> QED
  BY <1>3 DEF Grows

\* The members of S in their places.
SortsBy(S, place, ahead) ==
    /\ Cardinality(S) \in Nat /\ Sorted(S, ahead) \in [1 .. Cardinality(S) -> S]
    /\ \A x \in S : \E n \in 1 .. Cardinality(S) : Sorted(S, ahead)[n] = x
    /\ \A i, j \in 1 .. Cardinality(S) :
          place[Sorted(S, ahead)[i]] < place[Sorted(S, ahead)[j]] <=> i < j
    /\ IsInjective(Sorted(S, ahead))

\* A set in the order of the places of its members: each once, no two in one place.
LEMMA SortedByPlace ==
    ASSUME NEW S, IsFiniteSet(S), NEW place \in [S -> Int], \A x, y \in S : place[x] = place[y] => x = y,
           NEW ahead \in [S -> SUBSET S], \A x, y \in S : x \in ahead[y] <=> place[x] < place[y]
    PROVE  SortsBy(S, place, ahead)
<1> DEFINE sorted == Sorted(S, ahead)
           N == Cardinality(S)
<1>0. \A x \in S : place[x] \in Int /\ ahead[x] \subseteq S
  OBVIOUS
<1>1. /\ \A x \in S : x \notin ahead[x]
      /\ \A x, y \in S : x # y => x \in ahead[y] \/ y \in ahead[x]
      /\ \A x, y \in S : x \in ahead[y] => ahead[x] \subseteq ahead[y]
  <2>1. \A x \in S : x \notin ahead[x]
    BY <1>0
  <2>2. \A x, y \in S : x # y => x \in ahead[y] \/ y \in ahead[x]
    BY <1>0
  <2>3. ASSUME NEW x \in S, NEW y \in S, x \in ahead[y] PROVE ahead[x] \subseteq ahead[y]
    <3> SUFFICES ASSUME NEW z \in ahead[x] PROVE z \in ahead[y]
      OBVIOUS
    <3>1. z \in S /\ place[z] < place[x] /\ place[x] < place[y]
      BY <1>0, <2>3
    <3>2. place[z] < place[y]
      BY <1>0, <3>1
    <3> QED
      BY <3>1, <3>2
  <2> QED
    BY <2>1, <2>2, <2>3
<1>2. N \in Nat
  BY FS_CardinalityType
<1>3. /\ sorted \in [1 .. N -> S]
      /\ \A x \in S : \E n \in 1 .. N : sorted[n] = x
      /\ \A i, j \in 1 .. N : sorted[i] \in ahead[sorted[j]] <=> i < j
  BY <1>1, SortedIs, Zenon
<1> HIDE DEF sorted, N
<1>4. \A i, j \in 1 .. N : place[sorted[i]] < place[sorted[j]] <=> i < j
  <2>1. \A i \in 1 .. N : sorted[i] \in S
    BY <1>3
  <2> QED
    BY <1>3, <2>1, Zenon
<1>5. ASSUME NEW i \in DOMAIN sorted, NEW j \in DOMAIN sorted, sorted[i] = sorted[j] PROVE i = j
  <2>1. i \in 1 .. N /\ j \in 1 .. N /\ sorted[i] \in S
    BY <1>3
  <2>2. ~(place[sorted[i]] < place[sorted[j]]) /\ ~(place[sorted[j]] < place[sorted[i]])
    BY <1>0, <1>5, <2>1
  <2>3. ~(i < j) /\ ~(j < i)
    BY <1>4, <2>1, <2>2
  <2> QED
    BY <1>2, <2>1, <2>3
<1>6. IsInjective(sorted)
  BY <1>5, Zenon DEF IsInjective
<1> QED
  BY <1>2, <1>3, <1>4, <1>6 DEF SortsBy, sorted, N

\* What is left of a list without its members in S: at e.
Leaves(e, s, S) ==
    /\ e \in Seq(1 .. Len(s)) /\ Without(s, S) = [k \in 1 .. Len(e) |-> s[e[k]]]
    /\ \A i, j \in 1 .. Len(e) : i < j => e[i] < e[j]
    /\ \A i \in 1 .. Len(s) : s[i] \notin S <=> \E k \in 1 .. Len(e) : e[k] = i

LEMMA WithoutLeaves == ASSUME NEW T, NEW s \in Seq(T), NEW S PROVE \E e : Leaves(e, s, S)
<1> DEFINE D == {i \in 1 .. Len(s) : s[i] \in S}
           n == Len(s)
<1>1. n \in Nat /\ Marks(s, S, D, n)
  BY ListIs DEF Marks
<1>2. PICK e : Tells(e, D, n)
  BY <1>1, WithoutIs, Zenon
<1>3. Remain(e, D, n) /\ Without(s, S) = [k \in 1 .. Len(e) |-> s[e[k]]]
  BY <1>1, <1>2, Zenon DEF Tells
<1>4. \A i \in 1 .. n : s[i] \notin S <=> i \notin D
  OBVIOUS
<1> HIDE DEF D
<1>5. Leaves(e, s, S)
  BY <1>3, <1>4 DEF Leaves, Remain
<1> QED
  BY <1>5

LEMMA LeastOf == ASSUME NEW S \in SUBSET Nat, S # {} PROVE Min(S) \in S /\ \A x \in S : Min(S) <= x
<1>1. \E x \in S : \A y \in S : x <= y
  BY Least
<1> QED
  BY <1>1, Zenon DEF Min

(* What a ranking is worth.                                                  *)
LEMMA TotalsIs ==
    ASSUME NEW s \in Seq(Int)
    PROVE  /\ Totals(s)[0] = 0
           /\ \A i \in 1 .. Len(s) : Totals(s)[i] = Totals(s)[i - 1] + s[i]
           /\ \A i \in 0 .. Len(s) : Totals(s)[i] \in Int
<1> DEFINE N == Len(s)
           T == Int
           step == [p \in (1 .. N) \X T |-> p[2] + s[p[1]]]
           Fn(f) == f = [i \in 0 .. N |-> IF i = 0 THEN 0 ELSE f[i - 1] + s[i]]
<1>1. N \in Nat /\ \A i \in 1 .. N : s[i] \in Int
  OBVIOUS
<1>2. step \in [(1 .. N) \X T -> T]
  <2>1. ASSUME NEW p \in (1 .. N) \X T PROVE p[2] + s[p[1]] \in T
    BY <1>1
  <2> HIDE DEF N, T
  <2> QED
    BY <2>1, Zenon
<1>3. \A i \in 1 .. N, t \in T : step[<<i, t>>] = t + s[i]
  OBVIOUS
<1>4. PICK f : Grows(f, N, T, 0, step)
  <2>1. 0 \in T
    OBVIOUS
  <2> HIDE DEF N, step, T
  <2> QED
    BY <1>1, <1>2, <2>1, Recursion, Zenon
<1> HIDE DEF step
<1>5. f \in [0 .. N -> T] /\ f[0] = 0 /\ \A i \in 1 .. N : f[i] = step[<<i, f[i - 1]>>]
  BY <1>4, Zenon DEF Grows
<1>6. \A i \in 1 .. N : f[i] = f[i - 1] + s[i]
  <2> SUFFICES ASSUME NEW i \in 1 .. N PROVE f[i] = f[i - 1] + s[i]
    OBVIOUS
  <2>1. i - 1 \in 0 .. N
    BY <1>1
  <2>2. f[i - 1] \in T
    BY <1>5, <2>1
  <2> HIDE DEF T, N
  <2> QED
    BY <1>3, <1>5, <2>2
<1>7. Fn(f)
  <2>1. \A i \in 0 .. N : i # 0 => i \in 1 .. N
    BY <1>1
  <2> HIDE DEF N
  <2> QED
    BY <1>5, <1>6, <2>1
<1> DEFINE k == Totals(s)
<1>8. k = [i \in 0 .. N |-> IF i = 0 THEN 0 ELSE k[i - 1] + s[i]]
  BY <1>7 DEF Totals
<1> HIDE DEF k
<1>9. k[0] = 0 /\ \A i \in 1 .. N : k[i] = k[i - 1] + s[i]
  <2>1. 0 \in 0 .. N /\ \A i \in 1 .. N : i \in 0 .. N /\ i # 0
    BY ONLY <1>1
  <2> HIDE DEF N
  <2> QED
    BY <1>8, <2>1, Zenon
<1>10. \A i \in 0 .. N : k[i] \in Int
  <2> DEFINE G == {n \in Nat : n <= N => k[n] \in Int}
  <2>1. 0 \in G
    BY <1>9
  <2>2. ASSUME NEW n \in 1 .. N, n - 1 \in G PROVE n \in G
    BY <1>1, <1>9, <2>2
  <2>3. ASSUME NEW n \in 0 .. N PROVE n \in G
    <3>1. n \in Nat /\ \A i \in 1 .. n : i - 1 \in G => i \in G
      BY <1>1, <2>2
    <3> HIDE DEF G
    <3> QED
      BY <2>1, <3>1, UpTo
  <2> QED
    BY <2>3
<1> QED
  BY <1>9, <1>10 DEF k
----------------------------------------------------------------------------
(* The chunks of a file.                                                     *)

\* A text of lines that have a length, of characters that have bytes.
IsText(text) ==
    /\ text \in Seq(ToSet(text))
    /\ \A l \in ToSet(text) : l.len \in Nat \ {0} /\ ByteWidth[l.kind] \in Nat \ {0}

\* What rises at each step rises.
LEMMA Rising ==
    ASSUME NEW n \in Nat, NEW f, \A i \in 0 .. n : f[i] \in Int, \A i \in 1 .. n : f[i - 1] < f[i]
    PROVE  \A i, j \in 0 .. n : i < j => f[i] < f[j]
<1> DEFINE G == {j \in 0 .. n : \A i \in 0 .. n : i < j => f[i] < f[j]}
<1>1. 0 \in G
  OBVIOUS
<1>2. ASSUME NEW j \in 1 .. n, j - 1 \in G PROVE j \in G
  <2>1. j \in 0 .. n /\ j - 1 \in 0 .. n /\ f[j - 1] < f[j]
    OBVIOUS
  <2>2. ASSUME NEW i \in 0 .. n, i < j PROVE f[i] < f[j]
    <3>1. CASE i = j - 1
      BY <2>1, <3>1
    <3>2. CASE i # j - 1
      <4>1. i < j - 1
        BY <2>1, <2>2, <3>2
      <4>2. f[i] < f[j - 1]
        BY <1>2, <4>1
      <4>3. f[i] \in Int /\ f[j - 1] \in Int /\ f[j] \in Int
        BY <2>1
      <4> QED
        BY <2>1, <4>2, <4>3
    <3> QED
      BY <3>1, <3>2
  <2> QED
    BY <2>1, <2>2
<1>3. ASSUME NEW j \in 0 .. n PROVE j \in G
  <2>1. j \in Nat /\ \A i \in 1 .. j : i \in 1 .. n
    OBVIOUS
  <2> HIDE DEF G
  <2> QED
    BY <1>1, <1>2, <2>1, UpTo
<1> QED
  BY <1>3

\* Where the lines of a text start and end.
LEMMA LinesStand ==
    ASSUME NEW text, IsText(text)
    PROVE  /\ Len(text) \in Nat /\ DOMAIN text = 1 .. Len(text)
           /\ LineStart(text, 1) = 0
           /\ \A i \in 1 .. Len(text) + 1 : LineStart(text, i) \in Nat /\ LineStart(text, i) <= TextLen(text)
           /\ \A i \in 1 .. Len(text) :
                 /\ LineEnd(text, i) = LineStart(text, i + 1)
                 /\ LineStart(text, i) < LineEnd(text, i)
           /\ \A i, j \in 1 .. Len(text) + 1 : i < j => LineStart(text, i) < LineStart(text, j)
<1> DEFINE n == Len(text)
           long == [j \in DOMAIN text |-> text[j].len]
           sum == Totals(long)
<1>1. n \in Nat /\ DOMAIN text = 1 .. n /\ \A i \in 1 .. n : text[i].len \in Nat \ {0}
  <2>1. text \in Seq(ToSet(text))
    BY DEF IsText
  <2>2. n \in Nat /\ DOMAIN text = 1 .. n
    BY <2>1
  <2>3. \A i \in 1 .. n : text[i] \in ToSet(text)
    BY <2>2 DEF ToSet
  <2> QED
    BY <2>2, <2>3 DEF IsText
<1>2. long \in Seq(Int) /\ Len(long) = n /\ \A i \in 1 .. n : long[i] = text[i].len
  BY <1>1
<1> HIDE DEF long
<1>3. /\ sum[0] = 0
      /\ \A i \in 1 .. n : sum[i] = sum[i - 1] + text[i].len
      /\ \A i \in 0 .. n : sum[i] \in Int
  BY <1>2, TotalsIs
<1>4. \A i : LineStart(text, i) = sum[i - 1]
  BY DEF LineStart, long
<1> HIDE DEF sum
<1>5. \A i \in 1 .. n : sum[i - 1] < sum[i]
  <2> SUFFICES ASSUME NEW i \in 1 .. n PROVE sum[i - 1] < sum[i]
    OBVIOUS
  <2>1. i - 1 \in 0 .. n
    BY <1>1
  <2>2. sum[i - 1] \in Int /\ text[i].len \in Nat \ {0}
    BY <1>1, <1>3, <2>1
  <2> QED
    BY <1>3, <2>2
<1>6. \A i, j \in 0 .. n : i < j => sum[i] < sum[j]
  BY <1>1, <1>3, <1>5, Rising
<1>7. \A i \in 1 .. n + 1 : i - 1 \in 0 .. n
  BY <1>1
<1>8. \A i, j \in 1 .. n + 1 : i < j => LineStart(text, i) < LineStart(text, j)
  <2> SUFFICES ASSUME NEW i \in 1 .. n + 1, NEW j \in 1 .. n + 1, i < j PROVE sum[i - 1] < sum[j - 1]
    BY <1>4
  <2>1. i - 1 < j - 1
    BY <1>1
  <2> QED
    BY <1>6, <1>7, <2>1
<1>9. LineStart(text, 1) = 0
  BY <1>3, <1>4
<1>10. ASSUME NEW i \in 1 .. n
       PROVE  LineEnd(text, i) = LineStart(text, i + 1) /\ LineStart(text, i) < LineEnd(text, i)
  <2>1. (i + 1) - 1 = i /\ sum[i] = sum[i - 1] + text[i].len /\ sum[i - 1] < sum[i]
    BY <1>3, <1>5
  <2> QED
    BY <1>4, <2>1 DEF LineEnd
<1>11. ASSUME NEW i \in 1 .. n + 1 PROVE LineStart(text, i) \in Nat /\ LineStart(text, i) <= TextLen(text)
  <2>1. sum[i - 1] \in Int /\ sum[n] \in Int /\ n \in 0 .. n /\ i - 1 \in 0 .. n /\ 0 \in 0 .. n
    BY <1>1, <1>3, <1>7
  <2>2. 0 <= sum[i - 1]
    <3>1. CASE i - 1 = 0
      BY <1>3, <3>1
    <3>2. CASE i - 1 # 0
      <4>1. 0 < i - 1
        BY <2>1, <3>2
      <4>2. sum[0] < sum[i - 1]
        BY <1>6, <2>1, <4>1
      <4> QED
        BY <1>3, <2>1, <4>2
    <3> QED
      BY <3>1, <3>2
  <2>3. sum[i - 1] <= sum[n]
    <3>1. CASE i - 1 = n
      BY <2>1, <3>1
    <3>2. CASE i - 1 # n
      <4>1. i - 1 < n
        BY <2>1, <3>2
      <4> QED
        BY <1>6, <2>1, <4>1
    <3> QED
      BY <3>1, <3>2
  <2>4. TextLen(text) = sum[n]
    <3>1. (n + 1) - 1 = n
      BY <1>1
    <3> QED
      BY <1>4, <3>1 DEF TextLen
  <2> QED
    BY <1>4, <2>1, <2>2, <2>3, <2>4
<1> QED
  BY <1>1, <1>8, <1>9, <1>10, <1>11

\* Every position is in one line.
LEMMA LineIsThere ==
    ASSUME NEW text, IsText(text)
    PROVE  /\ TextLen(text) \in Nat
           /\ \A i \in 1 .. Len(text) : \A p \in LineStart(text, i) + 1 .. LineEnd(text, i) :
                 p \in 1 .. TextLen(text) /\ LineAt(text, p) = i
           /\ \A p \in 1 .. TextLen(text) :
                 /\ LineAt(text, p) \in 1 .. Len(text)
                 /\ p \in LineStart(text, LineAt(text, p)) + 1 .. LineEnd(text, LineAt(text, p))
<1> DEFINE n == Len(text)
           N == TextLen(text)
           At(i) == LineStart(text, i)
<1>1. /\ n \in Nat /\ DOMAIN text = 1 .. n /\ At(1) = 0
      /\ \A i \in 1 .. n + 1 : At(i) \in Nat /\ At(i) <= N
      /\ \A i \in 1 .. n : LineEnd(text, i) = At(i + 1) /\ At(i) < LineEnd(text, i)
      /\ \A i, j \in 1 .. n + 1 : i < j => At(i) < At(j)
  BY LinesStand
<1>2. N = At(n + 1) /\ n + 1 \in 1 .. n + 1 /\ N \in Nat
  BY <1>1 DEF TextLen
<1> HIDE DEF At, N, n
<1>3. ASSUME NEW i \in 1 .. n, NEW j \in 1 .. n, NEW p \in Nat,
             At(i) < p, p <= LineEnd(text, i), At(j) < p, p <= LineEnd(text, j)
      PROVE  i = j
  <2>1. i + 1 \in 1 .. n + 1 /\ j + 1 \in 1 .. n + 1 /\ i \in 1 .. n + 1 /\ j \in 1 .. n + 1
    BY <1>1
  <2>2. At(i + 1) \in Nat /\ At(j + 1) \in Nat /\ At(i) \in Nat /\ At(j) \in Nat
    BY <1>1, <2>1
  <2>5. p <= At(i + 1) /\ p <= At(j + 1)
    BY <1>1, <1>3
  <2>6. (i + 1 < j => At(i + 1) < At(j)) /\ (j + 1 < i => At(j + 1) < At(i))
    BY <1>1, <2>1
  <2>3. ~(i + 1 < j) /\ i + 1 # j
    BY <1>3, <2>2, <2>5, <2>6
  <2>4. ~(j + 1 < i) /\ j + 1 # i
    BY <1>3, <2>2, <2>5, <2>6
  <2> QED
    BY <2>1, <2>3, <2>4
<1>4. ASSUME NEW p \in 1 .. N
      PROVE  \E i \in 1 .. n : At(i) < p /\ p <= LineEnd(text, i)
  <2> DEFINE S == {i \in 1 .. n : p <= At(i + 1)}
  <2>1. n # 0
    BY <1>1, <1>2
  <2>2. n \in S
    BY <1>1, <1>2, <2>1
  <2>3. PICK i \in S : \A m \in S : i <= m
    <3>1. S \in SUBSET Nat /\ S # {}
      BY <2>2
    <3> QED
      BY <3>1, Least
  <2>4. i \in 1 .. n /\ p <= At(i + 1)
    OBVIOUS
  <2>5. At(i) < p
    <3>1. CASE i = 1
      BY <1>1, <3>1
    <3>2. CASE i # 1
      <4>1. i - 1 \in 1 .. n /\ (i - 1) + 1 = i /\ ~(i <= i - 1)
        BY <1>1, <2>4, <3>2
      <4>2. i - 1 \notin S
        BY <2>3, <4>1
      <4>3. ~(p <= At(i))
        BY <4>1, <4>2
      <4>4. At(i) \in Nat
        BY <1>1, <2>4
      <4> QED
        BY <4>3, <4>4
    <3> QED
      BY <3>1, <3>2
  <2> QED
    BY <1>1, <2>4, <2>5
<1>5. ASSUME NEW i \in 1 .. n, NEW p \in At(i) + 1 .. LineEnd(text, i)
      PROVE  p \in 1 .. N /\ LineAt(text, p) = i
  <2>1. At(i) \in Nat /\ LineEnd(text, i) \in Nat /\ LineEnd(text, i) <= N
    <3>1. i \in 1 .. n + 1 /\ i + 1 \in 1 .. n + 1
      BY <1>1
    <3> QED
      BY <1>1, <3>1
  <2>2. p \in 1 .. N /\ p \in Nat /\ At(i) < p /\ p <= LineEnd(text, i)
    BY <1>2, <2>1
  <2>3. \A j \in DOMAIN text : (At(j) < p /\ p <= LineEnd(text, j)) <=> j = i
    BY <1>1, <1>3, <2>2
  <2>4. LineAt(text, p) = i
    <3>1. i \in DOMAIN text
      BY <1>1
    <3> QED
      BY <2>3, <3>1, Zenon DEF LineAt, At
  <2> QED
    BY <2>2, <2>4
<1>6. ASSUME NEW p \in 1 .. N
      PROVE  LineAt(text, p) \in 1 .. n /\ p \in At(LineAt(text, p)) + 1 .. LineEnd(text, LineAt(text, p))
  <2>1. PICK i \in 1 .. n : At(i) < p /\ p <= LineEnd(text, i)
    BY <1>4
  <2>2. At(i) \in Nat /\ LineEnd(text, i) \in Nat
    <3>1. i \in 1 .. n + 1 /\ i + 1 \in 1 .. n + 1
      BY <1>1
    <3> QED
      BY <1>1, <3>1
  <2>3. p \in At(i) + 1 .. LineEnd(text, i)
    BY <1>2, <2>1, <2>2
  <2> QED
    BY <1>5, <2>3
<1> QED
  BY <1>2, <1>5, <1>6 DEF n, N, At

\* The bytes before a position, and so from one position to another.
LEMMA BytesRise ==
    ASSUME NEW text, IsText(text)
    PROVE  /\ \A p \in 0 .. TextLen(text) : Bytes(text, p) \in Int
           /\ \A p, q \in 0 .. TextLen(text) : p < q => Bytes(text, p) < Bytes(text, q)
<1> DEFINE N == TextLen(text)
           wide == [q \in 1 .. N |-> ByteWidth[text[LineAt(text, q)].kind]]
           sum == Totals(wide)
<1>1. N \in Nat /\ \A q \in 1 .. N : LineAt(text, q) \in 1 .. Len(text)
  BY LineIsThere
<1>2. ASSUME NEW q \in 1 .. N PROVE wide[q] \in Nat \ {0}
  <2>1. DOMAIN text = 1 .. Len(text)
    BY LinesStand
  <2>2. text[LineAt(text, q)] \in ToSet(text)
    BY <1>1, <2>1 DEF ToSet
  <2> QED
    BY <2>2 DEF IsText
<1>3. wide \in Seq(Int) /\ Len(wide) = N
  <2>1. \A q \in 1 .. N : wide[q] \in Int
    BY <1>2
  <2>2. wide = [q \in 1 .. N |-> wide[q]]
    OBVIOUS
  <2> HIDE DEF wide, N
  <2> QED
    BY <1>1, <2>1, <2>2
<1>4. \A p : Bytes(text, p) = sum[p]
  BY Zenon DEF Bytes
<1> HIDE DEF wide, N
<1>5. /\ \A i \in 1 .. N : sum[i] = sum[i - 1] + wide[i]
      /\ \A i \in 0 .. N : sum[i] \in Int
  BY <1>3, TotalsIs
<1> HIDE DEF sum
<1>6. \A i \in 1 .. N : sum[i - 1] < sum[i]
  <2> SUFFICES ASSUME NEW i \in 1 .. N PROVE sum[i - 1] < sum[i]
    OBVIOUS
  <2>1. i - 1 \in 0 .. N
    BY <1>1
  <2>2. sum[i - 1] \in Int /\ wide[i] \in Nat \ {0}
    BY <1>2, <1>5, <2>1
  <2> QED
    BY <1>5, <2>2
<1>7. \A p, q \in 0 .. N : p < q => sum[p] < sum[q]
  BY <1>1, <1>5, <1>6, Rising
<1> QED
  BY <1>4, <1>5, <1>7 DEF N

----------------------------------------------------------------------------
\* Spans of the positions from a + 1 to b, where one that starts later does
\* not end earlier.
LieIn(spans, a, b) ==
    \A s \in spans : /\ s.from \in Nat /\ s.to \in Nat
                     /\ a <= s.from /\ s.from < s.to /\ s.to <= b

NoneBehind(spans) == \A s, t \in spans : s.from < t.from => s.to <= t.to

\* Spans that leave out no position.
Tile(spans, a, b) ==
    /\ LieIn(spans, a, b) /\ NoneBehind(spans)
    /\ \A p \in a + 1 .. b : \E s \in spans : p \in Positions(s)

\* A factor that is not zero makes nothing smaller.
LEMMA Multiples ==
    ASSUME NEW k \in Nat, NEW d \in Nat \ {0} PROVE k * d \in Nat /\ k <= k * d
<1>1. PICK e \in Nat : d = e + 1
  <2>1. d - 1 \in Nat /\ d = (d - 1) + 1
    OBVIOUS
  <2> QED
    BY <2>1
<1>2. k * e \in Nat /\ k * d = k * e + k
  BY <1>1
<1> QED
  BY <1>2

LEMMA OverlapIs ==
    ASSUME NEW size \in Nat \ {0}, NEW overlap \in Nat
    PROVE  Overlap(size, overlap) \in Nat /\ size - Overlap(size, overlap) \in Nat \ {0}
<1>1. size \div 5 \in Nat /\ size \div 5 < size
  OBVIOUS
<1> QED
  BY <1>1 DEF Overlap

\* Neighbouring windows overlap, so that nothing falls between two.
LEMMA WindowsTile ==
    ASSUME NEW a \in Nat, NEW b \in Nat, NEW size \in Nat \ {0}, NEW overlap \in Nat
    PROVE  Tile(Windows(a, b, size, overlap), a, b)
<1> DEFINE o == Overlap(size, overlap)
           step == size - o
           K == {k \in 0 .. b - a : a < b /\ (k = 0 \/ a + k * step + o < b)}
           spans == Windows(a, b, size, overlap)
           End(k) == Min({b, a + k * step + size})
<1>1. o \in Nat /\ step \in Nat \ {0} /\ size = step + o
  <2>1. o \in Nat /\ step \in Nat \ {0}
    BY OverlapIs
  <2> HIDE DEF o
  <2> QED
    BY <2>1
<1>2. spans = {Span(a + k * step, End(k), 0) : k \in K}
  BY DEF Windows
<1> HIDE DEF step, o, spans
<1>3. \A k \in Nat : k * step \in Nat /\ k <= k * step
  BY <1>1, Multiples
<1>4. ASSUME NEW k \in Nat
      PROVE  End(k) = IF b <= a + k * step + size THEN b ELSE a + k * step + size
  <2>1. a + k * step + size \in Nat
    BY <1>3
  <2> DEFINE e == a + k * step + size
  <2>2. Min({b, e}) = IF b <= e THEN b ELSE e
    <3> HIDE DEF e
    <3>1. e \in Nat
      BY <2>1 DEF e
    <3> DEFINE S == {b, e}
    <3>2. S \in SUBSET Nat /\ S # {}
      BY <3>1
    <3>3. Min(S) \in S /\ \A x \in S : Min(S) <= x
      BY <3>2, LeastOf
    <3> QED
      BY <3>1, <3>3
  <2> QED
    BY <2>2
<1> HIDE DEF End
<1>5. ASSUME NEW k \in K
      PROVE  k \in Nat /\ a + k * step \in Nat /\ a <= a + k * step /\ a + k * step < End(k) /\ End(k) <= b
             /\ End(k) \in Nat
  <2>1. k \in Nat /\ a < b /\ k * step \in Nat
    BY <1>3
  <2>2. a + k * step < b
    <3>1. CASE k = 0
      <4>1. k * step = 0
        BY <1>1, <3>1
      <4> QED
        BY <2>1, <4>1
    <3>2. CASE k # 0
      BY <1>1, <2>1, <3>2
    <3> QED
      BY <3>1, <3>2
  <2> QED
    BY <1>4, <2>1, <2>2
<1>6. LieIn(spans, a, b)
  <2> SUFFICES ASSUME NEW k \in K
               PROVE  LET s == Span(a + k * step, End(k), 0)
                      IN  s.from \in Nat /\ s.to \in Nat /\ a <= s.from /\ s.from < s.to /\ s.to <= b
    BY <1>2, Zenon DEF LieIn
  <2> HIDE DEF K
  <2> QED
    BY <1>5 DEF Span
<1>7. NoneBehind(spans)
  <2> SUFFICES ASSUME NEW k \in K, NEW j \in K, a + k * step < a + j * step PROVE End(k) <= End(j)
    <3> HIDE DEF K
    <3> QED
      BY <1>2 DEF NoneBehind, Span
  <2>1. k * step \in Nat /\ j * step \in Nat /\ k \in Nat /\ j \in Nat
    BY <1>3
  <2> QED
    BY <1>4, <2>1
<1>8. ASSUME NEW p \in a + 1 .. b PROVE \E s \in spans : p \in Positions(s)
  <2> DEFINE S == {k \in Nat : p <= a + k * step + size}
  <2>1. p \in Nat /\ a < p /\ p <= b
    OBVIOUS
  <2>2. p \in S
    BY <1>3, <2>1
  <2>3. PICK k \in S : \A m \in S : k <= m
    <3>1. S \in SUBSET Nat /\ S # {}
      BY <2>2
    <3> HIDE DEF S
    <3> QED
      BY <3>1, Least
  <2>4. k \in Nat /\ p <= a + k * step + size /\ k * step \in Nat
    BY <1>3
  <2>5. k # 0 => a + k * step + o < p
    <3> SUFFICES ASSUME k # 0 PROVE a + k * step + o < p
      OBVIOUS
    <3>1. k - 1 \in Nat /\ ~(k <= k - 1)
      BY <2>4
    <3>2. ~(p <= a + (k - 1) * step + size)
      BY <2>3, <3>1
    <3>3. (k - 1) * step = k * step - step
      BY <1>1, <2>4
    <3> QED
      BY <1>1, <2>1, <2>4, <3>2, <3>3
  <2>6. k \in K
    <3>1. CASE k = 0
      BY <2>1, <3>1
    <3>2. CASE k # 0
      <4>1. k <= k * step
        BY <1>3, <2>4
      <4>2. a + k * step + o < b
        BY <1>1, <2>1, <2>4, <2>5, <3>2
      <4>3. k \in 0 .. b - a
        BY <1>1, <2>1, <2>4, <4>1, <4>2
      <4> QED
        BY <2>1, <4>2, <4>3
    <3> QED
      BY <3>1, <3>2
  <2>7. p \in (a + k * step) + 1 .. End(k)
    <3>1. a + k * step < p
      <4>1. CASE k = 0
        <5>1. k * step = 0
          BY <1>1, <4>1
        <5> QED
          BY <2>1, <5>1
      <4>2. CASE k # 0
        BY <1>1, <2>1, <2>4, <2>5, <4>2
      <4> QED
        BY <4>1, <4>2
    <3> QED
      BY <1>4, <2>1, <2>4, <3>1
  <2> DEFINE s == Span(a + k * step, End(k), 0)
  <2>8. s \in spans
    BY <1>2, <2>6
  <2>9. s.from = a + k * step /\ s.to = End(k)
    BY DEF Span
  <2>10. p \in Positions(s)
    BY <2>7, <2>9 DEF Positions
  <2> QED
    BY <2>8, <2>10
<1> QED
  BY <1>6, <1>7, <1>8 DEF Tile, spans

\* The sections between neighbouring cuts.
LEMMA SectionsTile ==
    ASSUME NEW N \in Nat, NEW cuts \in SUBSET (0 .. N), 0 \in cuts, N \in cuts
    PROVE  /\ Tile(Sections(cuts), 0, N)
           /\ \A s, t \in Sections(cuts) : s # t => s.to <= t.from \/ t.to <= s.from
<1> DEFINE After(a) == {b \in cuts : b > a}
           A == {a \in cuts : \E b \in cuts : b > a}
           spans == Sections(cuts)
<1>1. spans = {Span(a, Min(After(a)), 0) : a \in A}
  BY DEF Sections
<1>2. ASSUME NEW a \in A
      PROVE  /\ a \in Nat /\ a \in cuts
             /\ Min(After(a)) \in cuts /\ Min(After(a)) \in Nat /\ a < Min(After(a)) /\ Min(After(a)) <= N
             /\ \A c \in cuts : a < c => Min(After(a)) <= c
  <2>1. After(a) \in SUBSET Nat /\ After(a) # {} /\ a \in Nat
    <3>1. a \in cuts /\ \E b \in cuts : b > a
      OBVIOUS
    <3>2. PICK b \in cuts : b > a
      BY <3>1
    <3>3. b \in After(a)
      BY <3>2
    <3>4. After(a) \in SUBSET Nat
      <4>1. \A c \in cuts : c \in Nat
        OBVIOUS
      <4>2. After(a) \subseteq cuts
        OBVIOUS
      <4> HIDE DEF After
      <4> QED
        BY <4>1, <4>2
    <3> QED
      BY <3>1, <3>3, <3>4
  <2>2. Min(After(a)) \in After(a) /\ \A x \in After(a) : Min(After(a)) <= x
    <3> HIDE DEF After
    <3> QED
      BY <2>1, LeastOf
  <2> DEFINE m == Min(After(a))
  <2>3. m \in cuts /\ m > a /\ \A c \in cuts : c > a => m <= c
    BY <2>2
  <2> HIDE DEF m
  <2>4. m \in cuts /\ m \in Nat /\ a < m /\ m <= N /\ \A c \in cuts : a < c => m <= c
    BY <2>1, <2>3
  <2> QED
    BY <2>4 DEF m
<1> HIDE DEF After, spans
<1>3. ASSUME NEW s \in spans
      PROVE  \E a \in A : s.from = a /\ s.to = Min(After(a)) /\ s = Span(a, Min(After(a)), 0)
  BY <1>1 DEF Span
<1>4. ASSUME NEW s \in spans, NEW t \in spans, s.from < t.from PROVE s.to <= t.from
  <2>1. PICK a \in A : s.from = a /\ s.to = Min(After(a))
    BY <1>3
  <2>2. PICK c \in A : t.from = c
    BY <1>3
  <2>3. c \in cuts
    OBVIOUS
  <2> HIDE DEF A
  <2> QED
    BY <1>2, <1>4, <2>1, <2>2, <2>3
<1>5. LieIn(spans, 0, N)
  <2> SUFFICES ASSUME NEW s \in spans
               PROVE  s.from \in Nat /\ s.to \in Nat /\ 0 <= s.from /\ s.from < s.to /\ s.to <= N
    BY DEF LieIn
  <2>1. PICK a \in A : s.from = a /\ s.to = Min(After(a))
    BY <1>3
  <2> HIDE DEF A
  <2> QED
    BY <1>2, <2>1
<1>6. NoneBehind(spans)
  <2> SUFFICES ASSUME NEW s \in spans, NEW t \in spans, s.from < t.from PROVE s.to <= t.to
    BY DEF NoneBehind
  <2>1. s.to <= t.from
    BY <1>4
  <2>2. s.to \in Nat /\ t.from \in Nat /\ t.to \in Nat /\ t.from < t.to
    BY <1>5 DEF LieIn
  <2> QED
    BY <2>1, <2>2
<1>7. ASSUME NEW s \in spans, NEW t \in spans, s # t PROVE s.to <= t.from \/ t.to <= s.from
  <2>1. PICK a \in A : s.from = a /\ s = Span(a, Min(After(a)), 0)
    BY <1>3
  <2>2. PICK c \in A : t.from = c /\ t = Span(c, Min(After(c)), 0)
    BY <1>3
  <2>3. a # c
    BY <1>7, <2>1, <2>2
  <2>4. s.from < t.from \/ t.from < s.from
    BY <2>1, <2>2, <2>3
  <2> QED
    BY <1>4, <2>4
<1>8. ASSUME NEW p \in 0 + 1 .. N PROVE \E s \in spans : p \in Positions(s)
  <2> DEFINE Back == {N - c : c \in {c \in cuts : c < p}}
  <2>1. Back \in SUBSET Nat /\ Back # {}
    OBVIOUS
  <2>2. PICK d \in Back : \A e \in Back : d <= e
    <3> HIDE DEF Back
    <3> QED
      BY <2>1, Least
  <2>3. PICK a \in cuts : a < p /\ d = N - a
    OBVIOUS
  <2>4. \A c \in cuts : c < p => c <= a
    <3> SUFFICES ASSUME NEW c \in cuts, c < p PROVE c <= a
      OBVIOUS
    <3>1. N - c \in Back
      OBVIOUS
    <3>2. N - a <= N - c
      BY <2>2, <2>3, <3>1
    <3>3. a \in Nat /\ c \in Nat
      OBVIOUS
    <3> QED
      BY <3>2, <3>3
  <2>5. a \in A
    BY <2>3
  <2> DEFINE m == Min(After(a))
  <2>6. m \in cuts /\ m \in Nat /\ a < m /\ a \in Nat
    <3> HIDE DEF A
    <3> QED
      BY <1>2, <2>5
  <2>7. p <= m
    <3> HIDE DEF m
    <3> QED
      BY <2>4, <2>6
  <2> DEFINE s == Span(a, m, 0)
  <2>8. s \in spans
    BY <1>1, <2>5
  <2>9. p \in Positions(s)
    <3> HIDE DEF m
    <3>1. s.from = a /\ s.to = m
      BY DEF Span
    <3> HIDE DEF s
    <3> QED
      BY <2>3, <2>6, <2>7, <3>1 DEF Positions
  <2> QED
    BY <2>8, <2>9
<1> QED
  BY <1>5, <1>6, <1>7, <1>8 DEF Tile, spans

\* Spans of a text in order, and a line of it that they have.
LieUpTo(spans, n) == \A s \in spans : s.from \in Nat /\ s.to \in Nat /\ s.from <= s.to /\ s.to <= n

FitIn(spans, text) == LieIn(spans, 0, TextLen(text)) /\ NoneBehind(spans)

Has(spans, text, i) ==
    \A p \in LineStart(text, i) + 1 .. LineEnd(text, i) : \E s \in spans : p \in Positions(s)

TextLines(text) == {i \in DOMAIN text : text[i].kind # "blank"}

\* A span with a character of a line with text is kept.
LEMMA NotBlankKeeps ==
    ASSUME NEW text, IsText(text), NEW spans, LieUpTo(spans, TextLen(text)), NoneBehind(spans)
    PROVE  /\ FitIn(NotBlank(text, spans), text)
           /\ \A i \in TextLines(text) : Has(spans, text, i) => Has(NotBlank(text, spans), text, i)
<1> DEFINE kept == NotBlank(text, spans)
<1>1. kept \subseteq spans
  BY DEF NotBlank
<1>2. LieIn(kept, 0, TextLen(text))
  <2> SUFFICES ASSUME NEW s \in kept
               PROVE  s.from \in Nat /\ s.to \in Nat /\ 0 <= s.from /\ s.from < s.to /\ s.to <= TextLen(text)
    BY DEF LieIn
  <2>1. s.from \in Nat /\ s.to \in Nat /\ s.to <= TextLen(text)
    BY <1>1 DEF LieUpTo
  <2>2. \E p : p \in Positions(s)
    BY DEF NotBlank
  <2> QED
    BY <2>1, <2>2 DEF Positions
<1>3. NoneBehind(kept)
  BY <1>1 DEF NoneBehind
<1>4. ASSUME NEW i \in TextLines(text), Has(spans, text, i) PROVE Has(kept, text, i)
  <2> SUFFICES ASSUME NEW p \in LineStart(text, i) + 1 .. LineEnd(text, i)
               PROVE  \E s \in kept : p \in Positions(s)
    BY DEF Has
  <2>1. i \in 1 .. Len(text) /\ text[i].kind # "blank"
    BY LinesStand DEF TextLines
  <2>2. LineAt(text, p) = i
    BY <2>1, LineIsThere
  <2>3. ~IsBlank(text, p)
    BY <2>1, <2>2 DEF IsBlank
  <2>4. PICK s \in spans : p \in Positions(s)
    BY <1>4 DEF Has
  <2>5. s \in kept
    BY <2>3, <2>4 DEF NotBlank
  <2> QED
    BY <2>4, <2>5
<1> QED
  BY <1>2, <1>3, <1>4 DEF FitIn

\* Spans that leave out nothing leave out no line with text.
Keeps(spans, text) == FitIn(spans, text) /\ \A i \in TextLines(text) : Has(spans, text, i)

LEMMA TiledIsKept ==
    ASSUME NEW text, IsText(text), NEW spans, LieUpTo(spans, TextLen(text)), NoneBehind(spans),
           \A p \in 1 .. TextLen(text) : \E s \in spans : p \in Positions(s)
    PROVE  Keeps(NotBlank(text, spans), text)
<1>1. ASSUME NEW i \in TextLines(text) PROVE Has(spans, text, i)
  <2> SUFFICES ASSUME NEW p \in LineStart(text, i) + 1 .. LineEnd(text, i)
               PROVE  \E s \in spans : p \in Positions(s)
    BY DEF Has
  <2>1. i \in 1 .. Len(text)
    BY LinesStand DEF TextLines
  <2>2. p \in 1 .. TextLen(text)
    BY <2>1, LineIsThere
  <2> QED
    BY <2>2
<1> QED
  BY <1>1, NotBlankKeeps DEF Keeps

LEMMA LieInIsUpTo == ASSUME NEW a \in Nat, NEW n, NEW spans, LieIn(spans, a, n) PROVE LieUpTo(spans, n)
<1> SUFFICES ASSUME NEW s \in spans PROVE s.from \in Nat /\ s.to \in Nat /\ s.from <= s.to /\ s.to <= n
  BY DEF LieUpTo
<1> QED
  BY DEF LieIn

LEMMA FixedSizeKeeps == ASSUME NEW text, IsText(text) PROVE Keeps(FixedSizeChunks(text), text)
<1> DEFINE n == TextLen(text)
           spans == Windows(0, n, WindowSize, WindowOverlap)
<1>1. n \in Nat /\ 0 \in Nat /\ WindowSize \in Nat \ {0} /\ WindowOverlap \in Nat
  BY LineIsThere, ChunkingAssumption
<1>2. Tile(spans, 0, n)
  BY <1>1, WindowsTile
<1> HIDE DEF spans
<1>3. LieUpTo(spans, n) /\ NoneBehind(spans)
  BY <1>1, <1>2, LieInIsUpTo DEF Tile
<1>4. \A p \in 1 .. n : \E s \in spans : p \in Positions(s)
  <2>1. 0 + 1 = 1
    OBVIOUS
  <2> QED
    BY <1>2, <2>1 DEF Tile
<1>5. Keeps(NotBlank(text, spans), text)
  BY <1>3, <1>4, TiledIsKept
<1> QED
  BY <1>5 DEF FixedSizeChunks, spans

\* Cuts at some lines of a text.
LEMMA CutsAre ==
    ASSUME NEW text, IsText(text), NEW I \in SUBSET DOMAIN text
    PROVE  LET cuts == {0, TextLen(text)} \union {LineStart(text, i) : i \in I}
           IN  cuts \in SUBSET (0 .. TextLen(text)) /\ 0 \in cuts /\ TextLen(text) \in cuts
<1>1. TextLen(text) \in Nat
  BY LineIsThere
<1>2. \A i \in I : LineStart(text, i) \in 0 .. TextLen(text)
  <2> SUFFICES ASSUME NEW i \in I PROVE LineStart(text, i) \in 0 .. TextLen(text)
    OBVIOUS
  <2>1. Len(text) \in Nat /\ i \in 1 .. Len(text)
    BY LinesStand
  <2>2. i \in 1 .. Len(text) + 1
    BY <2>1
  <2>3. LineStart(text, i) \in Nat /\ LineStart(text, i) <= TextLen(text)
    BY <2>2, LinesStand
  <2> QED
    BY <1>1, <2>3
<1> QED
  BY <1>1, <1>2

LEMMA MarkdownKeeps == ASSUME NEW text, IsText(text) PROVE Keeps(MarkdownHeadingChunks(text), text)
<1> DEFINE n == TextLen(text)
           cuts == {0, TextLen(text)} \union
                   {LineStart(text, i) : i \in {i \in DOMAIN text : text[i].kind = "heading"}}
           Piece(s) == IF s.to - s.from > MaxSection
                       THEN Windows(s.from, s.to, MaxSection, SectionOverlap) ELSE {s}
           spans == UNION {Piece(s) : s \in Sections(cuts)}
<1>1. n \in Nat /\ cuts \in SUBSET (0 .. n) /\ 0 \in cuts /\ n \in cuts
  <2>1. {i \in DOMAIN text : text[i].kind = "heading"} \in SUBSET DOMAIN text
    OBVIOUS
  <2> QED
    BY <2>1, LineIsThere, CutsAre
<1>2. MarkdownHeadingChunks(text) = NotBlank(text, spans)
  BY Zenon DEF MarkdownHeadingChunks
<1> HIDE DEF cuts, n
<1>3. /\ Tile(Sections(cuts), 0, n)
      /\ \A s, t \in Sections(cuts) : s # t => s.to <= t.from \/ t.to <= s.from
  BY <1>1, SectionsTile
<1>4. \A s \in Sections(cuts) : s.from \in Nat /\ s.to \in Nat /\ s.from < s.to /\ s.to <= n
  BY <1>3 DEF Tile, LieIn
<1>5. ASSUME NEW s \in Sections(cuts) PROVE Tile(Piece(s), s.from, s.to)
  <2>1. CASE s.to - s.from > MaxSection
    <3>1. MaxSection \in Nat \ {0} /\ SectionOverlap \in Nat
      BY ChunkingAssumption
    <3> QED
      BY <1>4, <2>1, <3>1, WindowsTile
  <2>2. CASE ~(s.to - s.from > MaxSection)
    <3>1. s.from <= s.from /\ s.to <= s.to
      BY <1>4
    <3>2. Tile({s}, s.from, s.to)
      BY <1>4, <3>1 DEF Tile, LieIn, NoneBehind, Positions
    <3> QED
      BY <2>2, <3>2
  <2> QED
    BY <2>1, <2>2
<1> HIDE DEF Piece
<1>6. \A s \in spans : \E t \in Sections(cuts) : s \in Piece(t)
  OBVIOUS
<1>7. ASSUME NEW t \in Sections(cuts), NEW s \in Piece(t)
      PROVE  /\ s.from \in Nat /\ s.to \in Nat /\ t.from \in Nat /\ t.to \in Nat /\ t.to <= n
             /\ t.from <= s.from /\ s.from < s.to /\ s.to <= t.to
  BY <1>4, <1>5 DEF Tile, LieIn
<1> HIDE DEF spans
<1>8. LieUpTo(spans, n)
  <2> SUFFICES ASSUME NEW s \in spans PROVE s.from \in Nat /\ s.to \in Nat /\ s.from <= s.to /\ s.to <= n
    BY DEF LieUpTo
  <2>1. PICK t \in Sections(cuts) : s \in Piece(t)
    BY <1>6
  <2> QED
    BY <1>1, <1>7, <2>1
<1>9. NoneBehind(spans)
  <2> SUFFICES ASSUME NEW r \in spans, NEW s \in spans, r.from < s.from PROVE r.to <= s.to
    BY DEF NoneBehind
  <2>1. PICK t \in Sections(cuts) : r \in Piece(t)
    BY <1>6
  <2>2. PICK u \in Sections(cuts) : s \in Piece(u)
    BY <1>6
  <2>3. CASE t = u
    BY <1>5, <2>1, <2>2, <2>3 DEF Tile, NoneBehind
  <2>4. CASE t # u
    <3>1. t.to <= u.from \/ u.to <= t.from
      BY <1>3, <2>4
    <3> QED
      BY <1>7, <2>1, <2>2, <3>1
  <2> QED
    BY <2>3, <2>4
<1>10. ASSUME NEW p \in 1 .. n PROVE \E s \in spans : p \in Positions(s)
  <2>1. p \in 0 + 1 .. n
    OBVIOUS
  <2>2. PICK t \in Sections(cuts) : p \in Positions(t)
    BY <1>3, <2>1 DEF Tile
  <2>3. p \in t.from + 1 .. t.to
    BY <2>2 DEF Positions
  <2>4. PICK s \in Piece(t) : p \in Positions(s)
    BY <1>5, <2>3 DEF Tile
  <2>5. s \in spans
    BY DEF spans
  <2> QED
    BY <2>4, <2>5
<1>11. Keeps(NotBlank(text, spans), text)
  BY <1>8, <1>9, <1>10, TiledIsKept DEF n
<1> QED
  BY <1>2, <1>11

\* Spans of whole lines, as many as the last says.
LEMMA LinesFit ==
    ASSUME NEW text, IsText(text), NEW i \in 1 .. Len(text), NEW m \in i .. Len(text)
    PROVE  /\ LineStart(text, i) \in Nat /\ LineEnd(text, m) \in Nat
           /\ LineStart(text, i) < LineEnd(text, m) /\ LineEnd(text, m) <= TextLen(text)
           /\ \A j \in i .. m : LineStart(text, i) <= LineStart(text, j) /\ LineEnd(text, j) <= LineEnd(text, m)
<1> DEFINE n == Len(text)
           At(j) == LineStart(text, j)
<1>1. /\ n \in Nat
      /\ \A j \in 1 .. n + 1 : At(j) \in Nat /\ At(j) <= TextLen(text)
      /\ \A j \in 1 .. n : LineEnd(text, j) = At(j + 1)
      /\ \A j, k \in 1 .. n + 1 : j < k => At(j) < At(k)
  BY LinesStand
<1> HIDE DEF At
<1>2. /\ i \in 1 .. n + 1 /\ m \in 1 .. n /\ m + 1 \in 1 .. n + 1 /\ i < m + 1
      /\ \A j \in i .. m : j \in 1 .. n /\ j \in 1 .. n + 1 /\ j + 1 \in 1 .. n + 1
  BY <1>1
<1>3. At(i) \in Nat /\ At(m + 1) \in Nat /\ At(i) < At(m + 1) /\ At(m + 1) <= TextLen(text)
      /\ LineEnd(text, m) = At(m + 1)
  BY <1>1, <1>2
<1>4. ASSUME NEW j \in i .. m PROVE At(i) <= At(j) /\ LineEnd(text, j) <= LineEnd(text, m)
  <2>1. At(i) <= At(j)
    <3>1. CASE i = j
      BY <1>1, <1>2, <3>1
    <3>2. CASE i # j
      <4>1. i < j
        BY <1>1, <3>2
      <4> QED
        BY <1>1, <1>2, <4>1
    <3> QED
      BY <3>1, <3>2
  <2>2. At(j + 1) <= At(m + 1)
    <3>1. CASE j = m
      BY <1>3, <3>1
    <3>2. CASE j # m
      <4>1. j + 1 < m + 1
        BY <1>1, <3>2
      <4>2. At(j + 1) \in Nat
        BY <1>1, <1>2
      <4>3. At(j + 1) < At(m + 1)
        BY <1>1, <1>2, <4>1
      <4> QED
        BY <1>3, <4>2, <4>3
    <3> QED
      BY <3>1, <3>2
  <2>3. LineEnd(text, j) = At(j + 1)
    BY <1>1, <1>2
  <2> QED
    BY <1>3, <2>1, <2>2, <2>3
<1> QED
  BY <1>3, <1>4 DEF At

LEMMA Between ==
    ASSUME NEW f \in Nat, NEW a \in Nat, NEW b \in Nat, NEW p \in Nat, NEW c \in Nat, NEW d \in Nat,
           f <= a, a <= b, b + 1 <= p, p <= c, c <= d
    PROVE  f + 1 <= p /\ p <= d
OBVIOUS

\* A span of whole lines has each of them.
LEMMA LinesAreHad ==
    ASSUME NEW text, IsText(text), NEW i \in 1 .. Len(text), NEW m \in i .. Len(text), NEW spans,
           NEW s \in spans, s.from <= LineStart(text, i), s.from \in Nat, s.to = LineEnd(text, m)
    PROVE  \A j \in i .. m : Has(spans, text, j)
<1> SUFFICES ASSUME NEW j \in i .. m, NEW p \in LineStart(text, j) + 1 .. LineEnd(text, j)
             PROVE  p \in Positions(s)
  BY DEF Has
<1>1. LineStart(text, i) <= LineStart(text, j) /\ LineEnd(text, j) <= LineEnd(text, m)
      /\ LineStart(text, i) \in Nat /\ LineEnd(text, m) \in Nat
  BY LinesFit
<1>2. Len(text) \in Nat
  BY LinesStand
<1>3. j \in 1 .. Len(text) /\ j \in j .. Len(text)
  BY <1>2
<1>4. LineStart(text, j) \in Nat /\ LineEnd(text, j) \in Nat
  BY <1>3, LinesFit
<1>5. p \in Nat /\ LineStart(text, j) + 1 <= p /\ p <= LineEnd(text, j)
  BY <1>4
<1>6. s.from + 1 <= p /\ p <= s.to
  <2>1. s.from <= LineStart(text, i) /\ s.from \in Nat /\ s.to = LineEnd(text, m)
    OBVIOUS
  <2>2. s.from + 1 <= p /\ p <= LineEnd(text, m)
    BY <1>1, <1>4, <1>5, <2>1, Between
  <2> QED
    BY <2>1, <2>2, Zenon
<1>7. s.to \in Nat
  BY <1>1
<1> QED
  BY <1>5, <1>6, <1>7 DEF Positions

LEMMA OneMore == \A n \in Nat : \A i \in 1 .. n : i \in Int /\ i \in 1 .. n + 1
OBVIOUS

\* A span for each of some lines.
LEMMA RecordsFit ==
    ASSUME NEW text, IsText(text), NEW L \in SUBSET (1 .. Len(text)), NEW spans,
           \A s \in spans : \E i \in L : s.from = LineStart(text, i) /\ s.to = LineEnd(text, i),
           \A i \in L : \E s \in spans : s.from = LineStart(text, i) /\ s.to = LineEnd(text, i)
    PROVE  FitIn(spans, text) /\ \A i \in L : Has(spans, text, i)
<1>1. Len(text) \in Nat
  BY LinesStand
<1>2. \A i \in L : i \in 1 .. Len(text) /\ i \in i .. Len(text) /\ i \in i .. i
  BY <1>1
<1>3. \A i \in L : /\ LineStart(text, i) \in Nat /\ LineEnd(text, i) \in Nat
                   /\ LineStart(text, i) < LineEnd(text, i) /\ LineEnd(text, i) <= TextLen(text)
  BY <1>2, LinesFit
<1>4. LieIn(spans, 0, TextLen(text))
  BY <1>3 DEF LieIn
<1>5. NoneBehind(spans)
  <2> SUFFICES ASSUME NEW s \in spans, NEW t \in spans, s.from < t.from PROVE s.to <= t.to
    BY DEF NoneBehind
  <2>1. PICK i \in L : s.from = LineStart(text, i) /\ s.to = LineEnd(text, i)
    OBVIOUS
  <2>2. PICK j \in L : t.from = LineStart(text, j) /\ t.to = LineEnd(text, j)
    OBVIOUS
  <2>3. i <= j
    <3>0. i \in Int /\ j \in Int
      BY <1>1, <1>2, OneMore, Zenon
    <3> SUFFICES ASSUME j < i PROVE FALSE
      BY <3>0
    <3>1. i \in 1 .. Len(text) + 1 /\ j \in 1 .. Len(text) + 1
      BY <1>1, <1>2, OneMore, Zenon
    <3>2. LineStart(text, j) < LineStart(text, i)
      BY <3>1, LinesStand
    <3> QED
      BY <1>3, <2>1, <2>2, <3>2
  <2>4. j \in i .. Len(text) /\ i \in i .. j
    BY <1>1, <2>3
  <2>5. LineEnd(text, i) <= LineEnd(text, j)
    BY <1>2, <2>4, LinesFit
  <2> QED
    BY <2>1, <2>2, <2>5
<1>6. ASSUME NEW i \in L PROVE Has(spans, text, i)
  <2>1. PICK s \in spans : s.from = LineStart(text, i) /\ s.to = LineEnd(text, i)
    OBVIOUS
  <2>2. s.from \in Nat /\ s.from <= LineStart(text, i)
    BY <1>3, <2>1
  <2>3. \A j \in i .. i : Has(spans, text, j)
    BY <1>2, <2>1, <2>2, LinesAreHad
  <2> QED
    BY <1>2, <2>3
<1> QED
  BY <1>4, <1>5, <1>6 DEF FitIn

LEMMA JsonlKeeps == ASSUME NEW text, IsText(text) PROVE Keeps(JsonlRecordChunks(text), text)
<1> DEFINE spans == JsonlRecordChunks(text)
           L == TextLines(text)
           RowSpan(i) == Span(LineStart(text, i), LineEnd(text, i), 0)
<1>1. L \in SUBSET (1 .. Len(text))
  BY LinesStand DEF TextLines
<1>2. spans = {RowSpan(i) : i \in L}
  BY DEF JsonlRecordChunks, TextLines
<1>3. \A i : RowSpan(i).from = LineStart(text, i) /\ RowSpan(i).to = LineEnd(text, i)
  BY DEF Span
<1> HIDE DEF spans, L, RowSpan
<1>4. \A s \in spans : \E i \in L : s.from = LineStart(text, i) /\ s.to = LineEnd(text, i)
  BY <1>2, <1>3
<1>5. \A i \in L : \E s \in spans : s.from = LineStart(text, i) /\ s.to = LineEnd(text, i)
  BY <1>2, <1>3
<1> QED
  BY <1>1, <1>4, <1>5, RecordsFit DEF Keeps, spans, L

LEMMA CsvKeeps == ASSUME NEW text, IsText(text) PROVE Keeps(CsvRecordChunks(text), text)
<1>1. CASE text = <<>>
  <2>1. CsvRecordChunks(text) = {}
    BY <1>1 DEF CsvRecordChunks
  <2>2. TextLines(text) = {}
    BY <1>1 DEF TextLines
  <2> QED
    BY <2>1, <2>2 DEF Keeps, FitIn, LieIn, NoneBehind
<1>2. CASE text # <<>>
  <2> DEFINE spans == CsvRecordChunks(text)
             RowSpans == {i \in 2 .. Len(text) : text[i].kind # "blank"}
             L == {1} \union RowSpans
             RowSpan(i) == Span(LineStart(text, i), LineEnd(text, i), text[1].len)
  <2>1. Len(text) \in Nat /\ Len(text) # 0 /\ DOMAIN text = 1 .. Len(text)
    <3>1. text \in Seq(ToSet(text))
      BY DEF IsText
    <3> QED
      BY <1>2, <3>1
  <2>2. L \in SUBSET (1 .. Len(text))
    BY <2>1
  <2>3. LineStart(text, 1) = 0 /\ LineEnd(text, 1) = text[1].len
    <3>1. LineStart(text, 1) = 0
      BY LinesStand
    <3>2. text[1].len \in Nat
      <4>1. text[1] \in ToSet(text)
        BY <2>1 DEF ToSet
      <4> QED
        BY <4>1 DEF IsText
    <3> QED
      BY <3>1, <3>2 DEF LineEnd
  <2>4. spans = {Span(0, text[1].len, 0)} \union {RowSpan(i) : i \in RowSpans}
    BY <1>2 DEF CsvRecordChunks
  <2>5. \A i : RowSpan(i).from = LineStart(text, i) /\ RowSpan(i).to = LineEnd(text, i)
    BY DEF Span
  <2>6. Span(0, text[1].len, 0).from = LineStart(text, 1) /\ Span(0, text[1].len, 0).to = LineEnd(text, 1)
    BY <2>3 DEF Span
  <2> HIDE DEF spans, RowSpan
  <2>7. \A s \in spans : \E i \in L : s.from = LineStart(text, i) /\ s.to = LineEnd(text, i)
    BY <2>4, <2>5, <2>6
  <2>8. \A i \in L : \E s \in spans : s.from = LineStart(text, i) /\ s.to = LineEnd(text, i)
    BY <2>4, <2>5, <2>6
  <2>9. FitIn(spans, text) /\ \A i \in L : Has(spans, text, i)
    <3> HIDE DEF L
    <3> QED
      BY <2>2, <2>7, <2>8, RecordsFit
  <2>10. TextLines(text) \subseteq L
    BY <2>1 DEF TextLines
  <2> QED
    BY <2>9, <2>10 DEF Keeps, spans
<1> QED
  BY <1>1, <1>2

\* A file kept in one span: JSON that is one value, and short YAML.
LEMMA WholeKeeps == ASSUME NEW text, IsText(text) PROVE Keeps(NotBlank(text, {Span(0, TextLen(text), 0)}), text)
<1> DEFINE n == TextLen(text)
           whole == Span(0, n, 0)
           spans == {whole}
<1>1. n \in Nat
  BY LineIsThere
<1>2. whole.from = 0 /\ whole.to = n
  BY DEF Span
<1> HIDE DEF whole, n
<1>3. LieUpTo(spans, n) /\ NoneBehind(spans) /\ \A p \in 1 .. n : \E s \in spans : p \in Positions(s)
  BY <1>1, <1>2 DEF LieUpTo, NoneBehind, Positions
<1> HIDE DEF spans
<1>4. Keeps(NotBlank(text, spans), text)
  BY <1>3, TiledIsKept DEF n
<1> QED
  BY <1>4 DEF spans, whole, n

LEMMA YamlKeeps == ASSUME NEW text, IsText(text) PROVE Keeps(YamlChunks(text), text)
<1> DEFINE n == TextLen(text)
<1>1. n \in Nat
  BY LineIsThere
<1>2. CASE n < WholeYaml
  <2>1. YamlChunks(text) = NotBlank(text, {Span(0, n, 0)})
    BY <1>2 DEF YamlChunks
  <2> QED
    BY <2>1, WholeKeeps
<1>3. CASE ~(n < WholeYaml)
  <2> DEFINE cuts == {0, TextLen(text)} \union
                     {LineStart(text, i) : i \in {i \in 2 .. Len(text) : text[i].kind = "key"}}
             blocks == NotBlank(text, Sections(cuts))
             first == CHOOSE s \in blocks : \A t \in blocks : s.from <= t.from
             Headed(s) == IF s = first THEN s ELSE Span(s.from, s.to, first.to - first.from)
             spans == {Headed(s) : s \in blocks}
  <2>1. YamlChunks(text) = spans
    BY <1>3, Zenon DEF YamlChunks
  <2>2. cuts \in SUBSET (0 .. n) /\ 0 \in cuts /\ n \in cuts
    <3>1. {i \in 2 .. Len(text) : text[i].kind = "key"} \in SUBSET DOMAIN text
      BY LinesStand
    <3> QED
      BY <3>1, CutsAre
  <2> HIDE DEF cuts
  <2>3. Tile(Sections(cuts), 0, n)
    BY <1>1, <2>2, SectionsTile
  <2>4. Keeps(blocks, text)
    <3> DEFINE S == Sections(cuts)
    <3>1. LieIn(S, 0, n) /\ NoneBehind(S) /\ \A p \in 0 + 1 .. n : \E s \in S : p \in Positions(s)
      BY <2>3 DEF Tile
    <3> HIDE DEF S
    <3>2. LieUpTo(S, n)
      BY <3>1, LieInIsUpTo
    <3>3. \A p \in 1 .. n : \E s \in S : p \in Positions(s)
      BY <3>1
    <3> QED
      BY <3>1, <3>2, <3>3, TiledIsKept DEF S, n
  <2>5. \A s : Headed(s).from = s.from /\ Headed(s).to = s.to
    BY DEF Span
  <2> HIDE DEF Headed, blocks, n
  <2>6. LieIn(spans, 0, TextLen(text)) /\ NoneBehind(spans)
    BY <2>4, <2>5 DEF Keeps, FitIn, LieIn, NoneBehind
  <2>7. ASSUME NEW i \in TextLines(text) PROVE Has(spans, text, i)
    <3> SUFFICES ASSUME NEW p \in LineStart(text, i) + 1 .. LineEnd(text, i)
                 PROVE  \E s \in spans : p \in Positions(s)
      BY DEF Has
    <3>1. PICK s \in blocks : p \in Positions(s)
      BY <2>4 DEF Keeps, Has
    <3>2. p \in Positions(Headed(s)) /\ Headed(s) \in spans
      BY <2>5, <3>1 DEF Positions
    <3> QED
      BY <3>2
  <2> QED
    BY <2>1, <2>6, <2>7 DEF Keeps, FitIn
<1> QED
  BY <1>2, <1>3

\* The last of some lines.
LEMMA LastOf ==
    ASSUME NEW n \in Nat, NEW S \in SUBSET (1 .. n), S # {}
    PROVE  Max(S) \in S /\ \A x \in S : x <= Max(S)
<1> DEFINE Back == {n - x : x \in S}
<1>1. Back \in SUBSET Nat /\ Back # {}
  <2>1. \A x \in S : n - x \in Nat
    OBVIOUS
  <2>2. PICK x \in S : TRUE
    OBVIOUS
  <2>3. n - x \in Back
    BY Zenon
  <2> QED
    BY <2>1, <2>3, Zenon
<1>2. PICK d \in Back : \A e \in Back : d <= e
  <2> HIDE DEF Back
  <2> QED
    BY <1>1, Least
<1>3. PICK y \in S : d = n - y
  OBVIOUS
<1>4. \A z \in S : y >= z
  <2> SUFFICES ASSUME NEW z \in S PROVE y >= z
    OBVIOUS
  <2>1. n - z \in Back
    OBVIOUS
  <2>2. n - y <= n - z
    BY <1>2, <1>3, <2>1
  <2>3. y \in 1 .. n /\ z \in 1 .. n
    OBVIOUS
  <2> QED
    BY <2>2, <2>3
<1>5. Max(S) \in S /\ \A z \in S : Max(S) >= z
  BY <1>3, <1>4, Zenon DEF Max
<1> HIDE DEF Back
<1>6. \A x \in S : x \in 1 .. n
  OBVIOUS
<1> QED
  BY <1>5, <1>6

\* A definition has its own line, and none of another.
LEMMA DefinitionsAre ==
    ASSUME NEW text, IsText(text), NEW i \in 1 .. Len(text), text[i].kind = "def"
    PROVE  /\ \E m \in i .. Len(text) : DefinitionLines(text, i) = i .. m /\ Max(DefinitionLines(text, i)) = m
           /\ \A j \in DefinitionLines(text, i) : j # i => text[j].kind # "def"
<1> DEFINE n == Len(text)
           Body == {j \in i .. n : \A k \in i + 1 .. j : text[k].kind \in {"body", "blank"}}
           e == BodyEnd(text, i)
           Full == {j \in i .. e : text[j].kind # "blank"}
           m == Max(Full)
<1>1. n \in Nat /\ i \in 1 .. n
  BY LinesStand
<1>2. e \in Body /\ \A x \in Body : x <= e
  <2>1. i \in Body /\ Body \in SUBSET (1 .. n)
    BY <1>1
  <2> HIDE DEF Body, n
  <2>2. Max(Body) \in Body /\ \A x \in Body : x <= Max(Body)
    BY <1>1, <2>1, LastOf
  <2> QED
    BY <2>2 DEF BodyEnd, Body, n
<1>3. e \in i .. n /\ \A k \in i + 1 .. e : text[k].kind \in {"body", "blank"}
  BY <1>2
<1> HIDE DEF e, n
<1>4. m \in Full /\ \A x \in Full : x <= m
  <2>1. i \in Full /\ Full \in SUBSET (1 .. n)
    BY <1>1, <1>3
  <2> HIDE DEF Full
  <2> QED
    BY <1>1, <2>1, LastOf
<1>5. m \in i .. e
  BY <1>4
<1>6. DefinitionLines(text, i) = i .. m
  BY DEF DefinitionLines, e
<1> HIDE DEF m
<1>7. m \in i .. n /\ m \in 1 .. n
  BY <1>1, <1>3, <1>5
<1>8. Max(i .. m) = m
  <2>1. i .. m \in SUBSET (1 .. n) /\ m \in i .. m
    BY <1>1, <1>7
  <2>2. Max(i .. m) \in i .. m /\ \A x \in i .. m : x <= Max(i .. m)
    BY <1>1, <2>1, LastOf
  <2> DEFINE x == Max(i .. m)
  <2>3. x \in i .. m /\ m <= x
    BY <2>1, <2>2
  <2> HIDE DEF x
  <2>4. x = m
    BY <1>1, <1>7, <2>3
  <2> QED
    BY <2>4 DEF x
<1>9. ASSUME NEW j \in i .. m, j # i PROVE text[j].kind # "def"
  <2>1. j \in i + 1 .. e
    BY <1>1, <1>3, <1>5, <1>9
  <2> QED
    BY <1>3, <2>1
<1> QED
  BY <1>6, <1>7, <1>8, <1>9 DEF n

\* No line is lost of a definition, or before the first one, or of a file that
\* does not parse.
LEMMA PythonKeeps ==
    ASSUME NEW text, IsText(text), NEW parses
    PROVE  /\ FitIn(PythonAstChunks(text, parses), text)
           /\ \A i \in TextLines(text) :
                 (parses /\ MayLose(text, i)) \/ Has(PythonAstChunks(text, parses), text, i)
<1> DEFINE n == Len(text)
           defs == {i \in DOMAIN text : text[i].kind = "def"}
<1>1. CASE ~parses \/ defs = {}
  <2>1. PythonAstChunks(text, parses) = FixedSizeChunks(text)
    BY <1>1 DEF PythonAstChunks
  <2> QED
    BY <2>1, FixedSizeKeeps DEF Keeps
<1>2. CASE parses /\ defs # {}
  <2> DEFINE Until(i) == Max(DefinitionLines(text, i))
             Whole(i) == Span(LineStart(text, i), LineEnd(text, Until(i)), 0)
             d == Min(defs)
             before == Span(0, LineStart(text, d), 0)
             all == {Whole(i) : i \in defs} \union {before}
             spans == {s \in all : s.from < s.to}
  <2>1. PythonAstChunks(text, parses) = NotBlank(text, spans)
    BY <1>2 DEF PythonAstChunks
  <2>2. n \in Nat /\ DOMAIN text = 1 .. n
    BY LinesStand
  <2>3. d \in defs /\ \A x \in defs : d <= x
    <3>1. defs \in SUBSET Nat
      BY <2>2
    <3> HIDE DEF defs
    <3> QED
      BY <1>2, <3>1, LeastOf
  <2>4. ASSUME NEW i \in defs
        PROVE  /\ i \in 1 .. n /\ Until(i) \in i .. n /\ DefinitionLines(text, i) = i .. Until(i)
               /\ \A j \in i .. Until(i) : j # i => j \notin defs
    <3>1. i \in 1 .. n /\ text[i].kind = "def"
      BY <2>2
    <3>2. PICK m \in i .. n : DefinitionLines(text, i) = i .. m /\ Until(i) = m
      BY <3>1, DefinitionsAre
    <3>3. \A j \in DefinitionLines(text, i) : j # i => text[j].kind # "def"
      BY <3>1, DefinitionsAre
    <3> QED
      BY <3>1, <3>2, <3>3
  <2> HIDE DEF n, Until, d
  <2>5. \A i : Whole(i).from = LineStart(text, i) /\ Whole(i).to = LineEnd(text, Until(i))
    BY DEF Span
  <2>6. before.from = 0 /\ before.to = LineStart(text, d)
    BY DEF Span
  <2> HIDE DEF Whole, before, defs
  <2>7. \A i \in defs : /\ LineStart(text, i) \in Nat /\ LineEnd(text, Until(i)) \in Nat
                        /\ LineStart(text, i) < LineEnd(text, Until(i))
                        /\ LineEnd(text, Until(i)) <= TextLen(text)
    <3> SUFFICES ASSUME NEW i \in defs
                 PROVE  /\ LineStart(text, i) \in Nat /\ LineEnd(text, Until(i)) \in Nat
                        /\ LineStart(text, i) < LineEnd(text, Until(i))
                        /\ LineEnd(text, Until(i)) <= TextLen(text)
      OBVIOUS
    <3>1. i \in 1 .. n /\ Until(i) \in i .. n
      BY <2>4
    <3> QED
      BY <3>1, LinesFit DEF n
  <2>8. \A i, j \in defs : i < j => LineStart(text, i) < LineStart(text, j)
                                      /\ LineEnd(text, Until(i)) <= LineStart(text, j)
    <3> SUFFICES ASSUME NEW i \in defs, NEW j \in defs, i < j
                 PROVE  LineStart(text, i) < LineStart(text, j) /\ LineEnd(text, Until(i)) <= LineStart(text, j)
      OBVIOUS
    <3>1. i \in 1 .. n /\ j \in 1 .. n /\ Until(i) \in i .. n /\ j \notin i .. Until(i)
      BY <2>4
    <3>2. Until(i) < j /\ Until(i) + 1 \in 1 .. n + 1 /\ i \in 1 .. n + 1 /\ j \in 1 .. n + 1 /\ Until(i) \in 1 .. n
      BY <2>2, <3>1
    <3>3. LineEnd(text, Until(i)) = LineStart(text, Until(i) + 1)
      BY <3>2, LinesStand DEF n
    <3>4. LineStart(text, Until(i) + 1) <= LineStart(text, j)
      <4>1. CASE Until(i) + 1 = j
        BY <2>7, <4>1
      <4>2. CASE Until(i) + 1 # j
        <5>1. Until(i) + 1 < j
          BY <2>2, <3>1, <3>2, <4>2
        <5>2. LineStart(text, Until(i) + 1) < LineStart(text, j)
          BY <3>2, <5>1, LinesStand DEF n
        <5> QED
          BY <2>7, <3>3, <5>2
      <4> QED
        BY <4>1, <4>2
    <3>5. LineStart(text, i) < LineStart(text, j)
      BY <3>2, LinesStand DEF n
    <3> QED
      BY <3>3, <3>4, <3>5
  <2>9. LieUpTo(spans, TextLen(text))
    <3> SUFFICES ASSUME NEW s \in spans
                 PROVE  s.from \in Nat /\ s.to \in Nat /\ s.from <= s.to /\ s.to <= TextLen(text)
      BY DEF LieUpTo
    <3>1. CASE s = before
      <4>1. TextLen(text) \in Nat
        BY LineIsThere
      <4> QED
        BY <2>3, <2>6, <2>7, <3>1, <4>1
    <3>2. CASE s # before
      BY <2>5, <2>7, <3>2
    <3> QED
      BY <3>1, <3>2
  <2>10. NoneBehind(spans)
    <3> SUFFICES ASSUME NEW s \in spans, NEW t \in spans, s.from < t.from PROVE s.to <= t.to
      BY DEF NoneBehind
    <3>1. t # before
      BY <2>6, <2>9 DEF LieUpTo
    <3>2. PICK j \in defs : t = Whole(j)
      BY <3>1
    <3>3. CASE s = before
      <4>1. LineStart(text, d) <= LineStart(text, j)
        <5>1. CASE d = j
          BY <2>7, <5>1
        <5>2. CASE d # j
          <6>1. d < j
            BY <2>2, <2>3, <2>4, <5>2
          <6> QED
            BY <2>3, <2>7, <2>8, <6>1
        <5> QED
          BY <5>1, <5>2
      <4> QED
        BY <2>3, <2>5, <2>6, <2>7, <3>2, <3>3, <4>1
    <3>4. CASE s # before
      <4>1. PICK i \in defs : s = Whole(i)
        BY <3>4
      <4>2. LineStart(text, i) < LineStart(text, j)
        BY <2>5, <3>2, <4>1
      <4>3. i < j
        <5>1. i \in 1 .. n /\ j \in 1 .. n
          BY <2>4
        <5>2. i # j /\ ~(j < i)
          BY <2>7, <2>8, <4>2
        <5> QED
          BY <2>2, <5>1, <5>2
      <4> QED
        BY <2>5, <2>7, <2>8, <3>2, <4>1, <4>3
    <3> QED
      BY <3>3, <3>4
  <2>11. ASSUME NEW i \in TextLines(text), ~MayLose(text, i) PROVE Has(spans, text, i)
    <3>1. i \in 1 .. n
      BY <2>2 DEF TextLines
    <3>2. \A k \in defs : \A j \in k .. Until(k) : Has(spans, text, j)
      <4> SUFFICES ASSUME NEW k \in defs PROVE \A j \in k .. Until(k) : Has(spans, text, j)
        OBVIOUS
      <4>1. Whole(k) \in spans
        BY <2>5, <2>7
      <4>2. k \in 1 .. n /\ Until(k) \in k .. n
        BY <2>4
      <4>3. Whole(k).from = LineStart(text, k) /\ Whole(k).to = LineEnd(text, Until(k))
            /\ Whole(k).from \in Nat /\ Whole(k).from <= LineStart(text, k)
        BY <2>5, <2>7
      <4> HIDE DEF spans
      <4> QED
        BY <4>1, <4>2, <4>3, LinesAreHad DEF n
    <3>3. CASE i \in defs
      <4>1. i \in i .. Until(i)
        BY <2>2, <2>4, <3>3
      <4> HIDE DEF spans
      <4> QED
        BY <3>2, <3>3, <4>1
    <3>4. CASE \E k \in defs : k < i /\ i \in DefinitionLines(text, k)
      <4>1. PICK k \in defs : i \in DefinitionLines(text, k)
        BY <3>4
      <4> HIDE DEF spans
      <4> QED
        BY <2>4, <3>2, <4>1
    <3>5. CASE i \notin defs /\ \A k \in defs : ~(k < i)
      <4>1. i < d /\ d \in 1 .. n
        BY <2>2, <2>3, <2>4, <3>1, <3>5
      <4>2. d - 1 \in i .. n /\ (d - 1) + 1 = d /\ d - 1 \in 1 .. n /\ i \in i .. d - 1
        BY <2>2, <3>1, <4>1
      <4>3. LineEnd(text, d - 1) = LineStart(text, d)
        BY <4>2, LinesStand DEF n
      <4>4. LineStart(text, i) \in Nat /\ LineStart(text, i) < LineEnd(text, d - 1)
        BY <3>1, <4>2, LinesFit DEF n
      <4>5. before \in spans /\ before.from <= LineStart(text, i) /\ before.from \in Nat
            /\ before.to = LineEnd(text, d - 1)
        BY <2>3, <2>6, <2>7, <4>3, <4>4
      <4> HIDE DEF spans
      <4>6. \A j \in i .. d - 1 : Has(spans, text, j)
        BY <3>1, <4>2, <4>5, LinesAreHad DEF n
      <4> QED
        BY <4>2, <4>6
    <3>6. (\E k \in defs : k < i) => \E k \in defs : k < i /\ i \in DefinitionLines(text, k)
      <4> SUFFICES ASSUME NEW k \in defs, k < i PROVE \E j \in defs : j < i /\ i \in DefinitionLines(text, j)
        OBVIOUS
      <4>1. k \in 1 .. i - 1 /\ text[k].kind = "def"
        BY <2>2, <2>4, <3>1 DEF defs
      <4>2. PICK j \in 1 .. i - 1 : text[j].kind = "def" /\ i \in DefinitionLines(text, j)
        BY <2>11, <4>1 DEF MayLose
      <4>3. j \in defs /\ j < i
        BY <2>2, <3>1, <4>2 DEF defs
      <4> QED
        BY <4>2, <4>3
    <3> HIDE DEF spans
    <3> QED
      BY <3>3, <3>4, <3>5, <3>6
  <2> HIDE DEF spans
  <2>12. /\ FitIn(NotBlank(text, spans), text)
         /\ \A i \in TextLines(text) : Has(spans, text, i) => Has(NotBlank(text, spans), text, i)
    BY <2>9, <2>10, NotBlankKeeps
  <2> QED
    BY <1>2, <2>1, <2>11, <2>12
<1> QED
  BY <1>1, <1>2

\* What is cut of a file: no line is lost but of a Python file, and some part
\* of a text is before another in bytes as it is in characters.
Cut(text, suffix, parses, chunks) ==
    /\ \A i \in TextLines(text) :
          (suffix = ".py" /\ parses /\ MayLose(text, i)) \/ Has({c.span : c \in chunks}, text, i)
    /\ \A c, d \in chunks :
          c.span.from < d.span.from => c.start_byte < d.start_byte /\ c.end_byte <= d.end_byte
    /\ \A c \in chunks : c.end_byte > c.start_byte

LEMMA FileIsCut ==
    ASSUME NEW text, IsText(text), NEW suffix, NEW parses
    PROVE  Cut(text, suffix, parses, LoadChunks(text, suffix, parses))
<1> DEFINE n == TextLen(text)
           cut == ChunkText(text, suffix, parses)
           spans == IF cut = {} THEN FixedSizeChunks(text) ELSE cut
           Stored(s) == [span |-> s, start_byte |-> Bytes(text, s.from), end_byte |-> Bytes(text, s.to),
                         verbatim |-> s.head = 0]
           chunks == {Stored(s) : s \in spans}
           Lost(i) == suffix = ".py" /\ parses /\ MayLose(text, i)
<1>1. LoadChunks(text, suffix, parses) = chunks
  BY DEF LoadChunks
<1>2. FitIn(cut, text) /\ \A i \in TextLines(text) : Lost(i) \/ Has(cut, text, i)
  <2>1. CASE suffix = ".py"
    <3>1. cut = PythonAstChunks(text, parses)
      BY <2>1 DEF ChunkText
    <3> QED
      BY <2>1, <3>1, PythonKeeps
  <2>2. CASE suffix # ".py"
    <3> DEFINE whole == NotBlank(text, {Span(0, TextLen(text), 0)})
    <3>1. cut \in {CsvRecordChunks(text), JsonlRecordChunks(text), MarkdownHeadingChunks(text),
                   YamlChunks(text), FixedSizeChunks(text), whole}
      <4> HIDE DEF whole
      <4> QED
        BY <2>2 DEF ChunkText, whole
    <3>2. Keeps(cut, text)
      <4>1. Keeps(whole, text)
        BY WholeKeeps
      <4> HIDE DEF cut, whole
      <4> QED
        BY <3>1, <4>1, CsvKeeps, JsonlKeeps, MarkdownKeeps, YamlKeeps, FixedSizeKeeps
    <3> QED
      BY <3>2 DEF Keeps
  <2> QED
    BY <2>1, <2>2
<1>3. FitIn(spans, text) /\ \A i \in TextLines(text) : Lost(i) \/ Has(spans, text, i)
  <2> HIDE DEF cut, Lost
  <2>1. CASE cut = {}
    BY <2>1, FixedSizeKeeps DEF Keeps
  <2>2. CASE cut # {}
    BY <1>2, <2>2
  <2> QED
    BY <2>1, <2>2
<1> HIDE DEF cut, spans, Lost
<1>4. {c.span : c \in chunks} = spans
  <2>1. \A s \in spans : Stored(s).span = s
    OBVIOUS
  <2> HIDE DEF Stored
  <2> QED
    BY <2>1
<1>5. \A s : Stored(s).span = s /\ Stored(s).start_byte = Bytes(text, s.from) /\ Stored(s).end_byte = Bytes(text, s.to)
  OBVIOUS
<1> HIDE DEF Stored
<1>6. n \in Nat
  BY LineIsThere
<1>7. \A s \in spans : s.from \in 0 .. n /\ s.to \in 0 .. n /\ s.from < s.to
  <2> SUFFICES ASSUME NEW s \in spans PROVE s.from \in 0 .. n /\ s.to \in 0 .. n /\ s.from < s.to
    OBVIOUS
  <2>1. s.from \in Nat /\ s.to \in Nat /\ s.from < s.to /\ s.to <= n
    BY <1>3 DEF FitIn, LieIn
  <2> HIDE DEF n
  <2> QED
    BY <1>6, <2>1
<1> HIDE DEF n
<1>8. /\ \A p \in 0 .. n : Bytes(text, p) \in Int
      /\ \A p, q \in 0 .. n : p < q => Bytes(text, p) < Bytes(text, q)
  BY BytesRise DEF n
<1>9. \A p, q \in 0 .. n : p <= q => Bytes(text, p) <= Bytes(text, q)
  <2> SUFFICES ASSUME NEW p \in 0 .. n, NEW q \in 0 .. n, p <= q PROVE Bytes(text, p) <= Bytes(text, q)
    OBVIOUS
  <2>1. CASE p = q
    BY <1>8, <2>1
  <2>2. CASE p # q
    <3>1. p < q
      BY <1>6, <2>2
    <3> QED
      BY <1>8, <3>1
  <2> QED
    BY <2>1, <2>2
<1>10. ASSUME NEW c \in chunks, NEW d \in chunks, c.span.from < d.span.from
       PROVE  c.start_byte < d.start_byte /\ c.end_byte <= d.end_byte
  <2>1. PICK s \in spans : c = Stored(s)
    OBVIOUS
  <2>2. PICK t \in spans : d = Stored(t)
    OBVIOUS
  <2>3. s.from < t.from /\ s.to <= t.to
    BY <1>3, <1>5, <1>10, <2>1, <2>2 DEF FitIn, NoneBehind
  <2> QED
    BY <1>5, <1>7, <1>8, <1>9, <2>1, <2>2, <2>3
<1>11. ASSUME NEW c \in chunks PROVE c.end_byte > c.start_byte
  <2>1. PICK s \in spans : c = Stored(s)
    OBVIOUS
  <2>2. c.start_byte = Bytes(text, s.from) /\ c.end_byte = Bytes(text, s.to)
    BY <1>5, <2>1
  <2>3. Bytes(text, s.from) < Bytes(text, s.to) /\ Bytes(text, s.from) \in Int /\ Bytes(text, s.to) \in Int
    BY <1>7, <1>8
  <2> QED
    BY <2>2, <2>3
<1> HIDE DEF chunks
<1>12. Cut(text, suffix, parses, chunks)
  BY <1>3, <1>4, <1>10, <1>11 DEF Cut, Lost
<1> QED
  BY <1>1, <1>12

\* A span has a token of its own, or the place of one.
LEMMA TokensAre == ASSUME NEW text, IsText(text), NEW span PROVE TokenSpan(text, span)[1] < TokenSpan(text, span)[2]
<1> DEFINE tokens == Tokens(text)
           ending == {k \in DOMAIN tokens : LineEnd(text, tokens[k]) > span.from}
           beyond == {k \in DOMAIN tokens : LineStart(text, tokens[k]) >= span.to}
           start == IF ending = {} THEN 0 ELSE Min(ending) - 1
           end == IF beyond = {} THEN Len(tokens) ELSE Min(beyond) - 1
<1>1. Len(tokens) \in Nat /\ DOMAIN tokens = 1 .. Len(tokens)
  <2> DEFINE lines == {i \in DOMAIN text : text[i].kind # "blank"}
             N == Cardinality(lines)
  <2>1. N \in Nat
    <3>1. Len(text) \in Int /\ DOMAIN text = 1 .. Len(text) /\ 1 \in Int
      BY LinesStand
    <3>2. IsFiniteSet(1 .. Len(text))
      BY <3>1, FS_Interval
    <3>3. lines \subseteq 1 .. Len(text)
      BY <3>1
    <3> HIDE DEF lines
    <3>4. IsFiniteSet(lines)
      BY <3>2, <3>3, FS_Subset
    <3> QED
      BY <3>4, FS_CardinalityType
  <2> DEFINE ahead == [i \in lines |-> {j \in lines : j < i}]
             At(k) == CHOOSE x \in lines : Cardinality(ahead[x]) = k - 1
  <2>2. tokens = [k \in 1 .. N |-> At(k)]
    BY Zenon DEF Tokens, Sorted
  <2> HIDE DEF tokens, N, At
  <2>3. DOMAIN tokens = 1 .. N
    BY <2>2
  <2>4. tokens \in Seq({At(k) : k \in 1 .. N})
    BY <2>1, <2>2
  <2> QED
    BY <2>4
<1> HIDE DEF tokens
<1>2. start \in Int
  <2>1. CASE ending = {}
    BY <2>1
  <2>2. CASE ending # {}
    <3>1. ending \in SUBSET Nat
      BY <1>1
    <3> HIDE DEF ending
    <3>2. Min(ending) \in Nat
      BY <2>2, <3>1, LeastOf
    <3> QED
      BY <2>2, <3>2
  <2> QED
    BY <2>1, <2>2
<1>3. end \in Int
  <2>1. CASE beyond = {}
    BY <1>1, <2>1
  <2>2. CASE beyond # {}
    <3>1. beyond \in SUBSET Nat
      BY <1>1
    <3> HIDE DEF beyond
    <3>2. Min(beyond) \in Nat
      BY <2>2, <3>1, LeastOf
    <3> QED
      BY <2>2, <3>2
  <2> QED
    BY <2>1, <2>2
<1>4. TokenSpan(text, span) = <<start, Max({start + 1, end})>>
  BY DEF TokenSpan, tokens
<1> HIDE DEF start, end
<1>5. start < Max({start + 1, end})
  <2> DEFINE S == {start + 1, end}
  <2>1. \E x \in S : \A y \in S : x >= y
    BY <1>2, <1>3
  <2>2. Max(S) \in S /\ \A y \in S : Max(S) >= y
    BY <2>1, Zenon DEF Max
  <2> DEFINE m == Max(S)
  <2>3. m \in {start + 1, end} /\ m >= start + 1
    BY <2>2
  <2> HIDE DEF m
  <2>4. start < m
    BY <1>2, <1>3, <2>3
  <2> QED
    BY <2>4 DEF m
<1> QED
  BY <1>4, <1>5
----------------------------------------------------------------------------
(* The graph of a tree.                                                      *)

\* Edges among some nodes, and two of them that an edge joins either way.
Among(edges, nodes) == \A e \in edges : e.from \in nodes /\ e.to \in nodes

Joined(edges, m, n) == \E e \in edges : {e.from, e.to} = {m, n}

LEMMA AdjacentIs ==
    ASSUME NEW edges, NEW n, NEW m
    PROVE  m \in Adjacent(edges, n) <=> Joined(edges, n, m)
<1>1. ASSUME NEW e \in edges
      PROVE  {e.from, e.to} = {n, m} <=> (e.from = n /\ e.to = m) \/ (e.to = n /\ e.from = m)
  OBVIOUS
<1>2. m \in Adjacent(edges, n) <=>
         \E e \in edges : (e.from = n /\ e.to = m) \/ (e.to = n /\ e.from = m)
  BY DEF Adjacent
<1> QED
  BY <1>1, <1>2 DEF Joined

\* The breadth first search grows from the node by the neighbours of what it has.
Layers(R, edges, node, hops) ==
    /\ R[0] = {node}
    /\ \A h \in 1 .. hops : R[h] = R[h - 1] \union UNION {Adjacent(edges, n) : n \in R[h - 1]}

LEMMA ReachedIs ==
    ASSUME NEW edges, NEW node, NEW hops \in Nat, NEW nodes, node \in nodes, Among(edges, nodes)
    PROVE  /\ Layers(Reached(edges, node, hops), edges, node, hops)
           /\ \A h \in 0 .. hops : Reached(edges, node, hops)[h] \subseteq nodes
<1> DEFINE More(S) == S \union UNION {Adjacent(edges, n) : n \in S}
           A == SUBSET nodes
           step == [p \in (1 .. hops) \X A |-> More(p[2])]
           Fn(f) == f = [h \in 0 .. hops |-> IF h = 0 THEN {node} ELSE More(f[h - 1])]
<1>1. \A S \in A : More(S) \in A
  <2> SUFFICES ASSUME NEW S \in A, NEW n \in S, NEW m \in Adjacent(edges, n) PROVE m \in nodes
    OBVIOUS
  <2>1. PICK e \in edges : m = e.to \/ m = e.from
    BY DEF Adjacent
  <2> QED
    BY <2>1 DEF Among
<1> HIDE DEF More
<1>2. step \in [(1 .. hops) \X A -> A] /\ \A i \in 1 .. hops, S \in A : step[<<i, S>>] = More(S)
  <2>1. \A p \in (1 .. hops) \X A : More(p[2]) \in A
    BY <1>1
  <2> HIDE DEF A
  <2> QED
    BY <2>1
<1>3. {node} \in A
  OBVIOUS
<1> HIDE DEF step, A
<1>4. PICK f : Grows(f, hops, A, {node}, step)
  BY <1>2, <1>3, Recursion
<1>5. f \in [0 .. hops -> A] /\ f[0] = {node} /\ \A i \in 1 .. hops : f[i] = step[<<i, f[i - 1]>>]
  BY <1>4 DEF Grows
<1>6. \A i \in 1 .. hops : f[i] = More(f[i - 1])
  <2> SUFFICES ASSUME NEW i \in 1 .. hops PROVE f[i] = More(f[i - 1])
    OBVIOUS
  <2>1. i - 1 \in 0 .. hops
    OBVIOUS
  <2> QED
    BY <1>2, <1>5, <2>1
<1>7. Fn(f)
  <2>1. \A h \in 0 .. hops : h # 0 => h \in 1 .. hops
    OBVIOUS
  <2>2. \A h \in 0 .. hops : f[h] = IF h = 0 THEN {node} ELSE More(f[h - 1])
    BY <1>5, <1>6, <2>1
  <2>3. f = [h \in 0 .. hops |-> f[h]]
    BY <1>5
  <2> QED
    BY <2>2, <2>3
<1> DEFINE R == Reached(edges, node, hops)
<1>8. R = CHOOSE g : Fn(g)
  BY DEF Reached, More
<1>9. Fn(R)
  <2> HIDE DEF Fn, R
  <2> QED
    BY <1>7, <1>8
<1> HIDE DEF R
<1>10. R[0] = {node} /\ \A h \in 1 .. hops : R[h] = More(R[h - 1])
  <2>1. \A h \in 1 .. hops : h \in 0 .. hops /\ h # 0
    OBVIOUS
  <2>2. 0 \in 0 .. hops
    OBVIOUS
  <2>3. \A h \in 0 .. hops : R[h] = IF h = 0 THEN {node} ELSE More(R[h - 1])
    BY <1>9
  <2> QED
    BY <2>1, <2>2, <2>3
<1>11. ASSUME NEW h \in 0 .. hops PROVE R[h] \in A
  <2> DEFINE G == {i \in 0 .. hops : R[i] \in A}
  <2>1. 0 \in G
    BY <1>3, <1>10
  <2>2. \A i \in 1 .. h : i - 1 \in G => i \in G
    <3> SUFFICES ASSUME NEW i \in 1 .. h, R[i - 1] \in A PROVE R[i] \in A
      OBVIOUS
    <3>1. i \in 1 .. hops
      OBVIOUS
    <3> QED
      BY <1>1, <1>10, <3>1
  <2>3. h \in Nat
    OBVIOUS
  <2> HIDE DEF G
  <2>4. h \in G
    BY <2>1, <2>2, <2>3, UpTo
  <2> QED
    BY <2>4 DEF G
<1>12. \A h \in 1 .. hops : R[h] = R[h - 1] \union UNION {Adjacent(edges, n) : n \in R[h - 1]}
  BY <1>10 DEF More
<1> QED
  BY <1>10, <1>11, <1>12 DEF R, Layers, A

\* What is reached stays reached.
LEMMA LayersGrow ==
    ASSUME NEW R, NEW edges, NEW node, NEW hops \in Nat, Layers(R, edges, node, hops)
    PROVE  /\ \A h \in 0 .. hops : \A i \in 0 .. h : R[i] \subseteq R[h]
           /\ \A h \in 1 .. hops : \A m :
                 m \in R[h] <=> m \in R[h - 1] \/ \E n \in R[h - 1] : Joined(edges, n, m)
<1>1. \A h \in 1 .. hops : \A m :
         m \in R[h] <=> m \in R[h - 1] \/ \E n \in R[h - 1] : Joined(edges, n, m)
  <2> SUFFICES ASSUME NEW h \in 1 .. hops, NEW m
               PROVE  m \in R[h] <=> m \in R[h - 1] \/ \E n \in R[h - 1] : Joined(edges, n, m)
    OBVIOUS
  <2>1. R[h] = R[h - 1] \union UNION {Adjacent(edges, n) : n \in R[h - 1]}
    BY DEF Layers
  <2>2. m \in R[h] <=> m \in R[h - 1] \/ \E n \in R[h - 1] : m \in Adjacent(edges, n)
    BY <2>1
  <2> QED
    BY <2>2, AdjacentIs
<1>2. ASSUME NEW h \in 0 .. hops, NEW i \in 0 .. h PROVE R[i] \subseteq R[h]
  <2> DEFINE G == {k \in 0 .. h : i <= k => R[i] \subseteq R[k]}
  <2>1. 0 \in G
    <3>1. i <= 0 => i = 0
      OBVIOUS
    <3> QED
      BY <3>1
  <2>2. \A k \in 1 .. h : k - 1 \in G => k \in G
    <3> SUFFICES ASSUME NEW k \in 1 .. h, k - 1 \in G, i <= k PROVE R[i] \subseteq R[k]
      OBVIOUS
    <3>1. CASE i = k
      BY <3>1
    <3>2. CASE i # k
      <4>1. i <= k - 1 /\ k \in 1 .. hops
        BY <3>2
      <4>2. R[i] \subseteq R[k - 1]
        BY <4>1
      <4>3. R[k - 1] \subseteq R[k]
        BY <1>1, <4>1
      <4> QED
        BY <4>2, <4>3
    <3> QED
      BY <3>1, <3>2
  <2>3. h \in Nat
    OBVIOUS
  <2> HIDE DEF G
  <2>4. h \in G
    BY <2>1, <2>2, <2>3, UpTo
  <2>5. i <= h
    OBVIOUS
  <2> QED
    BY <2>4, <2>5 DEF G
<1> QED
  BY <1>1, <1>2

\* The search finds what so many steps reach and nothing else.
LEMMA LayersAreSteps ==
    ASSUME NEW R, NEW edges, NEW node, NEW hops \in Nat, Layers(R, edges, node, hops)
    PROVE  \A h \in 0 .. hops : \A m : m \in R[h] <=> Reaches(edges, node, m, h)
<1> DEFINE Ends == UNION {{e.from, e.to} : e \in edges}
           At(to, n, between, i) == IF i = 0 THEN node ELSE IF i = n THEN to ELSE between[i]
           Steps(to, n, between) ==
               /\ n = 0 => node = to
               /\ \A i \in 1 .. n : Joined(edges, At(to, n, between, i - 1), At(to, n, between, i))
           Routes(to, n) == \E between \in [1 .. n - 1 -> Ends] : Steps(to, n, between)
<1>1. \A m, h : Reaches(edges, node, m, h) <=> \E n \in 0 .. h : Routes(m, n)
  BY DEF Reaches, Joined
<1>2. /\ \A h \in 0 .. hops : \A i \in 0 .. h : R[i] \subseteq R[h]
      /\ \A h \in 1 .. hops : \A m : m \in R[h] <=> m \in R[h - 1] \/ \E n \in R[h - 1] : Joined(edges, n, m)
  BY LayersGrow
<1>3. R[0] = {node}
  BY DEF Layers
<1>4. \A m, n : Joined(edges, m, n) => m \in Ends
  BY DEF Joined
<1> HIDE DEF Ends
<1>5. ASSUME NEW h \in 0 .. hops, NEW m, NEW n \in 0 .. h, NEW between, Steps(m, n, between)
      PROVE  m \in R[h]
  <2> DEFINE G == {i \in 0 .. n : At(m, n, between, i) \in R[i]}
  <2>1. 0 \in G
    BY <1>3
  <2>2. \A i \in 1 .. n : i - 1 \in G => i \in G
    <3> SUFFICES ASSUME NEW i \in 1 .. n, At(m, n, between, i - 1) \in R[i - 1]
                 PROVE  At(m, n, between, i) \in R[i]
      OBVIOUS
    <3>1. i \in 1 .. hops
      OBVIOUS
    <3>2. Joined(edges, At(m, n, between, i - 1), At(m, n, between, i))
      BY <1>5
    <3> HIDE DEF At
    <3> QED
      BY <1>2, <3>1, <3>2
  <2>3. n \in Nat
    OBVIOUS
  <2>4. n \in G
    <3> HIDE DEF G
    <3> QED
      BY <2>1, <2>2, <2>3, UpTo
  <2>5. At(m, n, between, n) = m
    BY <1>5
  <2>6. m \in R[n]
    BY <2>4, <2>5
  <2> QED
    BY <1>2, <2>6
<1>6. ASSUME NEW h \in 0 .. hops
      PROVE  \A m \in R[h] : \E n \in 0 .. h : Routes(m, n)
  <2> DEFINE Found(i) == \A m \in R[i] : \E n \in 0 .. i : Routes(m, n)
             G == {i \in 0 .. h : Found(i)}
  <2>1. Found(0)
    <3> SUFFICES ASSUME NEW m \in R[0] PROVE Routes(m, 0)
      OBVIOUS
    <3>1. m = node
      BY <1>3
    <3> DEFINE none == [i \in 1 .. 0 - 1 |-> node]
    <3>2. none \in [1 .. 0 - 1 -> Ends]
      OBVIOUS
    <3>3. Steps(m, 0, none)
      BY <3>1
    <3> HIDE DEF Steps, none
    <3> QED
      BY <3>2, <3>3
  <2>2. ASSUME NEW i \in 1 .. h, Found(i - 1) PROVE Found(i)
    <3>1. i \in 1 .. hops
      OBVIOUS
    <3> SUFFICES ASSUME NEW m \in R[i] PROVE \E n \in 0 .. i : Routes(m, n)
      OBVIOUS
    <3>2. CASE m \in R[i - 1]
      <4>1. PICK n \in 0 .. i - 1 : Routes(m, n)
        BY <2>2, <3>2
      <4>2. n \in 0 .. i
        OBVIOUS
      <4> HIDE DEF Routes
      <4> QED
        BY <4>1, <4>2
    <3>3. CASE \E y \in R[i - 1] : Joined(edges, y, m)
      <4>1. PICK y \in R[i - 1] : Joined(edges, y, m)
        BY <3>3
      <4>0. PICK n \in 0 .. i - 1 : Routes(y, n)
        BY <2>2, <3>3
      <4>2. PICK between \in [1 .. n - 1 -> Ends] : Steps(y, n, between)
        <5> HIDE DEF Steps
        <5> QED
          BY <4>0
      <4> DEFINE longer == [k \in 1 .. (n + 1) - 1 |-> IF k = n THEN y ELSE between[k]]
      <4>3. longer \in [1 .. (n + 1) - 1 -> Ends]
        <5>1. y \in Ends
          BY <1>4, <4>1
        <5>2. \A k \in 1 .. (n + 1) - 1 : k # n => k \in 1 .. n - 1
          OBVIOUS
        <5> QED
          BY <4>2, <5>1, <5>2
      <4>4. \A k \in 0 .. n : At(m, n + 1, longer, k) = At(y, n, between, k)
        <5> SUFFICES ASSUME NEW k \in 0 .. n PROVE At(m, n + 1, longer, k) = At(y, n, between, k)
          OBVIOUS
        <5>1. k # n + 1
          OBVIOUS
        <5>2. CASE k = 0
          BY <5>2
        <5>3. CASE k # 0
          <6>1. k \in 1 .. (n + 1) - 1
            BY <5>3
          <6>2. longer[k] = IF k = n THEN y ELSE between[k]
            BY <6>1
          <6> HIDE DEF longer
          <6> QED
            BY <5>1, <5>3, <6>2
        <5> QED
          BY <5>2, <5>3
      <4>5. At(m, n + 1, longer, n + 1) = m
        BY <4>2
      <4>6. At(y, n, between, n) = y
        BY <4>2 DEF Steps
      <4> HIDE DEF longer, At
      <4>7. Steps(m, n + 1, longer)
        <5> SUFFICES ASSUME NEW k \in 1 .. n + 1
                     PROVE  Joined(edges, At(m, n + 1, longer, k - 1), At(m, n + 1, longer, k))
          BY DEF Steps
        <5>1. CASE k = n + 1
          <6>1. k - 1 = n /\ n \in 0 .. n
            BY <5>1
          <6> QED
            BY <4>1, <4>4, <4>5, <4>6, <5>1, <6>1
        <5>2. CASE k # n + 1
          <6>1. k \in 1 .. n /\ k \in 0 .. n /\ k - 1 \in 0 .. n
            BY <5>2
          <6>2. Joined(edges, At(y, n, between, k - 1), At(y, n, between, k))
            BY <4>2, <6>1 DEF Steps
          <6> QED
            BY <4>4, <6>1, <6>2
        <5> QED
          BY <5>1, <5>2
      <4>8. n + 1 \in 0 .. i
        OBVIOUS
      <4>9. Routes(m, n + 1)
        <5> HIDE DEF Steps
        <5> QED
          BY <4>3, <4>7
      <4> HIDE DEF Routes
      <4> QED
        BY <4>8, <4>9
    <3> QED
      BY <1>2, <3>1, <3>2, <3>3
  <2>3. h \in Nat
    OBVIOUS
  <2> HIDE DEF Found
  <2>5. 0 \in G /\ \A i \in 1 .. h : i - 1 \in G => i \in G
    BY <2>1, <2>2
  <2> HIDE DEF G
  <2>4. h \in G
    BY <2>3, <2>5, UpTo
  <2> QED
    BY <2>4 DEF G, Found
<1>7. ASSUME NEW h \in 0 .. hops, NEW m, NEW n \in 0 .. h, Routes(m, n) PROVE m \in R[h]
  <2> HIDE DEF Steps
  <2> QED
    BY <1>5, <1>7
<1> HIDE DEF Routes
<1> QED
  BY <1>1, <1>6, <1>7

\* The ends of the edges of a tree are its files and their directories.
LEMMA EdgesStay == ASSUME NEW files PROVE Among(GraphEdges(files), GraphNodes(files))
<1> SUFFICES ASSUME NEW e \in GraphEdges(files)
             PROVE  e.from \in GraphNodes(files) /\ e.to \in GraphNodes(files)
  BY DEF Among
<1>1. \A f \in files : f.path \in GraphNodes(files) /\ (f.dir # TopLevel => f.dir \in GraphNodes(files))
  BY DEF GraphNodes
<1>2. \/ e \in {Edge(f.dir, f.path, "contains") : f \in {f \in files : f.dir # TopLevel}}
      \/ e \in UNION {{Edge(f.path, g.path, "references") :
                g \in {g \in files : g.path \in f.refs /\ g # f}} : f \in files}
      \/ \E p \in files \X files : \E k : e = Edge(p[1].path, p[2].path, k)
  BY DEF GraphEdges
<1>3. CASE e \in {Edge(f.dir, f.path, "contains") : f \in {f \in files : f.dir # TopLevel}}
  BY <1>1, <1>3 DEF Edge
<1>4. CASE e \in UNION {{Edge(f.path, g.path, "references") :
                g \in {g \in files : g.path \in f.refs /\ g # f}} : f \in files}
  <2>1. PICK f \in files, g \in files : e = Edge(f.path, g.path, "references")
    BY <1>4
  <2> QED
    BY <1>1, <2>1 DEF Edge
<1>5. CASE \E p \in files \X files : \E k : e = Edge(p[1].path, p[2].path, k)
  <2>1. PICK p \in files \X files : \E k : e = Edge(p[1].path, p[2].path, k)
    BY <1>5
  <2>2. p[1] \in files /\ p[2] \in files
    OBVIOUS
  <2> QED
    BY <1>1, <2>1, <2>2 DEF Edge
<1> QED
  BY <1>2, <1>3, <1>4, <1>5

LEMMA NodesAreFinite == ASSUME NEW files, IsFiniteSet(files) PROVE IsFiniteSet(GraphNodes(files))
<1> DEFINE path == [f \in files |-> f.path]
           dir == [f \in files |-> f.dir]
<1>1. IsFiniteSet({path[f] : f \in files}) /\ IsFiniteSet({dir[f] : f \in files})
  BY ImageIsFinite
<1>2. GraphNodes(files) = {path[f] : f \in files} \union ({dir[f] : f \in files} \ {TopLevel})
  BY DEF GraphNodes
<1> DEFINE paths == {path[f] : f \in files}
           dirs == {dir[f] : f \in files} \ {TopLevel}
<1>3. IsFiniteSet(dirs)
  <2> HIDE DEF dir
  <2> QED
    BY <1>1, FS_Difference
<1>4. IsFiniteSet(paths)
  BY <1>1
<1> HIDE DEF paths, dirs
<1>5. IsFiniteSet(paths \union dirs)
  BY <1>3, <1>4, FS_Union
<1> QED
  BY <1>2, <1>5 DEF paths, dirs

\* A list of the members of S, each once.
Names(list, S) ==
    /\ list \in Seq(S)
    /\ \A i, j \in 1 .. Len(list) : list[i] = list[j] => i = j
    /\ \A x \in S : \E i \in 1 .. Len(list) : list[i] = x

LEMMA NamesAre ==
    ASSUME NEW S, NEW list, Names(list, S) PROVE IsInjective(list) /\ ToSet(list) = S /\ Len(list) \in Nat
<1>1. Len(list) \in Nat /\ DOMAIN list = 1 .. Len(list) /\ \A i \in 1 .. Len(list) : list[i] \in S
  BY ListIs DEF Names
<1> QED
  BY <1>1 DEF Names, IsInjective, ToSet

Placed(nodes) ==
    /\ IsFiniteSet(nodes) /\ \A n \in nodes : NodeRank[n] \in Int
    /\ \A m, n \in nodes : NodeRank[m] = NodeRank[n] => m = n

LEMMA ByNameIs == ASSUME NEW nodes, Placed(nodes) PROVE Names(ByName(nodes), nodes)
<1> DEFINE place == [n \in nodes |-> NodeRank[n]]
           ahead == [n \in nodes |-> {m \in nodes : NodeRank[m] < NodeRank[n]}]
           N == Cardinality(nodes)
           list == ByName(nodes)
<1>1. /\ IsFiniteSet(nodes) /\ place \in [nodes -> Int] /\ ahead \in [nodes -> SUBSET nodes]
      /\ \A x, y \in nodes : place[x] = place[y] => x = y
      /\ \A x, y \in nodes : x \in ahead[y] <=> place[x] < place[y]
  BY DEF Placed
<1>2. list = Sorted(nodes, ahead)
  BY DEF ByName
<1> HIDE DEF place, ahead, list
<1>3. SortsBy(nodes, place, ahead)
  BY <1>1, SortedByPlace
<1>4. /\ N \in Nat /\ list \in [1 .. N -> nodes] /\ IsInjective(list)
      /\ \A x \in nodes : \E n \in 1 .. N : list[n] = x
  BY <1>2, <1>3, Zenon DEF SortsBy
<1> HIDE DEF N
<1>5. list \in Seq(nodes) /\ Len(list) = N
  BY <1>4
<1> QED
  BY <1>4, <1>5 DEF Names, IsInjective, list

\* A list that goes on where another ends.
Extends(list, all) == Len(list) <= Len(all) /\ \A i \in 1 .. Len(list) : all[i] = list[i]
\* A name that a list of S does not have comes next.
ComesNext(list, S, all, x) == x \in S \/ (Len(list) < Len(all) /\ all[Len(list) + 1] = x)

LEMMA ExtendsOn ==
    ASSUME NEW A, NEW B, NEW C, NEW a, NEW b, NEW c, Names(a, A), Names(b, B), Names(c, C), Extends(a, b), Extends(b, c)
    PROVE  Extends(a, c)
<1>1. Len(a) \in Nat /\ Len(b) \in Nat /\ Len(c) \in Nat
  BY NamesAre
<1> QED
  BY <1>1 DEF Extends

\* What a longer list has of the names of a shorter one stands in the shorter.
LEMMA NoneLater ==
    ASSUME NEW A, NEW B, NEW a, NEW b, Names(a, A), Names(b, B), Extends(a, b), NEW i \in 1 .. Len(b), b[i] \in A
    PROVE  i \in 1 .. Len(a)
<1>1. Len(a) \in Nat /\ Len(b) \in Nat
  BY NamesAre
<1>2. PICK j \in 1 .. Len(a) : a[j] = b[i]
  BY DEF Names
<1>3. j \in 1 .. Len(b) /\ b[j] = b[i]
  BY <1>1, <1>2 DEF Extends
<1>4. j = i
  BY <1>3 DEF Names
<1> QED
  BY <1>2, <1>4

LEMMA NextIsNew ==
    ASSUME NEW A, NEW x, NEW a, NEW b, Names(a, A), Names(b, A \union {x}), Extends(a, b)
    PROVE  ComesNext(a, A, b, x)
<1> SUFFICES ASSUME x \notin A PROVE Len(a) < Len(b) /\ b[Len(a) + 1] = x
  BY DEF ComesNext
<1>1. /\ Len(a) \in Nat /\ Len(b) \in Nat
      /\ \A i \in 1 .. Len(a) : a[i] \in A
      /\ \A i \in 1 .. Len(b) : b[i] \in A \union {x}
  BY ListIs DEF Names
<1>2. PICK k \in 1 .. Len(b) : b[k] = x
  BY DEF Names
<1>3. k \notin 1 .. Len(a)
  BY <1>1, <1>2 DEF Extends
<1>4. Len(a) + 1 \in 1 .. Len(b)
  BY <1>1, <1>2, <1>3
<1>5. Len(a) + 1 \notin 1 .. Len(a)
  BY <1>1
<1>6. b[Len(a) + 1] \notin A
  BY <1>4, <1>5, NoneLater
<1> QED
  BY <1>1, <1>4, <1>6

LEMMA AppendNewIs ==
    ASSUME NEW A, NEW B, NEW list, NEW more, Names(list, A), Names(more, B)
    PROVE  Names(AppendNew(list, more), A \union B) /\ Extends(list, AppendNew(list, more))
<1> DEFINE C == A \union B
           rest == Without(more, A)
           n == Len(list)
           both == AppendNew(list, more)
<1>1. /\ n \in Nat /\ list \in Seq(A) /\ list \in Seq(C) /\ ToSet(list) = A
      /\ \A i, j \in 1 .. n : list[i] = list[j] => i = j
      /\ \A i \in 1 .. n : list[i] \in A
      /\ \A x \in A : \E i \in 1 .. n : list[i] = x
  <2>1. list \in Seq(A)
    BY DEF Names
  <2>2. list \in Seq(C)
    BY <2>1
  <2> QED
    BY <2>1, <2>2, NamesAre, ListIs DEF Names
<1>2. /\ Len(more) \in Nat /\ more \in Seq(B)
      /\ \A i, j \in 1 .. Len(more) : more[i] = more[j] => i = j
      /\ \A i \in 1 .. Len(more) : more[i] \in B
      /\ \A x \in B : \E i \in 1 .. Len(more) : more[i] = x
  <2>1. more \in Seq(B)
    BY DEF Names
  <2> QED
    BY <2>1, ListIs DEF Names
<1>3. PICK e : Leaves(e, more, A)
  BY <1>2, WithoutLeaves
<1> DEFINE k == Len(e)
<1>4. /\ k \in Nat /\ rest = [i \in 1 .. k |-> more[e[i]]]
      /\ \A i \in 1 .. k : e[i] \in 1 .. Len(more)
      /\ \A i, j \in 1 .. k : i < j => e[i] < e[j]
      /\ \A i \in 1 .. Len(more) : more[i] \notin A <=> \E j \in 1 .. k : e[j] = i
  <2>1. e \in Seq(1 .. Len(more))
    BY <1>3, Zenon DEF Leaves
  <2>2. Len(e) \in Nat /\ \A i \in 1 .. Len(e) : e[i] \in 1 .. Len(more)
    BY ONLY <2>1, ListIs
  <2> QED
    BY <1>3, <2>2, Zenon DEF Leaves
<1>5. both = list \o rest
  BY <1>1 DEF AppendNew
<1> HIDE DEF k, n, both, rest
<1>6. \A i \in 1 .. k : rest[i] \in B /\ rest[i] \notin A
  BY <1>2, <1>4
<1>7. \A i, j \in 1 .. k : rest[i] = rest[j] => i = j
  <2> SUFFICES ASSUME NEW i \in 1 .. k, NEW j \in 1 .. k, rest[i] = rest[j] PROVE i = j
    OBVIOUS
  <2>0. rest[i] = more[e[i]] /\ rest[j] = more[e[j]]
    BY <1>4
  <2>1. e[i] \in 1 .. Len(more) /\ e[j] \in 1 .. Len(more)
    BY <1>4
  <2>3. e[i] = e[j]
    <3>1. more[e[i]] = more[e[j]]
      BY <2>0, Zenon
    <3>2. \A a, b \in 1 .. Len(more) : more[a] = more[b] => a = b
      BY <1>2, Zenon
    <3> QED
      BY ONLY <2>1, <3>1, <3>2, Zenon
  <2>4. ~(e[i] < e[j]) /\ ~(e[j] < e[i])
    BY <1>2, <2>1, <2>3
  <2>2. ~(i < j) /\ ~(j < i)
    BY <1>4, <2>4, Zenon
  <2>5. i \in Int /\ j \in Int
    BY <1>4
  <2> QED
    BY <2>2, <2>5
<1>8. rest \in Seq(C) /\ Len(rest) = k
  <2>1. rest \in [1 .. k -> C]
    BY <1>4, <1>6
  <2> QED
    BY <1>4, <2>1
<1>9. \A x \in B : x \notin A => \E i \in 1 .. k : rest[i] = x
  <2> SUFFICES ASSUME NEW x \in B, x \notin A PROVE \E i \in 1 .. k : rest[i] = x
    OBVIOUS
  <2>1. PICK i \in 1 .. Len(more) : more[i] = x
    BY <1>2
  <2>2. PICK j \in 1 .. k : e[j] = i
    BY <1>4, <2>1
  <2> QED
    BY <1>4, <2>1, <2>2
<1> HIDE DEF C
<1>10. /\ both \in Seq(C) /\ Len(both) = n + k
       /\ \A i \in 1 .. n : both[i] = list[i]
       /\ \A i \in 1 .. k : both[n + i] = rest[i]
  <2>1. /\ list \o rest \in Seq(C) /\ Len(list \o rest) = Len(list) + Len(rest)
        /\ \A i \in 1 .. Len(list) : (list \o rest)[i] = list[i]
        /\ \A i \in 1 .. Len(rest) : (list \o rest)[Len(list) + i] = rest[i]
    <3>1. list \in Seq(C) /\ rest \in Seq(C)
      BY <1>1, <1>8
    <3> QED
      BY <3>1, JoinIs
  <2> QED
    BY <1>5, <1>8, <2>1, Zenon DEF n
<1>11. ASSUME NEW i \in 1 .. n + k PROVE i \in 1 .. n \/ \E j \in 1 .. k : i = n + j
  <2>1. CASE i <= n
    BY <1>1, <2>1
  <2>2. CASE i > n
    <3>1. i - n \in 1 .. k /\ i = n + (i - n)
      BY <1>1, <1>4, <2>2
    <3> QED
      BY <3>1
  <2> QED
    BY <1>1, <2>1, <2>2
<1>12. \A i, j \in 1 .. n + k : both[i] = both[j] => i = j
  <2> SUFFICES ASSUME NEW i \in 1 .. n + k, NEW j \in 1 .. n + k, both[i] = both[j] PROVE i = j
    OBVIOUS
  <2>1. CASE i \in 1 .. n /\ j \in 1 .. n
    BY <1>1, <1>10, <2>1
  <2>2. CASE \E x \in 1 .. k : i = n + x
    <3>1. PICK x \in 1 .. k : i = n + x
      BY <2>2
    <3>2. both[i] = rest[x]
      BY <1>10, <3>1
    <3>3. j \notin 1 .. n
      BY <1>1, <1>6, <1>10, <3>2
    <3>4. PICK y \in 1 .. k : j = n + y
      BY <1>11, <3>3
    <3>5. both[j] = rest[y]
      BY <1>10, <3>4
    <3> QED
      BY <1>7, <3>1, <3>2, <3>4, <3>5
  <2>3. CASE i \in 1 .. n /\ \E x \in 1 .. k : j = n + x
    <3>1. PICK x \in 1 .. k : j = n + x
      BY <2>3
    <3>2. both[j] = rest[x] /\ both[i] = list[i]
      BY <1>10, <2>3, <3>1
    <3> QED
      BY <1>1, <1>6, <2>3, <3>2
  <2> QED
    BY <1>11, <2>1, <2>2, <2>3
<1>13. \A x \in C : \E i \in 1 .. n + k : both[i] = x
  <2>1. /\ \A i \in 1 .. n : i \in 1 .. n + k
        /\ \A i \in 1 .. k : n + i \in 1 .. n + k
    BY <1>1, <1>4
  <2>2. ASSUME NEW x \in A PROVE \E i \in 1 .. n + k : both[i] = x
    BY <1>1, <1>10, <2>1
  <2>3. ASSUME NEW x \in B, x \notin A PROVE \E i \in 1 .. n + k : both[i] = x
    BY <1>9, <1>10, <2>1, <2>3
  <2> QED
    BY <2>2, <2>3 DEF C
<1>14. Extends(list, both)
  BY <1>1, <1>4, <1>10 DEF Extends, n
<1> QED
  BY <1>10, <1>12, <1>13, <1>14 DEF Names, C, n, both

\* What expand_with_graph has after each of the seeds.
Reach(edges, seeds, hops, i) == UNION {NeighborsWithin(edges, seeds[j], hops) : j \in 1 .. i}

LEMMA GrownIs ==
    ASSUME NEW nodes, Placed(nodes), NEW edges, Among(edges, nodes), NEW seeds \in Seq(nodes), NEW hops \in Nat
    PROVE  LET grown == Expanded(seeds, edges, hops)
           IN \A i \in 0 .. Len(seeds) :
                 /\ Names(grown[i], Reach(edges, seeds, hops, i))
                 /\ \A k \in 0 .. i : Extends(grown[k], grown[i])
                 /\ 1 <= i => ComesNext(grown[i - 1], Reach(edges, seeds, hops, i - 1), grown[i], seeds[i])
<1> DEFINE n == Len(seeds)
           A == Seq(nodes)
           Near(i) == Neighbors(edges, seeds[i], hops)
           More(i, list) == AppendNew(AppendNew(list, <<seeds[i]>>), ByName(Near(i)))
           step == [p \in (1 .. n) \X A |-> More(p[1], p[2])]
           Fn(f) == f = [i \in 0 .. n |-> IF i = 0 THEN <<>> ELSE More(i, f[i - 1])]
           Had(i) == Reach(edges, seeds, hops, i)
<1>1. n \in Nat /\ \A i \in 1 .. n : seeds[i] \in nodes
  BY ListIs
<1>2. ASSUME NEW i \in 1 .. n
      PROVE  /\ Near(i) \subseteq nodes /\ Names(ByName(Near(i)), Near(i))
             /\ seeds[i] \in NeighborsWithin(edges, seeds[i], hops)
             /\ NeighborsWithin(edges, seeds[i], hops) = {seeds[i]} \union Near(i)
  <2> DEFINE R == Reached(edges, seeds[i], hops)
  <2>1. Layers(R, edges, seeds[i], hops) /\ \A h \in 0 .. hops : R[h] \subseteq nodes
    BY <1>1, ReachedIs
  <2> HIDE DEF R
  <2>2. hops \in 0 .. hops /\ 0 \in 0 .. hops
    OBVIOUS
  <2>3. R[0] = {seeds[i]} /\ R[0] \subseteq R[hops]
    <3>1. \A h \in 0 .. hops : \A k \in 0 .. h : R[k] \subseteq R[h]
      BY <2>1, LayersGrow
    <3> QED
      BY <2>1, <2>2, <3>1 DEF Layers
  <2>4. NeighborsWithin(edges, seeds[i], hops) = R[hops]
    BY DEF NeighborsWithin, R
  <2>5. Near(i) = R[hops] \ {seeds[i]}
    BY <2>4 DEF Neighbors
  <2>6. R[hops] \subseteq nodes
    BY <2>1, <2>2
  <2> HIDE DEF Near
  <2>7. Near(i) \subseteq nodes
    BY <2>5, <2>6
  <2>8. Placed(Near(i))
    BY <2>7, FS_Subset DEF Placed
  <2>9. Names(ByName(Near(i)), Near(i))
    BY <2>8, ByNameIs
  <2> QED
    BY <2>3, <2>4, <2>5, <2>7, <2>9
<1>3. \A x : Names(<<x>>, {x})
  BY DEF Names
<1> HIDE DEF Near
<1>4. ASSUME NEW i \in 1 .. n, NEW list, NEW S, Names(list, S)
      PROVE  /\ Names(More(i, list), S \union NeighborsWithin(edges, seeds[i], hops))
             /\ Extends(list, More(i, list)) /\ ComesNext(list, S, More(i, list), seeds[i])
  <2> DEFINE one == AppendNew(list, <<seeds[i]>>)
             all == AppendNew(one, ByName(Near(i)))
  <2>1. Names(one, S \union {seeds[i]}) /\ Extends(list, one)
    <3> DEFINE single == <<seeds[i]>>
    <3>1. Names(single, {seeds[i]}) /\ Names(list, S)
      BY <1>3, <1>4, Zenon
    <3> HIDE DEF single
    <3>2. Names(AppendNew(list, single), S \union {seeds[i]}) /\ Extends(list, AppendNew(list, single))
      BY <3>1, AppendNewIs
    <3> QED
      BY <3>2 DEF single
  <2> HIDE DEF one
  <2>2. ComesNext(list, S, one, seeds[i])
    BY <1>4, <2>1, NextIsNew
  <2>3. Names(all, (S \union {seeds[i]}) \union Near(i)) /\ Extends(one, all)
    BY <1>2, <2>1, AppendNewIs
  <2>4. More(i, list) = all
    BY DEF one
  <2>5. (S \union {seeds[i]}) \union Near(i) = S \union NeighborsWithin(edges, seeds[i], hops)
    BY <1>2
  <2> HIDE DEF all, More
  <2>6. Extends(list, all)
    BY <1>4, <2>1, <2>3, ExtendsOn
  <2>7. ComesNext(list, S, all, seeds[i])
    <3>1. Len(list) \in Nat /\ Len(one) \in Nat /\ Len(all) \in Nat
      BY <1>4, <2>1, <2>3, NamesAre
    <3> QED
      BY <2>2, <2>3, <3>1 DEF ComesNext, Extends
  <2> QED
    BY <2>3, <2>4, <2>5, <2>6, <2>7
<1>5. ASSUME NEW i \in 1 .. n, NEW list \in A PROVE More(i, list) \in A
  <2>1. <<seeds[i]>> \in A
    BY <1>1
  <2>2. ByName(Near(i)) \in A
    BY <1>2 DEF Names
  <2>3. \A l \in A, m \in A : AppendNew(l, m) \in A
    <3> SUFFICES ASSUME NEW l \in A, NEW m \in A PROVE AppendNew(l, m) \in A
      OBVIOUS
    <3>1. Without(m, ToSet(l)) \in A
      BY WithoutSet
    <3>2. l \o Without(m, ToSet(l)) \in A
      <4> DEFINE r == Without(m, ToSet(l))
      <4>1. r \in Seq(nodes)
        BY <3>1
      <4> HIDE DEF r
      <4>2. l \o r \in Seq(nodes)
        BY <4>1, JoinIs
      <4> QED
        BY <4>2 DEF r
    <3> QED
      BY <3>2 DEF AppendNew
  <2> HIDE DEF A
  <2> QED
    BY <2>1, <2>2, <2>3
<1> HIDE DEF More
<1>6. step \in [(1 .. n) \X A -> A] /\ \A i \in 1 .. n, list \in A : step[<<i, list>>] = More(i, list)
  <2>1. \A p \in (1 .. n) \X A : More(p[1], p[2]) \in A
    BY <1>5
  <2> HIDE DEF A, n
  <2> QED
    BY <2>1
<1>7. <<>> \in A
  OBVIOUS
<1> HIDE DEF step, A
<1>8. PICK f : Grows(f, n, A, <<>>, step)
  <2> HIDE DEF n
  <2> QED
    BY <1>1, <1>6, <1>7, Recursion
<1>9. f \in [0 .. n -> A] /\ f[0] = <<>> /\ \A i \in 1 .. n : f[i] = step[<<i, f[i - 1]>>]
  BY <1>8 DEF Grows
<1> HIDE DEF n
<1>10. \A i \in 1 .. n : f[i] = More(i, f[i - 1])
  <2> SUFFICES ASSUME NEW i \in 1 .. n PROVE f[i] = More(i, f[i - 1])
    OBVIOUS
  <2>1. i - 1 \in 0 .. n
    BY <1>1
  <2>2. f[i - 1] \in A
    BY <1>9, <2>1
  <2> QED
    BY <1>6, <1>9, <2>2
<1>11. Fn(f)
  <2>1. \A i \in 0 .. n : i # 0 => i \in 1 .. n
    BY <1>1
  <2>2. \A i \in 0 .. n : f[i] = IF i = 0 THEN <<>> ELSE More(i, f[i - 1])
    BY <1>9, <1>10, <2>1
  <2>3. f = [i \in 0 .. n |-> f[i]]
    BY <1>9
  <2> QED
    BY <2>2, <2>3
<1> DEFINE grown == Expanded(seeds, edges, hops)
<1>12. grown = CHOOSE g : Fn(g)
  BY DEF Expanded, More, Near, n
<1>13. Fn(grown)
  <2> HIDE DEF Fn, grown
  <2> QED
    BY <1>11, <1>12
<1> HIDE DEF grown
<1>14. grown[0] = <<>> /\ \A i \in 1 .. n : grown[i] = More(i, grown[i - 1])
  <2>1. \A i \in 1 .. n : i \in 0 .. n /\ i # 0
    BY <1>1
  <2>2. 0 \in 0 .. n
    BY <1>1
  <2>3. \A i \in 0 .. n : grown[i] = IF i = 0 THEN <<>> ELSE More(i, grown[i - 1])
    BY <1>13
  <2> QED
    BY <2>1, <2>2, <2>3
<1>15. Had(0) = {} /\ \A i \in 1 .. n : Had(i) = Had(i - 1) \union NeighborsWithin(edges, seeds[i], hops)
  <2>1. Had(0) = {}
    BY DEF Reach
  <2>2. ASSUME NEW i \in 1 .. n
        PROVE  Had(i) = Had(i - 1) \union NeighborsWithin(edges, seeds[i], hops)
    <3>1. \A j \in 1 .. i : j \in 1 .. i - 1 \/ j = i
      BY <1>1
    <3>2. i \in 1 .. i /\ \A j \in 1 .. i - 1 : j \in 1 .. i
      BY <1>1
    <3> QED
      BY <3>1, <3>2 DEF Reach
  <2> QED
    BY <2>1, <2>2
<1> HIDE DEF Had
<1> DEFINE Good(i) == /\ Names(grown[i], Had(i))
                      /\ \A k \in 0 .. i : Names(grown[k], Had(k)) /\ Extends(grown[k], grown[i])
                      /\ 1 <= i => ComesNext(grown[i - 1], Had(i - 1), grown[i], seeds[i])
<1>16. Good(0)
  <2>1. Names(<<>>, {})
    BY DEF Names
  <2>2. Names(grown[0], Had(0)) /\ grown[0] = <<>>
    BY <1>14, <1>15, <2>1, Zenon
  <2>3. Extends(grown[0], grown[0]) /\ \A k \in 0 .. 0 : k = 0
    BY <2>2 DEF Extends
  <2> QED
    BY <2>2, <2>3
<1>17. ASSUME NEW i \in 1 .. n, Good(i - 1) PROVE Good(i)
  <2> DEFINE was == grown[i - 1]
             is == grown[i]
             S == Had(i - 1)
  <2>1. Names(was, S) /\ \A k \in 0 .. i - 1 : Names(grown[k], Had(k)) /\ Extends(grown[k], was)
    BY <1>17
  <2>2. is = More(i, was) /\ Had(i) = S \union NeighborsWithin(edges, seeds[i], hops)
    BY <1>14, <1>15
  <2> HIDE DEF was, is, S
  <2>3. /\ Names(More(i, was), S \union NeighborsWithin(edges, seeds[i], hops))
        /\ Extends(was, More(i, was)) /\ ComesNext(was, S, More(i, was), seeds[i])
    BY <1>4, <2>1
  <2>4. Names(is, Had(i)) /\ Extends(was, is) /\ ComesNext(was, S, is, seeds[i])
    BY <2>2, <2>3, Zenon
  <2>5. Extends(is, is)
    <3>1. Len(is) \in Nat
      BY <2>4, NamesAre
    <3> QED
      BY <3>1 DEF Extends
  <2>6. \A k \in 0 .. i : k = i \/ k \in 0 .. i - 1
    BY <1>1
  <2>7. ASSUME NEW k \in 0 .. i PROVE Names(grown[k], Had(k)) /\ Extends(grown[k], is)
    <3>1. CASE k = i
      BY <2>4, <2>5, <3>1 DEF is
    <3>2. CASE k \in 0 .. i - 1
      <4>1. Names(grown[k], Had(k)) /\ Extends(grown[k], was)
        BY <2>1, <3>2
      <4> QED
        BY <2>1, <2>4, <4>1, ExtendsOn
    <3> QED
      BY <2>6, <3>1, <3>2
  <2> QED
    BY <2>4, <2>7 DEF was, is, S
<1> HIDE DEF Good
<1>18. ASSUME NEW i \in 0 .. n PROVE Good(i)
  <2> DEFINE G == {k \in 0 .. n : Good(k)}
  <2>1. 0 \in G /\ \A k \in 1 .. i : k - 1 \in G => k \in G
    <3>1. 0 \in 0 .. n /\ \A k \in 1 .. i : k \in 1 .. n /\ k \in 0 .. n
      BY <1>1
    <3> QED
      BY <1>16, <1>17, <3>1
  <2> HIDE DEF G
  <2>2. i \in G
    <3>1. i \in Nat
      BY <1>1
    <3> QED
      BY <2>1, <3>1, UpTo
  <2> QED
    BY <2>2 DEF G
<1> QED
  BY <1>18 DEF Good, grown, Had, n

\* The expanded list: what so many steps reach, each once, and the seeds in
\* their order: all that is before a seed was reached from the seeds before it,
\* and what is reached from the first seeds is before what is not.
LEMMA ExpansionIs ==
    ASSUME NEW files, Placed(GraphNodes(files)), NEW seeds \in Seq(GraphNodes(files)), NEW hops \in Nat
    PROVE  LET edges == GraphEdges(files)
               expanded == ExpandWithGraph(seeds, edges, hops)
               OfFirst(i, n) == \E s \in 1 .. i : Reaches(edges, seeds[s], n, hops)
           IN /\ IsInjective(expanded)
              /\ \A i, j \in DOMAIN expanded, m \in DOMAIN seeds : i < j =>
                    /\ expanded[j] = seeds[m] => OfFirst(m - 1, expanded[i])
                    /\ OfFirst(m, expanded[j]) => OfFirst(m, expanded[i])
              /\ ToSet(expanded) = {n \in GraphNodes(files) :
                                       \E i \in DOMAIN seeds : Reaches(edges, seeds[i], n, hops)}
<1> DEFINE edges == GraphEdges(files)
           nodes == GraphNodes(files)
           k == Len(seeds)
           expanded == ExpandWithGraph(seeds, edges, hops)
           Had(i) == Reach(edges, seeds, hops, i)
           OfFirst(i, n) == \E s \in 1 .. i : Reaches(edges, seeds[s], n, hops)
<1>1. Placed(nodes) /\ Among(edges, nodes) /\ seeds \in Seq(nodes)
  BY EdgesStay
<1> HIDE DEF edges, nodes
<1>2. k \in Nat /\ DOMAIN seeds = 1 .. k /\ \A i \in 1 .. k : seeds[i] \in nodes
  BY <1>1
<1> DEFINE grown == Expanded(seeds, edges, hops)
<1>3. /\ Names(expanded, Had(k))
      /\ \A i \in 0 .. k : Names(grown[i], Had(i)) /\ Extends(grown[i], expanded)
      /\ \A i \in 1 .. k : ComesNext(grown[i - 1], Had(i - 1), grown[i], seeds[i])
  <2>1. \A i \in 0 .. k :
           /\ Names(grown[i], Had(i))
           /\ \A m \in 0 .. i : Extends(grown[m], grown[i])
           /\ 1 <= i => ComesNext(grown[i - 1], Had(i - 1), grown[i], seeds[i])
    BY <1>1, GrownIs
  <2>2. k \in 0 .. k /\ \A i \in 1 .. k : i \in 0 .. k /\ 1 <= i
    BY <1>2
  <2>3. expanded = grown[k]
    BY DEF ExpandWithGraph
  <2> HIDE DEF grown, k, Had, expanded
  <2> QED
    BY <2>1, <2>2, <2>3
<1>4. ASSUME NEW i \in 1 .. k, NEW m
      PROVE  m \in NeighborsWithin(edges, seeds[i], hops) <=> m \in nodes /\ Reaches(edges, seeds[i], m, hops)
  <2> DEFINE R == Reached(edges, seeds[i], hops)
  <2>1. Layers(R, edges, seeds[i], hops) /\ \A h \in 0 .. hops : R[h] \subseteq nodes
    BY <1>1, <1>2, ReachedIs
  <2> HIDE DEF R
  <2>2. hops \in 0 .. hops
    OBVIOUS
  <2>3. \A h \in 0 .. hops : \A x : x \in R[h] <=> Reaches(edges, seeds[i], x, h)
    BY <2>1, LayersAreSteps
  <2>4. m \in R[hops] <=> Reaches(edges, seeds[i], m, hops)
    BY <2>2, <2>3, Zenon
  <2>5. R[hops] \subseteq nodes
    BY <2>1, <2>2
  <2> QED
    BY <2>4, <2>5, Zenon DEF NeighborsWithin, R
<1>5. Reach(edges, seeds, hops, k) = {n \in nodes : \E i \in DOMAIN seeds : Reaches(edges, seeds[i], n, hops)}
  <2> HIDE DEF k
  <2>1. \A m : m \in Reach(edges, seeds, hops, k)
                 <=> \E i \in 1 .. k : m \in NeighborsWithin(edges, seeds[i], hops)
    BY DEF Reach
  <2> QED
    BY <1>2, <1>4, <2>1, Zenon
<1>6. \A m \in 0 .. k : \A n : n \in Had(m) <=> n \in nodes /\ OfFirst(m, n)
  <2> SUFFICES ASSUME NEW m \in 0 .. k, NEW n PROVE n \in Had(m) <=> n \in nodes /\ OfFirst(m, n)
    OBVIOUS
  <2>1. n \in Had(m) <=> \E i \in 1 .. m : n \in NeighborsWithin(edges, seeds[i], hops)
    BY DEF Reach
  <2>2. \A i \in 1 .. m : i \in 1 .. k
    BY <1>2
  <2> HIDE DEF k, Had
  <2> QED
    BY <1>4, <2>1, <2>2, Zenon
<1> HIDE DEF expanded, grown, k, Had
<1>7. IsInjective(expanded) /\ ToSet(expanded) = Had(k) /\ Len(expanded) \in Nat /\ DOMAIN expanded = 1 .. Len(expanded)
  <2>1. IsInjective(expanded) /\ ToSet(expanded) = Had(k) /\ Len(expanded) \in Nat
    BY <1>3, NamesAre
  <2> QED
    BY <1>3, <2>1 DEF Names
<1>8. ASSUME NEW m \in 0 .. k, NEW i \in 1 .. Len(grown[m])
      PROVE  i \in DOMAIN expanded /\ OfFirst(m, expanded[i])
  <2>1. Names(grown[m], Had(m)) /\ Extends(grown[m], expanded)
    BY <1>3
  <2> DEFINE list == grown[m]
  <2>2. Names(list, Had(m)) /\ Extends(list, expanded) /\ i \in 1 .. Len(list)
    BY <1>8, <2>1
  <2> HIDE DEF list
  <2>3. Len(list) \in Nat /\ list[i] \in Had(m)
    BY <2>2, ListIs DEF Names
  <2>4. i \in 1 .. Len(expanded) /\ expanded[i] = list[i]
    BY <1>7, <2>2, <2>3 DEF Extends
  <2> HIDE DEF OfFirst
  <2> QED
    BY <1>6, <1>7, <2>3, <2>4, Zenon
<1>9. ASSUME NEW m \in 0 .. k, NEW j \in DOMAIN expanded, expanded[j] \in Had(m)
      PROVE  j \in 1 .. Len(grown[m]) /\ Len(grown[m]) \in Nat
  <2>1. Names(grown[m], Had(m)) /\ Extends(grown[m], expanded)
    BY <1>3
  <2> QED
    BY <1>3, <1>7, <1>9, <2>1, NoneLater, NamesAre
<1>10. \A j \in DOMAIN expanded : expanded[j] \in nodes
  <2>1. \A j \in DOMAIN expanded : expanded[j] \in Had(k)
    BY <1>7 DEF ToSet
  <2>2. k \in 0 .. k
    BY <1>2
  <2> HIDE DEF OfFirst
  <2> QED
    BY <1>6, <2>1, <2>2, Zenon
<1>11. ASSUME NEW i \in DOMAIN expanded, NEW j \in DOMAIN expanded, NEW m \in 1 .. k, i < j, OfFirst(m, expanded[j])
       PROVE  OfFirst(m, expanded[i])
  <2>1. m \in 0 .. k
    BY <1>2
  <2>2. expanded[j] \in Had(m)
    <3> HIDE DEF OfFirst
    <3> QED
      BY <1>6, <1>10, <1>11, <2>1, Zenon
  <2>3. j \in 1 .. Len(grown[m]) /\ Len(grown[m]) \in Nat
    BY <1>9, <2>1, <2>2
  <2>4. i \in 1 .. Len(grown[m])
    BY <1>7, <1>11, <2>3
  <2> QED
    BY <1>8, <2>1, <2>4
<1>12. ASSUME NEW i \in DOMAIN expanded, NEW j \in DOMAIN expanded, NEW m \in 1 .. k, i < j, expanded[j] = seeds[m]
       PROVE  OfFirst(m - 1, expanded[i])
  <2>1. m - 1 \in 0 .. k /\ m \in 0 .. k
    BY <1>2
  <2> DEFINE before == Len(grown[m - 1])
  <2>2. before \in Nat
    BY <1>3, <2>1, NamesAre
  <2>3. i \in 1 .. before
    <3>1. CASE seeds[m] \in Had(m - 1)
      <4>1. j \in 1 .. before
        BY <1>9, <1>12, <2>1, <3>1
      <4> HIDE DEF before
      <4> QED
        BY <1>7, <1>12, <2>2, <4>1
    <3>2. CASE seeds[m] \notin Had(m - 1)
      <4>1. before < Len(grown[m]) /\ grown[m][before + 1] = seeds[m]
        BY <1>3, <3>2 DEF ComesNext
      <4>2. Names(grown[m], Had(m)) /\ Extends(grown[m], expanded)
        BY <1>3, <2>1
      <4>3. Len(grown[m]) \in Nat
        BY <4>2, NamesAre
      <4> HIDE DEF before
      <4>4. before + 1 \in 1 .. Len(grown[m])
        BY <2>2, <4>1, <4>3
      <4>5. before + 1 \in DOMAIN expanded /\ expanded[before + 1] = expanded[j]
        BY <1>7, <1>12, <4>1, <4>2, <4>3, <4>4 DEF Extends
      <4>6. before + 1 = j
        BY <1>7, <4>5 DEF IsInjective
      <4> QED
        BY <1>7, <1>12, <2>2, <4>6
    <3> QED
      BY <3>1, <3>2
  <2> QED
    BY <1>8, <2>1, <2>3
<1>13. ToSet(expanded) = {n \in nodes : \E i \in DOMAIN seeds : Reaches(edges, seeds[i], n, hops)}
  BY <1>5, <1>7, Zenon DEF Had
<1> QED
  BY <1>2, <1>7, <1>11, <1>12, <1>13 DEF edges, nodes, expanded

----------------------------------------------------------------------------
(* The communities of the entities.                                          *)
Closed(edges, S) == \A m \in S : \A n : Joined(edges, m, n) => n \in S

LEMMA JoinedBothWays == ASSUME NEW edges, NEW m, NEW n, Joined(edges, m, n) PROVE Joined(edges, n, m)
<1>1. {m, n} = {n, m}
  OBVIOUS
<1> QED
  BY <1>1, Zenon DEF Joined

\* As many steps as there are nodes reach all that can be reached.
LEMMA LayersClose ==
    ASSUME NEW nodes, IsFiniteSet(nodes), NEW edges, NEW node, NEW R,
           Layers(R, edges, node, Cardinality(nodes)), \A h \in 0 .. Cardinality(nodes) : R[h] \subseteq nodes
    PROVE  Closed(edges, R[Cardinality(nodes)])
<1> DEFINE N == Cardinality(nodes)
           Full(h) == Closed(edges, R[h]) \/ Cardinality(R[h]) >= h + 1
<1>1. N \in Nat
  BY FS_CardinalityType
<1>2. \A h \in 0 .. N : IsFiniteSet(R[h]) /\ Cardinality(R[h]) \in Nat /\ Cardinality(R[h]) <= N
  <2> SUFFICES ASSUME NEW h \in 0 .. N
               PROVE  IsFiniteSet(R[h]) /\ Cardinality(R[h]) \in Nat /\ Cardinality(R[h]) <= N
    OBVIOUS
  <2>1. R[h] \in SUBSET nodes
    OBVIOUS
  <2> QED
    BY <2>1, FS_Subset, FS_CardinalityType
<1>3. /\ \A h \in 1 .. N : R[h - 1] \subseteq R[h]
      /\ \A h \in 1 .. N : \A m : m \in R[h] <=> m \in R[h - 1] \/ \E n \in R[h - 1] : Joined(edges, n, m)
  <2>1. /\ \A h \in 0 .. N : \A i \in 0 .. h : R[i] \subseteq R[h]
        /\ \A h \in 1 .. N : \A m : m \in R[h] <=> m \in R[h - 1] \/ \E n \in R[h - 1] : Joined(edges, n, m)
    BY <1>1, LayersGrow
  <2>2. \A h \in 1 .. N : h \in 0 .. N /\ h - 1 \in 0 .. h
    BY <1>1
  <2> QED
    BY <2>1, <2>2
<1>4. R[0] = {node}
  BY DEF Layers
<1> HIDE DEF N
<1>5. Full(0)
  <2>1. Cardinality(R[0]) = 1
    BY <1>4, FS_Singleton
  <2> QED
    BY <2>1
<1>6. ASSUME NEW h \in 1 .. N, Full(h - 1) PROVE Full(h)
  <2>0. h \in 0 .. N /\ h - 1 \in 0 .. N
    BY <1>1
  <2>1. CASE Closed(edges, R[h - 1])
    <3>1. \A m : m \in R[h] <=> m \in R[h - 1]
      BY <1>3, <2>1 DEF Closed
    <3>2. R[h] = R[h - 1]
      BY <3>1
    <3> QED
      BY <2>1, <3>2, Zenon
  <2>2. CASE ~Closed(edges, R[h - 1])
    <3>1. Cardinality(R[h - 1]) >= h
      BY <1>1, <1>6, <2>2
    <3>2. PICK m \in R[h - 1] : \E n : Joined(edges, m, n) /\ n \notin R[h - 1]
      BY <2>2 DEF Closed
    <3>6. PICK n : Joined(edges, m, n) /\ n \notin R[h - 1]
      BY <3>2
    <3> DEFINE S == R[h - 1] \union {n}
    <3>3. S \in SUBSET R[h]
      BY <1>3, <3>6
    <3>4. Cardinality(S) = Cardinality(R[h - 1]) + 1
      <4> DEFINE Q == R[h - 1]
      <4>1. IsFiniteSet(Q) /\ n \notin Q
        BY <1>2, <2>0, <3>6
      <4> HIDE DEF Q
      <4>2. Cardinality(Q \union {n}) = Cardinality(Q) + 1
        BY <4>1, FS_AddElement
      <4> QED
        BY <4>2 DEF Q
    <3> HIDE DEF S
    <3>5. Cardinality(S) <= Cardinality(R[h])
      BY <1>2, <2>0, <3>3, FS_Subset
    <3> QED
      BY <1>1, <1>2, <2>0, <3>1, <3>4, <3>5
  <2> QED
    BY <2>1, <2>2
<1> HIDE DEF Full
<1> DEFINE G == {h \in 0 .. N : Full(h)}
<1>7. 0 \in G /\ \A h \in 1 .. N : h - 1 \in G => h \in G
  BY <1>1, <1>5, <1>6
<1> HIDE DEF G
<1>8. N \in G
  BY <1>1, <1>7, UpTo
<1>9. Full(N) /\ N \in 0 .. N
  BY <1>8 DEF G
<1>10. ~(Cardinality(R[N]) >= N + 1)
  BY <1>1, <1>2, <1>9
<1> QED
  BY <1>9, <1>10, Zenon DEF Full, N

\* What is reached is in every closed set that holds the node.
LEMMA LayersStay ==
    ASSUME NEW R, NEW edges, NEW node, NEW hops \in Nat, Layers(R, edges, node, hops),
           NEW S, node \in S, Closed(edges, S)
    PROVE  R[0] = {node} /\ R[hops] \subseteq S /\ node \in R[hops]
<1>1. /\ \A h \in 0 .. hops : \A i \in 0 .. h : R[i] \subseteq R[h]
      /\ \A h \in 1 .. hops : \A m : m \in R[h] <=> m \in R[h - 1] \/ \E n \in R[h - 1] : Joined(edges, n, m)
  BY LayersGrow
<1>2. R[0] = {node}
  BY DEF Layers
<1> DEFINE G == {h \in 0 .. hops : R[h] \subseteq S}
<1>3. 0 \in G
  BY <1>2
<1>4. \A h \in 1 .. hops : h - 1 \in G => h \in G
  <2> SUFFICES ASSUME NEW h \in 1 .. hops, R[h - 1] \subseteq S, NEW m \in R[h] PROVE m \in S
    OBVIOUS
  <2> QED
    BY <1>1 DEF Closed
<1> HIDE DEF G
<1>5. hops \in G
  BY <1>3, <1>4, UpTo
<1>6. node \in R[hops]
  <2>1. hops \in 0 .. hops /\ 0 \in 0 .. hops
    OBVIOUS
  <2>2. R[0] \subseteq R[hops]
    BY <1>1, <2>1
  <2> QED
    BY <1>2, <2>2
<1> QED
  BY <1>2, <1>5, <1>6 DEF G

\* Two communities have no entity and no triple in common.
LEMMA CommunitiesApart ==
    ASSUME NEW triples, IsFiniteSet(triples)
    PROVE  \A g, h \in Communities(triples) : g # h =>
              g.members \intersect h.members = {} /\ g.triples \intersect h.triples = {}
<1> DEFINE nodes == {t.src : t \in triples} \union {t.dst : t \in triples}
           edges == {Edge(t.src, t.dst, "triple") : t \in triples}
           N == Cardinality(nodes)
           Together(n) == NeighborsWithin(edges, n, N)
           Of(m) == [members |-> m, triples |-> {t \in triples : t.src \in m \/ t.dst \in m}]
<1>1. IsFiniteSet(nodes)
  <2> DEFINE src == [t \in triples |-> t.src]
             dst == [t \in triples |-> t.dst]
             from == {src[t] : t \in triples}
             to == {dst[t] : t \in triples}
  <2>1. IsFiniteSet(from) /\ IsFiniteSet(to)
    BY ImageIsFinite
  <2>2. nodes = from \union to
    OBVIOUS
  <2> HIDE DEF from, to, nodes
  <2> QED
    BY <2>1, <2>2, FS_Union
<1>2. N \in Nat
  BY <1>1, FS_CardinalityType
<1>3. Among(edges, nodes) /\ \A t \in triples : t.src \in nodes /\ t.dst \in nodes /\ Joined(edges, t.src, t.dst)
  <2>1. Among(edges, nodes)
    BY DEF Among, Edge
  <2>2. ASSUME NEW t \in triples PROVE t.src \in nodes /\ t.dst \in nodes /\ Joined(edges, t.src, t.dst)
    <3>1. Edge(t.src, t.dst, "triple") \in edges
      OBVIOUS
    <3>2. {Edge(t.src, t.dst, "triple").from, Edge(t.src, t.dst, "triple").to} = {t.src, t.dst}
      BY DEF Edge
    <3> HIDE DEF edges
    <3>3. Joined(edges, t.src, t.dst)
      BY <3>1, <3>2 DEF Joined
    <3> QED
      BY <3>3
  <2> QED
    BY <2>1, <2>2
<1>4. ASSUME NEW g \in Communities(triples) PROVE \E n \in nodes : g = Of(Together(n))
  BY DEF Communities
<1> HIDE DEF nodes, edges
<1>5. \A m, n : Joined(edges, m, n) => n \in nodes /\ Joined(edges, n, m)
  <2> SUFFICES ASSUME NEW m, NEW n, Joined(edges, m, n) PROVE n \in nodes /\ Joined(edges, n, m)
    OBVIOUS
  <2>1. PICK e \in edges : {e.from, e.to} = {m, n}
    BY DEF Joined
  <2>2. n \in nodes
    BY <1>3, <2>1 DEF Among
  <2> QED
    BY <2>2, JoinedBothWays
<1>6. ASSUME NEW n \in nodes
      PROVE  /\ n \in Together(n) /\ Together(n) \subseteq nodes /\ Closed(edges, Together(n))
             /\ \A S : n \in S /\ Closed(edges, S) => Together(n) \subseteq S
  <2> DEFINE R == Reached(edges, n, N)
  <2>1. Layers(R, edges, n, N) /\ \A h \in 0 .. N : R[h] \subseteq nodes
    BY <1>2, <1>3, ReachedIs
  <2>2. Together(n) = R[N]
    BY DEF NeighborsWithin
  <2> HIDE DEF R, Together
  <2>3. Closed(edges, R[N])
    BY <1>1, <2>1, LayersClose
  <2>4. Closed(edges, nodes)
    BY <1>5 DEF Closed
  <2>5. \A S : n \in S /\ Closed(edges, S) => R[0] = {n} /\ R[N] \subseteq S /\ n \in R[N]
    <3> HIDE DEF N
    <3> QED
      BY <1>2, <2>1, LayersStay
  <2> QED
    BY <2>2, <2>3, <2>4, <2>5
<1> HIDE DEF Together
<1>7. ASSUME NEW n \in nodes, NEW x \in Together(n) PROVE Together(x) = Together(n)
  <2>1. x \in nodes
    BY <1>6
  <2>2. Together(x) \subseteq Together(n)
    BY <1>6, <2>1
  <2> DEFINE S == nodes \ Together(x)
  <2>3. Closed(edges, S)
    <3> SUFFICES ASSUME NEW m \in S, NEW k, Joined(edges, m, k), k \notin S PROVE FALSE
      BY DEF Closed
    <3>1. k \in nodes /\ Joined(edges, k, m)
      BY <1>5
    <3>2. k \in Together(x)
      BY <3>1
    <3>3. m \in Together(x)
      BY <1>6, <2>1, <3>1, <3>2 DEF Closed
    <3> QED
      BY <3>3
  <2>4. n \in Together(x)
    <3> SUFFICES ASSUME n \notin Together(x) PROVE FALSE
      OBVIOUS
    <3>1. n \in S
      OBVIOUS
    <3> HIDE DEF S
    <3>2. Together(n) \subseteq S
      BY <1>6, <2>3, <3>1
    <3>3. x \in S
      BY <3>2
    <3> QED
      BY <1>6, <2>1, <3>3 DEF S
  <2>5. Together(n) \subseteq Together(x)
    BY <1>6, <2>1, <2>4
  <2> QED
    BY <2>2, <2>5
<1> SUFFICES ASSUME NEW g \in Communities(triples), NEW h \in Communities(triples), g # h
             PROVE  g.members \intersect h.members = {} /\ g.triples \intersect h.triples = {}
  OBVIOUS
<1>8. PICK n \in nodes, m \in nodes : g = Of(Together(n)) /\ h = Of(Together(m))
  <2> HIDE DEF Of
  <2> QED
    BY <1>4
<1>9. Together(n) # Together(m)
  BY <1>8
<1>10. Together(n) \intersect Together(m) = {}
  BY <1>7, <1>9
<1>11. g.members = Together(n) /\ h.members = Together(m)
  BY <1>8
<1>12. \A t \in triples : \A x \in nodes : t.src \in Together(x) \/ t.dst \in Together(x) => t.src \in Together(x)
  <2> SUFFICES ASSUME NEW t \in triples, NEW x \in nodes, t.dst \in Together(x) PROVE t.src \in Together(x)
    OBVIOUS
  <2> QED
    BY <1>3, <1>5, <1>6 DEF Closed
<1>13. /\ g.triples = {t \in triples : t.src \in Together(n) \/ t.dst \in Together(n)}
       /\ h.triples = {t \in triples : t.src \in Together(m) \/ t.dst \in Together(m)}
  BY <1>8
<1> HIDE DEF Of
<1>14. g.triples \intersect h.triples = {}
  BY <1>10, <1>12, <1>13
<1> QED
  BY <1>10, <1>11, <1>14

\* A chunk is under one file of the hierarchy.
OneFile(under, c) == Cardinality({f \in DOMAIN under : c.id \in under[f]}) = 1

LEMMA UnderOneFile ==
    ASSUME NEW chunks, NEW files, \A c, d \in chunks : c.id = d.id => c = d, NEW c \in chunks
    PROVE  OneFile(BuildHierarchy(chunks, files).file, c)
<1> DEFINE under == BuildHierarchy(chunks, files).file
           paths == {d.path : d \in chunks}
           at == {f \in DOMAIN under : c.id \in under[f]}
<1>1. under = [p \in paths |-> {d.id : d \in {d \in chunks : d.path = p}}]
  BY DEF BuildHierarchy
<1> HIDE DEF under
<1>2. \A p \in paths : c.id \in under[p] <=> p = c.path
  <2> SUFFICES ASSUME NEW p \in paths PROVE c.id \in under[p] <=> p = c.path
    OBVIOUS
  <2>1. under[p] = {d.id : d \in {d \in chunks : d.path = p}}
    BY <1>1
  <2> QED
    BY <2>1
<1>3. c.path \in paths /\ DOMAIN under = paths
  BY <1>1
<1>4. at = {c.path}
  BY <1>2, <1>3
<1> HIDE DEF at
<1>5. Cardinality(at) = 1
  BY <1>4, FS_Singleton
<1> QED
  BY <1>5 DEF at, under, OneFile

----------------------------------------------------------------------------
(* The reordering of hits.                                                   *)
LEMMA ThreeAdd == \A a, b, c \in Nat : (a + b) + c \in Nat
OBVIOUS

LEMMA BoostKeeps ==
    ASSUME NEW T, NEW hits \in Seq(T), IsInjective(hits), \A i \in 1 .. 1 + Len(hits) : RankWeight[i] \in Nat,
           NEW ppr, NEW intent
    PROVE  LET boosted == BoostHits(hits, ppr, intent)
           IN IsInjective(boosted) /\ ToSet(boosted) = ToSet(hits)
<1> DEFINE n == Len(hits)
           D == DOMAIN hits
           score == [i \in D |-> Boosted(hits, ppr, intent, i)]
           ahead == [i \in D |-> {j \in D : score[j] > score[i] \/ (score[j] = score[i] /\ j < i)}]
           order == Sorted(D, ahead)
           boosted == BoostHits(hits, ppr, intent)
<1>1. n \in Nat /\ D = 1 .. n /\ \A i, j \in D : hits[i] = hits[j] => i = j
  BY ListIs DEF IsInjective
<1>2. IsFiniteSet(D) /\ Cardinality(D) = n
  <2> HIDE DEF D, n
  <2> QED
    BY <1>1, FirstNumbers
<1>3. boosted = [k \in DOMAIN order |-> hits[order[k]]]
  BY DEF BoostHits
<1>4. ASSUME NEW S \in SUBSET ToSet(hits) PROVE WeightAfter(S) \in Nat
  <2> DEFINE all == {hits[i] : i \in D}
             g == [i \in D |-> hits[i]]
  <2>1. g \in Surjection(D, all)
    BY DEF Surjection
  <2> HIDE DEF g, D
  <2>2. IsFiniteSet(all) /\ Cardinality(all) <= n
    BY <1>2, <2>1, FS_Surjection
  <2>3. ToSet(hits) = all
    BY DEF ToSet, D
  <2> HIDE DEF all, n
  <2>4. Cardinality(S) \in Nat /\ Cardinality(S) <= n
    <3>1. IsFiniteSet(S) /\ Cardinality(S) <= Cardinality(all)
      BY <2>2, <2>3, FS_Subset
    <3>2. Cardinality(S) \in Nat /\ Cardinality(all) \in Nat
      BY <2>2, <3>1, FS_CardinalityType
    <3> QED
      BY <1>1, <2>2, <3>1, <3>2
  <2>5. 1 + Cardinality(S) \in 1 .. 1 + n
    BY <1>1, <2>4
  <2> QED
    BY <2>5 DEF WeightAfter, n
<1>5. \A i \in D : score[i] \in Nat
  <2> SUFFICES ASSUME NEW i \in D PROVE Boosted(hits, ppr, intent, i) \in Nat
    OBVIOUS
  <2>1. RankWeight[i] \in Nat
    BY <1>1
  <2> DEFINE paths == ToSet(hits) path == hits[i]
             massed == {p \in paths : ppr[p] > 0}
             asked == {p \in paths : intent[p] > 0}
             LaterName(p) == NodeRank[p] > NodeRank[path]
             first == {p \in massed :
                   \/ intent[p] > intent[path]
                   \/ intent[p] = intent[path] /\ ppr[p] > ppr[path]
                   \/ intent[p] = intent[path] /\ ppr[p] = ppr[path] /\ LaterName(p)}
             second == {p \in asked :
                   intent[p] > intent[path] \/ (intent[p] = intent[path] /\ LaterName(p))}
  <2>2. Boosted(hits, ppr, intent, i) =
           10 * RankWeight[i] + (IF path \notin massed THEN 0 ELSE 10 * WeightAfter(first))
                              + (IF path \notin asked THEN 0 ELSE 11 * WeightAfter(second))
    BY DEF Boosted
  <2>3. first \in SUBSET ToSet(hits) /\ second \in SUBSET ToSet(hits)
    OBVIOUS
  <2> HIDE DEF first, second
  <2>4. WeightAfter(first) \in Nat /\ WeightAfter(second) \in Nat
    BY <1>4, <2>3
  <2> DEFINE a == IF path \notin massed THEN 0 ELSE 10 * WeightAfter(first)
             b == IF path \notin asked THEN 0 ELSE 11 * WeightAfter(second)
             c == 10 * RankWeight[i]
  <2>5. a \in Nat /\ b \in Nat /\ c \in Nat
    <3>1. \A w \in Nat : 10 * w \in Nat /\ 11 * w \in Nat
      BY ONLY TRUE
    <3> HIDE DEF paths, path, massed, asked
    <3>2. 0 \in Nat /\ c \in Nat
      BY <2>1, <3>1
    <3> QED
      BY <2>4, <3>1, <3>2, Zenon
  <2>6. Boosted(hits, ppr, intent, i) = c + a + b
    BY <2>2, Zenon
  <2> HIDE DEF a, b, c
  <2> QED
    BY <2>5, <2>6, ThreeAdd, Zenon
<1> HIDE DEF score, D, n
<1>6. /\ ahead \in [D -> SUBSET D]
      /\ \A i, j \in D : i \in ahead[j] <=> score[i] > score[j] \/ (score[i] = score[j] /\ i < j)
  OBVIOUS
<1>7. /\ \A i \in D : i \notin ahead[i]
      /\ \A i, j \in D : i # j => i \in ahead[j] \/ j \in ahead[i]
      /\ \A i, j \in D : i \in ahead[j] => ahead[i] \subseteq ahead[j]
  <2> HIDE DEF ahead
  <2>0. \A i \in D : i \in Nat /\ score[i] \in Nat /\ ahead[i] \subseteq D
    BY <1>1, <1>5, <1>6
  <2>1. \A i \in D : i \notin ahead[i]
    BY <1>6, <2>0
  <2>2. \A i, j \in D : i # j => i \in ahead[j] \/ j \in ahead[i]
    BY <1>6, <2>0
  <2>3. ASSUME NEW i \in D, NEW j \in D, i \in ahead[j] PROVE ahead[i] \subseteq ahead[j]
    <3> SUFFICES ASSUME NEW k \in ahead[i] PROVE k \in ahead[j]
      OBVIOUS
    <3>1. k \in D
      BY <2>0
    <3> QED
      BY <1>6, <2>0, <2>3, <3>1
  <2> QED
    BY <2>1, <2>2, <2>3
<1> HIDE DEF ahead
<1>8. /\ order \in [1 .. n -> D] /\ \A i \in D : \E k \in 1 .. n : order[k] = i
      /\ \A i, j \in 1 .. n : order[i] \in ahead[order[j]] <=> i < j
  BY <1>2, <1>6, <1>7, SortedIs
<1> HIDE DEF order
<1>9. DOMAIN boosted = 1 .. n /\ \A k \in 1 .. n : boosted[k] = hits[order[k]] /\ order[k] \in D
  BY <1>3, <1>8
<1> HIDE DEF boosted
<1>10. \A i, j \in 1 .. n : boosted[i] = boosted[j] => i = j
  <2> SUFFICES ASSUME NEW i \in 1 .. n, NEW j \in 1 .. n, boosted[i] = boosted[j] PROVE i = j
    OBVIOUS
  <2>1. order[i] = order[j]
    BY <1>1, <1>9
  <2>2. order[i] \notin ahead[order[j]] /\ order[j] \notin ahead[order[i]]
    BY <1>7, <1>9, <2>1
  <2>3. ~(i < j) /\ ~(j < i)
    BY <1>8, <2>2
  <2> QED
    BY <1>1, <2>3
<1>11. ToSet(boosted) = ToSet(hits)
  <2>1. ToSet(hits) = {hits[i] : i \in D}
    BY DEF ToSet, D
  <2>2. ToSet(boosted) = {boosted[k] : k \in 1 .. n}
    BY <1>9 DEF ToSet
  <2> QED
    BY <1>8, <1>9, <2>1, <2>2
<1> QED
  BY <1>9, <1>10, <1>11 DEF IsInjective, boosted
=============================================================================
