-------------------------- MODULE SearchingProofs --------------------------
(***************************************************************************)
(* Proofs about what finds chunks.  The route tells how its hits were      *)
(* found and ranked, its fusion keeps the order its lists agree on, and of *)
(* the versions of a file it shows the newest that was found, for any      *)
(* number of requests, chunks and versions and for any reranker; the cache *)
(* keeps in step and serves what is valid, for any capacity and clock; the *)
(* loops answer from what was found, whatever the graders say.             *)
(***************************************************************************)
EXTENDS Searching, TLAPS, WellFoundedInduction, FiniteSetTheorems, SequenceTheorems

(* Induction over numbers, by the least one that fails.                    *)
LEMMA Least == ASSUME NEW T \in SUBSET Nat, T # {} PROVE \E n \in T : \A m \in T : n <= m
<1>1. PICK n \in T : \A m \in T : <<m, n>> \notin OpToRel(<, Nat)
  BY WFMin, NatLessThanWellFounded, Zenon
<1>2. \A m \in T : ~(m < n)
  BY <1>1, Zenon DEF OpToRel
<1> QED
  BY <1>2

LEMMA UpTo ==
    ASSUME NEW n \in Nat, NEW G, 0 \in G, \A i \in 1 .. n : i - 1 \in G => i \in G
    PROVE  n \in G
<1> DEFINE Bad == {i \in 0 .. n : i \notin G}
<1> SUFFICES ASSUME Bad # {} PROVE FALSE
  OBVIOUS
<1>1. PICK i \in Bad : \A m \in Bad : i <= m
  <2>1. Bad \in SUBSET Nat
    OBVIOUS
  <2> HIDE DEF Bad
  <2> QED
    BY <2>1, Least
<1>2. i # 0 /\ i \in 1 .. n /\ i - 1 \in 0 .. n
  OBVIOUS
<1>3. i - 1 \in G
  BY <1>1, <1>2
<1> QED
  BY <1>2, <1>3

Step(list, S, f, i) ==
    IF i = 0 THEN <<>>
    ELSE IF list[i] \in S THEN f[i - 1] ELSE Append(f[i - 1], list[i])

LEMMA KeptIs ==
    ASSUME NEW s, NEW S, Len(s) \in Nat
    PROVE  /\ Kept(s, S)[0] = <<>>
           /\ \A i \in 1 .. Len(s) :
                 Kept(s, S)[i] = IF s[i] \in S THEN Kept(s, S)[i - 1] ELSE Append(Kept(s, S)[i - 1], s[i])
<1> DEFINE Fn(f, n) == f = [i \in 0 .. n |-> Step(s, S, f, i)]
           G == {n \in Nat : \E f : Fn(f, n)}
<1>1. 0 \in G
  <2>1. Fn([i \in 0 .. 0 |-> <<>>], 0)
    BY DEF Step
  <2> QED
    BY <2>1
<1>2. \A n \in 1 .. Len(s) : n - 1 \in G => n \in G
  <2> SUFFICES ASSUME NEW n \in 1 .. Len(s), NEW f, Fn(f, n - 1) PROVE \E g : Fn(g, n)
    OBVIOUS
  <2> DEFINE g == [i \in 0 .. n |-> IF i = n THEN Step(s, S, f, n) ELSE f[i]]
  <2>1. ASSUME NEW i \in 0 .. n PROVE g[i] = Step(s, S, g, i)
    <3>1. i # 0 => i - 1 \in 0 .. n - 1 /\ g[i - 1] = f[i - 1]
      OBVIOUS
    <3>2. g[i] = Step(s, S, f, i)
      <4>1. CASE i = n
        BY <4>1
      <4>2. CASE i # n
        <5>1. i \in 0 .. n - 1
          BY <4>2
        <5> QED
          BY <4>2, <5>1
      <4> QED
        BY <4>1, <4>2
    <3> QED
      BY <3>1, <3>2 DEF Step
  <2> QED
    BY <2>1
<1>3. Len(s) \in G
  <2> HIDE DEF G
  <2> QED
    BY <1>1, <1>2, UpTo
<1>4. PICK f : Fn(f, Len(s))
  BY <1>3
<1> DEFINE k == Kept(s, S)
<1>5. k = [i \in 0 .. Len(s) |-> Step(s, S, k, i)]
  BY <1>4 DEF Kept, Step
<1> HIDE DEF k
<1>6. \A i \in 0 .. Len(s) : k[i] = Step(s, S, k, i)
  BY <1>5
<1>7. k[0] = <<>>
  BY <1>6 DEF Step
<1>8. ASSUME NEW i \in 1 .. Len(s)
      PROVE  k[i] = IF s[i] \in S THEN k[i - 1] ELSE Append(k[i - 1], s[i])
  <2>1. i \in 0 .. Len(s) /\ i # 0
    OBVIOUS
  <2> QED
    BY <1>6, <2>1 DEF Step
<1> QED
  BY <1>7, <1>8 DEF k

\* e tells where the members were that are not in D, of a list of n members.
Remain(e, D, n) ==
    /\ e \in Seq(1 .. n)
    /\ \A i, j \in 1 .. Len(e) : i < j => e[i] < e[j]
    /\ \A i \in 1 .. n : i \notin D <=> \E k \in 1 .. Len(e) : e[k] = i
\* S has the members of s at D.
Marks(s, S, D, n) == Len(s) = n /\ \A i \in 1 .. n : s[i] \in S <=> i \in D
\* e tells what is left of any list without its members at D.
Tells(e, D, n) ==
    /\ Remain(e, D, n)
    /\ \A s, S : Marks(s, S, D, n) => Without(s, S) = [k \in 1 .. Len(e) |-> s[e[k]]]
LEMMA WithoutIs == ASSUME NEW N \in Nat, NEW D PROVE \E e : Tells(e, D, N)
<1> DEFINE Fits(e, n) == \A s, S : Marks(s, S, D, N) => Kept(s, S)[n] = [k \in 1 .. Len(e) |-> s[e[k]]]
           Fine(n) == \E e : Remain(e, D, n) /\ Fits(e, n)
           G == {n \in Nat : Fine(n)}
<1>1. 0 \in G
  <2>1. Remain(<<>>, D, 0)
    BY DEF Remain
  <2>2. Fits(<<>>, 0)
    <3> SUFFICES ASSUME NEW s, NEW S, Marks(s, S, D, N) PROVE Kept(s, S)[0] = [k \in 1 .. Len(<<>>) |-> s[<<>>[k]]]
      OBVIOUS
    <3> QED
      BY KeptIs DEF Marks
  <2> QED
    BY <2>1, <2>2
<1>2. \A n \in 1 .. N : n - 1 \in G => n \in G
  <2> SUFFICES ASSUME NEW n \in 1 .. N, Fine(n - 1) PROVE Fine(n)
    <3> HIDE DEF Fine
    <3> QED
      OBVIOUS
  <2> PICK e : Remain(e, D, n - 1) /\ Fits(e, n - 1)
    OBVIOUS
  <2>0. /\ e \in Seq(1 .. n - 1) /\ Len(e) \in Nat
        /\ \A k \in 1 .. Len(e) : e[k] \in 1 .. n - 1
    BY DEF Remain
  <2>1. CASE n \in D
    <3>1. Remain(e, D, n)
      BY <2>0, <2>1 DEF Remain
    <3>2. ASSUME NEW s, NEW S, Marks(s, S, D, N) PROVE Kept(s, S)[n] = Kept(s, S)[n - 1]
      <4>1. s[n] \in S /\ Len(s) = N
        BY <2>1, <3>2 DEF Marks
      <4> HIDE DEF Fine, G, Fits
      <4> QED
        BY <4>1, KeptIs
    <3> QED
      BY <3>1, <3>2
  <2>2. CASE n \notin D
    <3> DEFINE d == Append(e, n)
    <3>1. /\ d \in Seq(1 .. n) /\ Len(d) = Len(e) + 1 /\ d[Len(d)] = n
          /\ \A k \in 1 .. Len(e) : d[k] = e[k]
      BY <2>0
    <3>2. ASSUME NEW s, NEW S, Marks(s, S, D, N)
          PROVE  Kept(s, S)[n] = [k \in 1 .. Len(d) |-> s[d[k]]]
      <4> DEFINE old == [k \in 1 .. Len(e) |-> s[e[k]]]
                 new == [k \in 1 .. Len(d) |-> s[d[k]]]
      <4>0. s[n] \notin S /\ Len(s) = N
        BY <2>2, <3>2 DEF Marks
      <4>1. Kept(s, S)[n] = Append(Kept(s, S)[n - 1], s[n])
        <5> HIDE DEF Fine, G, Fits
        <5>1. \A i \in 1 .. Len(s) :
                 Kept(s, S)[i] = IF s[i] \in S THEN Kept(s, S)[i - 1] ELSE Append(Kept(s, S)[i - 1], s[i])
          BY <4>0, KeptIs
        <5> QED
          BY <4>0, <5>1
      <4>2. Kept(s, S)[n] = Append(old, s[n])
        BY <3>2, <4>1
      <4>3. old \in Seq({s[k] : k \in 1 .. n}) /\ Len(old) = Len(e)
        BY <2>0
      <4>4. Append(old, s[n]) = [k \in 1 .. Len(e) + 1 |-> IF k <= Len(e) THEN old[k] ELSE s[n]]
        <5> HIDE DEF old
        <5> QED
          BY <4>3
      <4>5. ASSUME NEW k \in 1 .. Len(e) + 1
            PROVE  (IF k <= Len(e) THEN old[k] ELSE s[n]) = s[d[k]]
        <5>1. CASE k <= Len(e)
          BY <2>0, <3>1, <5>1
        <5>2. CASE ~(k <= Len(e))
          BY <2>0, <3>1, <5>2
        <5> QED
          BY <5>1, <5>2
      <4> HIDE DEF d, old
      <4> QED
        BY <3>1, <4>2, <4>4, <4>5
    <3>3. Remain(d, D, n)
      <4>0. \A k \in 1 .. Len(d) : k \in 1 .. Len(e) \/ k = Len(d)
        BY <2>0, <3>1
      <4>1. Len(d) \in 1 .. Len(d) /\ \A k \in 1 .. Len(e) : k \in 1 .. Len(d)
        BY <2>0, <3>1
      <4> HIDE DEF d
      <4>2. ASSUME NEW i \in 1 .. Len(d), NEW j \in 1 .. Len(d), i < j PROVE d[i] < d[j]
        <5>1. i \in 1 .. Len(e)
          BY <2>0, <3>1, <4>2
        <5>2. CASE j \in 1 .. Len(e)
          BY <3>1, <4>2, <5>1, <5>2 DEF Remain
        <5>3. CASE j = Len(d)
          BY <2>0, <3>1, <5>1, <5>3
        <5> QED
          BY <4>0, <5>2, <5>3
      <4>3. ASSUME NEW i \in 1 .. n PROVE i \notin D <=> \E k \in 1 .. Len(d) : d[k] = i
        <5>1. CASE i = n
          BY <2>2, <3>1, <4>1, <5>1
        <5>2. CASE i # n
          <6>1. i \in 1 .. n - 1
            BY <5>2
          <6>2. i \notin D <=> \E k \in 1 .. Len(e) : e[k] = i
            BY <6>1 DEF Remain
          <6>3. (\E k \in 1 .. Len(e) : e[k] = i) <=> \E k \in 1 .. Len(d) : d[k] = i
            BY <3>1, <4>0, <4>1, <5>2
          <6> QED
            BY <6>2, <6>3
        <5> QED
          BY <5>1, <5>2
      <4> QED
        BY <3>1, <4>2, <4>3 DEF Remain
    <3> HIDE DEF d
    <3> QED
      BY <3>2, <3>3
  <2> QED
    BY <2>1, <2>2
<1>3. N \in G
  <2> HIDE DEF G
  <2> QED
    BY <1>1, <1>2, UpTo
<1>4. PICK e : Remain(e, D, N) /\ Fits(e, N)
  BY <1>3
<1>5. \A s, S : Marks(s, S, D, N) => Without(s, S) = [k \in 1 .. Len(e) |-> s[e[k]]]
  BY <1>4 DEF Without, Marks
<1> QED
  BY <1>4, <1>5 DEF Tells

LEMMA WithoutSet ==
    ASSUME NEW T, NEW s \in Seq(T), NEW S
    PROVE  Without(s, S) \in Seq(T) /\ ToSet(Without(s, S)) = ToSet(s) \ S
<1> DEFINE rest == Without(s, S)
           D == {i \in 1 .. Len(s) : s[i] \in S}
<1>1. Len(s) \in Nat /\ DOMAIN s = 1 .. Len(s) /\ \A i \in 1 .. Len(s) : s[i] \in T
  OBVIOUS
<1>2. PICK e : Tells(e, D, Len(s))
  BY <1>1, WithoutIs
<1>3. Remain(e, D, Len(s)) /\ rest = [k \in 1 .. Len(e) |-> s[e[k]]]
  BY <1>2 DEF Tells, Marks
<1>4. Len(e) \in Nat /\ \A k \in 1 .. Len(e) : e[k] \in 1 .. Len(s)
  BY <1>3 DEF Remain
<1>5. rest \in Seq(T) /\ DOMAIN rest = 1 .. Len(e)
  BY <1>1, <1>3, <1>4
<1>6. \A k \in 1 .. Len(e) : s[e[k]] \notin S
  BY <1>3, <1>4 DEF Remain
<1>7. \A i \in 1 .. Len(s) : s[i] \notin S => \E k \in 1 .. Len(e) : e[k] = i
  BY <1>3 DEF Remain
<1> HIDE DEF rest
<1>8. ToSet(rest) \subseteq ToSet(s) \ S
  BY <1>1, <1>3, <1>4, <1>5, <1>6 DEF ToSet
<1>9. ASSUME NEW x \in ToSet(s), x \notin S PROVE x \in ToSet(rest)
  <2>1. PICK i \in 1 .. Len(s) : x = s[i]
    BY <1>1 DEF ToSet
  <2>2. PICK k \in 1 .. Len(e) : e[k] = i
    BY <1>7, <1>9, <2>1
  <2> QED
    BY <1>3, <1>5, <2>1, <2>2 DEF ToSet
<1> QED
  BY <1>5, <1>8, <1>9 DEF rest

LEMMA SortedIs ==
    ASSUME NEW S, IsFiniteSet(S), NEW ahead \in [S -> SUBSET S],
           \A x \in S : x \notin ahead[x],
           \A x, y \in S : x # y => x \in ahead[y] \/ y \in ahead[x],
           \A x, y \in S : x \in ahead[y] => ahead[x] \subseteq ahead[y]
    PROVE  /\ Sorted(S, ahead) \in [1 .. Cardinality(S) -> S]
           /\ \A x \in S : \E n \in 1 .. Cardinality(S) : Sorted(S, ahead)[n] = x
           /\ \A i, j \in 1 .. Cardinality(S) :
                 Sorted(S, ahead)[i] \in ahead[Sorted(S, ahead)[j]] <=> i < j
<1> DEFINE N == Cardinality(S)
           place == [x \in S |-> Cardinality(ahead[x]) + 1]
<1>1. N \in Nat /\ \A x \in S : IsFiniteSet(ahead[x]) /\ Cardinality(ahead[x]) \in Nat
  BY FS_CardinalityType, FS_Subset
<1>2. ASSUME NEW x \in S, NEW T \in SUBSET S, ahead[x] \subseteq T, x \in T
      PROVE  Cardinality(ahead[x]) < Cardinality(T)
  <2>1. IsFiniteSet(T) /\ Cardinality(T) \in Nat
    BY FS_CardinalityType, FS_Subset
  <2>2. Cardinality(ahead[x]) <= Cardinality(T) /\ (Cardinality(ahead[x]) = Cardinality(T) => ahead[x] = T)
    BY <2>1, <1>2, FS_Subset
  <2> QED
    BY <1>1, <1>2, <2>1, <2>2
<1>3. \A x, y \in S : x \in ahead[y] => Cardinality(ahead[x]) < Cardinality(ahead[y])
  BY <1>2
<1>4. place \in [S -> 1 .. N]
  <2>1. \A x \in S : Cardinality(ahead[x]) < N
    BY <1>2
  <2> QED
    BY <1>1, <2>1
<1>5. \A x, y \in S : place[x] = place[y] => x = y
  BY <1>1, <1>3
<1>6. \A n \in 1 .. N : \E x \in S : place[x] = n
  <2>1. IsFiniteSet(1 .. N) /\ Cardinality(1 .. N) = N
    BY <1>1, FS_Interval
  <2> HIDE DEF place, N
  <2>2. place \in Injection(S, 1 .. N)
    BY <1>4, <1>5 DEF Injection, IsInjective
  <2>3. place \in Surjection(S, 1 .. N)
    BY <2>1, <2>2, FS_Injection DEF N
  <2> QED
    BY <2>3 DEF Surjection
<1> DEFINE sorted == Sorted(S, ahead)
<1>7. ASSUME NEW n \in 1 .. N PROVE sorted[n] \in S /\ place[sorted[n]] = n
  <2>1. PICK x \in S : Cardinality(ahead[x]) = n - 1
    BY <1>1, <1>6
  <2>2. sorted[n] = CHOOSE y \in S : Cardinality(ahead[y]) = n - 1
    BY DEF Sorted
  <2>3. sorted[n] \in S /\ Cardinality(ahead[sorted[n]]) = n - 1
    BY <2>1, <2>2
  <2> QED
    BY <2>3
<1>8. sorted \in [1 .. N -> S]
  <2>1. sorted = [n \in 1 .. N |-> sorted[n]]
    BY DEF Sorted
  <2> QED
    BY <1>7, <2>1
<1>9. \A x \in S : \E n \in 1 .. N : sorted[n] = x
  <2> HIDE DEF sorted, place
  <2> QED
    BY <1>4, <1>5, <1>7
<1>10. ASSUME NEW i \in 1 .. N, NEW j \in 1 .. N PROVE sorted[i] \in ahead[sorted[j]] <=> i < j
  <2>1. sorted[i] \in S /\ sorted[j] \in S /\ place[sorted[i]] = i /\ place[sorted[j]] = j
    BY <1>7
  <2> HIDE DEF sorted
  <2>2. Cardinality(ahead[sorted[i]]) = i - 1 /\ Cardinality(ahead[sorted[j]]) = j - 1
    BY <1>1, <2>1
  <2>3. sorted[i] \in ahead[sorted[j]] => i < j
    BY <1>3, <2>1, <2>2
  <2>4. i < j => sorted[i] \in ahead[sorted[j]]
    BY <1>3, <2>1, <2>2
  <2> QED
    BY <2>3, <2>4
<1> QED
  BY <1>8, <1>9, <1>10

----------------------------------------------------------------------------
(* The responses of the route.                                             *)

Fields == {"pc", "route", "comparative", "k", "lexical", "dense", "fused", "before", "own",
           "label", "kept", "nodes", "ranked", "degraded", "reply"}
Places == {"new", "search", "dense", "backend", "probe", "query", "label", "rank", "done"}
Unsearched == {"search", "backend", "probe", "query"}
Searched == {"dense", "label", "rank", "done"}

\* What the proofs need of a request's local state.
RequestTypes ==
    /\ DOMAIN req = Requests
    /\ reranker \in {"off", "missing", "loaded"}
    /\ \A r \in Requests :
          /\ DOMAIN req[r] = Fields
          /\ req[r].pc \in Places
          /\ req[r].k \in Nat \ {0}

\* Only a finished request has a reply, and the query knows its backend.
RepliesInv ==
    \A r \in Requests :
        /\ Answered(r) => At(r, "done")
        /\ At(r, "query") => req[r].own # "unset"

\* What a request that ran beside no other will name.
Named(r) == IF req[r].own = "unset" THEN req[r].before ELSE req[r].own

\* Two requests that run have met; and the shared attribute is to a request
\* that met nobody as it found it until its search sets it, and its own until
\* it is read.
AloneInv ==
    /\ \A r, other \in Requests :
          r # other /\ Running(r) /\ Running(other) => r \in met
    /\ \A r \in Requests \ met :
          /\ req[r].pc \in Unsearched => backend = req[r].before
          /\ req[r].pc \in {"dense", "label"} => backend = Named(r)
          /\ At(r, "rank") \/ Answered(r) => req[r].label = Named(r)

\* A backend that some request's search used, or none.
Used(name) ==
    name = "unset" \/ \E r \in Requests : req[r].pc \in Searched /\ req[r].own = name

UsedInv ==
    /\ Used(backend)
    /\ \A r \in Requests : At(r, "rank") \/ Answered(r) => Used(req[r].label)

TellsInv == RequestTypes /\ RepliesInv /\ RerankNeverSilent /\ AloneInv /\ UsedInv

----------------------------------------------------------------------------
LEMMA TellsInit == RouteInit => TellsInv
BY DEF RouteInit, TellsInv, RequestTypes, RepliesInv, RerankNeverSilent, AloneInv, Answered, At,
       Running, Named, UsedInv, Used, Unsearched, Searched, Fields, Places, SkipRerank, Routes

\* A step of one request: what it leaves alone, and that it is no longer new.
Moves(r) ==
    /\ DOMAIN req' = Requests
    /\ UNCHANGED reranker
    /\ DOMAIN req'[r] = Fields /\ req'[r].pc \in Places \ {"new"} /\ req'[r].k \in Nat \ {0}
    /\ \A q \in Requests \ {r} : req'[q] = req[q]

\* What such a step does to the shared attribute and to the request's own
\* names: it may set the attribute to what its search used, once; and it reads
\* the attribute for its label.
KeepsNames(r) ==
    /\ \/ backend' = backend
       \/ req'[r].pc \in Searched /\ backend' = req'[r].own
    /\ req[r].pc \in Searched => req'[r].pc \in Searched /\ req'[r].own = req[r].own
    /\ (At(r, "rank") \/ Answered(r))' =>
          \/ req'[r].label = backend
          \/ At(r, "rank") /\ req'[r].label = req[r].label

\* A name that a search used stays one.
LEMMA UsedStays ==
    ASSUME TellsInv, NEW r \in Requests, Moves(r), KeepsNames(r), NEW name, Used(name)
    PROVE  Used(name)'
<1>1. CASE name = "unset"
  BY <1>1 DEF Used
<1>2. CASE \E q \in Requests : req[q].pc \in Searched /\ req[q].own = name
  <2>1. PICK q \in Requests : req[q].pc \in Searched /\ req[q].own = name
    BY <1>2
  <2>2. req'[q].pc \in Searched /\ req'[q].own = name
    BY <2>1 DEF Moves, KeepsNames
  <2> QED
    BY <2>2 DEF Used
<1> QED
  BY <1>1, <1>2 DEF Used

LEMMA UsedStep ==
    ASSUME TellsInv, NEW r \in Requests, Moves(r), KeepsNames(r)
    PROVE  UsedInv'
<1>1. Used(backend) /\ \A q \in Requests : At(q, "rank") \/ Answered(q) => Used(req[q].label)
  BY DEF TellsInv, UsedInv
<1>2. \A name : Used(name) => Used(name)'
  BY UsedStays
<1>3. (Used(backend))'
  <2>1. CASE backend' = backend
    BY <1>1, <1>2, <2>1 DEF Used
  <2>2. CASE req'[r].pc \in Searched /\ backend' = req'[r].own
    BY <2>2 DEF Used
  <2> QED
    BY <2>1, <2>2 DEF KeepsNames
<1>4. ASSUME NEW q \in Requests, (At(q, "rank") \/ Answered(q))'
      PROVE  (Used(req[q].label))'
  <2>1. Used(req'[q].label)
    <3>1. CASE q = r
      BY <1>1, <1>4, <3>1 DEF KeepsNames
    <3>2. CASE q # r
      BY <1>1, <1>4, <3>2 DEF Moves, At, Answered
    <3> QED
      BY <3>1, <3>2
  <2>2. \E x : x = req'[q].label /\ Used(x)'
    BY <1>2, <2>1
  <2> QED
    BY <2>2 DEF Used
<1> QED
  BY <1>3, <1>4 DEF UsedInv

\* It is enough to look at the request that moves.
LEMMA OneMoves ==
    ASSUME TellsInv, NEW r \in Requests, Moves(r), KeepsNames(r), Running(r), met' = met,
           Answered(r)' => At(r, "done")',
           At(r, "query")' => req'[r].own # "unset",
           (Answered(r) /\ reranker # "off" /\ ~SkipRerank(r)
              /\ req[r].nodes # <<>> /\ "rerank" \notin req[r].degraded)'
              => req'[r].ranked = "yes",
           r \notin met =>
              /\ req'[r].pc \in Unsearched => backend' = req'[r].before
              /\ req'[r].pc \in {"dense", "label"} => backend' = Named(r)'
              /\ (At(r, "rank") \/ Answered(r))' => req'[r].label = Named(r)'
    PROVE  TellsInv'
<1>1. RequestTypes'
  BY DEF TellsInv, RequestTypes, Moves
<1>2. RepliesInv'
  BY DEF TellsInv, RepliesInv, Moves, Answered, At
<1>3. RerankNeverSilent'
  BY DEF TellsInv, RerankNeverSilent, Moves, Answered, SkipRerank
<1>4. AloneInv'
  <2>1. ASSUME NEW q \in Requests, NEW other \in Requests, q # other, Running(q)', Running(other)'
        PROVE  q \in met'
    <3>1. Running(q) /\ Running(other)
      BY <2>1 DEF Running, Moves
    <3> QED
      BY <2>1, <3>1 DEF TellsInv, AloneInv
  <2>2. ASSUME NEW q \in Requests \ met'
        PROVE  /\ req'[q].pc \in Unsearched => backend' = req'[q].before
               /\ req'[q].pc \in {"dense", "label"} => backend' = Named(q)'
               /\ (At(q, "rank") \/ Answered(q))' => req'[q].label = Named(q)'
    <3>1. CASE q = r
      BY <2>2, <3>1
    <3>2. CASE q # r
      <4>1. req'[q] = req[q] /\ q \in Requests \ met
        BY <2>2, <3>2 DEF Moves
      <4>2. ~Running(q)
        BY <3>2, <4>1 DEF TellsInv, AloneInv
      <4>3. Named(q)' = Named(q)
        BY <4>1 DEF Named
      <4> QED
        BY <4>1, <4>2, <4>3 DEF TellsInv, AloneInv, Running, Unsearched, At, Answered
    <3> QED
      BY <3>1, <3>2
  <2> QED
    BY <2>1, <2>2 DEF AloneInv, At, Answered
<1> QED
  BY <1>1, <1>2, <1>3, <1>4, UsedStep DEF TellsInv

----------------------------------------------------------------------------
(* The steps of one request.                                               *)

\* A step that leaves r without an answer where it had none.
LEMMA Unanswered ==
    ASSUME TellsInv, NEW r \in Requests, Moves(r), KeepsNames(r), Running(r), met' = met,
           req'[r].reply = req[r].reply \/ req'[r].reply = "503",
           ~At(r, "rank")' \/ req'[r].label = Named(r)',
           At(r, "query")' => req'[r].own # "unset",
           r \notin met =>
              /\ req'[r].pc \in Unsearched => backend' = req'[r].before
              /\ req'[r].pc \in {"dense", "label"} => backend' = Named(r)'
    PROVE  TellsInv'
<1>1. ~Answered(r)'
  BY DEF TellsInv, RepliesInv, Answered, At, Running
<1> QED
  BY <1>1, OneMoves DEF Answered, At

LEMMA AskTells ==
    ASSUME TellsInv, NEW r \in Requests, NEW route, NEW comparative, NEW k \in 1..MaxHits,
           Ask(r, route, comparative, k)
    PROVE  TellsInv'
<1>1. k \in Nat \ {0}
  OBVIOUS
<1>2. Moves(r)
  BY <1>1 DEF TellsInv, RequestTypes, Ask, Moves, Fields, Places, setup
<1>3. /\ req'[r].pc \in {"backend", "search"} /\ req'[r].reply = req[r].reply
      /\ req'[r].before = backend /\ backend' = backend
  BY DEF TellsInv, RequestTypes, Ask, Fields
<1>4. At(r, "new") /\ ~Answered(r)
  BY DEF TellsInv, RepliesInv, Ask, At
<1>5. ~Answered(r)' /\ ~At(r, "rank")' /\ ~At(r, "query")' /\ ~At(r, "done")'
  BY <1>3, <1>4 DEF Answered, At
<1>6. KeepsNames(r)
  BY <1>3, <1>4, <1>5 DEF KeepsNames, Searched, At
<1>7. RequestTypes' /\ RepliesInv' /\ RerankNeverSilent'
  BY <1>2, <1>5 DEF TellsInv, RequestTypes, RepliesInv, RerankNeverSilent, Moves, Answered, At, SkipRerank
\* Those that ran already have met r, and it them.
<1>8. /\ met \subseteq met'
      /\ \A q \in Requests : Running(q) => q \in met' /\ r \in met'
  BY DEF Ask
<1>9. AloneInv'
  <2>1. ASSUME NEW q \in Requests, NEW other \in Requests, q # other, Running(q)', Running(other)'
        PROVE  q \in met'
    <3>1. CASE q = r
      <4>1. Running(other)
        BY <2>1, <3>1, <1>2 DEF Running, Moves
      <4> QED
        BY <3>1, <4>1, <1>8
    <3>2. CASE q # r
      <4>1. Running(q)
        BY <2>1, <3>2, <1>2 DEF Running, Moves
      <4> QED
        BY <4>1, <1>8
    <3> QED
      BY <3>1, <3>2
  <2>2. ASSUME NEW q \in Requests \ met'
        PROVE  /\ req'[q].pc \in Unsearched => backend' = req'[q].before
               /\ req'[q].pc \in {"dense", "label"} => backend' = Named(q)'
               /\ (At(q, "rank") \/ Answered(q))' => req'[q].label = Named(q)'
    <3>1. CASE q = r
      BY <1>3, <1>5, <3>1
    <3>2. CASE q # r
      <4>1. req'[q] = req[q] /\ q \in Requests \ met /\ ~Running(q)
        BY <2>2, <3>2, <1>2, <1>8 DEF Moves
      <4>2. Named(q)' = Named(q)
        BY <4>1 DEF Named
      <4> QED
        BY <4>1, <4>2 DEF TellsInv, AloneInv, Running, Unsearched, At, Answered
    <3> QED
      BY <3>1, <3>2
  <2> QED
    BY <2>1, <2>2 DEF AloneInv, At, Answered
<1> QED
  BY <1>2, <1>6, <1>7, <1>9, UsedStep DEF TellsInv

LEMMA SearchWordsTells ==
    ASSUME TellsInv, NEW r \in Requests, NEW list, SearchWords(r, list)
    PROVE  TellsInv'
<1>1. Moves(r) /\ Running(r) /\ met' = met
  BY DEF TellsInv, RequestTypes, SearchWords, Moves, Fields, Places, setup, Running, At
<1>2. /\ req'[r].pc = "dense" /\ req'[r].reply = req[r].reply
      /\ req'[r].before = req[r].before
      /\ backend' = IF req'[r].own = "unset" THEN backend ELSE req'[r].own
  BY DEF TellsInv, RequestTypes, SearchWords, Fields
<1>3. ~Answered(r)'
  BY <1>2 DEF TellsInv, RepliesInv, SearchWords, Answered, At
<1>4. KeepsNames(r)
  BY <1>2, <1>3 DEF KeepsNames, Searched, SearchWords, At
\* A search that fails sets nothing: the attribute is as it was found.
<1>5. r \notin met => backend' = Named(r)'
  BY <1>2 DEF TellsInv, AloneInv, SearchWords, At, Named, Unsearched
<1> QED
  BY <1>1, <1>2, <1>4, <1>5, Unanswered DEF Unsearched, At

LEMMA SearchVectorsTells ==
    ASSUME TellsInv, NEW r \in Requests, NEW list, SearchVectors(r, list)
    PROVE  TellsInv'
<1>1. Moves(r) /\ Running(r) /\ met' = met
  BY DEF TellsInv, RequestTypes, SearchVectors, Moves, Fields, Places, setup, Running, At
<1>2. /\ req'[r].pc = "label" /\ req'[r].reply = req[r].reply
      /\ req'[r].own = req[r].own /\ req'[r].before = req[r].before /\ backend' = backend
  BY DEF TellsInv, RequestTypes, SearchVectors, Fields
<1>3. ~Answered(r)'
  BY <1>2 DEF TellsInv, RepliesInv, SearchVectors, Answered, At
<1>4. KeepsNames(r)
  BY <1>2, <1>3 DEF KeepsNames, Searched, At
<1>5. r \notin met => backend' = Named(r)'
  BY <1>2 DEF TellsInv, AloneInv, SearchVectors, At, Named
<1> QED
  BY <1>1, <1>2, <1>4, <1>5, Unanswered DEF Unsearched, At

LEMMA ReadBackendTells ==
    ASSUME TellsInv, NEW r \in Requests, ReadBackend(r)
    PROVE  TellsInv'
<1>1. Moves(r) /\ Running(r) /\ met' = met
  BY DEF TellsInv, RequestTypes, ReadBackend, Moves, Fields, Places, setup, Running, At
<1>2. /\ req'[r].pc \in {"probe", "query"} /\ req'[r].reply = req[r].reply
      /\ req'[r].before = req[r].before /\ backend' = backend
      /\ req'[r].pc = "query" => req'[r].own # "unset"
  BY DEF TellsInv, RequestTypes, ReadBackend, Fields
<1>3. ~Answered(r)' /\ At(r, "backend")
  BY <1>2 DEF TellsInv, RepliesInv, ReadBackend, Answered, At
<1>4. KeepsNames(r)
  BY <1>2, <1>3 DEF KeepsNames, Searched, At
<1>5. r \notin met => backend' = req'[r].before
  BY <1>2, <1>3 DEF TellsInv, AloneInv, At, Unsearched
<1> QED
  BY <1>1, <1>2, <1>4, <1>5, Unanswered DEF At

LEMMA ProbeBackendTells ==
    ASSUME TellsInv, NEW r \in Requests, ProbeBackend(r)
    PROVE  TellsInv'
<1>1. Moves(r) /\ Running(r) /\ met' = met
  BY DEF TellsInv, RequestTypes, ProbeBackend, Moves, Fields, Places, setup, Running, At
<1>2. /\ req'[r].pc = "query" /\ req'[r].reply = req[r].reply
      /\ req'[r].before = req[r].before /\ backend' = backend /\ req'[r].own # "unset"
  BY DEF TellsInv, RequestTypes, ProbeBackend, Fields
<1>3. ~Answered(r)' /\ At(r, "probe")
  BY <1>2 DEF TellsInv, RepliesInv, ProbeBackend, Answered, At
<1>4. KeepsNames(r)
  BY <1>2, <1>3 DEF KeepsNames, Searched, At
<1>5. r \notin met => backend' = req'[r].before
  BY <1>2, <1>3 DEF TellsInv, AloneInv, At, Unsearched
<1> QED
  BY <1>1, <1>2, <1>4, <1>5, Unanswered DEF At

LEMMA QueryHybridTells ==
    ASSUME TellsInv, NEW r \in Requests, NEW dense, NEW lexical, QueryHybrid(r, dense, lexical)
    PROVE  TellsInv'
<1>1. Moves(r) /\ Running(r) /\ met' = met
  BY DEF TellsInv, RequestTypes, QueryHybrid, Moves, Fields, Places, setup, Running, At
<1>2. /\ req'[r].pc = "label" /\ req'[r].reply = req[r].reply
      /\ backend' = req'[r].own /\ req'[r].own \in {req[r].own, "none"}
  BY DEF TellsInv, RequestTypes, QueryHybrid, Fields
<1>3. ~Answered(r)' /\ At(r, "query")
  BY <1>2 DEF TellsInv, RepliesInv, QueryHybrid, Answered, At
<1>4. KeepsNames(r)
  BY <1>2, <1>3 DEF KeepsNames, Searched, At
<1>5. req'[r].own # "unset"
  BY <1>2, <1>3 DEF TellsInv, RepliesInv
<1>6. backend' = Named(r)'
  BY <1>2, <1>5 DEF Named
<1> QED
  BY <1>1, <1>2, <1>4, <1>6, Unanswered DEF Unsearched, At

LEMMA FailsTells ==
    ASSUME TellsInv, NEW r \in Requests, Fails(r)
    PROVE  TellsInv'
<1>1. Moves(r) /\ Running(r) /\ met' = met
  BY DEF TellsInv, RequestTypes, Fails, Moves, Fields, Places, setup, Running
<1>2. /\ req'[r].pc = "done" /\ req'[r].reply = "503" /\ req'[r].own = req[r].own
      /\ backend' = backend
  BY DEF TellsInv, RequestTypes, Fails, Fields
<1>3. KeepsNames(r)
  BY <1>2 DEF KeepsNames, Searched, Fails, At, Answered
<1> QED
  BY <1>1, <1>2, <1>3, Unanswered DEF Unsearched, At

LEMMA LabelTells ==
    ASSUME TellsInv, NEW r \in Requests, Label(r)
    PROVE  TellsInv'
<1>1. Moves(r) /\ Running(r) /\ met' = met
  BY DEF TellsInv, RequestTypes, Label, Moves, Fields, Places, setup, Running, At
<1>2. /\ req'[r].pc = "rank" /\ req'[r].reply = req[r].reply /\ req'[r].own = req[r].own
      /\ req'[r].before = req[r].before /\ req'[r].label = backend /\ backend' = backend
  BY DEF TellsInv, RequestTypes, Label, Fields
<1>3. ~Answered(r)'
  BY <1>2 DEF TellsInv, RepliesInv, Label, Answered, At
<1>4. KeepsNames(r)
  BY <1>2 DEF KeepsNames, Searched, Label, At
<1>5. r \notin met => req'[r].label = Named(r)'
  BY <1>2 DEF TellsInv, AloneInv, Label, At, Named
<1> QED
  BY <1>1, <1>2, <1>3, <1>4, <1>5, OneMoves DEF Answered, At, Unsearched

\* An answer that was not reranked though a reranker is loaded has no hits.
LEMMA NothingKept ==
    ASSUME TellsInv, NEW r \in Requests
    PROVE  FirstOf(<<>>, req[r].k) = <<>>
<1>1. req[r].k \in Nat \ {0}
  BY DEF TellsInv, RequestTypes
<1> QED
  BY <1>1 DEF FirstOf

LEMMA RankTells ==
    ASSUME TellsInv, NEW r \in Requests, Rank(r)
    PROVE  TellsInv'
<1> DEFINE kept == PreferCurrent(req[r].fused, req[r].comparative)
           wanted == reranker = "loaded" /\ kept # <<>> /\ ~SkipRerank(r)
<1>1. /\ At(r, "rank") /\ UNCHANGED <<setup, met, backend, hybrid>>
      /\ \/ ~wanted /\ Respond(r, kept, kept, "no", {})
         \/ wanted /\ \E order : Respond(r, kept, order, "yes", {})
         \/ wanted /\ Respond(r, kept, kept, "failed", {"rerank"})
  BY DEF Rank
<1> HIDE DEF kept
<1>2. PICK order, ranked, degraded :
         /\ Respond(r, kept, order, ranked, degraded)
         /\ \/ ~wanted /\ order = kept
            \/ ranked = "yes"
            \/ "rerank" \in degraded
  BY <1>1
<1>3. Moves(r)
  <2>1. DOMAIN req' = Requests /\ UNCHANGED reranker
    BY <1>1, <1>2 DEF TellsInv, RequestTypes, Respond, setup
  <2>2. DOMAIN req'[r] = Fields
    BY <1>2 DEF TellsInv, RequestTypes, Respond
  <2>3. req'[r].pc = "done" /\ req'[r].k = req[r].k
    BY <1>2 DEF TellsInv, RequestTypes, Respond, Fields
  <2>4. \A q \in Requests \ {r} : req'[q] = req[q]
    BY <1>2 DEF TellsInv, RequestTypes, Respond
  <2> QED
    BY <2>1, <2>2, <2>3, <2>4 DEF TellsInv, RequestTypes, Moves, Places
<1>4. /\ req'[r].pc = "done" /\ req'[r].own = req[r].own /\ req'[r].label = req[r].label
      /\ req'[r].before = req[r].before
      /\ req'[r].route = req[r].route
      /\ req'[r].nodes = FirstOf(order, req[r].k)
      /\ req'[r].ranked = ranked /\ req'[r].degraded = degraded \union Missing
  BY <1>2 DEF TellsInv, RequestTypes, Respond, Fields
<1>5. r \notin met => req'[r].label = Named(r)'
  BY <1>1, <1>4 DEF TellsInv, AloneInv, At, Named
<1>6. (Answered(r) /\ reranker # "off" /\ ~SkipRerank(r)
         /\ req[r].nodes # <<>> /\ "rerank" \notin req[r].degraded)' => req'[r].ranked = "yes"
  <2> SUFFICES ASSUME reranker # "off", ~SkipRerank(r), req'[r].nodes # <<>>,
                      "rerank" \notin req'[r].degraded
               PROVE  req'[r].ranked = "yes"
    BY <1>1, <1>4 DEF setup, SkipRerank
  <2>1. reranker = "loaded" /\ "rerank" \notin degraded
    BY <1>4 DEF TellsInv, RequestTypes, Missing
  <2>2. order # <<>>
    BY <1>4, NothingKept
  <2> QED
    BY <1>2, <1>4, <2>1, <2>2
<1>7. KeepsNames(r) /\ Running(r) /\ met' = met
  BY <1>1, <1>4 DEF KeepsNames, Searched, At, Running
<1> QED
  BY <1>3, <1>4, <1>5, <1>6, <1>7, OneMoves DEF At, Unsearched

----------------------------------------------------------------------------
LEMMA TellsStep == TellsInv /\ [RouteNext]_routeVars => TellsInv'
<1> SUFFICES ASSUME TellsInv, [RouteNext]_routeVars PROVE TellsInv'
  OBVIOUS
<1>1. CASE UNCHANGED routeVars
  BY <1>1 DEF routeVars, TellsInv, RequestTypes, RepliesInv, RerankNeverSilent, AloneInv, UsedInv,
              Used, Named, Running, Answered, At, SkipRerank
<1>2. CASE \E r \in Requests, route \in Routes, comparative \in BOOLEAN, k \in 1..MaxHits :
              Ask(r, route, comparative, k)
  BY <1>2, AskTells
<1>3. CASE \E r \in Requests, list \in Rankings : SearchWords(r, list) \/ SearchVectors(r, list)
  BY <1>3, SearchWordsTells, SearchVectorsTells
<1>4. CASE \E r \in Requests, dense, lexical \in Rankings : QueryHybrid(r, dense, lexical)
  BY <1>4, QueryHybridTells
<1>5. CASE \E r \in Requests :
              ReadBackend(r) \/ ProbeBackend(r) \/ Fails(r) \/ Label(r) \/ Rank(r)
  BY <1>5, ReadBackendTells, ProbeBackendTells, FailsTells, LabelTells, RankTells
<1> QED
  BY <1>1, <1>2, <1>3, <1>4, <1>5 DEF RouteNext, Quiet

\* For any number of requests: a response never passes off hits in the order
\* of the fusion as reranked; the lexical backend it names is one that
\* searched; and if no request ran beside it, it is the one of its own search,
\* unless that failed altogether and an earlier request's name was left.
THEOREM ResponsesTellHow == RouteSpec => []OutcomeTellsHow
<1>1. TellsInv => OutcomeTellsHow
  <2> SUFFICES ASSUME TellsInv, NEW r \in Requests, Answered(r)
               PROVE  /\ \/ req[r].label = "unset"
                         \/ \E other \in Requests : req[other].own = req[r].label
                      /\ r \notin met =>
                            req[r].label = IF req[r].own = "unset" THEN req[r].before
                                                                  ELSE req[r].own
    BY DEF TellsInv, OutcomeTellsHow, NamesASearch
  <2> QED
    BY DEF TellsInv, AloneInv, UsedInv, Used, Named
<1> QED
  BY TellsInit, TellsStep, <1>1, PTL DEF RouteSpec

----------------------------------------------------------------------------
(* Rankings and their fusion.                                              *)

LEMMA RankingIs ==
    ASSUME NEW l \in Rankings
    PROVE  /\ l \in Seq(Chunks) /\ Len(l) \in Nat /\ DOMAIN l = 1 .. Len(l)
           /\ \A i, j \in 1 .. Len(l) : l[i] = l[j] => i = j
           /\ ToSet(l) \subseteq Chunks /\ IsFiniteSet(ToSet(l))
<1>1. PICK S \in SUBSET Chunks : l \in SetToSeqs(S)
  BY DEF Rankings
<1>2. IsFiniteSet(S) /\ Cardinality(S) \in Nat
  BY FS_Subset, FS_CardinalityType, RetrievalAssumption
<1>3. /\ l \in [1 .. Cardinality(S) -> S]
      /\ \A i, j \in 1 .. Cardinality(S) : i # j => l[i] # l[j]
  BY <1>1 DEF SetToSeqs
<1>4. l \in Seq(Chunks) /\ Len(l) = Cardinality(S) /\ DOMAIN l = 1 .. Len(l)
  BY <1>2, <1>3
<1>5. ToSet(l) \subseteq Chunks
  BY <1>4 DEF ToSet
<1>6. IsFiniteSet(ToSet(l))
  BY <1>5, FS_Subset, RetrievalAssumption
<1> QED
  BY <1>2, <1>3, <1>4, <1>5, <1>6

\* The place of a member of a ranking.
LEMMA RankInIs ==
    ASSUME NEW l, NEW n \in Nat, DOMAIN l = 1 .. n,
           \A i, j \in 1 .. n : l[i] = l[j] => i = j
    PROVE  /\ \A c \in ToSet(l) : RankIn(l, c) \in 1 .. n /\ l[RankIn(l, c)] = c
           /\ \A i \in 1 .. n : l[i] \in ToSet(l) /\ RankIn(l, l[i]) = i
<1>1. ASSUME NEW c \in ToSet(l) PROVE RankIn(l, c) \in 1 .. n /\ l[RankIn(l, c)] = c
  <2>1. \E i \in 1 .. n : l[i] = c
    BY DEF ToSet
  <2> QED
    BY <2>1 DEF RankIn
<1>2. ASSUME NEW i \in 1 .. n PROVE l[i] \in ToSet(l) /\ RankIn(l, l[i]) = i
  <2>1. l[i] \in ToSet(l)
    BY DEF ToSet
  <2>2. RankIn(l, l[i]) \in 1 .. n /\ l[RankIn(l, l[i])] = l[i]
    BY <1>1, <2>1
  <2> QED
    BY <2>1, <2>2
<1> QED
  BY <1>1, <1>2

\* Fractions with a positive denominator.
Fractions == Nat \X (Nat \ {0})

LEMMA TimesGrows ==
    ASSUME NEW x \in Nat, NEW y \in Nat, NEW z \in Nat
    PROVE  /\ x >= y => x * z >= y * z
           /\ x > y /\ z > 0 => x * z > y * z
           /\ x * z >= y * z /\ z > 0 => x >= y
  OBVIOUS

LEMMA ScoreIsFraction ==
    ASSUME NEW dense \in Rankings, NEW lexical \in Rankings, NEW c
    PROVE  Score(dense, lexical, c) \in Fractions
<1>1. ASSUME NEW l \in Rankings PROVE Share(l, c) \in Fractions
  <2>1. c \in ToSet(l) => RankIn(l, c) \in Nat
    <3>1. Len(l) \in Nat /\ DOMAIN l = 1 .. Len(l) /\ \A i, j \in 1 .. Len(l) : l[i] = l[j] => i = j
      BY RankingIs
    <3> DEFINE n == Len(l)
    <3> HIDE DEF n
    <3>2. n \in Nat /\ DOMAIN l = 1 .. n /\ \A i, j \in 1 .. n : l[i] = l[j] => i = j
      BY <3>1 DEF n
    <3>3. \A d \in ToSet(l) : RankIn(l, d) \in 1 .. n
      BY <3>2, RankInIs
    <3> QED
      BY <3>2, <3>3
  <2> QED
    BY <2>1, RetrievalAssumption DEF Share, Fractions
<1>2. ASSUME NEW x \in Fractions, NEW y \in Fractions PROVE Plus(x, y) \in Fractions
  <2>1. /\ x[1] \in Nat /\ x[2] \in Nat /\ x[2] > 0
        /\ y[1] \in Nat /\ y[2] \in Nat /\ y[2] > 0
    BY DEF Fractions
  <2>2. x[1] * y[2] + y[1] * x[2] \in Nat /\ x[2] * y[2] \in Nat /\ x[2] * y[2] > 0
    BY <2>1
  <2> QED
    BY <2>2 DEF Plus, Fractions
<1> QED
  BY <1>1, <1>2 DEF Score

\* Not greater is as good or worse, which is transitive.
LEMMA AtMostChains ==
    ASSUME NEW x \in Fractions, NEW y \in Fractions, NEW z \in Fractions,
           ~Greater(x, y), ~Greater(y, z)
    PROVE  ~Greater(x, z)
<1> DEFINE a == x[1]  b == x[2]  c == y[1]  d == y[2]  e == z[1]  f == z[2]
<1>1. a \in Nat /\ b \in Nat /\ c \in Nat /\ d \in Nat /\ e \in Nat /\ f \in Nat /\ b > 0 /\ d > 0 /\ f > 0
  BY DEF Fractions
<1>2. a * d <= c * b /\ c * f <= e * d
  BY <1>1 DEF Greater
<1> HIDE DEF a, b, c, d, e, f
<1>3. (a * d) * f <= (c * b) * f /\ (c * f) * b <= (e * d) * b
  <2>1. a * d \in Nat /\ c * b \in Nat /\ c * f \in Nat /\ e * d \in Nat
    BY <1>1
  <2> QED
    BY <1>1, <1>2, <2>1, TimesGrows
<1>4. (a * f) * d <= (e * b) * d
  <2>1. (a * f) * d = (a * d) * f /\ (c * b) * f = (c * f) * b /\ (e * d) * b = (e * b) * d
    BY <1>1
  <2>2. (a * d) * f \in Nat /\ (c * b) * f \in Nat /\ (e * d) * b \in Nat
    BY <1>1
  <2> QED
    BY <1>3, <2>1, <2>2
<1>5. a * f <= e * b
  <2>1. a * f \in Nat /\ e * b \in Nat
    BY <1>1
  <2> QED
    BY <1>1, <1>4, <2>1, TimesGrows
<1> QED
  BY <1>1, <1>5 DEF Greater, a, b, c, d, e, f

\* Sums keep the order, and a greater summand makes a greater sum.
LEMMA PlusGrows ==
    ASSUME NEW x \in Fractions, NEW y \in Fractions, NEW u \in Fractions, NEW v \in Fractions,
           ~Greater(y, x), ~Greater(v, u), Greater(x, y) \/ Greater(u, v)
    PROVE  Greater(Plus(x, u), Plus(y, v))
<1> DEFINE a == x[1]  b == x[2]  c == y[1]  d == y[2]  e == u[1]  f == u[2]  g == v[1]  h == v[2]
           ad == a * d  cb == c * b  eh == e * h  gf == g * f  fh == f * h  bd == b * d
<1>1. /\ a \in Nat /\ b \in Nat /\ c \in Nat /\ d \in Nat /\ b > 0 /\ d > 0
      /\ e \in Nat /\ f \in Nat /\ g \in Nat /\ h \in Nat /\ f > 0 /\ h > 0
  BY DEF Fractions
<1>2. ad >= cb /\ eh >= gf /\ (ad > cb \/ eh > gf)
  BY <1>1 DEF Greater
<1> HIDE DEF a, b, c, d, e, f, g, h
<1>3. ad \in Nat /\ cb \in Nat /\ eh \in Nat /\ gf \in Nat /\ fh \in Nat /\ bd \in Nat /\ fh > 0 /\ bd > 0
  BY <1>1
<1>4. /\ (a * f + e * b) * (d * h) = ad * fh + eh * bd
      /\ (c * h + g * d) * (b * f) = cb * fh + gf * bd
  BY <1>1
<1> HIDE DEF ad, cb, eh, gf, fh, bd
<1>5. ad * fh >= cb * fh /\ eh * bd >= gf * bd /\ (ad * fh > cb * fh \/ eh * bd > gf * bd)
  <2>1. ad * fh >= cb * fh /\ (ad > cb => ad * fh > cb * fh)
    BY <1>2, <1>3, TimesGrows
  <2>2. eh * bd >= gf * bd /\ (eh > gf => eh * bd > gf * bd)
    BY <1>2, <1>3, TimesGrows
  <2> QED
    BY <1>2, <2>1, <2>2
<1>6. ad * fh \in Nat /\ cb * fh \in Nat /\ eh * bd \in Nat /\ gf * bd \in Nat
  BY <1>3
<1>7. (a * f + e * b) * (d * h) > (c * h + g * d) * (b * f)
  BY <1>4, <1>5, <1>6
<1> QED
  BY <1>7 DEF Greater, Plus, a, b, c, d, e, f, g, h

LEMMA BestFirstIs ==
    ASSUME NEW S, IsFiniteSet(S), NEW dense \in Rankings, NEW lexical \in Rankings,
           NEW number, \A c \in S : number[c] \in Nat, \A c, d \in S : number[c] = number[d] => c = d
    PROVE  LET best == BestFirst(S, dense, lexical, number)
           IN /\ best \in [1 .. Cardinality(S) -> S] /\ ToSet(best) = S
              /\ \A i, j \in 1 .. Cardinality(S) : best[i] = best[j] => i = j
              /\ \A c, d \in S : Greater(Score(dense, lexical, c), Score(dense, lexical, d)) =>
                    RankIn(best, c) < RankIn(best, d)
<1> DEFINE score(c) == Score(dense, lexical, c)
           first(d, c) == \/ Greater(score(d), score(c))
                          \/ ~Greater(score(c), score(d)) /\ number[d] < number[c]
           ahead == [c \in S |-> {d \in S : first(d, c)}]
           best == BestFirst(S, dense, lexical, number)
           N == Cardinality(S)
<1>1. best = Sorted(S, ahead)
  BY DEF BestFirst
<1>2. \A c \in S : score(c) \in Fractions
  BY ScoreIsFraction
<1>3. \A x, y \in Fractions : ~(Greater(x, y) /\ Greater(y, x))
  BY DEF Fractions, Greater
<1>4. N \in Nat
  BY FS_CardinalityType
<1> HIDE DEF score, best, N
<1>5. ahead \in [S -> SUBSET S]
  OBVIOUS
<1>6. \A x \in S : x \notin ahead[x]
  BY <1>2, <1>3
<1>7. \A x, y \in S : x # y => x \in ahead[y] \/ y \in ahead[x]
  OBVIOUS
<1>8. ASSUME NEW x \in S, NEW y \in S, NEW z \in S, first(x, y), first(z, x) PROVE first(z, y)
  <2>1. ~Greater(score(y), score(x)) /\ ~Greater(score(x), score(z))
    BY <1>2, <1>3, <1>8
  <2>2. ~Greater(score(y), score(z))
    BY <1>2, <2>1, AtMostChains
  <2>3. CASE Greater(score(z), score(y))
    BY <2>3
  <2>4. CASE ~Greater(score(z), score(y))
    \* All three have the same score.
    <3>1. ~Greater(score(z), score(x)) /\ ~Greater(score(x), score(y))
      BY <1>2, <2>1, <2>4, AtMostChains
    <3>2. number[z] < number[x] /\ number[x] < number[y]
      BY <1>8, <3>1
    <3> QED
      BY <2>2, <3>2
  <2> QED
    BY <2>3, <2>4
<1>9. \A x, y \in S : x \in ahead[y] => ahead[x] \subseteq ahead[y]
  <2> SUFFICES ASSUME NEW x \in S, NEW y \in S, x \in ahead[y], NEW z \in ahead[x] PROVE z \in ahead[y]
    OBVIOUS
  <2>1. z \in S /\ first(x, y) /\ first(z, x)
    OBVIOUS
  <2> HIDE DEF first
  <2>2. first(z, y)
    BY <1>8, <2>1
  <2> QED
    BY <2>1, <2>2
<1>10. /\ best \in [1 .. N -> S]
       /\ \A x \in S : \E n \in 1 .. N : best[n] = x
       /\ \A i, j \in 1 .. N : best[i] \in ahead[best[j]] <=> i < j
  <2> HIDE DEF ahead
  <2> QED
    BY <1>1, <1>5, <1>6, <1>7, <1>9, SortedIs DEF N
<1>11. ToSet(best) = S
  BY <1>10 DEF ToSet
<1>12. ASSUME NEW i \in 1 .. N, NEW j \in 1 .. N, best[i] = best[j] PROVE i = j
  <2>1. best[i] \in S /\ ~(i < j) /\ ~(j < i)
    <3> HIDE DEF ahead
    <3> QED
      BY <1>6, <1>10, <1>12
  <2> QED
    BY <1>4, <2>1
<1>13. ASSUME NEW c \in S, NEW d \in S, Greater(score(c), score(d))
       PROVE  RankIn(best, c) < RankIn(best, d)
  <2>1. DOMAIN best = 1 .. N
    BY <1>10
  <2>2. \A x \in S : RankIn(best, x) \in 1 .. N /\ best[RankIn(best, x)] = x
    BY <1>4, <1>11, <1>12, <2>1, RankInIs
  <2>3. c \in ahead[d]
    BY <1>13
  <2> HIDE DEF ahead
  <2> QED
    BY <1>10, <2>2, <2>3
<1> QED
  BY <1>10, <1>11, <1>12, <1>13 DEF score, best, N

\* f is the first members of l, a list of N members of T.
IsStart(f, l, T, N) == \E m \in 0 .. N : f \in [1 .. m -> T] /\ \A i \in 1 .. m : f[i] = l[i]
LEMMA FirstOfIs ==
    ASSUME NEW T, NEW N \in Nat, NEW l \in [1 .. N -> T], NEW n \in Nat
    PROVE  IsStart(FirstOf(l, n), l, T, N)
<1>1. l \in Seq(T) /\ Len(l) = N
  OBVIOUS
<1> DEFINE m == IF Len(l) < n THEN Len(l) ELSE n
<1>2. m \in 0 .. N
  BY <1>1
<1>3. FirstOf(l, n) = [i \in 1 .. m |-> l[i]]
  BY <1>1, <1>2 DEF FirstOf
<1>4. \A i \in 1 .. m : i \in 1 .. N
  BY <1>2
<1> HIDE DEF m
<1>5. FirstOf(l, n) \in [1 .. m -> T] /\ \A i \in 1 .. m : FirstOf(l, n)[i] = l[i]
  BY <1>3, <1>4
<1> QED
  BY <1>2, <1>5 DEF IsStart

\* The lists that have c or d, and what it means that a fusion agrees with them.
With(dense, lexical, c, d) == {l \in {dense, lexical} : {c, d} \intersect ToSet(l) # {}}
Agrees(fused, dense, lexical) ==
    \A c, d \in Chunks :
        /\ With(dense, lexical, c, d) # {}
        /\ \A l \in With(dense, lexical, c, d) : Before(l, c, d)
        /\ d \in ToSet(fused)
        => Before(fused, c, d)

\* What comes before in all lists has the higher score.
LEMMA AgreedScore ==
    ASSUME NEW dense \in Rankings, NEW lexical \in Rankings, NEW c \in Chunks, NEW d \in Chunks,
           With(dense, lexical, c, d) # {},
           \A l \in With(dense, lexical, c, d) : Before(l, c, d)
    PROVE  /\ c \in ToSet(dense) \union ToSet(lexical)
           /\ Greater(Score(dense, lexical, c), Score(dense, lexical, d))
<1>1. ASSUME NEW l \in {dense, lexical}
      PROVE  /\ Share(l, c) \in Fractions /\ Share(l, d) \in Fractions
             /\ ~Greater(Share(l, d), Share(l, c))
             /\ l \in With(dense, lexical, c, d) => Greater(Share(l, c), Share(l, d))
  <2>1. l \in Rankings /\ RrfK \in Nat /\ RrfK > 0
    BY RetrievalAssumption
  <2>2. \A x \in ToSet(l) : RankIn(l, x) \in Nat
    BY <2>1, RankingIs, RankInIs
  <2>3. CASE l \in With(dense, lexical, c, d)
    <3>1. Before(l, c, d)
      BY <2>3
    <3>2. Share(l, c) = <<1, RrfK + RankIn(l, c)>> /\ RankIn(l, c) \in Nat
      BY <2>2, <3>1 DEF Share, Before
    <3>3. CASE d \in ToSet(l)
      <4>1. Share(l, d) = <<1, RrfK + RankIn(l, d)>> /\ RankIn(l, d) \in Nat
        BY <2>2, <3>3 DEF Share
      <4>2. RankIn(l, c) < RankIn(l, d)
        BY <3>1, <3>3 DEF Before
      <4> QED
        BY <2>1, <3>2, <4>1, <4>2 DEF Greater, Fractions
    <3>4. CASE d \notin ToSet(l)
      BY <2>1, <3>2, <3>4 DEF Share, Greater, Fractions
    <3> QED
      BY <3>3, <3>4
  <2>4. CASE l \notin With(dense, lexical, c, d)
    BY <2>4 DEF With, Share, Greater, Fractions
  <2> QED
    BY <2>3, <2>4
<1>2. PICK l \in {dense, lexical} : l \in With(dense, lexical, c, d)
  BY DEF With
<1>3. c \in ToSet(l)
  BY <1>2 DEF Before
<1>4. Greater(Share(dense, c), Share(dense, d)) \/ Greater(Share(lexical, c), Share(lexical, d))
  BY <1>1, <1>2
<1>5. Greater(Score(dense, lexical, c), Score(dense, lexical, d))
  BY <1>1, <1>4, PlusGrows DEF Score
<1> QED
  BY <1>3, <1>5

\* A list that has been served alone.
LEMMA AloneAgrees ==
    ASSUME NEW l \in Rankings, NEW dense \in Rankings, NEW lexical \in Rankings,
           l \in {dense, lexical}
    PROVE  l \in Seq(Chunks) /\ Agrees(l, dense, lexical)
BY RankingIs DEF Agrees, With

LEMMA ByDictAgrees ==
    ASSUME NEW dense \in Rankings, NEW lexical \in Rankings
    PROVE  LET fused == FusedByDict(dense, lexical)
           IN fused \in Seq(Chunks) /\ Agrees(fused, dense, lexical)
<1> DEFINE rest == Without(lexical, ToSet(dense))
           all == dense \o rest
           S == ToSet(all)
           number == [c \in S |-> RankIn(all, c)]
           fused == FusedByDict(dense, lexical)
<1>1. fused = BestFirst(S, dense, lexical, number)
  BY DEF FusedByDict
<1>3. rest \in Seq(Chunks) /\ ToSet(rest) = ToSet(lexical) \ ToSet(dense)
  BY RankingIs, WithoutSet
<1> HIDE DEF rest
<1>4. /\ all \in Seq(Chunks) /\ Len(all) \in Nat /\ DOMAIN all = 1 .. Len(all)
      /\ S = ToSet(dense) \union ToSet(lexical)
  <2>1. dense \in Seq(Chunks)
    BY RankingIs
  <2>2. all \in Seq(Chunks) /\ Len(all) = Len(dense) + Len(rest) /\ DOMAIN all = 1 .. Len(all)
    BY <1>3, <2>1
  <2>3. /\ \A i \in 1 .. Len(dense) : all[i] = dense[i]
        /\ \A i \in 1 .. Len(rest) : all[Len(dense) + i] = rest[i]
    BY <1>3, <2>1
  <2>4. \A i \in 1 .. Len(all) : i \in 1 .. Len(dense) \/ i - Len(dense) \in 1 .. Len(rest)
    BY <1>3, <2>1, <2>2
  <2>5. /\ \A i \in 1 .. Len(dense) : i \in 1 .. Len(all)
        /\ \A i \in 1 .. Len(rest) : Len(dense) + i \in 1 .. Len(all)
    BY <1>3, <2>1, <2>2
  <2>6. DOMAIN dense = 1 .. Len(dense) /\ DOMAIN rest = 1 .. Len(rest)
    BY <1>3, <2>1
  <2> HIDE DEF all
  <2>7. S = ToSet(dense) \union ToSet(rest)
    <3>1. ASSUME NEW i \in 1 .. Len(all) PROVE all[i] \in ToSet(dense) \union ToSet(rest)
      <4>1. CASE i \in 1 .. Len(dense)
        BY <2>3, <2>6, <4>1 DEF ToSet
      <4>2. CASE i - Len(dense) \in 1 .. Len(rest)
        <5>1. all[Len(dense) + (i - Len(dense))] = rest[i - Len(dense)]
          BY <2>3, <4>2
        <5>2. Len(dense) + (i - Len(dense)) = i
          BY <2>1
        <5> QED
          BY <2>6, <4>2, <5>1, <5>2 DEF ToSet
      <4> QED
        BY <2>4, <4>1, <4>2
    <3>2. \A c \in ToSet(dense) : c \in S
      BY <2>2, <2>3, <2>5, <2>6 DEF ToSet
    <3>3. \A c \in ToSet(rest) : c \in S
      BY <2>2, <2>3, <2>5, <2>6 DEF ToSet
    <3>4. S \subseteq ToSet(dense) \union ToSet(rest)
      BY <2>2, <3>1 DEF ToSet
    <3> QED
      BY <3>2, <3>3, <3>4
  <2> QED
    BY <1>3, <2>2, <2>7
<1>5. IsFiniteSet(S) /\ S \subseteq Chunks /\ Cardinality(S) \in Nat
  <2>1. S \subseteq Chunks
    BY <1>4, RankingIs
  <2> HIDE DEF S
  <2> QED
    BY <2>1, FS_Subset, FS_CardinalityType, RetrievalAssumption
<1>6. \A c \in S : number[c] \in Nat /\ all[number[c]] = c
  <2> HIDE DEF all
  <2>1. ASSUME NEW c \in S PROVE RankIn(all, c) \in 1 .. Len(all) /\ all[RankIn(all, c)] = c
    <3>1. \E i \in DOMAIN all : all[i] = c
      BY DEF ToSet
    <3> QED
      BY <1>4, <3>1 DEF RankIn
  <2> QED
    BY <1>4, <2>1
<1> HIDE DEF number, all, S, fused
<1>7. /\ fused \in [1 .. Cardinality(S) -> S] /\ ToSet(fused) = S
      /\ \A c, d \in S : Greater(Score(dense, lexical, c), Score(dense, lexical, d)) =>
            RankIn(fused, c) < RankIn(fused, d)
  <2>1. \A c, d \in S : number[c] = number[d] => c = d
    BY <1>6
  <2> QED
    BY <1>1, <1>5, <1>6, <2>1, BestFirstIs
<1>8. fused \in Seq(Chunks)
  BY <1>5, <1>7
<1>9. Agrees(fused, dense, lexical)
  BY <1>4, <1>7, AgreedScore DEF Agrees, Before
<1> QED
  BY <1>8, <1>9 DEF fused

LEMMA InSqlAgrees ==
    ASSUME NEW dense \in Rankings, NEW lexical \in Rankings
    PROVE  LET fused == FusedInSql(dense, lexical)
           IN fused \in Seq(Chunks) /\ Agrees(fused, dense, lexical)
<1> DEFINE S == ToSet(dense) \union ToSet(lexical)
           number == [c \in S |-> c]
           best == BestFirst(S, dense, lexical, number)
           N == Cardinality(S)
           fused == FusedInSql(dense, lexical)
<1>1. IsFiniteSet(S) /\ S \subseteq Chunks /\ N \in Nat
  BY RankingIs, FS_Union, FS_CardinalityType
<1>2. \A c \in S : number[c] \in Nat /\ number[c] = c
  BY <1>1, RetrievalAssumption
<1> HIDE DEF S, number
<1>3. /\ best \in [1 .. N -> S] /\ ToSet(best) = S
      /\ \A i, j \in 1 .. N : best[i] = best[j] => i = j
      /\ \A c, d \in S : Greater(Score(dense, lexical, c), Score(dense, lexical, d)) =>
            RankIn(best, c) < RankIn(best, d)
  <2>1. \A c, d \in S : number[c] = number[d] => c = d
    BY <1>2
  <2> QED
    BY <1>1, <1>2, <2>1, BestFirstIs
<1>4. fused = FirstOf(best, Depth)
  BY DEF FusedInSql, S, number
<1> HIDE DEF best, N, fused
<1>5. PICK m \in 0 .. N : fused \in [1 .. m -> S] /\ \A i \in 1 .. m : fused[i] = best[i]
  <2>1. Depth \in Nat /\ best \in [1 .. N -> S]
    BY <1>3, RetrievalAssumption
  <2>2. IsStart(FirstOf(best, Depth), best, S, N)
    BY <1>1, <2>1, FirstOfIs
  <2> QED
    BY <1>4, <2>2 DEF IsStart
<1>6. fused \in Seq(Chunks) /\ DOMAIN fused = 1 .. m /\ m \in Nat
  BY <1>1, <1>5
<1>7. \A c \in S : RankIn(best, c) \in 1 .. N /\ best[RankIn(best, c)] = c
  <2>1. DOMAIN best = 1 .. N
    BY <1>3
  <2> QED
    BY <1>1, <1>3, <2>1, RankInIs
<1>8. \A i \in 1 .. m : i \in 1 .. N /\ fused[i] = best[i] /\ best[i] \in S
  BY <1>1, <1>3, <1>5
<1>9. \A c \in ToSet(fused) : c \in S /\ RankIn(fused, c) = RankIn(best, c) /\ RankIn(best, c) \in 1 .. m
  <2> SUFFICES ASSUME NEW c \in ToSet(fused)
               PROVE  c \in S /\ RankIn(fused, c) = RankIn(best, c) /\ RankIn(best, c) \in 1 .. m
    OBVIOUS
  <2>1. \E i \in 1 .. m : fused[i] = c
    BY <1>6 DEF ToSet
  <2>2. RankIn(fused, c) \in 1 .. m /\ fused[RankIn(fused, c)] = c
    BY <1>6, <2>1 DEF RankIn
  <2>3. c \in S /\ best[RankIn(fused, c)] = c
    BY <1>8, <2>2
  <2>4. RankIn(best, c) = RankIn(fused, c)
    BY <1>3, <1>7, <1>8, <2>2, <2>3
  <2> QED
    BY <2>2, <2>3, <2>4
<1>10. Agrees(fused, dense, lexical)
  <2> SUFFICES ASSUME NEW c \in Chunks, NEW d \in Chunks,
                      With(dense, lexical, c, d) # {},
                      \A l \in With(dense, lexical, c, d) : Before(l, c, d),
                      d \in ToSet(fused)
               PROVE  Before(fused, c, d)
    BY DEF Agrees
  <2>1. c \in S /\ d \in S
    BY <1>9, AgreedScore DEF S
  <2>2. RankIn(best, c) < RankIn(best, d)
    BY <1>3, <2>1, AgreedScore
  <2>3. RankIn(best, c) \in 1 .. m
    BY <1>6, <1>7, <1>9, <2>1, <2>2
  <2>4. c \in ToSet(fused)
    <3>1. fused[RankIn(best, c)] = c
      BY <1>7, <1>8, <2>1, <2>3
    <3> QED
      BY <1>6, <2>3, <3>1 DEF ToSet
  <2> QED
    BY <1>9, <2>2, <2>4 DEF Before
<1> QED
  BY <1>6, <1>10 DEF fused

LEMMA InPythonAgrees ==
    ASSUME NEW dense \in Rankings, NEW lexical \in Rankings
    PROVE  LET fused == FusedInPython(dense, lexical)
           IN fused \in Seq(Chunks) /\ Agrees(fused, dense, lexical)
BY AloneAgrees, ByDictAgrees DEF FusedInPython

----------------------------------------------------------------------------
(* Versions.                                                               *)

\* mtime, KeyOf and Archived decide which version of a file is the current one.
LEMMA CurrentIs ==
    ASSUME mtime \in [Paths -> 0..MaxMtime], NEW p \in Paths
    PROVE  /\ CurrentOf(p) \in Versions(p)
           /\ CurrentOf(CurrentOf(p)) = CurrentOf(p)
           /\ mtime[CurrentOf(p)] >= mtime[p]
           /\ mtime[CurrentOf(p)] = mtime[p] /\ CurrentOf(p) \in Archived => p \in Archived
<1> DEFINE newest == Newest(Versions(p))
           live == newest \ Archived
           current == CurrentOf(p)
<1>1. p \in Versions(p) /\ Versions(p) \subseteq Paths
  BY DEF Versions
<1>2. MaxMtime \in Nat /\ \A q \in Paths : mtime[q] \in 0 .. MaxMtime
  BY RetrievalAssumption
<1>3. newest # {}
  <2> DEFINE ages == {MaxMtime - mtime[q] : q \in Versions(p)}
  <2>1. ages \in SUBSET Nat /\ ages # {}
    BY <1>1, <1>2
  <2>2. PICK n \in ages : \A m \in ages : n <= m
    <3> HIDE DEF ages
    <3> QED
      BY <2>1, Least
  <2>3. PICK q \in Versions(p) : n = MaxMtime - mtime[q]
    OBVIOUS
  <2>4. \A x \in Versions(p) : mtime[x] <= mtime[q]
    <3>1. \A x \in Versions(p) : n <= MaxMtime - mtime[x]
      BY <2>2
    <3> QED
      BY <1>1, <1>2, <2>3, <3>1
  <2> QED
    BY <2>4 DEF Newest
<1>4. current \in newest /\ (live # {} => current \in live)
  BY <1>3 DEF CurrentOf
<1>5. current \in Versions(p) /\ \A q \in Versions(p) : mtime[q] <= mtime[current]
  BY <1>4 DEF Newest
<1> HIDE DEF current
<1>6. CurrentOf(current) = current
  <2>1. Versions(current) = Versions(p)
    BY <1>5 DEF Versions
  <2>2. CurrentOf(current) = CurrentOf(p)
    BY <2>1 DEF CurrentOf
  <2> QED
    BY <2>2 DEF current
<1>7. mtime[current] >= mtime[p]
  BY <1>1, <1>2, <1>5
<1>8. ASSUME mtime[current] = mtime[p], current \in Archived PROVE p \in Archived
  <2>1. live = {}
    BY <1>4, <1>8
  <2>2. p \in newest
    BY <1>1, <1>5, <1>8 DEF Newest
  <2> QED
    BY <2>1, <2>2
<1> QED
  BY <1>5, <1>6, <1>7, <1>8 DEF current

LEMMA PreferIs ==
    ASSUME NEW found \in Seq(Chunks), NEW comparative
    PROVE  LET kept == PreferCurrent(found, comparative)
           IN /\ kept \in Seq(Chunks)
              /\ ToSet(kept) = {c \in ToSet(found) :
                    ~comparative => ~(Superseded(c) /\ CurrentOf(PathOf[c]) \in PathsIn(found))}
<1> DEFINE old == {c \in ToSet(found) : Superseded(c) /\ CurrentOf(PathOf[c]) \in PathsIn(found)}
<1>1. CASE comparative
  BY <1>1 DEF PreferCurrent
<1>2. CASE ~comparative
  <2>1. PreferCurrent(found, comparative) = Without(found, old)
    BY <1>2 DEF PreferCurrent
  <2>2. Without(found, old) \in Seq(Chunks) /\ ToSet(Without(found, old)) = ToSet(found) \ old
    <3> HIDE DEF old
    <3> QED
      BY WithoutSet
  <2> QED
    BY <1>2, <2>1, <2>2
<1> QED
  BY <1>1, <1>2

\* What is kept of a list gives way to newer versions only.
GivesWay(fused, comparative, kept) ==
    /\ ~comparative =>
          \A c \in ToSet(kept) : Superseded(c) => CurrentOf(PathOf[c]) \notin PathsIn(fused)
    /\ \A c \in ToSet(fused) \ ToSet(kept) :
          ~comparative /\ \E d \in ToSet(kept) :
              /\ KeyOf[PathOf[d]] = KeyOf[PathOf[c]]
              /\ mtime[PathOf[d]] >= mtime[PathOf[c]]
              /\ mtime[PathOf[d]] = mtime[PathOf[c]] /\ PathOf[d] \in Archived => PathOf[c] \in Archived

LEMMA PreferGivesWay ==
    ASSUME mtime \in [Paths -> 0..MaxMtime], NEW found \in Seq(Chunks), NEW comparative
    PROVE  GivesWay(found, comparative, PreferCurrent(found, comparative))
<1> DEFINE kept == PreferCurrent(found, comparative)
           old(c) == Superseded(c) /\ CurrentOf(PathOf[c]) \in PathsIn(found)
<1>1. ToSet(kept) = {c \in ToSet(found) : ~comparative => ~old(c)}
  BY PreferIs
<1>2. \A c \in ToSet(found) : c \in Chunks /\ PathOf[c] \in Paths
  <2>1. ToSet(found) \subseteq Chunks
    BY DEF ToSet
  <2> QED
    BY <2>1, RetrievalAssumption
<1> HIDE DEF kept
<1>3. ~comparative =>
        \A c \in ToSet(kept) : Superseded(c) => CurrentOf(PathOf[c]) \notin PathsIn(found)
  BY <1>1
<1>4. ASSUME NEW c \in ToSet(found) \ ToSet(kept)
      PROVE  ~comparative /\ \E d \in ToSet(kept) :
              /\ KeyOf[PathOf[d]] = KeyOf[PathOf[c]]
              /\ mtime[PathOf[d]] >= mtime[PathOf[c]]
              /\ mtime[PathOf[d]] = mtime[PathOf[c]] /\ PathOf[d] \in Archived => PathOf[c] \in Archived
  <2>1. ~comparative /\ old(c)
    BY <1>1
  <2>2. PICK d \in ToSet(found) : PathOf[d] = CurrentOf(PathOf[c])
    BY <2>1 DEF PathsIn
  <2>3. /\ PathOf[d] \in Versions(PathOf[c]) /\ CurrentOf(PathOf[d]) = PathOf[d]
        /\ mtime[PathOf[d]] >= mtime[PathOf[c]]
        /\ mtime[PathOf[d]] = mtime[PathOf[c]] /\ PathOf[d] \in Archived => PathOf[c] \in Archived
    BY <1>2, <2>2, CurrentIs
  <2>4. d \in ToSet(kept)
    BY <1>1, <2>3 DEF Superseded
  <2>5. KeyOf[PathOf[d]] = KeyOf[PathOf[c]]
    BY <2>3 DEF Versions
  <2> QED
    BY <2>1, <2>3, <2>4, <2>5
<1> QED
  BY <1>3, <1>4 DEF GivesWay, kept

----------------------------------------------------------------------------
(* What a request has found.                                               *)

LEMMA SubSeqSet ==
    ASSUME NEW T, NEW s \in Seq(T), NEW m \in Nat, NEW n \in Nat, m > 0, n <= Len(s)
    PROVE  SubSeq(s, m, n) \in Seq(T) /\ ToSet(SubSeq(s, m, n)) \subseteq ToSet(s)
<1> DEFINE cut == SubSeq(s, m, n)
<1>1. \A i \in 1 .. Len(s) : s[i] \in T /\ s[i] \in ToSet(s)
  BY DEF ToSet
<1>2. Len(s) \in Nat /\ cut \in Seq(T) /\ DOMAIN cut = 1 .. Len(cut)
  OBVIOUS
<1>3. \A i \in 1 .. Len(cut) : m + i - 1 \in 1 .. Len(s) /\ cut[i] = s[m + i - 1]
  OBVIOUS
<1> HIDE DEF cut
<1>4. ToSet(cut) \subseteq ToSet(s)
  BY <1>1, <1>2, <1>3 DEF ToSet
<1> QED
  BY <1>2, <1>4 DEF cut

LEMMA FirstOfSet ==
    ASSUME NEW T, NEW s \in Seq(T), NEW n \in Nat
    PROVE  FirstOf(s, n) \in Seq(T) /\ ToSet(FirstOf(s, n)) \subseteq ToSet(s)
<1> DEFINE m == IF Len(s) < n THEN Len(s) ELSE n
<1>1. Len(s) \in Nat /\ m \in Nat /\ m <= Len(s)
  OBVIOUS
<1> HIDE DEF m
<1>2. SubSeq(s, 1, m) \in Seq(T) /\ ToSet(SubSeq(s, 1, m)) \subseteq ToSet(s)
  BY <1>1, SubSeqSet
<1> QED
  BY <1>2 DEF FirstOf, m

\* A reranked list has no other members.
LEMMA RerankedSet ==
    ASSUME NEW list \in Seq(Chunks), NEW order \in Reranked(list)
    PROVE  order \in Seq(Chunks) /\ ToSet(order) \subseteq ToSet(list)
<1> DEFINE head == FirstOf(list, RerankDepth)
           tail == SubSeq(list, Len(head) + 1, Len(list))
           S == ToSet(head)
<1>1. head \in Seq(Chunks) /\ S \subseteq ToSet(list)
  BY FirstOfSet, RetrievalAssumption
<1>2. tail \in Seq(Chunks) /\ ToSet(tail) \subseteq ToSet(list)
  <2>1. Len(head) + 1 \in Nat /\ Len(head) + 1 > 0 /\ Len(list) \in Nat
    BY <1>1
  <2> HIDE DEF head
  <2> QED
    BY <2>1, SubSeqSet
<1>3. S \subseteq Chunks
  <2>1. ToSet(list) \subseteq Chunks
    BY DEF ToSet
  <2> QED
    BY <1>1, <2>1
<1>4. PICK s \in SetToSeqs(S) : order = s \o tail
  BY DEF Reranked
<1> HIDE DEF head, tail, S
<1>5. s \in Seq(Chunks) /\ ToSet(s) \subseteq ToSet(list)
  <2>1. Cardinality(S) \in Nat
    BY <1>3, FS_Subset, FS_CardinalityType, RetrievalAssumption
  <2>2. s \in [1 .. Cardinality(S) -> S]
    BY <1>4 DEF SetToSeqs
  <2>3. s \in Seq(Chunks)
    BY <1>3, <2>1, <2>2
  <2>4. ToSet(s) \subseteq S
    BY <2>2 DEF ToSet
  <2> QED
    BY <1>1, <2>3, <2>4 DEF S
<1>6. s \o tail \in Seq(Chunks) /\ ToSet(s \o tail) \subseteq ToSet(s) \union ToSet(tail)
  <2>1. /\ s \o tail \in Seq(Chunks) /\ Len(s) \in Nat /\ Len(tail) \in Nat
        /\ DOMAIN (s \o tail) = 1 .. Len(s) + Len(tail)
        /\ DOMAIN s = 1 .. Len(s) /\ DOMAIN tail = 1 .. Len(tail)
    BY <1>2, <1>5
  <2>2. ASSUME NEW i \in 1 .. Len(s) + Len(tail)
        PROVE  (s \o tail)[i] \in ToSet(s) \union ToSet(tail)
    <3>1. CASE i \in 1 .. Len(s)
      <4>1. (s \o tail)[i] = s[i]
        BY <1>2, <1>5, <3>1
      <4> QED
        BY <2>1, <3>1, <4>1 DEF ToSet
    <3>2. CASE i \notin 1 .. Len(s)
      <4>1. i - Len(s) \in 1 .. Len(tail)
        BY <2>1, <3>2
      <4>2. (s \o tail)[i] = tail[i - Len(s)]
        BY <1>2, <1>5, <2>1, <3>2
      <4> QED
        BY <2>1, <4>1, <4>2 DEF ToSet
    <3> QED
      BY <3>1, <3>2
  <2> QED
    BY <2>1, <2>2 DEF ToSet
<1> QED
  BY <1>2, <1>4, <1>5, <1>6

\* While a request fuses its lists, what it fused.
FusingInv ==
    \A r \in Requests :
        /\ At(r, "dense") => req[r].lexical \in Rankings
        /\ At(r, "label") =>
              /\ req[r].dense \in Rankings /\ req[r].lexical \in Rankings
              /\ req[r].fused \in {FusedInPython(req[r].dense, req[r].lexical),
                                   FusedInSql(req[r].dense, req[r].lexical)}
        /\ At(r, "rank") => req[r].fused \in Seq(Chunks)

\* And when it has answered, what it made of that.
KeepsInv ==
    \A r \in Requests : Answered(r) =>
        /\ GivesWay(req[r].fused, req[r].comparative, req[r].kept)
        /\ ToSet(req[r].nodes) \subseteq ToSet(req[r].kept)

FindsInv == TellsInv /\ mtime \in [Paths -> 0..MaxMtime] /\ FusingInv /\ KeepsInv

LEMMA FindsInit == RouteInit => FindsInv
<1>1. RouteInit => mtime \in [Paths -> 0..MaxMtime] /\ FusingInv /\ KeepsInv
  BY DEF RouteInit, FusingInv, KeepsInv, At, Answered
<1> QED
  BY <1>1, TellsInit DEF FindsInv

\* It is enough to look at the request that moves, and at its answer only if
\* it gets one.
LEMMA OneFinds ==
    ASSUME FindsInv, TellsInv', NEW r \in Requests, Moves(r), UNCHANGED mtime,
           At(r, "dense")' => req'[r].lexical \in Rankings,
           At(r, "label")' =>
              /\ req'[r].dense \in Rankings /\ req'[r].lexical \in Rankings
              /\ req'[r].fused \in {FusedInPython(req'[r].dense, req'[r].lexical),
                                    FusedInSql(req'[r].dense, req'[r].lexical)},
           At(r, "rank")' => req'[r].fused \in Seq(Chunks),
           Answered(r)' =>
              /\ GivesWay(req'[r].fused, req'[r].comparative, req'[r].kept)
              /\ ToSet(req'[r].nodes) \subseteq ToSet(req'[r].kept)
    PROVE  FindsInv'
<1>1. FusingInv'
  BY DEF FindsInv, FusingInv, Moves, At
<1>2. KeepsInv'
  <2> SUFFICES ASSUME NEW q \in Requests, Answered(q)'
               PROVE  /\ GivesWay(req[q].fused, req[q].comparative, req[q].kept)'
                      /\ ToSet(req'[q].nodes) \subseteq ToSet(req'[q].kept)
    BY DEF KeepsInv
  <2>1. /\ GivesWay(req'[q].fused, req'[q].comparative, req'[q].kept)
        /\ ToSet(req'[q].nodes) \subseteq ToSet(req'[q].kept)
    BY DEF FindsInv, KeepsInv, Moves, Answered
  <2>2. GivesWay(req[q].fused, req[q].comparative, req[q].kept)'
    BY <2>1 DEF GivesWay, Superseded, CurrentOf, Newest, Versions, PathsIn
  <2> QED
    BY <2>1, <2>2
<1> QED
  BY <1>1, <1>2 DEF FindsInv

\* A step that leaves r outside of the fusion.
LEMMA FindsNothing ==
    ASSUME FindsInv, TellsInv', NEW r \in Requests, Moves(r), UNCHANGED mtime,
           req'[r].pc \notin {"dense", "label", "rank"}, ~Answered(r)'
    PROVE  FindsInv'
BY OneFinds DEF At

LEMMA AskFinds ==
    ASSUME FindsInv, TellsInv', NEW r \in Requests, NEW route, NEW comparative, NEW k \in 1..MaxHits,
           Ask(r, route, comparative, k)
    PROVE  FindsInv'
<1>1. k \in Nat \ {0}
  OBVIOUS
<1>2. Moves(r) /\ UNCHANGED mtime
  BY <1>1 DEF FindsInv, TellsInv, RequestTypes, Ask, Moves, Fields, Places, setup
<1>3. req'[r].pc \in {"backend", "search"} /\ req'[r].reply = req[r].reply
  BY DEF FindsInv, TellsInv, RequestTypes, Ask, Fields
<1> QED
  BY <1>2, <1>3, FindsNothing DEF FindsInv, TellsInv, RepliesInv, Ask, Answered, At

LEMMA SearchWordsFinds ==
    ASSUME FindsInv, TellsInv', NEW r \in Requests, NEW list \in Rankings, SearchWords(r, list)
    PROVE  FindsInv'
<1>1. Moves(r) /\ UNCHANGED mtime
  BY DEF FindsInv, TellsInv, RequestTypes, SearchWords, Moves, Fields, Places, setup
<1>2. req'[r].pc = "dense" /\ req'[r].lexical = list /\ req'[r].reply = req[r].reply
  BY DEF FindsInv, TellsInv, RequestTypes, SearchWords, Fields
<1>3. ~Answered(r)'
  BY <1>2 DEF FindsInv, TellsInv, RepliesInv, SearchWords, Answered, At
<1> QED
  BY <1>1, <1>2, <1>3, OneFinds DEF At

LEMMA SearchVectorsFinds ==
    ASSUME FindsInv, TellsInv', NEW r \in Requests, NEW list \in Rankings, SearchVectors(r, list)
    PROVE  FindsInv'
<1>1. Moves(r) /\ UNCHANGED mtime
  BY DEF FindsInv, TellsInv, RequestTypes, SearchVectors, Moves, Fields, Places, setup
<1>2. /\ req'[r].pc = "label" /\ req'[r].reply = req[r].reply
      /\ req'[r].lexical = req[r].lexical /\ req'[r].dense = list
      /\ req'[r].fused = FusedInPython(list, req[r].lexical)
  BY DEF FindsInv, TellsInv, RequestTypes, SearchVectors, Fields
<1>3. ~Answered(r)'
  BY <1>2 DEF FindsInv, TellsInv, RepliesInv, SearchVectors, Answered, At
<1>4. req[r].lexical \in Rankings
  BY DEF FindsInv, FusingInv, SearchVectors
<1> QED
  BY <1>1, <1>2, <1>3, <1>4, OneFinds DEF At

LEMMA ReadBackendFinds ==
    ASSUME FindsInv, TellsInv', NEW r \in Requests, ReadBackend(r)
    PROVE  FindsInv'
<1>1. Moves(r) /\ UNCHANGED mtime
  BY DEF FindsInv, TellsInv, RequestTypes, ReadBackend, Moves, Fields, Places, setup
<1>2. req'[r].pc \in {"probe", "query"} /\ req'[r].reply = req[r].reply
  BY DEF FindsInv, TellsInv, RequestTypes, ReadBackend, Fields
<1> QED
  BY <1>1, <1>2, FindsNothing DEF FindsInv, TellsInv, RepliesInv, ReadBackend, Answered, At

LEMMA ProbeBackendFinds ==
    ASSUME FindsInv, TellsInv', NEW r \in Requests, ProbeBackend(r)
    PROVE  FindsInv'
<1>1. Moves(r) /\ UNCHANGED mtime
  BY DEF FindsInv, TellsInv, RequestTypes, ProbeBackend, Moves, Fields, Places, setup
<1>2. req'[r].pc = "query" /\ req'[r].reply = req[r].reply
  BY DEF FindsInv, TellsInv, RequestTypes, ProbeBackend, Fields
<1> QED
  BY <1>1, <1>2, FindsNothing DEF FindsInv, TellsInv, RepliesInv, ProbeBackend, Answered, At

LEMMA QueryHybridFinds ==
    ASSUME FindsInv, TellsInv', NEW r \in Requests, NEW dense \in Rankings, NEW lexical \in Rankings,
           QueryHybrid(r, dense, lexical)
    PROVE  FindsInv'
<1>1. Moves(r) /\ UNCHANGED mtime
  BY DEF FindsInv, TellsInv, RequestTypes, QueryHybrid, Moves, Fields, Places, setup
<1>2. /\ req'[r].pc = "label" /\ req'[r].reply = req[r].reply
      /\ req'[r].lexical = lexical /\ req'[r].dense = dense
      /\ req'[r].fused = FusedInSql(dense, lexical)
  BY DEF FindsInv, TellsInv, RequestTypes, QueryHybrid, Fields
<1>3. ~Answered(r)'
  BY <1>2 DEF FindsInv, TellsInv, RepliesInv, QueryHybrid, Answered, At
<1> QED
  BY <1>1, <1>2, <1>3, OneFinds DEF At

LEMMA FailsFinds ==
    ASSUME FindsInv, TellsInv', NEW r \in Requests, Fails(r)
    PROVE  FindsInv'
<1>1. Moves(r) /\ UNCHANGED mtime
  BY DEF FindsInv, TellsInv, RequestTypes, Fails, Moves, Fields, Places, setup
<1>2. req'[r].pc = "done" /\ req'[r].reply = "503"
  BY DEF FindsInv, TellsInv, RequestTypes, Fails, Fields
<1> QED
  BY <1>1, <1>2, FindsNothing DEF Answered

LEMMA LabelFinds ==
    ASSUME FindsInv, TellsInv', NEW r \in Requests, Label(r)
    PROVE  FindsInv'
<1>1. Moves(r) /\ UNCHANGED mtime
  BY DEF FindsInv, TellsInv, RequestTypes, Label, Moves, Fields, Places, setup
<1>2. req'[r].pc = "rank" /\ req'[r].reply = req[r].reply /\ req'[r].fused = req[r].fused
  BY DEF FindsInv, TellsInv, RequestTypes, Label, Fields
<1>3. ~Answered(r)'
  BY <1>2 DEF FindsInv, TellsInv, RepliesInv, Label, Answered, At
<1>4. req[r].fused \in Seq(Chunks)
  BY InPythonAgrees, InSqlAgrees DEF FindsInv, FusingInv, Label
<1> QED
  BY <1>1, <1>2, <1>3, <1>4, OneFinds DEF At

LEMMA RankFinds ==
    ASSUME FindsInv, TellsInv', NEW r \in Requests, Rank(r)
    PROVE  FindsInv'
<1> DEFINE kept == PreferCurrent(req[r].fused, req[r].comparative)
<1>1. req[r].fused \in Seq(Chunks) /\ req[r].k \in Nat /\ mtime \in [Paths -> 0..MaxMtime]
  BY DEF FindsInv, FusingInv, TellsInv, RequestTypes, Rank
<1>2. kept \in Seq(Chunks) /\ GivesWay(req[r].fused, req[r].comparative, kept)
  BY <1>1, PreferIs, PreferGivesWay
<1>3. /\ UNCHANGED <<setup, met, backend, hybrid>>
      /\ \E order \in {kept} \union Reranked(kept) : \E ranked, degraded :
            Respond(r, kept, order, ranked, degraded)
  BY DEF Rank
<1> HIDE DEF kept
<1>8. PICK order \in {kept} \union Reranked(kept) : \E ranked, degraded :
         Respond(r, kept, order, ranked, degraded)
  BY <1>3
<1>4. PICK ranked, degraded : Respond(r, kept, order, ranked, degraded)
  BY <1>8
<1>5. ToSet(FirstOf(order, req[r].k)) \subseteq ToSet(kept)
  <2>1. order \in Seq(Chunks) /\ ToSet(order) \subseteq ToSet(kept)
    BY <1>2, <1>8, RerankedSet
  <2>2. ToSet(FirstOf(order, req[r].k)) \subseteq ToSet(order)
    BY <1>1, <2>1, FirstOfSet
  <2> QED
    BY <2>1, <2>2
<1>6. Moves(r) /\ UNCHANGED mtime
  <2>1. DOMAIN req' = Requests /\ UNCHANGED reranker
    BY <1>3, <1>4 DEF FindsInv, TellsInv, RequestTypes, Respond, setup
  <2>2. DOMAIN req'[r] = Fields
    BY <1>4 DEF FindsInv, TellsInv, RequestTypes, Respond
  <2>3. req'[r].pc = "done" /\ req'[r].k = req[r].k
    BY <1>4 DEF FindsInv, TellsInv, RequestTypes, Respond, Fields
  <2>4. \A q \in Requests \ {r} : req'[q] = req[q]
    BY <1>4 DEF FindsInv, TellsInv, RequestTypes, Respond
  <2> QED
    BY <1>3, <2>1, <2>2, <2>3, <2>4 DEF FindsInv, TellsInv, RequestTypes, Moves, Places, setup
<1>7. /\ req'[r].pc = "done" /\ req'[r].kept = kept /\ req'[r].fused = req[r].fused
      /\ req'[r].comparative = req[r].comparative /\ req'[r].nodes = FirstOf(order, req[r].k)
  BY <1>4 DEF FindsInv, TellsInv, RequestTypes, Respond, Fields
<1> QED
  BY <1>2, <1>5, <1>6, <1>7, OneFinds DEF At

LEMMA FindsStep == FindsInv /\ [RouteNext]_routeVars => FindsInv'
<1> SUFFICES ASSUME FindsInv, [RouteNext]_routeVars PROVE FindsInv'
  OBVIOUS
<1>0. TellsInv'
  BY TellsStep DEF FindsInv
<1>1. CASE UNCHANGED routeVars
  <2>1. req' = req /\ mtime' = mtime
    BY <1>1 DEF routeVars
  <2>2. FusingInv'
    BY <2>1 DEF FindsInv, FusingInv, At
  <2>3. KeepsInv'
    <3> SUFFICES ASSUME NEW r \in Requests, Answered(r)'
                 PROVE  /\ GivesWay(req[r].fused, req[r].comparative, req[r].kept)'
                        /\ ToSet(req'[r].nodes) \subseteq ToSet(req'[r].kept)
      BY DEF KeepsInv
    <3>1. /\ GivesWay(req'[r].fused, req'[r].comparative, req'[r].kept)
          /\ ToSet(req'[r].nodes) \subseteq ToSet(req'[r].kept)
      BY <2>1 DEF FindsInv, KeepsInv, Answered
    <3>2. GivesWay(req[r].fused, req[r].comparative, req[r].kept)'
      BY <2>1, <3>1 DEF GivesWay, Superseded, CurrentOf, Newest, Versions, PathsIn
    <3> QED
      BY <3>1, <3>2
  <2> QED
    BY <1>0, <2>1, <2>2, <2>3 DEF FindsInv
<1>2. CASE \E r \in Requests, route \in Routes, comparative \in BOOLEAN, k \in 1..MaxHits :
              Ask(r, route, comparative, k)
  BY <1>0, <1>2, AskFinds
<1>3. CASE \E r \in Requests, list \in Rankings : SearchWords(r, list) \/ SearchVectors(r, list)
  BY <1>0, <1>3, SearchWordsFinds, SearchVectorsFinds
<1>4. CASE \E r \in Requests, dense, lexical \in Rankings : QueryHybrid(r, dense, lexical)
  BY <1>0, <1>4, QueryHybridFinds
<1>5. CASE \E r \in Requests :
              ReadBackend(r) \/ ProbeBackend(r) \/ Fails(r) \/ Label(r) \/ Rank(r)
  BY <1>0, <1>5, ReadBackendFinds, ProbeBackendFinds, FailsFinds, LabelFinds, RankFinds
<1> QED
  BY <1>1, <1>2, <1>3, <1>4, <1>5 DEF RouteNext, Quiet

\* Whatever the two searches find, in SQL or in Python, a chunk that comes
\* before another in both of them, or in the one that finds either, comes
\* before it in the fused list.
THEOREM FusionKeepsAgreement == RouteSpec => []FusionRespectsAgreement
<1>1. FindsInv => FusionRespectsAgreement
  <2> SUFFICES ASSUME FindsInv, NEW r \in Requests, At(r, "label")
               PROVE  Agrees(req[r].fused, req[r].dense, req[r].lexical)
    BY DEF FusionRespectsAgreement, Agrees, With
  <2> QED
    BY InPythonAgrees, InSqlAgrees DEF FindsInv, FusingInv
<1> QED
  BY FindsInit, FindsStep, <1>1, PTL DEF RouteSpec

\* Of the versions of a file that were found the newest is in the answer's
\* choice, and a hit was held back only for the sake of one at least as new.
THEOREM NewestIsShown == RouteSpec => []VersionsGiveWay
<1>1. FindsInv => VersionsGiveWay
  <2> SUFFICES ASSUME FindsInv, NEW r \in Requests, Answered(r)
               PROVE  /\ ~req[r].comparative =>
                           \A c \in ToSet(req[r].nodes) :
                              Superseded(c) => CurrentOf(PathOf[c]) \notin PathsIn(req[r].fused)
                      /\ \A c \in ToSet(req[r].fused) \ ToSet(req[r].kept) :
                            ~req[r].comparative /\ \E d \in ToSet(req[r].kept) :
                               /\ KeyOf[PathOf[d]] = KeyOf[PathOf[c]]
                               /\ mtime[PathOf[d]] >= mtime[PathOf[c]]
                               /\ mtime[PathOf[d]] = mtime[PathOf[c]] /\ PathOf[d] \in Archived =>
                                     PathOf[c] \in Archived
    BY DEF VersionsGiveWay, SupersededGivesWay, DroppedForNewer
  <2>1. /\ GivesWay(req[r].fused, req[r].comparative, req[r].kept)
        /\ ToSet(req[r].nodes) \subseteq ToSet(req[r].kept)
    BY DEF FindsInv, KeepsInv
  <2> QED
    BY <2>1 DEF GivesWay
<1> QED
  BY FindsInit, FindsStep, <1>1, PTL DEF RouteSpec

----------------------------------------------------------------------------
(* Lists without some of their members.                                    *)

LEMMA WithoutLast ==
    ASSUME NEW T, NEW s \in Seq(T), NEW x \in T, NEW S
    PROVE  Without(Append(s, x), S) = IF x \in S THEN Without(s, S) ELSE Append(Without(s, S), x)
<1> DEFINE t == Append(s, x)
           G == {n \in Nat : Kept(t, S)[n] = Kept(s, S)[n]}
<1>1. /\ Len(s) \in Nat /\ t \in Seq(T) /\ Len(t) = Len(s) + 1 /\ t[Len(t)] = x
      /\ \A i \in 1 .. Len(s) : t[i] = s[i] /\ i \in 1 .. Len(t)
  OBVIOUS
<1> HIDE DEF t
<1>2. /\ Kept(s, S)[0] = <<>>
      /\ \A i \in 1 .. Len(s) :
            Kept(s, S)[i] = IF s[i] \in S THEN Kept(s, S)[i - 1] ELSE Append(Kept(s, S)[i - 1], s[i])
  BY <1>1, KeptIs
<1>3. /\ Kept(t, S)[0] = <<>>
      /\ \A i \in 1 .. Len(t) :
            Kept(t, S)[i] = IF t[i] \in S THEN Kept(t, S)[i - 1] ELSE Append(Kept(t, S)[i - 1], t[i])
  BY <1>1, KeptIs
<1>4. 0 \in G /\ \A n \in 1 .. Len(s) : n - 1 \in G => n \in G
  BY <1>1, <1>2, <1>3
<1>5. Len(s) \in G
  <2> HIDE DEF G
  <2> QED
    BY <1>1, <1>4, UpTo
<1>6. Kept(t, S)[Len(t)] = IF x \in S THEN Kept(t, S)[Len(s)] ELSE Append(Kept(t, S)[Len(s)], x)
  <2>1. Len(t) \in 1 .. Len(t) /\ Len(t) - 1 = Len(s)
    BY <1>1
  <2> QED
    BY <1>1, <1>3, <2>1
<1> QED
  BY <1>5, <1>6 DEF Without, t

LEMMA WithoutTwice ==
    ASSUME NEW T, NEW s \in Seq(T), NEW S, NEW R
    PROVE  Without(Without(s, S), R) = Without(s, S \union R)
<1> DEFINE a == Kept(s, S)
           b == Kept(s, S \union R)
           G == {n \in Nat : a[n] \in Seq(T) /\ Without(a[n], R) = b[n]}
<1>1. Len(s) \in Nat /\ \A i \in 1 .. Len(s) : s[i] \in T
  OBVIOUS
<1>2. /\ a[0] = <<>>
      /\ \A i \in 1 .. Len(s) : a[i] = IF s[i] \in S THEN a[i - 1] ELSE Append(a[i - 1], s[i])
  BY <1>1, KeptIs
<1>3. /\ b[0] = <<>>
      /\ \A i \in 1 .. Len(s) : b[i] = IF s[i] \in S \union R THEN b[i - 1] ELSE Append(b[i - 1], s[i])
  BY <1>1, KeptIs
<1> HIDE DEF a, b
<1>4. 0 \in G
  <2>1. Len(<<>>) \in Nat /\ Len(<<>>) = 0
    OBVIOUS
  <2>2. Kept(<<>>, R)[0] = <<>>
    BY <2>1, KeptIs
  <2>3. Without(<<>>, R) = <<>>
    BY <2>1, <2>2 DEF Without
  <2>4. a[0] \in Seq(T) /\ Without(a[0], R) = b[0]
    BY <1>2, <1>3, <2>3
  <2> QED
    BY <2>4
<1>5. ASSUME NEW n \in 1 .. Len(s), n - 1 \in G PROVE n \in G
  <2>1. a[n - 1] \in Seq(T) /\ Without(a[n - 1], R) = b[n - 1] /\ s[n] \in T /\ n \in Nat
    BY <1>1, <1>5
  <2>2. Without(Append(a[n - 1], s[n]), R) =
           IF s[n] \in R THEN Without(a[n - 1], R) ELSE Append(Without(a[n - 1], R), s[n])
    <3>1. \A l \in Seq(T), x \in T :
             Without(Append(l, x), R) = IF x \in R THEN Without(l, R) ELSE Append(Without(l, R), x)
      BY WithoutLast
    <3> QED
      BY <2>1, <3>1
  <2>3. Append(a[n - 1], s[n]) \in Seq(T)
    BY <2>1
  <2>4. CASE s[n] \in S
    BY <1>2, <1>3, <2>1, <2>4
  <2>5. CASE s[n] \notin S
    <3>1. a[n] = Append(a[n - 1], s[n])
      BY <1>2, <2>5
    <3>2. b[n] = IF s[n] \in R THEN b[n - 1] ELSE Append(b[n - 1], s[n])
      BY <1>3, <2>5
    <3> QED
      BY <2>1, <2>2, <2>3, <3>1, <3>2
  <2> QED
    BY <2>4, <2>5
<1>6. Len(s) \in G
  <2> HIDE DEF G
  <2> QED
    BY <1>1, <1>4, <1>5, UpTo
<1> QED
  BY <1>6 DEF Without, a, b

\* Only the members that are there count.
LEMMA WithoutSame ==
    ASSUME NEW T, NEW s \in Seq(T), NEW S, NEW R, \A x \in ToSet(s) : x \in S <=> x \in R
    PROVE  Without(s, S) = Without(s, R)
<1> DEFINE D == {i \in 1 .. Len(s) : s[i] \in S}
<1>1. Len(s) \in Nat /\ \A i \in 1 .. Len(s) : s[i] \in ToSet(s)
  BY DEF ToSet
<1>2. Marks(s, S, D, Len(s)) /\ Marks(s, R, D, Len(s))
  BY <1>1 DEF Marks
<1> HIDE DEF D
<1>3. PICK e : Tells(e, D, Len(s))
  BY <1>1, WithoutIs
<1>4. Without(s, S) = [k \in 1 .. Len(e) |-> s[e[k]]] /\ Without(s, R) = [k \in 1 .. Len(e) |-> s[e[k]]]
  BY <1>2, <1>3 DEF Tells
<1> QED
  BY <1>4

\* Of a list that begins with those that go, the rest is left.
LEMMA WithoutFirst ==
    ASSUME NEW T, NEW s \in Seq(T), NEW S, NEW k \in 0 .. Len(s),
           \A i \in 1 .. k : s[i] \in S, \A i \in k + 1 .. Len(s) : s[i] \notin S
    PROVE  Without(s, S) = SubSeq(s, k + 1, Len(s))
<1> DEFINE a == Kept(s, S)
           G == {n \in Nat : a[n] = SubSeq(s, k + 1, n)}
<1>1. Len(s) \in Nat /\ k \in Nat /\ \A i \in 1 .. Len(s) : s[i] \in T
  OBVIOUS
<1>2. /\ a[0] = <<>>
      /\ \A i \in 1 .. Len(s) : a[i] = IF s[i] \in S THEN a[i - 1] ELSE Append(a[i - 1], s[i])
  BY <1>1, KeptIs
<1> HIDE DEF a
<1>3. 0 \in G
  <2>1. SubSeq(s, k + 1, 0) = <<>>
    BY <1>1
  <2> QED
    BY <1>2, <2>1
<1>4. ASSUME NEW n \in 1 .. Len(s), n - 1 \in G PROVE n \in G
  <2>1. n \in Nat /\ n - 1 \in Nat /\ a[n - 1] = SubSeq(s, k + 1, n - 1)
    BY <1>4
  <2>2. CASE n <= k
    <3>1. SubSeq(s, k + 1, n - 1) = <<>> /\ SubSeq(s, k + 1, n) = <<>>
      BY <1>1, <2>1, <2>2
    <3>2. n \in 1 .. k
      BY <1>1, <2>2
    <3> QED
      BY <1>2, <2>1, <3>1, <3>2
  <2>3. CASE n > k
    <3>1. n \in k + 1 .. Len(s)
      BY <1>1, <2>3
    <3>2. a[n] = Append(SubSeq(s, k + 1, n - 1), s[n])
      BY <1>2, <2>1, <3>1
    <3>3. Append(SubSeq(s, k + 1, n - 1), s[n]) = SubSeq(s, k + 1, n)
      BY <1>1, <2>1, <2>3
    <3> QED
      BY <2>1, <3>2, <3>3
  <2> QED
    BY <1>1, <2>1, <2>2, <2>3
<1>5. Len(s) \in G
  <2> HIDE DEF G
  <2> QED
    BY <1>1, <1>3, <1>4, UpTo
<1> QED
  BY <1>5 DEF Without, a

LEMMA LastIs ==
    ASSUME NEW T, NEW s \in Seq(T), NEW x \in T
    PROVE  /\ ToSet(Append(s, x)) = ToSet(s) \union {x}
           /\ IsInjective(s) /\ x \notin ToSet(s) => IsInjective(Append(s, x))
<1> DEFINE t == Append(s, x)
<1>1. /\ Len(s) \in Nat /\ DOMAIN s = 1 .. Len(s) /\ DOMAIN t = 1 .. Len(s) + 1
      /\ t[Len(s) + 1] = x /\ \A i \in 1 .. Len(s) : t[i] = s[i] /\ i \in 1 .. Len(s) + 1
  OBVIOUS
<1>2. \A i \in 1 .. Len(s) + 1 : i \in 1 .. Len(s) \/ i = Len(s) + 1
  BY <1>1
<1>3. Len(s) + 1 \in 1 .. Len(s) + 1
  BY <1>1
<1> HIDE DEF t
<1>4. ToSet(t) = ToSet(s) \union {x}
  BY <1>1, <1>2, <1>3 DEF ToSet
<1>5. IsInjective(s) /\ x \notin ToSet(s) => IsInjective(t)
  BY <1>1, <1>2 DEF IsInjective, ToSet
<1> QED
  BY <1>4, <1>5 DEF t

LEMMA WithoutInjective ==
    ASSUME NEW T, NEW s \in Seq(T), IsInjective(s), NEW S
    PROVE  IsInjective(Without(s, S))
<1> DEFINE D == {i \in 1 .. Len(s) : s[i] \in S}
           rest == Without(s, S)
<1>1. Len(s) \in Nat /\ DOMAIN s = 1 .. Len(s)
  OBVIOUS
<1>2. PICK e : Tells(e, D, Len(s))
  BY <1>1, WithoutIs
<1>3. Remain(e, D, Len(s)) /\ rest = [k \in 1 .. Len(e) |-> s[e[k]]]
  BY <1>2 DEF Tells, Marks
<1>4. Len(e) \in Nat /\ \A k \in 1 .. Len(e) : e[k] \in 1 .. Len(s)
  BY <1>3 DEF Remain
<1> HIDE DEF rest
<1>5. ASSUME NEW i \in 1 .. Len(e), NEW j \in 1 .. Len(e), rest[i] = rest[j] PROVE i = j
  <2>1. e[i] = e[j]
    BY <1>1, <1>3, <1>4, <1>5 DEF IsInjective
  <2>2. ~(i < j) /\ ~(j < i)
    BY <1>3, <1>4, <2>1 DEF Remain
  <2> QED
    BY <1>4, <2>2
<1> QED
  BY <1>3, <1>5 DEF IsInjective, rest

LEMMA RemoveAtIs ==
    ASSUME NEW T, NEW s \in Seq(T), IsInjective(s), NEW n \in 1 .. Len(s)
    PROVE  /\ RemoveAt(s, n) \in Seq(T) /\ IsInjective(RemoveAt(s, n))
           /\ ToSet(RemoveAt(s, n)) = ToSet(s) \ {s[n]}
<1> DEFINE rest == RemoveAt(s, n)
           old(i) == IF i < n THEN i ELSE i + 1
<1>1. Len(s) \in Nat /\ DOMAIN s = 1 .. Len(s) /\ n \in Nat
  OBVIOUS
<1> DEFINE before == SubSeq(s, 1, n - 1)
           after == SubSeq(s, n + 1, Len(s))
<1>2. /\ before \in Seq(T) /\ Len(before) = n - 1
      /\ \A i \in 1 .. n - 1 : before[i] = s[i]
  OBVIOUS
<1>3. /\ after \in Seq(T) /\ Len(after) = Len(s) - n
      /\ \A i \in 1 .. Len(s) - n : after[i] = s[n + i]
  <2>1. n + 1 \in Int /\ Len(s) \in Int /\ \A i \in n + 1 .. Len(s) : s[i] \in T
    OBVIOUS
  <2>2. /\ after \in Seq(T) /\ Len(after) = IF n + 1 <= Len(s) THEN Len(s) - (n + 1) + 1 ELSE 0
        /\ \A i \in 1 .. Len(s) - (n + 1) + 1 : after[i] = s[n + 1 + i - 1]
    BY <2>1, SubSeqProperties
  <2> HIDE DEF after
  <2> DEFINE N == Len(s)
  <2>3. N \in Nat /\ n \in 1 .. N
    BY <1>1
  <2>4. Len(after) = N - n
    <3>1. Len(after) = IF n + 1 <= N THEN N - (n + 1) + 1 ELSE 0
      BY <2>2
    <3> HIDE DEF N
    <3> QED
      BY <2>3, <3>1
  <2>5. \A i \in 1 .. N - n : after[i] = s[n + i]
    <3>1. \A i \in 1 .. N - (n + 1) + 1 : after[i] = s[n + 1 + i - 1]
      BY <2>2
    <3> HIDE DEF N
    <3> SUFFICES ASSUME NEW i \in 1 .. N - n PROVE after[i] = s[n + i]
      OBVIOUS
    <3>2. i \in 1 .. N - (n + 1) + 1 /\ n + 1 + i - 1 = n + i
      BY <2>3
    <3> QED
      BY <3>1, <3>2
  <2> QED
    BY <2>2, <2>4, <2>5
<1>4. rest = before \o after
  BY DEF RemoveAt
<1> HIDE DEF before, after, rest
<1>5. /\ rest \in Seq(T) /\ Len(rest) = Len(s) - 1 /\ DOMAIN rest = 1 .. Len(s) - 1
      /\ \A i \in 1 .. Len(s) - 1 : rest[i] = IF i <= n - 1 THEN before[i] ELSE after[i - (n - 1)]
  <2>1. /\ rest \in Seq(T) /\ Len(rest) = Len(before) + Len(after)
        /\ \A i \in 1 .. Len(before) + Len(after) :
              rest[i] = IF i <= Len(before) THEN before[i] ELSE after[i - Len(before)]
    BY <1>2, <1>3, <1>4, ConcatProperties
  <2>2. Len(before) + Len(after) = Len(s) - 1
    BY <1>1, <1>2, <1>3
  <2> QED
    BY <1>2, <2>1, <2>2
<1>6. ASSUME NEW i \in 1 .. Len(s) - 1
      PROVE  rest[i] = s[old(i)] /\ old(i) \in 1 .. Len(s) \ {n}
  <2>1. CASE i < n
    <3>1. i \in 1 .. n - 1 /\ i <= n - 1
      BY <1>1, <2>1
    <3>2. rest[i] = before[i] /\ before[i] = s[i]
      BY <1>2, <1>5, <3>1
    <3> QED
      BY <1>1, <2>1, <3>2
  <2>2. CASE ~(i < n)
    <3>1. i - (n - 1) \in 1 .. Len(s) - n /\ n + (i - (n - 1)) = i + 1 /\ ~(i <= n - 1)
      BY <1>1, <2>2
    <3>2. rest[i] = after[i - (n - 1)]
      BY <1>5, <3>1
    <3>3. after[i - (n - 1)] = s[i + 1]
      BY <1>3, <3>1
    <3> QED
      BY <1>1, <2>2, <3>2, <3>3
  <2> QED
    BY <2>1, <2>2
<1>7. IsInjective(rest)
  <2> SUFFICES ASSUME NEW i \in 1 .. Len(s) - 1, NEW j \in 1 .. Len(s) - 1, rest[i] = rest[j] PROVE i = j
    BY <1>5 DEF IsInjective
  <2>1. old(i) = old(j)
    BY <1>1, <1>6 DEF IsInjective
  <2> QED
    BY <1>1, <2>1
<1>8. ToSet(rest) \subseteq ToSet(s) \ {s[n]}
  <2> SUFFICES ASSUME NEW i \in 1 .. Len(s) - 1 PROVE rest[i] \in ToSet(s) /\ rest[i] # s[n]
    BY <1>5 DEF ToSet
  <2> QED
    BY <1>1, <1>6 DEF ToSet, IsInjective
<1>9. ASSUME NEW i \in 1 .. Len(s), s[i] # s[n] PROVE s[i] \in ToSet(rest)
  <2> DEFINE j == IF i < n THEN i ELSE i - 1
  <2>1. j \in 1 .. Len(s) - 1 /\ old(j) = i
    BY <1>1, <1>9
  <2>2. rest[j] = s[i]
    BY <1>6, <2>1
  <2> QED
    BY <1>5, <2>1, <2>2 DEF ToSet
<1> QED
  BY <1>1, <1>5, <1>7, <1>8, <1>9 DEF ToSet, rest

LEMMA InjectiveLength ==
    ASSUME NEW T, NEW s \in Seq(T), IsInjective(s)
    PROVE  IsFiniteSet(ToSet(s)) /\ Cardinality(ToSet(s)) = Len(s)
<1>1. Len(s) \in Nat /\ DOMAIN s = 1 .. Len(s) /\ s \in [1 .. Len(s) -> ToSet(s)]
  <2>1. Len(s) \in Nat /\ DOMAIN s = 1 .. Len(s) /\ s = [i \in 1 .. Len(s) |-> s[i]]
    OBVIOUS
  <2>2. \A i \in 1 .. Len(s) : s[i] \in ToSet(s)
    BY DEF ToSet
  <2> QED
    BY <2>1, <2>2
<1>2. IsFiniteSet(1 .. Len(s)) /\ Cardinality(1 .. Len(s)) = Len(s)
  BY <1>1, FS_Interval
<1>3. s \in Bijection(1 .. Len(s), ToSet(s))
  BY <1>1 DEF Bijection, Injection, Surjection, IsInjective, ToSet
<1> QED
  BY <1>2, <1>3, FS_Bijection DEF ExistsBijection

----------------------------------------------------------------------------
(* The cache's entries, keys and order of use.                             *)

LEMMA KeysOfIs ==
    ASSUME NEW es \in Seq(Entry)
    PROVE  /\ KeysOf(es) \in Seq(Queries) /\ Len(KeysOf(es)) = Len(es)
           /\ DOMAIN KeysOf(es) = 1 .. Len(es) /\ DOMAIN es = 1 .. Len(es)
           /\ \A i \in 1 .. Len(es) : KeysOf(es)[i] = es[i].key /\ es[i] \in Entry
           /\ ToSet(KeysOf(es)) = {e.key : e \in ToSet(es)}
<1>1. DOMAIN es = 1 .. Len(es) /\ Len(es) \in Nat /\ \A i \in 1 .. Len(es) : es[i] \in Entry
  OBVIOUS
<1>2. \A e \in Entry : e.key \in Queries
  BY DEF Entry
<1>3. KeysOf(es) = [i \in 1 .. Len(es) |-> es[i].key]
  BY <1>1 DEF KeysOf
<1>4. KeysOf(es) \in Seq(Queries) /\ Len(KeysOf(es)) = Len(es) /\ DOMAIN KeysOf(es) = 1 .. Len(es)
  BY <1>1, <1>2, <1>3
<1>5. ToSet(KeysOf(es)) = {e.key : e \in ToSet(es)}
  BY <1>1, <1>3, <1>4 DEF ToSet
<1> QED
  BY <1>1, <1>3, <1>4, <1>5

LEMMA KeysOfLast ==
    ASSUME NEW es \in Seq(Entry), NEW e \in Entry
    PROVE  KeysOf(Append(es, e)) = Append(KeysOf(es), e.key)
<1> DEFINE new == Append(es, e)
           ks == Append(KeysOf(es), e.key)
<1>1. /\ new \in Seq(Entry) /\ Len(new) = Len(es) + 1 /\ new[Len(es) + 1] = e
      /\ Len(es) \in Nat /\ \A i \in 1 .. Len(es) : new[i] = es[i]
  OBVIOUS
<1>2. e.key \in Queries
  BY DEF Entry
<1>3. /\ ks \in Seq(Queries) /\ Len(ks) = Len(es) + 1 /\ ks[Len(es) + 1] = e.key
      /\ \A i \in 1 .. Len(es) : ks[i] = es[i].key
  <2>1. /\ KeysOf(es) \in Seq(Queries) /\ Len(KeysOf(es)) = Len(es)
        /\ \A i \in 1 .. Len(es) : KeysOf(es)[i] = es[i].key
    BY KeysOfIs
  <2> QED
    BY <1>2, <2>1
<1> HIDE DEF new, ks
<1>4. /\ KeysOf(new) \in Seq(Queries) /\ Len(KeysOf(new)) = Len(es) + 1
      /\ \A i \in 1 .. Len(es) + 1 : KeysOf(new)[i] = new[i].key
  BY <1>1, KeysOfIs
<1>5. \A i \in 1 .. Len(es) + 1 : i \in 1 .. Len(es) \/ i = Len(es) + 1
  BY <1>1
<1>6. \A i \in 1 .. Len(es) + 1 : KeysOf(new)[i] = ks[i]
  BY <1>1, <1>3, <1>4, <1>5
<1> QED
  BY <1>3, <1>4, <1>6 DEF new, ks

LEMMA KeysOfRest ==
    ASSUME NEW es \in Seq(Entry), NEW m \in Nat, NEW n \in Nat, m > 0, n <= Len(es)
    PROVE  KeysOf(SubSeq(es, m, n)) = SubSeq(KeysOf(es), m, n)
<1> DEFINE sub == SubSeq(es, m, n)
           ks == SubSeq(KeysOf(es), m, n)
           L == IF m <= n THEN n - m + 1 ELSE 0
<1>1. /\ KeysOf(es) \in Seq(Queries) /\ Len(es) \in Nat
      /\ \A i \in m .. n : es[i] \in Entry /\ KeysOf(es)[i] \in Queries /\ KeysOf(es)[i] = es[i].key
  <2>1. \A i \in m .. n : i \in 1 .. Len(es)
    OBVIOUS
  <2>2. \A i \in 1 .. Len(es) : es[i] \in Entry /\ KeysOf(es)[i] = es[i].key
    BY KeysOfIs
  <2>3. \A e \in Entry : e.key \in Queries
    BY DEF Entry
  <2> QED
    BY <2>1, <2>2, <2>3, KeysOfIs
<1>2. /\ sub \in Seq(Entry) /\ Len(sub) = L
      /\ \A i \in 1 .. n - m + 1 : sub[i] = es[m + i - 1]
  BY <1>1, SubSeqProperties
<1>3. /\ ks \in Seq(Queries) /\ Len(ks) = L
      /\ \A i \in 1 .. n - m + 1 : ks[i] = KeysOf(es)[m + i - 1]
  BY <1>1, SubSeqProperties
<1>4. L \in Nat /\ \A i \in 1 .. L : i \in 1 .. n - m + 1 /\ m + i - 1 \in m .. n
  OBVIOUS
<1> HIDE DEF sub, ks, L
<1>5. /\ KeysOf(sub) \in Seq(Queries) /\ Len(KeysOf(sub)) = L
      /\ \A i \in 1 .. L : KeysOf(sub)[i] = sub[i].key
  BY <1>2, KeysOfIs
<1>6. \A i \in 1 .. L : KeysOf(sub)[i] = ks[i]
  BY <1>1, <1>2, <1>3, <1>4, <1>5
<1> QED
  BY <1>3, <1>5, <1>6 DEF sub, ks

\* The keys of what is left are what is left of the keys.
LEMMA KeysOfWithout ==
    ASSUME NEW es \in Seq(Entry), NEW S, NEW R, \A e \in ToSet(es) : e \in S <=> e.key \in R
    PROVE  Without(es, S) \in Seq(Entry) /\ KeysOf(Without(es, S)) = Without(KeysOf(es), R)
<1> DEFINE D == {i \in 1 .. Len(es) : es[i] \in S}
<1>1. /\ Len(es) \in Nat /\ Len(KeysOf(es)) = Len(es)
      /\ \A i \in 1 .. Len(es) : KeysOf(es)[i] = es[i].key /\ es[i] \in ToSet(es)
  BY KeysOfIs DEF ToSet
<1>2. Marks(es, S, D, Len(es)) /\ Marks(KeysOf(es), R, D, Len(es))
  BY <1>1 DEF Marks
<1> HIDE DEF D
<1>3. PICK e : Tells(e, D, Len(es))
  BY <1>1, WithoutIs
<1>4. /\ Without(es, S) = [k \in 1 .. Len(e) |-> es[e[k]]]
      /\ Without(KeysOf(es), R) = [k \in 1 .. Len(e) |-> KeysOf(es)[e[k]]]
  BY <1>2, <1>3 DEF Tells
<1>5. Len(e) \in Nat /\ \A k \in 1 .. Len(e) : e[k] \in 1 .. Len(es)
  BY <1>3 DEF Tells, Remain
<1>6. Without(es, S) \in Seq(Entry)
  BY WithoutSet
<1>7. KeysOf(Without(es, S)) = [k \in 1 .. Len(e) |-> es[e[k]].key]
  BY <1>4 DEF KeysOf
<1>8. \A k \in 1 .. Len(e) : es[e[k]].key = KeysOf(es)[e[k]]
  BY <1>1, <1>5
<1> QED
  BY <1>4, <1>6, <1>7, <1>8

\* The entries have the keys ks, in the order in which the queries rec were used.
InStep(es, ks, rec) ==
    /\ es \in Seq(Entry) /\ ks \in Seq(Queries) /\ rec \in Seq(Queries)
    /\ IsInjective(ks) /\ IsInjective(KeysOf(es)) /\ ToSet(ks) = ToSet(KeysOf(es))
    /\ KeysOf(es) = Without(rec, ToSet(rec) \ ToSet(ks))

\* An entry that goes.
LEMMA DropStays ==
    ASSUME NEW es, NEW ks, NEW rec, InStep(es, ks, rec), NEW n \in 1 .. Len(ks)
    PROVE  LET left == Others(es, ks[n])
           IN InStep(left, RemoveAt(ks, n), rec) /\ Len(left) <= Len(es) /\ ToSet(left) \subseteq ToSet(es)
<1> DEFINE S == {e \in ToSet(es) : e.key = ks[n]}
           left == Without(es, S)
           rest == RemoveAt(ks, n)
<1>1. /\ es \in Seq(Entry) /\ ks \in Seq(Queries) /\ rec \in Seq(Queries)
      /\ IsInjective(ks) /\ IsInjective(KeysOf(es)) /\ ToSet(ks) = ToSet(KeysOf(es))
      /\ KeysOf(es) = Without(rec, ToSet(rec) \ ToSet(ks)) /\ KeysOf(es) \in Seq(Queries)
  BY KeysOfIs DEF InStep
<1>2. left \in Seq(Entry) /\ KeysOf(left) = Without(KeysOf(es), {ks[n]})
  <2>1. \A e \in ToSet(es) : e \in S <=> e.key \in {ks[n]}
    OBVIOUS
  <2> HIDE DEF S
  <2> QED
    BY <1>1, <2>1, KeysOfWithout
<1>3. rest \in Seq(Queries) /\ IsInjective(rest) /\ ToSet(rest) = ToSet(ks) \ {ks[n]}
  BY <1>1, RemoveAtIs
<1>4. ToSet(left) \subseteq ToSet(es)
  BY <1>1, WithoutSet
<1> HIDE DEF left, rest
<1>5. IsInjective(KeysOf(left)) /\ ToSet(KeysOf(left)) = ToSet(KeysOf(es)) \ {ks[n]}
  BY <1>1, <1>2, WithoutInjective, WithoutSet
<1>6. KeysOf(left) = Without(rec, ToSet(rec) \ ToSet(rest))
  <2>1. KeysOf(left) = Without(rec, (ToSet(rec) \ ToSet(ks)) \union {ks[n]})
    <3> DEFINE A == ToSet(rec) \ ToSet(ks)
               B == {ks[n]}
    <3>1. KeysOf(left) = Without(Without(rec, A), B)
      BY <1>1, <1>2
    <3> HIDE DEF A, B
    <3>2. Without(Without(rec, A), B) = Without(rec, A \union B)
      BY <1>1, WithoutTwice
    <3> QED
      BY <3>1, <3>2 DEF A, B
  <2>2. \A x \in ToSet(rec) :
           x \in (ToSet(rec) \ ToSet(ks)) \union {ks[n]} <=> x \in ToSet(rec) \ ToSet(rest)
    <3>1. ks[n] \in ToSet(ks)
      BY <1>1 DEF ToSet
    <3> QED
      BY <1>3, <3>1
  <2> QED
    BY <1>1, <2>1, <2>2, WithoutSame
<1>7. Len(left) <= Len(es)
  <2>1. IsFiniteSet(ToSet(KeysOf(es))) /\ Cardinality(ToSet(KeysOf(es))) = Len(es)
    BY <1>1, InjectiveLength, KeysOfIs
  <2>2. Cardinality(ToSet(KeysOf(left))) = Len(left)
    <3>1. KeysOf(left) \in Seq(Queries) /\ Len(KeysOf(left)) = Len(left)
      BY <1>2, KeysOfIs
    <3> QED
      BY <1>5, <3>1, InjectiveLength
  <2>3. Cardinality(ToSet(KeysOf(left))) <= Cardinality(ToSet(KeysOf(es)))
    BY <1>5, <2>1, FS_Subset
  <2> QED
    BY <2>1, <2>2, <2>3
<1> QED
  BY <1>1, <1>2, <1>3, <1>4, <1>5, <1>6, <1>7 DEF InStep, left, rest, Others

LEMMA InStepIs ==
    ASSUME NEW es, NEW ks, NEW rec, InStep(es, ks, rec)
    PROVE  /\ Len(es) = Cardinality(ToSet(ks)) /\ Len(ks) = Cardinality(ToSet(ks))
           /\ IsFiniteSet(ToSet(ks)) /\ KeysOf(es) \in Seq(Queries) /\ Len(es) \in Nat
<1>1. KeysOf(es) \in Seq(Queries) /\ Len(KeysOf(es)) = Len(es)
  BY KeysOfIs DEF InStep
<1> QED
  BY <1>1, InjectiveLength DEF InStep

\* A query that is used again is the last one used.
LastOf(rec, K, q, L) ==
    LET moved == Append(Without(rec, {q}), q)
    IN /\ moved \in Seq(Queries)
       /\ Without(moved, ToSet(moved) \ L) = Append(Without(rec, (ToSet(rec) \ K) \union {q}), q)
LEMMA MovedIsLast ==
    ASSUME NEW rec \in Seq(Queries), NEW K, NEW q \in Queries, NEW L,
           q \in L, \A x \in ToSet(rec) : x # q => (x \in L <=> x \in K)
    PROVE  LastOf(rec, K, q, L)
<1> DEFINE rest == Without(rec, {q})
           moved == Append(rest, q)
           A == ToSet(moved) \ L
           B == (ToSet(rec) \ K) \union {q}
<1>1. rest \in Seq(Queries) /\ ToSet(rest) = ToSet(rec) \ {q}
  BY WithoutSet
<1> HIDE DEF rest
<1>2. moved \in Seq(Queries) /\ ToSet(moved) = (ToSet(rec) \ {q}) \union {q}
  BY <1>1, LastIs
<1>3. Without(moved, A) = Append(Without(rest, A), q)
  <2>1. q \notin A
    OBVIOUS
  <2> HIDE DEF A
  <2> QED
    BY <1>1, <2>1, WithoutLast
<1>4. Without(rest, A) = Without(rec, {q} \union A)
  <2> HIDE DEF A
  <2> QED
    BY WithoutTwice DEF rest
<1>5. \A x \in ToSet(rec) : x \in {q} \union A <=> x \in B
  BY <1>2
<1>6. Without(rec, {q} \union A) = Without(rec, B)
  <2> DEFINE C == {q} \union A
  <2>1. \A x \in ToSet(rec) : x \in C <=> x \in B
    BY <1>5
  <2> HIDE DEF C, B
  <2>2. Without(rec, C) = Without(rec, B)
    BY <2>1, WithoutSame
  <2> QED
    BY <2>2 DEF C
<1> QED
  BY <1>2, <1>3, <1>4, <1>6 DEF rest, LastOf

\* An entry that is used or replaced, by e: S has what was there under e's key.
LEMMA UseStays ==
    ASSUME NEW es, NEW ks, NEW rec, InStep(es, ks, rec), NEW e \in Entry, e.key \in ToSet(ks),
           NEW S, \A x \in ToSet(es) : x \in S <=> x.key = e.key
    PROVE  LET new == Append(Without(es, S), e)
           IN InStep(new, ks, Append(Without(rec, {e.key}), e.key)) /\ Len(new) = Len(es)
<1> DEFINE q == e.key
           rest == Without(es, S)
           new == Append(rest, e)
           moved == Append(Without(rec, {q}), q)
           N == ToSet(rec) \ ToSet(ks)
<1>1. /\ es \in Seq(Entry) /\ ks \in Seq(Queries) /\ rec \in Seq(Queries)
      /\ IsInjective(ks) /\ IsInjective(KeysOf(es)) /\ ToSet(ks) = ToSet(KeysOf(es))
      /\ KeysOf(es) = Without(rec, N) /\ KeysOf(es) \in Seq(Queries) /\ q \in Queries
  BY KeysOfIs DEF InStep, Entry
<1>2. rest \in Seq(Entry) /\ KeysOf(rest) = Without(KeysOf(es), {q})
  <2>1. \A x \in ToSet(es) : x \in S <=> x.key \in {q}
    OBVIOUS
  <2> HIDE DEF q
  <2> QED
    BY <1>1, <2>1, KeysOfWithout
<1>3. IsInjective(KeysOf(rest)) /\ KeysOf(rest) \in Seq(Queries) /\ ToSet(KeysOf(rest)) = ToSet(ks) \ {q}
  <2>1. IsInjective(Without(KeysOf(es), {q}))
    BY <1>1, WithoutInjective
  <2>2. ToSet(Without(KeysOf(es), {q})) = ToSet(KeysOf(es)) \ {q} /\ Without(KeysOf(es), {q}) \in Seq(Queries)
    BY <1>1, WithoutSet
  <2> QED
    BY <1>1, <1>2, <2>1, <2>2
<1>4. new \in Seq(Entry) /\ KeysOf(new) = Append(KeysOf(rest), q)
  <2> HIDE DEF rest
  <2>1. KeysOf(Append(rest, e)) = Append(KeysOf(rest), e.key)
    BY <1>2, KeysOfLast
  <2>2. Append(rest, e) \in Seq(Entry)
    BY <1>2
  <2> QED
    BY <2>1, <2>2
<1>5. IsInjective(KeysOf(new)) /\ ToSet(KeysOf(new)) = ToSet(ks)
  <2>1. q \notin ToSet(KeysOf(rest))
    BY <1>3
  <2> HIDE DEF rest, q
  <2> DEFINE s == KeysOf(rest)
  <2>5. s \in Seq(Queries) /\ IsInjective(s) /\ q \notin ToSet(s)
    BY <1>3, <2>1
  <2> HIDE DEF s
  <2>2. IsInjective(Append(s, q)) /\ ToSet(Append(s, q)) = ToSet(s) \union {q}
    BY <1>1, <2>5, LastIs
  <2>3. q \in ToSet(ks)
    BY DEF q
  <2> QED
    BY <1>3, <1>4, <2>2, <2>3 DEF s
<1>6. KeysOf(rest) = Without(rec, N \union {q})
  <2>1. KeysOf(rest) = Without(Without(rec, N), {q})
    BY <1>1, <1>2
  <2> HIDE DEF N, q, rest
  <2>2. Without(Without(rec, N), {q}) = Without(rec, N \union {q})
    BY <1>1, WithoutTwice
  <2> QED
    BY <2>1, <2>2
<1>7. /\ moved \in Seq(Queries)
      /\ Without(moved, ToSet(moved) \ ToSet(ks)) = Append(Without(rec, N \union {q}), q)
  <2> DEFINE K == ToSet(ks)
  <2>1. q \in K /\ \A x \in ToSet(rec) : x # q => (x \in K <=> x \in K)
    OBVIOUS
  <2> HIDE DEF q, K
  <2>2. LastOf(rec, K, q, K)
    BY <1>1, <2>1, MovedIsLast
  <2> QED
    BY <2>2 DEF K, LastOf
<1>8. InStep(new, ks, moved)
  <2> HIDE DEF new, moved, rest, q, N
  <2> QED
    BY <1>1, <1>4, <1>5, <1>6, <1>7 DEF InStep
<1>9. Len(new) = Len(es)
  <2> HIDE DEF new, moved
  <2> QED
    BY <1>8, InStepIs
<1> QED
  BY <1>8, <1>9

\* A new entry, before which the first k go.
LEMMA AddStays ==
    ASSUME NEW es, NEW ks, NEW rec, InStep(es, ks, rec), NEW e \in Entry, e.key \notin ToSet(ks),
           NEW k \in 0 .. Len(es)
    PROVE  LET gone == ToSet(KeysOf(SubSeq(es, 1, k)))
               new == Append(SubSeq(es, k + 1, Len(es)), e)
           IN /\ InStep(new, Append(Without(ks, gone), e.key), Append(Without(rec, {e.key}), e.key))
              /\ Len(new) = Len(es) - k + 1
              /\ ToSet(new) \subseteq ToSet(es) \union {e}
<1> DEFINE q == e.key
           gone == ToSet(KeysOf(SubSeq(es, 1, k)))
           rest == SubSeq(es, k + 1, Len(es))
           new == Append(rest, e)
           stay == Without(ks, gone)
           all == Append(stay, q)
           moved == Append(Without(rec, {q}), q)
           N == ToSet(rec) \ ToSet(ks)
<1>1. /\ es \in Seq(Entry) /\ ks \in Seq(Queries) /\ rec \in Seq(Queries)
      /\ IsInjective(ks) /\ IsInjective(KeysOf(es)) /\ ToSet(ks) = ToSet(KeysOf(es))
      /\ KeysOf(es) = Without(rec, N) /\ q \in Queries
  BY DEF InStep, Entry
<1>2. /\ KeysOf(es) \in Seq(Queries) /\ Len(KeysOf(es)) = Len(es) /\ DOMAIN KeysOf(es) = 1 .. Len(es)
      /\ Len(es) \in Nat /\ k \in Nat /\ k <= Len(es)
  <2>1. KeysOf(es) \in Seq(Queries) /\ Len(KeysOf(es)) = Len(es) /\ DOMAIN KeysOf(es) = 1 .. Len(es)
    BY <1>1, KeysOfIs
  <2>2. Len(es) \in Nat
    BY <1>1
  <2> QED
    BY <2>1, <2>2
<1>3. gone = {KeysOf(es)[i] : i \in 1 .. k}
  <2>1. KeysOf(SubSeq(es, 1, k)) = SubSeq(KeysOf(es), 1, k)
    <3> DEFINE m == 1
    <3>1. m \in Nat /\ m > 0 /\ k \in Nat /\ k <= Len(es)
      BY <1>2
    <3> HIDE DEF m
    <3>2. KeysOf(SubSeq(es, m, k)) = SubSeq(KeysOf(es), m, k)
      BY <1>1, <3>1, KeysOfRest
    <3> QED
      BY <3>2 DEF m
  <2>2. SubSeq(KeysOf(es), 1, k) = [i \in 1 .. k |-> KeysOf(es)[i]]
    <3> DEFINE s == KeysOf(es)
    <3>1. s \in Seq(Queries) /\ Len(s) \in Nat /\ k <= Len(s)
      BY <1>2
    <3> HIDE DEF s
    <3>2. SubSeq(s, 1, k) = [i \in 1 .. k |-> s[i]]
      BY <1>2, <3>1
    <3> QED
      BY <3>2 DEF s
  <2> QED
    BY <2>1, <2>2 DEF ToSet
<1>4. KeysOf(rest) = Without(KeysOf(es), gone) /\ rest \in Seq(Entry) /\ Len(rest) = Len(es) - k
  <2>1. KeysOf(rest) = SubSeq(KeysOf(es), k + 1, Len(es))
    <3> DEFINE m == k + 1
               n == Len(es)
    <3>1. m \in Nat /\ m > 0 /\ n \in Nat /\ n <= Len(es)
      BY <1>2
    <3> HIDE DEF m, n
    <3>2. KeysOf(SubSeq(es, m, n)) = SubSeq(KeysOf(es), m, n)
      BY <1>1, <3>1, KeysOfRest
    <3> QED
      BY <3>2 DEF m, n
  <2>2. \A i \in 1 .. k : KeysOf(es)[i] \in gone
    BY <1>3
  <2>3. \A i \in k + 1 .. Len(es) : KeysOf(es)[i] \notin gone
    <3> SUFFICES ASSUME NEW i \in k + 1 .. Len(es), NEW j \in 1 .. k, KeysOf(es)[i] = KeysOf(es)[j] PROVE FALSE
      BY <1>3
    <3>1. i \in 1 .. Len(es) /\ j \in 1 .. Len(es) /\ i # j
      BY <1>2
    <3> QED
      BY <1>1, <1>2, <3>1 DEF IsInjective
  <2>4. Without(KeysOf(es), gone) = SubSeq(KeysOf(es), k + 1, Len(es))
    <3> HIDE DEF gone
    <3> QED
      BY <1>2, <2>2, <2>3, WithoutFirst
  <2>5. rest \in Seq(Entry) /\ Len(rest) = Len(es) - k
    <3>1. k + 1 \in 1 .. Len(es) + 1 /\ Len(es) \in k .. Len(es)
      BY <1>2
    <3>2. Len(rest) = IF k + 1 <= Len(es) THEN Len(es) - (k + 1) + 1 ELSE 0
      BY <1>1, <1>2, <3>1, SubSeqProperties
    <3>3. rest \in Seq(Entry)
      BY <1>1, <1>2, <3>1, SubSeqProperties
    <3> HIDE DEF rest
    <3>4. Len(rest) = Len(es) - k
      <4> DEFINE n == Len(es)
      <4>1. n \in Nat /\ k \in Nat /\ k <= n /\ Len(rest) = IF k + 1 <= n THEN n - (k + 1) + 1 ELSE 0
        BY <1>2, <3>2
      <4> HIDE DEF n
      <4>2. Len(rest) = n - k
        BY <4>1
      <4> QED
        BY <4>2 DEF n
    <3> QED
      BY <3>3, <3>4
  <2> QED
    BY <2>1, <2>4, <2>5
<1>5. /\ stay \in Seq(Queries) /\ ToSet(stay) = ToSet(ks) \ gone /\ IsInjective(stay)
      /\ KeysOf(rest) \in Seq(Queries) /\ ToSet(KeysOf(rest)) = ToSet(ks) \ gone /\ IsInjective(KeysOf(rest))
  <2> HIDE DEF gone
  <2>1. Without(KeysOf(es), gone) \in Seq(Queries) /\ ToSet(Without(KeysOf(es), gone)) = ToSet(KeysOf(es)) \ gone
    BY <1>2, WithoutSet
  <2>2. IsInjective(Without(KeysOf(es), gone))
    BY <1>1, <1>2, WithoutInjective
  <2> QED
    BY <1>1, <1>4, <2>1, <2>2, WithoutSet, WithoutInjective
<1>6. q \notin ToSet(stay) /\ q \notin ToSet(KeysOf(rest))
  BY <1>5
<1>7. KeysOf(rest) = Without(rec, N \union gone)
  <2> HIDE DEF N, gone, rest
  <2>1. Without(Without(rec, N), gone) = Without(rec, N \union gone)
    BY <1>1, WithoutTwice
  <2> QED
    BY <1>1, <1>4, <2>1
<1> HIDE DEF q, gone, rest, stay
<1>8. /\ new \in Seq(Entry) /\ KeysOf(new) = Append(KeysOf(rest), q) /\ Len(new) = Len(es) - k + 1
      /\ ToSet(new) = ToSet(rest) \union {e}
  <2>1. KeysOf(Append(rest, e)) = Append(KeysOf(rest), e.key)
    BY <1>4, KeysOfLast
  <2>2. ToSet(Append(rest, e)) = ToSet(rest) \union {e}
    BY <1>4, LastIs
  <2>3. Append(rest, e) \in Seq(Entry) /\ Len(Append(rest, e)) = Len(rest) + 1
    BY <1>4
  <2> QED
    BY <1>2, <1>4, <2>1, <2>2, <2>3 DEF q
<1>9. /\ IsInjective(KeysOf(new)) /\ ToSet(KeysOf(new)) = (ToSet(ks) \ gone) \union {q}
      /\ all \in Seq(Queries) /\ IsInjective(all) /\ ToSet(all) = (ToSet(ks) \ gone) \union {q}
  <2> DEFINE s == KeysOf(rest)
  <2>5. s \in Seq(Queries) /\ IsInjective(s) /\ q \notin ToSet(s)
    BY <1>5, <1>6
  <2> HIDE DEF s
  <2>1. IsInjective(Append(s, q)) /\ ToSet(Append(s, q)) = ToSet(s) \union {q}
    BY <1>1, <2>5, LastIs
  <2>2. all \in Seq(Queries) /\ IsInjective(all) /\ ToSet(all) = ToSet(stay) \union {q}
    <3>1. stay \in Seq(Queries) /\ IsInjective(stay) /\ q \notin ToSet(stay)
      BY <1>5, <1>6
    <3>2. IsInjective(Append(stay, q)) /\ ToSet(Append(stay, q)) = ToSet(stay) \union {q}
      BY <1>1, <3>1, LastIs
    <3> QED
      BY <1>1, <3>1, <3>2
  <2> QED
    BY <1>5, <1>8, <2>1, <2>2 DEF s
<1> HIDE DEF all, new
<1>10. /\ moved \in Seq(Queries)
       /\ Without(moved, ToSet(moved) \ ToSet(all)) = Append(KeysOf(rest), q)
  <2> DEFINE K == ToSet(ks) \ gone
             B == (ToSet(rec) \ K) \union {q}
  <2>1. q \in ToSet(all) /\ \A x \in ToSet(rec) : x # q => (x \in ToSet(all) <=> x \in K)
    BY <1>9
  <2> DEFINE L == ToSet(all)
  <2> HIDE DEF K, L
  <2>7. q \in L /\ \A x \in ToSet(rec) : x # q => (x \in L <=> x \in K)
    BY <2>1 DEF L
  <2>8. LastOf(rec, K, q, L)
    BY <1>1, <2>7, MovedIsLast
  <2>2. moved \in Seq(Queries) /\ Without(moved, ToSet(moved) \ ToSet(all)) = Append(Without(rec, B), q)
    BY <2>8 DEF L, LastOf
  <2>3. \A x \in ToSet(rec) : x \in B <=> x \in N \union gone \union {q}
    BY DEF K
  <2>4. Without(rec, B) = Without(rec, N \union gone \union {q})
    <3> HIDE DEF B, N
    <3> DEFINE C == N \union gone \union {q}
    <3>1. \A x \in ToSet(rec) : x \in B <=> x \in C
      BY <2>3
    <3> HIDE DEF C
    <3>2. Without(rec, B) = Without(rec, C)
      BY <1>1, <3>1, WithoutSame
    <3> QED
      BY <3>2 DEF C
  <2>5. Without(rec, N \union gone \union {q}) = Without(KeysOf(rest), {q})
    <3> HIDE DEF N
    <3> DEFINE C == N \union gone
    <3> HIDE DEF C
    <3>1. Without(Without(rec, C), {q}) = Without(rec, C \union {q})
      BY <1>1, WithoutTwice
    <3> QED
      BY <1>7, <3>1 DEF C
  <2>6. Without(KeysOf(rest), {q}) = KeysOf(rest)
    <3> DEFINE s == KeysOf(rest)
    <3>1. s \in Seq(Queries) /\ Len(s) \in Nat /\ \A i \in 0 + 1 .. Len(s) : s[i] \notin {q}
      BY <1>5, <1>6 DEF ToSet
    <3>2. 0 \in 0 .. Len(s) /\ \A i \in 1 .. 0 : s[i] \in {q}
      BY <3>1
    <3> HIDE DEF s
    <3>3. Without(s, {q}) = SubSeq(s, 0 + 1, Len(s))
      BY <3>1, <3>2, WithoutFirst
    <3>4. SubSeq(s, 0 + 1, Len(s)) = s
      BY <3>1
    <3> QED
      BY <3>3, <3>4 DEF s
  <2> QED
    BY <2>2, <2>4, <2>5, <2>6
<1>11. ToSet(rest) \subseteq ToSet(es)
  <2>1. k + 1 \in Nat /\ k + 1 > 0
    BY <1>2
  <2> QED
    BY <1>1, <1>2, <2>1, SubSeqSet DEF rest
<1> HIDE DEF moved
<1>12. InStep(new, all, moved)
  BY <1>8, <1>9, <1>10 DEF InStep
<1> QED
  BY <1>8, <1>11, <1>12 DEF new, all, moved, q, gone, rest, stay

\* Entries that were loaded, none used before.
LEMMA LoadStays ==
    ASSUME NEW es \in Seq(Entry), IsInjective(KeysOf(es))
    PROVE  InStep(es, KeysOf(es), KeysOf(es))
<1> DEFINE s == KeysOf(es)
           N == ToSet(s) \ ToSet(s)
<1>1. s \in Seq(Queries) /\ Len(s) \in Nat
  BY KeysOfIs
<1>2. 0 \in 0 .. Len(s) /\ (\A i \in 1 .. 0 : s[i] \in N) /\ \A i \in 0 + 1 .. Len(s) : s[i] \notin N
  BY <1>1
<1> HIDE DEF s, N
<1>3. Without(s, N) = SubSeq(s, 0 + 1, Len(s))
  BY <1>1, <1>2, WithoutFirst
<1>4. SubSeq(s, 0 + 1, Len(s)) = s
  BY <1>1
<1> QED
  BY <1>1, <1>3, <1>4 DEF InStep, s, N

LEMMA NoneInStep == ASSUME NEW rec \in Seq(Queries) PROVE InStep(<<>>, <<>>, rec)
<1> DEFINE N == ToSet(rec) \ {}
           left == Without(rec, N)
<1>1. left \in Seq(Queries) /\ ToSet(left) = ToSet(rec) \ N
  BY WithoutSet
<1> HIDE DEF left
<1>2. left = <<>>
  <2>1. \A i \in 1 .. Len(left) : left[i] \in ToSet(left)
    BY <1>1 DEF ToSet
  <2>2. Len(left) = 0
    BY <1>1, <2>1
  <2> QED
    BY <1>1, <2>2
<1>3. KeysOf(<<>>) = <<>> /\ ToSet(<<>>) = {} /\ IsInjective(<<>>)
  BY DEF KeysOf, ToSet, IsInjective
<1>4. <<>> \in Seq(Entry) /\ <<>> \in Seq(Queries)
  OBVIOUS
<1>5. KeysOf(<<>>) = Without(rec, ToSet(rec) \ ToSet(<<>>))
  BY <1>2, <1>3 DEF left
<1> QED
  BY <1>3, <1>4, <1>5 DEF InStep


----------------------------------------------------------------------------
\* The cache: its lists in step, its entries no older than the last clear, and
\* what was saved fit to be loaded.
Stays(es, ks, mbs, rec, c) ==
    /\ InStep(es, ks, rec) /\ mbs = ks /\ Len(es) <= MaxEntries
    /\ \A e \in ToSet(es) : e.made >= c
Loadable(d) == d \in Seq(Entry) /\ IsInjective(KeysOf(d)) /\ Len(d) <= MaxEntries
CacheInv ==
    /\ Stays(entries, keys, embs, recent, cleared) /\ Loadable(disk)
    /\ now \in 0 .. MaxTime /\ files \in 0 .. MaxVersion /\ cleared \in 0 .. files
    /\ ServedWhileValid

LEMMA SimIs == ASSUME NEW p \in Queries, NEW q \in Queries PROVE Sim[<<p, q>>] \in Nat
<1>1. <<p, q>> \in Queries \X Queries
  OBVIOUS
<1> QED
  BY <1>1, CacheAssumption

\* The most similar embedding is one of those there are.
LEMMA BestIs ==
    ASSUME NEW q \in Queries, embs \in Seq(Queries), embs # <<>>
    PROVE  Best(q) \in 1 .. Len(embs)
<1> DEFINE near(i) == Sim[<<q, embs[i]>>]
           Most(n, i) == \A j \in 1 .. n : near(j) < near(i) \/ (near(j) = near(i) /\ i <= j)
           G == {n \in Nat : n = 0 \/ \E i \in 1 .. n : Most(n, i)}
           N == Len(embs)
<1>1. N \in Nat \ {0} /\ DOMAIN embs = 1 .. N
  BY EmptySeq
<1>2. \A i \in 1 .. N : near(i) \in Nat
  <2> SUFFICES ASSUME NEW i \in 1 .. N PROVE Sim[<<q, embs[i]>>] \in Nat
    OBVIOUS
  <2>1. embs[i] \in Queries
    BY <1>1
  <2> QED
    BY <2>1, SimIs
<1>3. 0 \in G
  OBVIOUS
<1>4. ASSUME NEW n \in 1 .. N, n - 1 \in G PROVE n \in G
  <2> HIDE DEF near
  <2>1. CASE n = 1
    <3>1. Most(1, 1)
      BY <1>1, <1>2
    <3> QED
      BY <2>1, <3>1
  <2>2. CASE n # 1
    <3>1. PICK i \in 1 .. n - 1 : Most(n - 1, i)
      BY <1>4, <2>2
    <3>2. near(i) \in Nat /\ near(n) \in Nat /\ \A j \in 1 .. n - 1 : near(j) \in Nat
      BY <1>1, <1>2
    <3>3. CASE near(n) > near(i)
      <4>1. \A j \in 1 .. n - 1 : near(j) < near(n)
        BY <3>1, <3>2, <3>3
      <4>2. \A j \in 1 .. n : j = n \/ j \in 1 .. n - 1
        OBVIOUS
      <4>3. ASSUME NEW j \in 1 .. n PROVE near(j) < near(n) \/ (near(j) = near(n) /\ n <= j)
        BY <4>1, <4>2
      <4>4. Most(n, n)
        BY <4>3
      <4> QED
        BY <4>4
    <3>4. CASE ~(near(n) > near(i))
      <4>1. Most(n, i)
        BY <3>1, <3>2, <3>4
      <4> QED
        BY <3>1, <4>1
    <3> QED
      BY <3>3, <3>4
  <2> QED
    BY <2>1, <2>2
<1>5. N \in G
  <2> HIDE DEF G, N
  <2> QED
    BY <1>1, <1>3, <1>4, UpTo
<1>6. \E i \in 1 .. N : Most(N, i)
  BY <1>1, <1>5
<1> QED
  BY <1>1, <1>6 DEF Best

\* The entry of a key that is there, and its place.
LEMMA EntryIs ==
    ASSUME InStep(entries, keys, recent), NEW key \in ToSet(keys)
    PROVE  /\ EntryOf(key) \in ToSet(entries) /\ EntryOf(key) \in Entry /\ EntryOf(key).key = key
           /\ \A x \in ToSet(entries) : x \in {EntryOf(key)} <=> x.key = key
<1>1. /\ entries \in Seq(Entry) /\ IsInjective(KeysOf(entries)) /\ key \in ToSet(KeysOf(entries))
      /\ DOMAIN KeysOf(entries) = 1 .. Len(entries) /\ DOMAIN entries = 1 .. Len(entries)
      /\ \A i \in 1 .. Len(entries) : KeysOf(entries)[i] = entries[i].key /\ entries[i] \in Entry
      /\ ToSet(KeysOf(entries)) = {e.key : e \in ToSet(entries)}
  BY KeysOfIs DEF InStep
<1>2. EntryOf(key) \in ToSet(entries) /\ EntryOf(key).key = key
  BY <1>1 DEF EntryOf
<1>3. \A x, y \in ToSet(entries) : x.key = y.key => x = y
  <2> SUFFICES ASSUME NEW i \in 1 .. Len(entries), NEW j \in 1 .. Len(entries),
                      KeysOf(entries)[i] = KeysOf(entries)[j]
               PROVE  i = j
    BY <1>1 DEF ToSet
  <2> QED
    BY <1>1 DEF IsInjective
<1>4. EntryOf(key) \in Entry
  BY <1>1, <1>2 DEF ToSet
<1> QED
  BY <1>2, <1>3, <1>4

LEMMA PositionIs ==
    ASSUME keys \in Seq(Queries), NEW key \in ToSet(keys)
    PROVE  PositionOf(key) \in 1 .. Len(keys) /\ keys[PositionOf(key)] = key
<1>1. DOMAIN keys = 1 .. Len(keys)
  OBVIOUS
<1> QED
  BY <1>1 DEF PositionOf, ToSet

LEMMA HasIs ==
    ASSUME InStep(entries, keys, recent), NEW q
    PROVE  Has(q) <=> q \in ToSet(keys)
<1>1. ToSet(keys) = {e.key : e \in ToSet(entries)}
  BY KeysOfIs DEF InStep
<1> QED
  BY <1>1 DEF Has

LEMMA EvictStays ==
    ASSUME CacheInv, NEW key \in ToSet(keys), Evict(key)
    PROVE  Stays(entries', keys', embs', recent, cleared)
<1> DEFINE n == PositionOf(key)
           left == Others(entries, keys[n])
<1>1. InStep(entries, keys, recent) /\ embs = keys /\ keys \in Seq(Queries) /\ entries \in Seq(Entry)
  BY DEF CacheInv, Stays, InStep
<1>2. n \in 1 .. Len(keys) /\ keys[n] = key
  BY <1>1, PositionIs
<1>3. entries' = left /\ keys' = RemoveAt(keys, n) /\ embs' = RemoveAt(keys, n)
  BY <1>1, <1>2 DEF Evict
<1>4. InStep(left, RemoveAt(keys, n), recent) /\ Len(left) <= Len(entries) /\ ToSet(left) \subseteq ToSet(entries)
  <2> HIDE DEF n
  <2> QED
    BY <1>1, <1>2, DropStays
<1>5. Len(left) \in Nat /\ Len(entries) \in Nat /\ MaxEntries \in Nat
  BY <1>1, <1>4, CacheAssumption DEF InStep
<1> HIDE DEF left, n
<1> QED
  BY <1>3, <1>4, <1>5 DEF CacheInv, Stays

\* What a lookup that is near enough looks at.
LEMMA NearIs ==
    ASSUME CacheInv, NEW q \in Queries, Near(q)
    PROVE  LET key == keys[Best(q)]
           IN /\ key \in ToSet(keys) /\ key \in Queries /\ Sim[<<q, key>>] >= Threshold
              /\ Best(q) \in 1 .. Len(keys)
<1>1. embs = keys /\ keys \in Seq(Queries) /\ embs # <<>>
  BY DEF CacheInv, Stays, InStep, Near
<1>2. Best(q) \in 1 .. Len(keys)
  BY <1>1, BestIs
<1>3. keys[Best(q)] \in ToSet(keys) /\ keys[Best(q)] \in Queries
  BY <1>1, <1>2 DEF ToSet
<1>4. Sim[<<q, keys[Best(q)]>>] >= Threshold
  BY <1>1 DEF Near
<1> QED
  BY <1>2, <1>3, <1>4

LEMMA AppendedSet ==
    ASSUME NEW es \in Seq(Entry), NEW S, NEW e \in Entry
    PROVE  ToSet(Append(Without(es, S), e)) \subseteq ToSet(es) \union {e}
<1>1. Without(es, S) \in Seq(Entry) /\ ToSet(Without(es, S)) \subseteq ToSet(es)
  BY WithoutSet
<1> DEFINE rest == Without(es, S)
<1> HIDE DEF rest
<1>2. rest \in Seq(Entry) /\ ToSet(rest) \subseteq ToSet(es)
  BY <1>1 DEF rest
<1>3. ToSet(Append(rest, e)) = ToSet(rest) \union {e}
  BY <1>2, LastIs
<1> QED
  BY <1>2, <1>3 DEF rest

LEMMA HitStays ==
    ASSUME CacheInv, NEW q \in Queries, Hit(q)
    PROVE  CacheInv'
<1> DEFINE e == EntryOf(keys[Best(q)])
           S == {e}
<1>1. InStep(entries, keys, recent) /\ entries \in Seq(Entry)
  BY DEF CacheInv, Stays, InStep
<1>2. keys[Best(q)] \in ToSet(keys) /\ Sim[<<q, keys[Best(q)]>>] >= Threshold
  BY NearIs DEF Hit
<1>3. /\ e \in ToSet(entries) /\ e \in Entry /\ e.key = keys[Best(q)]
      /\ \A x \in ToSet(entries) : x \in S <=> x.key = e.key
  BY <1>1, <1>2, EntryIs
<1>4. /\ entries' = Append(Without(entries, S), e)
      /\ recent' = Append(Without(recent, {e.key}), e.key)
      /\ served' = [asked |-> q, entry |-> e, at |-> now]
      /\ ~Expired(e) /\ UNCHANGED <<keys, embs, disk, now, files, cleared>>
  BY DEF Hit, MovedToEnd
<1> HIDE DEF e, S
<1>5. LET new == Append(Without(entries, S), e)
      IN InStep(new, keys, Append(Without(recent, {e.key}), e.key)) /\ Len(new) = Len(entries)
  BY <1>1, <1>2, <1>3, UseStays
<1>6. ToSet(entries') \subseteq ToSet(entries)
  BY <1>1, <1>3, <1>4, AppendedSet
<1>7. Stays(entries', keys', embs', recent', cleared')
  BY <1>4, <1>5, <1>6 DEF CacheInv, Stays
<1>8. /\ Sim[<<q, e.key>>] >= Threshold /\ now - e.at <= Ttl /\ e.made >= cleared
  <2>1. e.made >= cleared
    BY <1>3 DEF CacheInv, Stays
  <2>2. now \in Nat /\ e.at \in Nat /\ Ttl \in Nat
    BY <1>3, CacheAssumption DEF CacheInv, Entry
  <2> QED
    <3>1. Sim[<<q, e.key>>] >= Threshold
      BY <1>2, <1>3
    <3>2. now - e.at <= Ttl
      BY <1>4, <2>2 DEF Expired
    <3> QED
      BY <2>1, <3>1, <3>2
<1>9. ServedWhileValid'
  BY <1>4, <1>8 DEF ServedWhileValid
<1> QED
  BY <1>4, <1>7, <1>9 DEF CacheInv

LEMMA GetExpiredStays == ASSUME CacheInv, NEW q \in Queries, GetExpired(q) PROVE CacheInv'
<1>1. Stays(entries', keys', embs', recent, cleared)
  <2>1. keys[Best(q)] \in ToSet(keys)
    BY NearIs DEF GetExpired
  <2> QED
    BY <2>1, EvictStays DEF GetExpired
<1> QED
  BY <1>1 DEF GetExpired, CacheInv, ServedWhileValid

LEMMA InvalidateStays == ASSUME CacheInv, NEW q \in Queries, Invalidate(q) PROVE CacheInv'
<1>1. Stays(entries', keys', embs', recent, cleared)
  <2>1. q \in ToSet(keys)
    BY HasIs DEF Invalidate, CacheInv, Stays
  <2> QED
    BY <2>1, EvictStays DEF Invalidate
<1> QED
  BY <1>1 DEF Invalidate, CacheInv, ServedWhileValid

LEMMA NewEntryIs ==
    ASSUME CacheInv, NEW q \in Queries
    PROVE  NewEntry(q) \in Entry /\ NewEntry(q).key = q /\ NewEntry(q).made >= cleared
<1>1. files \in 0 .. MaxVersion /\ now \in 0 .. MaxTime /\ cleared \in 0 .. files /\ MaxVersion \in Nat
  BY CacheAssumption DEF CacheInv
<1>2. files >= cleared
  BY <1>1
<1> QED
  BY <1>1, <1>2 DEF NewEntry, Entry

LEMMA ReplaceStays == ASSUME CacheInv, NEW q \in Queries, Replace(q) PROVE CacheInv'
<1> DEFINE e == NewEntry(q)
           S == {x \in ToSet(entries) : x.key = q}
<1>1. /\ InStep(entries, keys, recent) /\ embs = keys /\ keys \in Seq(Queries) /\ entries \in Seq(Entry)
      /\ e \in Entry /\ e.key = q /\ e.made >= cleared
  BY NewEntryIs DEF CacheInv, Stays, InStep
<1>2. q \in ToSet(keys)
  BY <1>1, HasIs DEF Replace
<1>3. embs' = keys
  <2> DEFINE n == PositionOf(q)
  <2>1. n \in 1 .. Len(keys) /\ keys[n] = q
    BY <1>1, <1>2, PositionIs
  <2>2. embs' = [keys EXCEPT ![n] = q]
    BY <1>1 DEF Replace
  <2> HIDE DEF n
  <2> QED
    BY <1>1, <2>1, <2>2
<1>4. /\ entries' = Append(Without(entries, S), e)
      /\ recent' = Append(Without(recent, {q}), q)
      /\ served' = NoReply /\ UNCHANGED <<keys, disk, now, files, cleared>>
  BY DEF Replace, Others, MovedToEnd
<1>5. \A x \in ToSet(entries) : x \in S <=> x.key = e.key
  BY <1>1
<1> HIDE DEF e, S
<1>6. LET new == Append(Without(entries, S), e)
      IN InStep(new, keys, Append(Without(recent, {e.key}), e.key)) /\ Len(new) = Len(entries)
  BY <1>1, <1>2, <1>5, UseStays
<1>7. \A x \in ToSet(entries') : x.made >= cleared
  <2>1. ToSet(entries') \subseteq ToSet(entries) \union {e}
    BY <1>1, <1>4, AppendedSet
  <2> QED
    BY <1>1, <2>1 DEF CacheInv, Stays
<1>8. Stays(entries', keys', embs', recent', cleared')
  BY <1>1, <1>3, <1>4, <1>6, <1>7 DEF CacheInv, Stays
<1> QED
  BY <1>4, <1>8 DEF CacheInv, ServedWhileValid

\* The lists of the search without the places whose key goes.
LEMMA PlacesKept ==
    ASSUME keys \in Seq(Queries), NEW gone
    PROVE  LET kept == Without([i \in DOMAIN keys |-> i], {i \in DOMAIN keys : keys[i] \in gone})
           IN [i \in DOMAIN kept |-> keys[kept[i]]] = Without(keys, gone)
<1> DEFINE N == Len(keys)
           places == [i \in DOMAIN keys |-> i]
           D == {i \in DOMAIN keys : keys[i] \in gone}
<1>1. N \in Nat /\ DOMAIN keys = 1 .. N
  OBVIOUS
<1>2. PICK e : Tells(e, D, N)
  <2> HIDE DEF N, D
  <2> QED
    BY <1>1, WithoutIs
<1>3. Marks(keys, gone, D, N)
  BY <1>1 DEF Marks
<1>4. Marks(places, D, D, N)
  <2>1. places = [i \in 1 .. N |-> i]
    BY <1>1
  <2> HIDE DEF N, D, places
  <2>2. Len(places) = N /\ \A i \in 1 .. N : places[i] = i
    BY <1>1, <2>1
  <2> QED
    BY <2>2 DEF Marks
<1>5. \A i \in 1 .. N : places[i] = i
  BY <1>1
<1> HIDE DEF places, D, N
<1>6. Without(keys, gone) = [k \in 1 .. Len(e) |-> keys[e[k]]]
  BY <1>2, <1>3 DEF Tells
<1>7. Without(places, D) = [k \in 1 .. Len(e) |-> places[e[k]]]
  BY <1>2, <1>4 DEF Tells
<1>8. \A k \in 1 .. Len(e) : e[k] \in 1 .. N
  <2>1. e \in Seq(1 .. N)
    BY <1>2 DEF Tells, Remain
  <2> DEFINE T == 1 .. N
  <2>2. e \in Seq(T)
    BY <2>1
  <2> HIDE DEF T
  <2>3. \A k \in 1 .. Len(e) : e[k] \in T
    BY <2>2
  <2> QED
    BY <2>3 DEF T
<1> DEFINE kept == Without(places, D)
<1>9. DOMAIN kept = 1 .. Len(e) /\ \A k \in 1 .. Len(e) : kept[k] = e[k]
  BY <1>5, <1>7, <1>8
<1>10. [i \in DOMAIN kept |-> keys[kept[i]]] = Without(keys, gone)
  <2> HIDE DEF kept
  <2> QED
    BY <1>6, <1>9
<1> QED
  BY <1>10 DEF places, D

LEMMA InsertStays == ASSUME CacheInv, NEW q \in Queries, Insert(q) PROVE CacheInv'
<1> DEFINE e == NewEntry(q)
           k == Excess
           gone == ToSet(KeysOf(SubSeq(entries, 1, k)))
           new == Append(SubSeq(entries, k + 1, Len(entries)), e)
           all == Append(Without(keys, gone), e.key)
<1>1. /\ InStep(entries, keys, recent) /\ embs = keys /\ keys \in Seq(Queries) /\ Len(entries) \in Nat
      /\ e \in Entry /\ e.key = q /\ e.made >= cleared /\ Len(entries) <= MaxEntries
      /\ MaxEntries \in Nat \ {0}
  BY NewEntryIs, CacheAssumption DEF CacheInv, Stays, InStep
<1>2. e.key \notin ToSet(keys)
  BY <1>1, HasIs DEF Insert
<1>3. k \in 0 .. Len(entries) /\ Len(entries) - k + 1 <= MaxEntries
  BY <1>1 DEF Excess
<1>4. keys' = all /\ embs' = all /\ entries' = new /\ recent' = Append(Without(recent, {e.key}), e.key)
  <2>1. LET kept == Without([i \in DOMAIN keys |-> i], {i \in DOMAIN keys : keys[i] \in gone})
        IN /\ keys' = Append([i \in DOMAIN kept |-> keys[kept[i]]], q)
           /\ embs' = Append([i \in DOMAIN kept |-> embs[kept[i]]], q)
           /\ entries' = new /\ recent' = Append(Without(recent, {q}), q)
    BY DEF Insert, MovedToEnd
  <2> HIDE DEF gone, new, e
  <2>2. LET kept == Without([i \in DOMAIN keys |-> i], {i \in DOMAIN keys : keys[i] \in gone})
        IN [i \in DOMAIN kept |-> keys[kept[i]]] = Without(keys, gone)
    BY <1>1, PlacesKept
  <2> QED
    BY <1>1, <2>1, <2>2
<1>5. served' = NoReply /\ UNCHANGED <<disk, now, files, cleared>>
  BY DEF Insert
<1> HIDE DEF k, e
<1>6. /\ InStep(new, all, Append(Without(recent, {e.key}), e.key))
      /\ Len(new) = Len(entries) - k + 1
      /\ ToSet(new) \subseteq ToSet(entries) \union {e}
  BY <1>1, <1>2, <1>3, AddStays
<1> HIDE DEF new, all
<1>7. Stays(entries', keys', embs', recent', cleared')
  BY <1>1, <1>3, <1>4, <1>5, <1>6 DEF CacheInv, Stays
<1> QED
  BY <1>5, <1>7 DEF CacheInv, ServedWhileValid

LEMMA ClearStays == ASSUME CacheInv, Clear PROVE CacheInv'
<1>1. InStep(entries', keys', recent') /\ embs' = keys'
  BY NoneInStep DEF Clear, CacheInv, Stays, InStep
<1>2. Len(entries') <= MaxEntries /\ ToSet(entries') = {}
  BY CacheAssumption DEF Clear, ToSet
<1>3. cleared' \in 0 .. files'
  BY CacheAssumption DEF Clear, CacheInv
<1> QED
  BY <1>1, <1>2, <1>3 DEF Clear, CacheInv, Stays, ServedWhileValid

LEMMA SaveStays == ASSUME CacheInv, Save PROVE CacheInv'
<1>1. Loadable(entries)
  BY DEF CacheInv, Stays, InStep, Loadable
<1> QED
  BY <1>1 DEF Save, CacheInv, ServedWhileValid

LEMMA ReloadStays == ASSUME CacheInv, Reload PROVE CacheInv'
<1>1. Loadable(disk) /\ files \in 0 .. MaxVersion
  BY DEF CacheInv
<1>2. InStep(disk, KeysOf(disk), KeysOf(disk))
  BY <1>1, LoadStays DEF Loadable
<1>3. \A x \in ToSet(disk) : x.made >= 0
  <2>1. \A x \in ToSet(disk) : x \in Entry
    BY <1>1 DEF Loadable, ToSet
  <2> QED
    BY <2>1, CacheAssumption DEF Entry
<1>4. Stays(disk, KeysOf(disk), KeysOf(disk), KeysOf(disk), 0)
  BY <1>1, <1>2, <1>3 DEF Stays, Loadable
<1>5. 0 \in 0 .. files
  BY <1>1
<1> QED
  BY <1>4, <1>5 DEF Reload, CacheInv, ServedWhileValid

LEMMA CacheStep == CacheInv /\ [CacheNext]_cacheVars => CacheInv'
<1> SUFFICES ASSUME CacheInv, [CacheNext]_cacheVars PROVE CacheInv'
  OBVIOUS
<1>1. ASSUME NEW q \in Queries, Miss(q) PROVE CacheInv'
  BY <1>1 DEF Miss, CacheInv, ServedWhileValid
<1>2. CASE Lookup
  BY <1>1, <1>2, GetExpiredStays, HitStays DEF Lookup
<1>3. CASE Store
  BY <1>3, ReplaceStays, InsertStays DEF Store
<1>4. CASE Tick
  <2>1. now' \in 0 .. MaxTime
    BY <1>4, CacheAssumption DEF Tick, CacheInv
  <2> QED
    BY <1>4, <2>1 DEF Tick, CacheInv, ServedWhileValid
<1>5. CASE ChangeFiles
  <2>1. files' \in 0 .. MaxVersion /\ cleared \in 0 .. files'
    BY <1>5, CacheAssumption DEF ChangeFiles, CacheInv
  <2> QED
    BY <1>5, <2>1 DEF ChangeFiles, CacheInv, ServedWhileValid
<1>6. CASE UNCHANGED cacheVars
  BY <1>6 DEF cacheVars, CacheInv, ServedWhileValid
<1> QED
  BY <1>2, <1>3, <1>4, <1>5, <1>6, InvalidateStays, ClearStays, SaveStays, ReloadStays DEF CacheNext

LEMMA CacheStart == CacheInit => CacheInv
<1> SUFFICES ASSUME CacheInit PROVE CacheInv
  OBVIOUS
<1>1. InStep(<<>>, <<>>, <<>>)
  <2>1. <<>> \in Seq(Queries)
    OBVIOUS
  <2> QED
    BY <2>1, NoneInStep
<1>2. Len(<<>>) = 0 /\ ToSet(<<>>) = {}
  BY DEF ToSet
<1>3. Stays(entries, keys, embs, recent, cleared)
  BY <1>1, <1>2, CacheAssumption DEF CacheInit, Stays
<1>4. Loadable(<<>>)
  BY <1>1, <1>2, CacheAssumption DEF InStep, Loadable
<1> QED
  BY <1>3, <1>4, CacheAssumption DEF CacheInit, CacheInv, ServedWhileValid

\* The cache keeps its lists in step and within its capacity, lets the entry
\* go first that was used the longest ago, and serves what is similar enough,
\* not expired, and not older than the last clear.
THEOREM CacheKeepsItsPromise == CacheSpec => []CacheServesItsEntries
<1>1. CacheInv => CacheServesItsEntries
  <2> SUFFICES ASSUME CacheInv PROVE CacheInStep /\ ServedWhileValid
    BY DEF CacheServesItsEntries
  <2>1. Len(keys) = Len(entries)
    <3>1. InStep(entries, keys, recent)
      BY DEF CacheInv, Stays
    <3> QED
      BY <3>1, InStepIs
  <2> QED
    BY <2>1 DEF CacheInv, Stays, InStep, CacheInStep
<1> QED
  BY CacheStart, CacheStep, <1>1, PTL DEF CacheSpec


----------------------------------------------------------------------------
(* What is computed along a list.                                          *)

\* f has, for each number up to N, what step makes of what is before it.
Follows(f, N, T, start, step) ==
    f \in [0 .. N -> T] /\ f[0] = start /\ \A i \in 1 .. N : f[i] = step[f[i - 1]][i]
LEMMA Recursion ==
    ASSUME NEW N \in Nat, NEW T, NEW start \in T, NEW step \in [T -> [1 .. N -> T]]
    PROVE  \E f : Follows(f, N, T, start, step)
<1> DEFINE Fn(f, n) == f[0] = start /\ \A i \in 1 .. n : f[i] = step[f[i - 1]][i]
           G == {n \in Nat : \E f \in [0 .. n -> T] : Fn(f, n)}
<1>1. 0 \in G
  <2>1. [i \in 0 .. 0 |-> start] \in [0 .. 0 -> T] /\ Fn([i \in 0 .. 0 |-> start], 0)
    OBVIOUS
  <2> QED
    BY <2>1
<1>2. ASSUME NEW n \in 1 .. N, n - 1 \in G PROVE n \in G
  <2>1. PICK f \in [0 .. n - 1 -> T] : Fn(f, n - 1)
    BY <1>2
  <2> DEFINE g == [i \in 0 .. n |-> IF i = n THEN step[f[n - 1]][n] ELSE f[i]]
  <2>2. n - 1 \in 0 .. n - 1 /\ n \in 1 .. N /\ f[n - 1] \in T
    OBVIOUS
  <2>3. step[f[n - 1]][n] \in T
    BY <2>2
  <2>4. \A i \in 0 .. n : i # n => i \in 0 .. n - 1
    OBVIOUS
  <2>5. g \in [0 .. n -> T]
    BY <2>3, <2>4
  <2>6. \A i \in 1 .. n : g[i - 1] = f[i - 1]
    OBVIOUS
  <2>7. \A i \in 1 .. n : g[i] = step[g[i - 1]][i]
    <3> SUFFICES ASSUME NEW i \in 1 .. n PROVE g[i] = step[f[i - 1]][i]
      BY <2>6
    <3>1. CASE i = n
      BY <3>1
    <3>2. CASE i # n
      <4>1. i \in 1 .. n - 1 /\ g[i] = f[i]
        BY <3>2
      <4> QED
        BY <2>1, <4>1
    <3> QED
      BY <3>1, <3>2
  <2>8. g[0] = start
    BY <2>1
  <2> HIDE DEF g
  <2>9. Fn(g, n)
    BY <2>7, <2>8
  <2> HIDE DEF Fn
  <2> QED
    BY <2>5, <2>9
<1>3. N \in G
  <2> HIDE DEF G
  <2> QED
    BY <1>1, <1>2, UpTo
<1> QED
  BY <1>3 DEF Follows

LEMMA TotalsIs ==
    ASSUME NEW s \in Seq(Int)
    PROVE  /\ Totals(s)[0] = 0
           /\ \A i \in 1 .. Len(s) : Totals(s)[i] = Totals(s)[i - 1] + s[i]
           /\ \A i \in 0 .. Len(s) : Totals(s)[i] \in Int
<1> DEFINE N == Len(s)
           step == [t \in Int |-> [i \in 1 .. N |-> t + s[i]]]
           Fn(f) == f = [i \in 0 .. N |-> IF i = 0 THEN 0 ELSE f[i - 1] + s[i]]
<1>1. N \in Nat /\ \A i \in 1 .. N : s[i] \in Int
  OBVIOUS
<1>2. step \in [Int -> [1 .. N -> Int]]
  BY <1>1
<1>8. PICK f : Follows(f, N, Int, 0, step)
  <2> HIDE DEF N, step
  <2>1. 0 \in Int
    OBVIOUS
  <2> DEFINE T == Int
             start == 0
  <2>2. start \in T /\ step \in [T -> [1 .. N -> T]]
    BY <1>2, <2>1
  <2> HIDE DEF T, start
  <2>3. \E f : Follows(f, N, T, start, step)
    BY <1>1, <2>2, Recursion
  <2> QED
    BY <2>3 DEF T, start
<1>3. f \in [0 .. N -> Int] /\ f[0] = 0 /\ \A i \in 1 .. N : f[i] = step[f[i - 1]][i]
  BY <1>8 DEF Follows
<1>4. \A i \in 1 .. N : f[i] = f[i - 1] + s[i]
  <2> SUFFICES ASSUME NEW i \in 1 .. N PROVE f[i] = f[i - 1] + s[i]
    OBVIOUS
  <2>1. i - 1 \in 0 .. N
    BY <1>1
  <2> QED
    BY <1>3, <2>1
<1>5. Fn(f)
  <2>1. \A i \in 0 .. N : i # 0 => i \in 1 .. N
    BY <1>1
  <2> HIDE DEF N
  <2> QED
    BY <1>3, <1>4, <2>1
<1> DEFINE k == Totals(s)
<1>6. k = [i \in 0 .. N |-> IF i = 0 THEN 0 ELSE k[i - 1] + s[i]]
  BY <1>5 DEF Totals
<1> HIDE DEF k
<1>7. k[0] = 0 /\ \A i \in 1 .. N : k[i] = k[i - 1] + s[i]
  BY <1>1, <1>6
<1>9. \A i \in 0 .. N : k[i] \in Int
  <2> DEFINE G == {n \in Nat : n <= N => k[n] \in Int}
  <2>1. 0 \in G
    BY <1>7
  <2>2. ASSUME NEW n \in 1 .. N, n - 1 \in G PROVE n \in G
    BY <1>1, <1>7, <2>2
  <2>3. ASSUME NEW n \in 0 .. N PROVE n \in G
    <3>1. n \in Nat /\ \A i \in 1 .. n : i - 1 \in G => i \in G
      BY <1>1, <2>2
    <3> HIDE DEF G
    <3> QED
      BY <2>1, <3>1, UpTo
  <2> QED
    BY <2>3
<1> QED
  BY <1>7, <1>9 DEF k

LEMMA TotalLast ==
    ASSUME NEW s \in Seq(Int), NEW x \in Int
    PROVE  Total(Append(s, x)) = Total(s) + x /\ Total(s) \in Int
<1> DEFINE t == Append(s, x)
           N == Len(s)
<1>1. /\ t \in Seq(Int) /\ N \in Nat /\ Len(t) = N + 1 /\ t[N + 1] = x
      /\ \A i \in 1 .. N : t[i] = s[i]
  OBVIOUS
<1> HIDE DEF t
<1>2. /\ Totals(s)[0] = 0 /\ \A i \in 1 .. N : Totals(s)[i] = Totals(s)[i - 1] + s[i]
      /\ \A i \in 0 .. N : Totals(s)[i] \in Int
  BY TotalsIs
<1>3. Totals(t)[0] = 0 /\ \A i \in 1 .. N + 1 : Totals(t)[i] = Totals(t)[i - 1] + t[i]
  BY <1>1, TotalsIs
<1> DEFINE G == {n \in Nat : n <= N => Totals(t)[n] = Totals(s)[n]}
<1> HIDE DEF N
<1>4. 0 \in G
  BY <1>2, <1>3
<1>5. ASSUME NEW n \in 1 .. N, n - 1 \in G PROVE n \in G
  <2>1. n \in 1 .. N + 1 /\ n - 1 <= N /\ n \in Nat
    BY <1>1
  <2>2. Totals(t)[n - 1] = Totals(s)[n - 1]
    BY <1>5, <2>1
  <2> QED
    BY <1>1, <1>2, <1>3, <2>1, <2>2
<1>6. N \in G
  <2> HIDE DEF G
  <2> QED
    BY <1>1, <1>4, <1>5, UpTo
<1>7. Totals(t)[N] = Totals(s)[N]
  BY <1>1, <1>6
<1>8. Totals(t)[N + 1] = Totals(s)[N] + x /\ Totals(s)[N] \in Int
  <2>1. N + 1 \in 1 .. N + 1 /\ N + 1 - 1 = N /\ N \in 0 .. N
    BY <1>1
  <2> QED
    BY <1>1, <1>2, <1>3, <1>7, <2>1
<1> QED
  BY <1>1, <1>8 DEF Total, t, N

LEMMA NoTotal == Total(<<>>) = 0
<1>1. <<>> \in Seq(Int) /\ Len(<<>>) = 0
  OBVIOUS
<1> QED
  BY <1>1, TotalsIs DEF Total

\* Two lists one after the other.
LEMMA JoinIs ==
    ASSUME NEW T, NEW s \in Seq(T), NEW t \in Seq(T)
    PROVE  /\ s \o t \in Seq(T) /\ ToSet(s \o t) = ToSet(s) \union ToSet(t)
           /\ IsInjective(s) /\ IsInjective(t) /\ ToSet(s) \intersect ToSet(t) = {} => IsInjective(s \o t)
<1> DEFINE M == Len(s)
           N == Len(t)
           both == s \o t
<1>1. M \in Nat /\ N \in Nat /\ DOMAIN s = 1 .. M /\ DOMAIN t = 1 .. N
  OBVIOUS
<1>2. /\ both \in Seq(T) /\ Len(both) = M + N
      /\ \A i \in 1 .. M + N : both[i] = IF i <= M THEN s[i] ELSE t[i - M]
  BY ConcatProperties
<1>3. DOMAIN both = 1 .. M + N
  BY <1>2
<1> HIDE DEF M, N, both
<1>4. \A i \in 1 .. M + N : i \in 1 .. M \/ i - M \in 1 .. N
  BY <1>1
<1>5. \A i \in 1 .. M : i \in 1 .. M + N /\ both[i] = s[i]
  BY <1>1, <1>2
<1>6. \A j \in 1 .. N : j + M \in 1 .. M + N /\ both[j + M] = t[j]
  BY <1>1, <1>2
<1>7. \A i \in 1 .. M + N : i \notin 1 .. M => both[i] = t[i - M]
  BY <1>1, <1>2
<1>8. ToSet(both) \subseteq ToSet(s) \union ToSet(t)
  BY <1>1, <1>3, <1>4, <1>5, <1>7 DEF ToSet
<1>9. ToSet(s) \subseteq ToSet(both) /\ ToSet(t) \subseteq ToSet(both)
  BY <1>1, <1>3, <1>5, <1>6 DEF ToSet
<1>10. ASSUME IsInjective(s), IsInjective(t), ToSet(s) \intersect ToSet(t) = {},
              NEW i \in 1 .. M + N, NEW j \in 1 .. M + N, both[i] = both[j]
       PROVE  i = j
  <2>1. CASE i \in 1 .. M /\ j \in 1 .. M
    BY <1>1, <1>5, <1>10, <2>1 DEF IsInjective
  <2>2. CASE i \notin 1 .. M /\ j \notin 1 .. M
    <3>1. i - M \in 1 .. N /\ j - M \in 1 .. N /\ t[i - M] = t[j - M]
      BY <1>4, <1>7, <1>10, <2>2
    <3>2. i - M = j - M
      BY <1>1, <1>10, <3>1 DEF IsInjective
    <3> QED
      BY <1>1, <3>2
  <2>3. ASSUME NEW x \in 1 .. M, NEW y \in 1 .. M + N, y \notin 1 .. M PROVE both[x] # both[y]
    <3>1. both[x] \in ToSet(s) /\ both[y] \in ToSet(t)
      BY <1>1, <1>4, <1>5, <1>7, <2>3 DEF ToSet
    <3> QED
      BY <1>10, <3>1
  <2> QED
    BY <1>10, <2>1, <2>2, <2>3
<1>11. IsInjective(s) /\ IsInjective(t) /\ ToSet(s) \intersect ToSet(t) = {} => IsInjective(both)
  BY <1>3, <1>10 DEF IsInjective
<1> QED
  BY <1>2, <1>8, <1>9, <1>11 DEF both


----------------------------------------------------------------------------
(* The loops that search more than once.                                   *)

\* The loops' lists are the lists of the lemmas.
LEMMA LoopLists ==
    /\ \A s, S : Loops!Without(s, S) = Without(s, S)
    /\ \A s : Loops!ToSet(s) = ToSet(s) /\ Loops!Total(s) = Total(s)
    /\ \A s : Loops!IsInjective(s) <=> IsInjective(s)
    /\ \A S, f : Loops!Sorted(S, f) = Sorted(S, f)
    /\ \A s, n : Loops!FirstOf(s, n) = FirstOf(s, n)
<1>1. ASSUME NEW s, NEW S PROVE Loops!Without(s, S) = Without(s, S)
  BY DEF Loops!Without, Without, Loops!Kept, Kept
<1>2. ASSUME NEW s PROVE Loops!ToSet(s) = ToSet(s) /\ (Loops!IsInjective(s) <=> IsInjective(s))
  BY DEF Loops!ToSet, ToSet, Loops!IsInjective, IsInjective
<1>3. ASSUME NEW s PROVE Loops!Total(s) = Total(s)
  BY DEF Loops!Total, Total, Loops!Totals, Totals
<1>4. ASSUME NEW S, NEW f PROVE Loops!Sorted(S, f) = Sorted(S, f)
  BY DEF Loops!Sorted, Sorted, Loops!Cardinality, Cardinality
<1>5. ASSUME NEW s, NEW n PROVE Loops!FirstOf(s, n) = FirstOf(s, n)
  BY DEF Loops!FirstOf, FirstOf
<1> QED
  BY <1>1, <1>2, <1>3, <1>4, <1>5

\* The first of a list are first in it.
LEMMA FirstIs ==
    ASSUME NEW T, NEW s \in Seq(T), NEW n \in Nat
    PROVE  /\ FirstOf(s, n) \in Seq(T)
           /\ Len(FirstOf(s, n)) = IF Len(s) < n THEN Len(s) ELSE n
           /\ \A i \in 1 .. Len(FirstOf(s, n)) : FirstOf(s, n)[i] = s[i]
<1> DEFINE m == IF Len(s) < n THEN Len(s) ELSE n
<1>1. Len(s) \in Nat /\ m \in Nat /\ m <= Len(s)
  OBVIOUS
<1> HIDE DEF m
<1>2. SubSeq(s, 1, m) \in Seq(T) /\ Len(SubSeq(s, 1, m)) = m /\ \A i \in 1 .. m : SubSeq(s, 1, m)[i] = s[i]
  BY <1>1
<1>3. FirstOf(s, n) = SubSeq(s, 1, m)
  BY DEF FirstOf, m
<1> QED
  BY <1>2, <1>3 DEF m

LEMMA FirstOfStays ==
    ASSUME NEW T, NEW s \in Seq(T), NEW n \in Nat, NEW k \in Nat, k <= n
    PROVE  /\ IsInjective(s) => IsInjective(FirstOf(s, n))
           /\ s # <<>> /\ n > 0 => FirstOf(s, n) # <<>>
           /\ ToSet(FirstOf(s, k)) \subseteq ToSet(FirstOf(s, n))
<1> DEFINE f == FirstOf(s, n)
           g == FirstOf(s, k)
<1>1. /\ f \in Seq(T) /\ Len(f) = (IF Len(s) < n THEN Len(s) ELSE n)
      /\ \A i \in 1 .. Len(f) : f[i] = s[i]
  BY FirstIs
<1>2. /\ g \in Seq(T) /\ Len(g) = (IF Len(s) < k THEN Len(s) ELSE k)
      /\ \A i \in 1 .. Len(g) : g[i] = s[i]
  BY FirstIs
<1> HIDE DEF f, g
<1>3. /\ Len(s) \in Nat /\ Len(f) \in Nat /\ Len(g) \in Nat /\ Len(f) <= Len(s) /\ Len(g) <= Len(f)
      /\ DOMAIN s = 1 .. Len(s) /\ DOMAIN f = 1 .. Len(f) /\ DOMAIN g = 1 .. Len(g)
  BY <1>1, <1>2
<1>4. IsInjective(s) => IsInjective(f)
  BY <1>1, <1>3 DEF IsInjective
<1>5. s # <<>> /\ n > 0 => f # <<>>
  <2>1. s # <<>> => Len(s) > 0
    BY <1>3, EmptySeq
  <2>2. f = <<>> => Len(f) = 0
    OBVIOUS
  <2> QED
    BY <1>1, <1>3, <2>1, <2>2
<1>6. ToSet(g) \subseteq ToSet(f)
  BY <1>1, <1>2, <1>3 DEF ToSet
<1> QED
  BY <1>4, <1>5, <1>6 DEF f, g

LEMMA OnlyIs ==
    ASSUME NEW T, NEW s \in Seq(T), NEW S
    PROVE  /\ Loops!Only(s, S) \in Seq(T) /\ ToSet(Loops!Only(s, S)) = ToSet(s) \intersect S
           /\ IsInjective(s) => IsInjective(Loops!Only(s, S))
<1> DEFINE D == ToSet(s) \ S
<1>1. Loops!Only(s, S) = Without(s, D)
  BY LoopLists DEF Loops!Only
<1> HIDE DEF D
<1>2. Without(s, D) \in Seq(T) /\ ToSet(Without(s, D)) = ToSet(s) \ D
  BY WithoutSet
<1>3. IsInjective(s) => IsInjective(Without(s, D))
  BY WithoutInjective
<1> QED
  BY <1>1, <1>2, <1>3 DEF D

LEMMA LoopCurrentIs ==
    ASSUME NEW T, NEW s \in Seq(T)
    PROVE  /\ Loops!PreferCurrent(s) \in Seq(T)
           /\ ToSet(Loops!PreferCurrent(s)) = {c \in ToSet(s) : Newer[c] = c \/ Newer[c] \notin ToSet(s)}
           /\ IsInjective(s) => IsInjective(Loops!PreferCurrent(s))
<1> DEFINE D == {c \in ToSet(s) : Newer[c] # c /\ Newer[c] \in ToSet(s)}
<1>1. Loops!PreferCurrent(s) = Without(s, D)
  <2>1. {c \in ToSet(s) : Newer[c] # c /\ Newer[c] \in ToSet(s)} = D
    OBVIOUS
  <2> HIDE DEF D
  <2> QED
    BY <2>1, LoopLists DEF Loops!PreferCurrent
<1> HIDE DEF D
<1>2. Without(s, D) \in Seq(T) /\ ToSet(Without(s, D)) = ToSet(s) \ D
  BY WithoutSet
<1>3. IsInjective(s) => IsInjective(Without(s, D))
  BY WithoutInjective
<1> QED
  BY <1>1, <1>2, <1>3 DEF D

LEMMA RelevantIs ==
    ASSUME NEW T, NEW s \in Seq(T)
    PROVE  LET r == Loops!RelevantFirst(s)
           IN /\ r \in Seq(T) /\ ToSet(r) \subseteq ToSet(s) /\ (IsInjective(s) => IsInjective(r))
              /\ ToSet(s) \intersect relevant # {} => ToSet(r) = ToSet(s) \intersect relevant
              /\ ToSet(s) \intersect relevant = {} => r = s
<1> DEFINE only == Loops!Only(s, relevant)
<1>1. /\ only \in Seq(T) /\ ToSet(only) = ToSet(s) \intersect relevant
      /\ IsInjective(s) => IsInjective(only)
  BY OnlyIs
<1>2. Loops!RelevantFirst(s) = IF only # <<>> THEN only ELSE s
  BY DEF Loops!RelevantFirst
<1> HIDE DEF only
<1>3. only = <<>> <=> ToSet(only) = {}
  <2>1. ToSet(<<>>) = {}
    BY DEF ToSet
  <2>2. only # <<>> => 1 \in DOMAIN only
    BY <1>1, EmptySeq
  <2> QED
    BY <2>1, <2>2 DEF ToSet
<1> QED
  BY <1>1, <1>2, <1>3

Hitlists == {l \in Seq(Chunks) : IsInjective(l)}
FoundIn(ls) == UNION {ToSet(l) : l \in ToSet(ls)}

\* What is added list by list comes from the lists.
LEMMA FirstSeenIs ==
    ASSUME NEW ls \in Seq(Hitlists)
    PROVE  Loops!FirstSeen(ls) \in Seq(Chunks) /\ ToSet(Loops!FirstSeen(ls)) \subseteq FoundIn(ls)
<1> DEFINE N == Len(ls)
           T == {l \in Seq(Chunks) : ToSet(l) \subseteq FoundIn(ls)}
           next(l, i) == l \o Without(ls[i], ToSet(l))
           step == [l \in T |-> [i \in 1 .. N |-> next(l, i)]]
           Fn(f) == f = [i \in 0 .. N |-> IF i = 0 THEN <<>> ELSE next(f[i - 1], i)]
<1>1. N \in Nat /\ DOMAIN ls = 1 .. N
  OBVIOUS
<1>2. ASSUME NEW l \in T, NEW i \in 1 .. N PROVE next(l, i) \in T
  <2>1. ls[i] \in Seq(Chunks) /\ ToSet(ls[i]) \subseteq FoundIn(ls)
    BY <1>1 DEF Hitlists, FoundIn, ToSet
  <2> DEFINE rest == Without(ls[i], ToSet(l))
  <2>2. rest \in Seq(Chunks) /\ ToSet(rest) = ToSet(ls[i]) \ ToSet(l)
    BY <2>1, WithoutSet
  <2> HIDE DEF rest
  <2>3. l \o rest \in Seq(Chunks) /\ ToSet(l \o rest) = ToSet(l) \union ToSet(rest)
    BY <2>2, JoinIs
  <2> QED
    BY <2>1, <2>2, <2>3 DEF rest
<1>3. step \in [T -> [1 .. N -> T]]
  BY <1>2
<1>4. <<>> \in T
  <2>1. ToSet(<<>>) = {}
    BY DEF ToSet
  <2> QED
    BY <2>1
<1>5. PICK f : Follows(f, N, T, <<>>, step)
  <2> HIDE DEF N, T, step
  <2> QED
    BY <1>1, <1>3, <1>4, Recursion
<1>6. f \in [0 .. N -> T] /\ f[0] = <<>> /\ \A i \in 1 .. N : f[i] = next(f[i - 1], i)
  <2>1. f \in [0 .. N -> T] /\ f[0] = <<>> /\ \A i \in 1 .. N : f[i] = step[f[i - 1]][i]
    BY <1>5 DEF Follows
  <2>2. \A i \in 1 .. N : f[i - 1] \in T
    <3> HIDE DEF T, N, step
    <3>1. \A i \in 1 .. N : i - 1 \in 0 .. N
      BY <1>1
    <3> QED
      BY <2>1, <3>1
  <2> HIDE DEF T, N, next
  <2> QED
    BY <2>1, <2>2
<1>7. Fn(f)
  <2>1. \A i \in 0 .. N : i # 0 => i \in 1 .. N
    BY <1>1
  <2> HIDE DEF N, T, next
  <2> QED
    BY <1>6, <2>1
<1> DEFINE k == Loops!Seen(ls)
<1>8. Fn(k)
  <2>1. \A g : Fn(g) <=> g = [i \in 0 .. N |-> IF i = 0 THEN <<>> ELSE g[i - 1] \o Without(ls[i], ToSet(g[i - 1]))]
    OBVIOUS
  <2> QED
    BY <1>7, LoopLists DEF Loops!Seen
<1> HIDE DEF k
<1>9. k[0] = <<>> /\ \A i \in 1 .. N : k[i] = next(k[i - 1], i)
  <2>1. 0 \in 0 .. N /\ \A i \in 1 .. N : i # 0 /\ i \in 0 .. N
    BY <1>1
  <2> HIDE DEF N, next
  <2> QED
    BY <1>8, <2>1
<1>10. k[N] \in T
  <2> DEFINE G == {n \in Nat : k[n] \in T}
  <2> HIDE DEF T, N, next
  <2>1. 0 \in G
    BY <1>4, <1>9
  <2>2. ASSUME NEW n \in 1 .. N, n - 1 \in G PROVE n \in G
    BY <1>2, <1>9, <2>2
  <2>3. N \in G
    <3> HIDE DEF G
    <3> QED
      BY <1>1, <2>1, <2>2, UpTo
  <2> QED
    BY <2>3
<1> QED
  BY <1>10 DEF Loops!FirstSeen, k

LEMMA LoopScoreIs ==
    ASSUME NEW ls \in Seq(Hitlists), NEW c
    PROVE  Loops!Score(ls, c) \in Int
<1> DEFINE shares == [i \in DOMAIN ls |-> Loops!Share(ls[i], c)]
<1>1. Len(ls) \in Nat /\ DOMAIN ls = 1 .. Len(ls) /\ \A i \in 1 .. Len(ls) : ls[i] \in Seq(Chunks)
  BY DEF Hitlists
<1>2. ASSUME NEW l \in Seq(Chunks) PROVE Loops!Share(l, c) \in Int
  <2>1. CASE c \in ToSet(l)
    <3>1. \E i \in DOMAIN l : l[i] = c
      BY <2>1 DEF ToSet
    <3>2. Loops!RankIn(l, c) \in DOMAIN l
      BY <3>1 DEF Loops!RankIn
    <3>3. Loops!RankIn(l, c) \in Nat
      BY <3>2
    <3> DEFINE d == RrfK + Loops!RankIn(l, c)
    <3>4. d \in Nat /\ d > 0 /\ RrfScale \in Nat
      BY <3>3, RetrievalAssumption, SearchingAssumption DEF Loops!LoopsAssumption
    <3>5. Loops!Share(l, c) = RrfScale \div d
      BY <2>1, LoopLists DEF Loops!Share
    <3> HIDE DEF d
    <3>6. RrfScale \div d \in Int
      BY <3>4
    <3> QED
      BY <3>5, <3>6
  <2>2. CASE c \notin ToSet(l)
    <3>1. Loops!Share(l, c) = 0
      BY <2>2, LoopLists DEF Loops!Share
    <3> QED
      BY <3>1
  <2> QED
    BY <2>1, <2>2
<1>3. shares \in Seq(Int)
  BY <1>1, <1>2
<1> HIDE DEF shares
<1>4. Total(shares) \in Int
  BY <1>3, TotalLast
<1> QED
  BY <1>4, LoopLists DEF Loops!Score, shares

\* Sorting by score changes no member.
LEMMA UnionIs ==
    ASSUME NEW ls \in Seq(Hitlists)
    PROVE  Loops!RrfUnion(ls) \in Seq(Chunks) /\ ToSet(Loops!RrfUnion(ls)) \subseteq FoundIn(ls)
<1> DEFINE all == Loops!FirstSeen(ls)
           D == DOMAIN all
           score == [i \in D |-> Loops!Score(ls, all[i])]
           ahead == [i \in D |-> {j \in D : score[j] > score[i] \/ (score[j] = score[i] /\ j < i)}]
           order == Sorted(D, ahead)
           union == [n \in DOMAIN order |-> all[order[n]]]
<1>1. all \in Seq(Chunks) /\ ToSet(all) \subseteq FoundIn(ls)
  BY FirstSeenIs
<1>2. Len(all) \in Nat /\ D = 1 .. Len(all)
  BY <1>1
<1>3. IsFiniteSet(D) /\ Cardinality(D) \in Nat
  <2> DEFINE n == Len(all)
  <2> HIDE DEF n
  <2>1. n \in Int /\ 1 \in Int /\ D = 1 .. n
    BY <1>2 DEF n
  <2>2. IsFiniteSet(1 .. n)
    BY <2>1, FS_Interval
  <2> HIDE DEF D
  <2>3. IsFiniteSet(D)
    BY <2>1, <2>2
  <2> QED
    BY <2>3, FS_CardinalityType
<1>4. \A i \in D : score[i] \in Int
  <2> HIDE DEF all
  <2> QED
    BY LoopScoreIs
<1>5. \A i \in D : i \in Nat
  BY <1>2
<1>6. Loops!RrfUnion(ls) = union
  <2> HIDE DEF all
  <2>1. ahead = [i \in DOMAIN all |-> {j \in DOMAIN all : score[j] > score[i] \/ (score[j] = score[i] /\ j < i)}]
    OBVIOUS
  <2> QED
    BY <2>1, LoopLists DEF Loops!RrfUnion, all
<1> HIDE DEF D, all, score
<1>7. ahead \in [D -> SUBSET D]
  OBVIOUS
<1>8. \A i \in D : ahead[i] = {j \in D : score[j] > score[i] \/ (score[j] = score[i] /\ j < i)}
  OBVIOUS
<1> HIDE DEF ahead
<1>9. \A x \in D : x \notin ahead[x]
  BY <1>4, <1>5, <1>8
<1>10. \A x, y \in D : x # y => x \in ahead[y] \/ y \in ahead[x]
  BY <1>4, <1>5, <1>8
<1>11. \A x, y \in D : x \in ahead[y] => ahead[x] \subseteq ahead[y]
  BY <1>4, <1>5, <1>8
<1>12. order \in [1 .. Cardinality(D) -> D]
  BY <1>3, <1>7, <1>9, <1>10, <1>11, SortedIs
<1> HIDE DEF order
<1>13. \A i \in D : all[i] \in Chunks /\ all[i] \in ToSet(all)
  BY <1>1, <1>2 DEF ToSet
<1>14. union \in [1 .. Cardinality(D) -> Chunks] /\ \A n \in 1 .. Cardinality(D) : union[n] \in ToSet(all)
  BY <1>12, <1>13
<1> HIDE DEF union
<1>15. union \in Seq(Chunks) /\ ToSet(union) \subseteq ToSet(all)
  BY <1>3, <1>14 DEF ToSet
<1> QED
  BY <1>1, <1>6, <1>15

\* The scratchpad: hits of the list, each once, within the budget.
Padded(p, list) ==
    /\ p \in Seq(Chunks) /\ IsInjective(p) /\ ToSet(p) \subseteq ToSet(list)
    /\ Loops!Used(p) <= Budget /\ Loops!Used(p) \in Int

LEMMA UsedIs ==
    ASSUME NEW p \in Seq(Chunks), NEW c \in Chunks
    PROVE  Loops!Used(Append(p, c)) = Loops!Used(p) + Cost[c] /\ Loops!Used(p) \in Int
<1> DEFINE costs(s) == [i \in DOMAIN s |-> Cost[s[i]]]
           q == Append(p, c)
<1>1. \A d \in Chunks : Cost[d] \in Int
  BY SearchingAssumption DEF Loops!LoopsAssumption
<1>2. /\ Len(p) \in Nat /\ DOMAIN p = 1 .. Len(p) /\ DOMAIN q = 1 .. Len(p) + 1 /\ q[Len(p) + 1] = c
      /\ \A i \in 1 .. Len(p) : q[i] = p[i] /\ p[i] \in Chunks
  OBVIOUS
<1>3. costs(p) \in Seq(Int) /\ Len(costs(p)) = Len(p)
  BY <1>1, <1>2
<1>4. costs(q) = Append(costs(p), Cost[c])
  <2> DEFINE s == costs(p)
             t == Append(s, Cost[c])
  <2>1. t \in Seq(Int) /\ Len(t) = Len(p) + 1
    BY <1>1, <1>3
  <2>2. t[Len(p) + 1] = Cost[c] /\ \A i \in 1 .. Len(p) : t[i] = Cost[p[i]]
    <3>1. \A i \in 1 .. Len(p) : s[i] = Cost[p[i]]
      BY <1>2
    <3> HIDE DEF s
    <3> QED
      BY <1>1, <1>2, <1>3, <3>1 DEF s
  <2>3. \A i \in 1 .. Len(p) + 1 : i \in 1 .. Len(p) \/ i = Len(p) + 1
    BY <1>2
  <2>4. \A i \in 1 .. Len(p) + 1 : t[i] = Cost[q[i]]
    <3> HIDE DEF q, t
    <3> QED
      BY <1>2, <2>2, <2>3
  <2>5. t = [i \in 1 .. Len(p) + 1 |-> t[i]]
    <3> HIDE DEF t
    <3> QED
      BY <2>1
  <2> HIDE DEF t, q
  <2>6. t = costs(q)
    BY <1>2, <2>4, <2>5
  <2> QED
    BY <2>6 DEF t
<1> HIDE DEF costs, q
<1>5. Total(costs(q)) = Total(costs(p)) + Cost[c] /\ Total(costs(p)) \in Int
  BY <1>1, <1>3, <1>4, TotalLast
<1>6. \A s : Loops!Used(s) = Total(costs(s))
  BY LoopLists DEF Loops!Used, costs
<1> QED
  BY <1>5, <1>6 DEF q

LEMMA AddedIs ==
    ASSUME NEW list \in Seq(Chunks), NEW p, Padded(p, list), NEW c \in ToSet(list)
    PROVE  Padded(Loops!Added(p, c), list)
<1>1. c \in Chunks
  BY DEF ToSet
<1>2. /\ p \in Seq(Chunks) /\ IsInjective(p) /\ ToSet(p) \subseteq ToSet(list)
      /\ Loops!Used(p) <= Budget /\ Loops!Used(p) \in Int
  BY DEF Padded
<1>3. CASE Loops!Added(p, c) = p
  BY <1>3
<1>4. CASE Loops!Added(p, c) # p
  <2>1. Loops!Added(p, c) = Append(p, c) /\ Loops!Used(p) + Cost[c] <= Budget /\ c \notin ToSet(p)
    BY <1>4, LoopLists DEF Loops!Added, Loops!Fits
  <2>2. Append(p, c) \in Seq(Chunks)
    BY <1>1, <1>2
  <2>3. IsInjective(Append(p, c)) /\ ToSet(Append(p, c)) = ToSet(p) \union {c}
    BY <1>1, <1>2, <2>1, LastIs
  <2>4. Loops!Used(Append(p, c)) = Loops!Used(p) + Cost[c] /\ Loops!Used(Append(p, c)) \in Int
    BY <1>1, <1>2, <2>2, UsedIs
  <2> QED
    BY <1>2, <2>1, <2>2, <2>3, <2>4 DEF Padded
<1> QED
  BY <1>3, <1>4

LEMMA PadIs ==
    ASSUME NEW list \in Seq(Chunks)
    PROVE  Padded(Loops!AddHits(list), list)
<1> DEFINE N == Len(list)
           T == {p \in Seq(Chunks) : Padded(p, list)}
           step == [p \in T |-> [i \in 1 .. N |-> Loops!Added(p, list[i])]]
           Fn(f) == f = [i \in 0 .. N |-> IF i = 0 THEN <<>> ELSE Loops!Added(f[i - 1], list[i])]
<1>1. N \in Nat /\ \A i \in 1 .. N : list[i] \in ToSet(list)
  BY DEF ToSet
<1>2. ASSUME NEW p \in T, NEW i \in 1 .. N PROVE Loops!Added(p, list[i]) \in T
  <2>1. Padded(Loops!Added(p, list[i]), list)
    <3> HIDE DEF N
    <3> QED
      BY <1>1, AddedIs
  <2> QED
    BY <2>1 DEF Padded
<1>3. step \in [T -> [1 .. N -> T]]
  BY <1>2
<1>4. <<>> \in T
  <2>1. <<>> \in Seq(Chunks) /\ ToSet(<<>>) = {} /\ IsInjective(<<>>)
    BY DEF ToSet, IsInjective
  <2>2. Loops!Used(<<>>) = 0
    <3>1. [i \in DOMAIN <<>> |-> Cost[<<>>[i]]] = <<>>
      OBVIOUS
    <3> QED
      BY <3>1, NoTotal, LoopLists DEF Loops!Used
  <2>3. Budget \in Nat
    BY SearchingAssumption DEF Loops!LoopsAssumption
  <2> QED
    BY <2>1, <2>2, <2>3 DEF Padded
<1>5. PICK f : Follows(f, N, T, <<>>, step)
  <2> HIDE DEF N, T, step
  <2> QED
    BY <1>1, <1>3, <1>4, Recursion
<1>6. f \in [0 .. N -> T] /\ f[0] = <<>> /\ \A i \in 1 .. N : f[i] = Loops!Added(f[i - 1], list[i])
  <2>1. f \in [0 .. N -> T] /\ f[0] = <<>> /\ \A i \in 1 .. N : f[i] = step[f[i - 1]][i]
    BY <1>5 DEF Follows
  <2>2. \A i \in 1 .. N : f[i - 1] \in T
    <3> HIDE DEF T, N, step
    <3>1. \A i \in 1 .. N : i - 1 \in 0 .. N
      BY <1>1
    <3> QED
      BY <2>1, <3>1
  <2> HIDE DEF T, N
  <2> QED
    BY <2>1, <2>2
<1>7. Fn(f)
  <2>1. \A i \in 0 .. N : i # 0 => i \in 1 .. N
    BY <1>1
  <2> HIDE DEF N, T
  <2> QED
    BY <1>6, <2>1
<1> DEFINE k == Loops!Pads(list)
<1>8. Fn(k)
  BY <1>7 DEF Loops!Pads
<1> HIDE DEF k
<1>9. k[0] = <<>> /\ \A i \in 1 .. N : k[i] = Loops!Added(k[i - 1], list[i])
  <2>1. 0 \in 0 .. N /\ \A i \in 1 .. N : i # 0 /\ i \in 0 .. N
    BY <1>1
  <2> HIDE DEF N
  <2> QED
    BY <1>8, <2>1
<1>10. k[N] \in T
  <2> DEFINE G == {n \in Nat : k[n] \in T}
  <2> HIDE DEF T, N
  <2>1. 0 \in G
    BY <1>4, <1>9
  <2>2. ASSUME NEW n \in 1 .. N, n - 1 \in G PROVE n \in G
    BY <1>2, <1>9, <2>2
  <2>3. N \in G
    <3> HIDE DEF G
    <3> QED
      BY <1>1, <2>1, <2>2, UpTo
  <2> QED
    BY <2>3
<1> QED
  BY <1>10 DEF Loops!AddHits, k

\* What an answer rests on, and what is left of what a correction found.
Grounded(w, passed, ls, a) ==
    a.failed = "" =>
        /\ a.citations # <<>> /\ IsInjective(a.citations)
        /\ ToSet(a.citations) \subseteq Resolves \intersect FoundIn(ls)
        /\ ToSet(a.quoted) \subseteq ToSet(a.citations)
        /\ w = "deep" => Loops!Used(a.citations) <= Budget /\ a.weighed = a.citations
        /\ w = "loop" =>
              LET passing == ToSet(ls[Len(ls)]) \intersect passed
              IN /\ passing # {} => ToSet(a.weighed) = passing
                 /\ passing = {} => a.weighed = ls[Len(ls)]
                 /\ a.citations = FirstOf(a.weighed, MaxCited)
                 /\ a.confidence = "high" <=> passing # {}
HitsKept(ls, hs) ==
    /\ IsInjective(hs)
    /\ \A c \in FoundIn(ls) \ ToSet(hs) : Newer[c] # c /\ Newer[c] \in FoundIn(ls)

LoopInv ==
    /\ lists \in Seq(Hitlists) /\ pc \in {"ask", "search", "answer", "done"}
    /\ pc = "ask" => lists = <<>> /\ hits = <<>>
    /\ pc = "answer" => lists # <<>>
    /\ way = "corrective" /\ pc # "done" => hits \in Hitlists /\ ToSet(hits) = FoundIn(lists)
    /\ pc = "done" /\ way # "corrective" => Grounded(way, relevant, lists, answer)
    /\ pc = "done" /\ way = "corrective" => HitsKept(lists, hits)

LEMMA FoundIs == ASSUME NEW list \in Loops!Found PROVE list \in Hitlists
<1>1. PICK S \in SUBSET Chunks : list \in Loops!SetToSeqs(S)
  BY DEF Loops!Found
<1> DEFINE n == Cardinality(S)
<1>2. n \in Nat
  BY FS_Subset, FS_CardinalityType, RetrievalAssumption
<1>3. list \in [1 .. n -> S] /\ \A i, j \in 1 .. n : i # j => list[i] # list[j]
  BY <1>1 DEF Loops!SetToSeqs, Loops!Cardinality, Cardinality
<1> HIDE DEF n
<1>4. list \in Seq(Chunks) /\ DOMAIN list = 1 .. n
  BY <1>2, <1>3
<1> QED
  BY <1>3, <1>4 DEF Hitlists, IsInjective

LEMMA MoreFound ==
    ASSUME NEW ls \in Seq(Hitlists), NEW l \in Hitlists
    PROVE  /\ Append(ls, l) \in Seq(Hitlists) /\ Append(ls, l) # <<>>
           /\ FoundIn(Append(ls, l)) = FoundIn(ls) \union ToSet(l)
<1>1. ToSet(Append(ls, l)) = ToSet(ls) \union {l}
  BY LastIs
<1>2. Append(ls, l) \in Seq(Hitlists) /\ Append(ls, l) # <<>>
  <2> DEFINE T == Hitlists
  <2> HIDE DEF T
  <2>1. ls \in Seq(T) /\ l \in T
    BY DEF T
  <2>2. Append(ls, l) \in Seq(T) /\ Len(Append(ls, l)) = Len(ls) + 1 /\ Len(ls) \in Nat
    BY <2>1
  <2>3. Append(ls, l) = <<>> => Len(Append(ls, l)) = 0
    OBVIOUS
  <2> QED
    BY <2>2, <2>3 DEF T
<1> QED
  BY <1>1, <1>2 DEF FoundIn

LEMMA LastFound ==
    ASSUME NEW ls \in Seq(Hitlists), ls # <<>>
    PROVE  ls[Len(ls)] \in Hitlists /\ ToSet(ls[Len(ls)]) \subseteq FoundIn(ls)
<1>1. Len(ls) \in Nat /\ Len(ls) > 0 /\ DOMAIN ls = 1 .. Len(ls)
  BY EmptySeq
<1>2. Len(ls) \in DOMAIN ls
  BY <1>1
<1> QED
  BY <1>1, <1>2 DEF FoundIn, ToSet

LEMMA LoopStart == Loops!LoopInit => LoopInv
<1> SUFFICES ASSUME Loops!LoopInit PROVE LoopInv
  OBVIOUS
<1>1. <<>> \in Seq(Hitlists)
  OBVIOUS
<1> QED
  BY <1>1 DEF Loops!LoopInit, LoopInv

LEMMA AskKeeps == ASSUME LoopInv, Loops!Ask PROVE LoopInv'
<1>1. lists = <<>> /\ hits = <<>> /\ lists' = lists /\ hits' = hits /\ pc' = "search"
  BY DEF LoopInv, Loops!Ask
<1>2. <<>> \in Hitlists /\ ToSet(<<>>) = FoundIn(<<>>) /\ <<>> \in Seq(Hitlists)
  <2>1. ToSet(<<>>) = {}
    BY DEF ToSet
  <2>2. FoundIn(<<>>) = {}
    BY <2>1 DEF FoundIn
  <2>3. <<>> \in Seq(Chunks) /\ IsInjective(<<>>)
    BY DEF IsInjective
  <2>4. <<>> \in Seq(Hitlists)
    OBVIOUS
  <2>5. <<>> \in Hitlists
    BY <2>3 DEF Hitlists
  <2> QED
    BY <2>1, <2>2, <2>4, <2>5
<1> QED
  BY <1>1, <1>2 DEF LoopInv

LEMMA SearchKeeps ==
    ASSUME LoopInv, NEW list \in Loops!Found, Loops!LoopSearch(list) \/ Loops!DeepSearch(list)
    PROVE  LoopInv'
<1>1. /\ lists' = Append(lists, list) /\ pc' \in {"answer", "search"} /\ way # "corrective" /\ way' = way
      /\ lists \in Seq(Hitlists)
  BY DEF LoopInv, Loops!LoopSearch, Loops!DeepSearch, Loops!question
<1>2. lists' \in Seq(Hitlists) /\ lists' # <<>>
  BY <1>1, FoundIs, MoreFound
<1> QED
  BY <1>1, <1>2 DEF LoopInv

LEMMA FirstKeeps ==
    ASSUME LoopInv, NEW list \in Loops!Found, Loops!FirstRetrieval(list)
    PROVE  LoopInv'
<1>1. /\ lists' = <<list>> /\ hits' = list /\ pc' \in {"answer", "search"}
      /\ lists \in Seq(Hitlists) /\ list \in Hitlists
  BY FoundIs DEF LoopInv, Loops!FirstRetrieval
<1>2. lists' \in Seq(Hitlists) /\ lists' # <<>>
  BY <1>1
<1>3. FoundIn(lists') = ToSet(list)
  <2>1. ToSet(<<list>>) = {list}
    BY DEF ToSet
  <2> QED
    BY <1>1, <2>1 DEF FoundIn
<1> QED
  BY <1>1, <1>2, <1>3 DEF LoopInv

LEMMA CorrectKeeps ==
    ASSUME LoopInv, NEW list \in Loops!Found, Loops!Correct(list)
    PROVE  LoopInv'
<1> DEFINE new == Without(list, ToSet(hits))
<1>1. /\ lists' = Append(lists, list) /\ pc' \in {"answer", "search"}
      /\ lists \in Seq(Hitlists) /\ list \in Hitlists /\ list \in Seq(Chunks) /\ IsInjective(list)
      /\ hits \in Seq(Chunks) /\ IsInjective(hits) /\ ToSet(hits) = FoundIn(lists)
  BY FoundIs DEF LoopInv, Loops!Correct, Hitlists
<1>2. hits' = hits \o new
  BY LoopLists DEF Loops!Correct, Loops!AppendNew
<1>3. lists' \in Seq(Hitlists) /\ lists' # <<>> /\ FoundIn(lists') = FoundIn(lists) \union ToSet(list)
  BY <1>1, MoreFound
<1>4. new \in Seq(Chunks) /\ ToSet(new) = ToSet(list) \ ToSet(hits) /\ IsInjective(new)
  <2> DEFINE S == ToSet(hits)
  <2> HIDE DEF S
  <2>1. Without(list, S) \in Seq(Chunks) /\ ToSet(Without(list, S)) = ToSet(list) \ S
    BY <1>1, WithoutSet
  <2>2. IsInjective(Without(list, S))
    BY <1>1, WithoutInjective
  <2> QED
    BY <2>1, <2>2 DEF S
<1> HIDE DEF new
<1>5. /\ hits \o new \in Seq(Chunks) /\ ToSet(hits \o new) = ToSet(hits) \union ToSet(new)
      /\ IsInjective(hits \o new)
  BY <1>1, <1>4, JoinIs
<1>6. hits' \in Hitlists /\ ToSet(hits') = FoundIn(lists')
  BY <1>1, <1>2, <1>3, <1>4, <1>5 DEF Hitlists
<1> QED
  BY <1>1, <1>3, <1>6 DEF LoopInv

LEMMA CorrectedKeeps == ASSUME LoopInv, Loops!CorrectedAnswer PROVE LoopInv'
<1>1. /\ hits \in Seq(Chunks) /\ IsInjective(hits) /\ ToSet(hits) = FoundIn(lists)
      /\ way = "corrective" /\ pc' = "done" /\ hits' = Loops!PreferCurrent(hits)
      /\ UNCHANGED <<way, relevant, lists>>
  BY DEF LoopInv, Loops!CorrectedAnswer, Hitlists, Loops!question
<1>2. /\ ToSet(hits') = {c \in ToSet(hits) : Newer[c] = c \/ Newer[c] \notin ToSet(hits)}
      /\ IsInjective(hits')
  BY <1>1, LoopCurrentIs
<1>3. HitsKept(lists, hits')
  BY <1>1, <1>2 DEF HitsKept
<1> QED
  BY <1>1, <1>3 DEF LoopInv

LEMMA LoopAnswerKeeps == ASSUME LoopInv, Loops!LoopAnswer PROVE LoopInv'
<1> DEFINE last == lists[Len(lists)]
           chosen == Loops!RelevantFirst(last)
           cited == FirstOf(chosen, MaxCited)
           quoted == FirstOf(chosen, MaxQuoted)
           passing == ToSet(last) \intersect relevant
<1>1. /\ lists \in Seq(Hitlists) /\ lists # <<>> /\ way = "loop" /\ pc' = "done"
      /\ UNCHANGED <<way, relevant, lists>>
  BY DEF LoopInv, Loops!LoopAnswer, Loops!question
<1>2. last \in Seq(Chunks) /\ IsInjective(last) /\ ToSet(last) \subseteq FoundIn(lists)
  BY <1>1, LastFound DEF Hitlists
<1>3. CASE answer'.failed # ""
  BY <1>1, <1>3 DEF LoopInv, Grounded
<1>4. CASE answer'.failed = ""
  <2>1. /\ chosen # <<>> /\ ToSet(cited) \subseteq Resolves
        /\ answer' = [failed |-> "", confidence |-> IF ToSet(chosen) \subseteq relevant THEN "high" ELSE "low",
                      citations |-> cited, quoted |-> quoted, weighed |-> chosen]
    <3> DEFINE bad == Loops!ToSet(Loops!FirstOf(chosen, MaxCited)) \ Resolves # {}
    <3>1. Loops!RelevantFirst(Loops!Last1(lists)) = chosen
      BY DEF Loops!Last1
    <3> HIDE DEF chosen
    <3>2. CASE chosen = <<>> /\ ~bad
      <4>1. Loops!Refuse("empty_retrieval", "empty", <<>>)
        BY <3>1, <3>2 DEF Loops!LoopAnswer
      <4> QED
        BY <1>4, <4>1 DEF Loops!Refuse
    <3>3. CASE bad
      <4>0. chosen # <<>>
        <5>1. ASSUME chosen = <<>> PROVE FALSE
          <6>1. FirstOf(<<>>, MaxCited) = <<>>
            BY SearchingAssumption DEF FirstOf, Loops!LoopsAssumption
          <6>2. ToSet(<<>>) = {}
            BY DEF ToSet
          <6> QED
            BY <3>3, <5>1, <6>1, <6>2, LoopLists
        <5> QED
          BY <5>1
      <4>1. Loops!Refuse("unresolvable_citation", "unsupported", Loops!FirstOf(chosen, MaxCited))
        BY <3>1, <3>3, <4>0 DEF Loops!LoopAnswer
      <4> QED
        BY <1>4, <4>1 DEF Loops!Refuse
    <3>4. CASE chosen # <<>> /\ ~bad
      <4>1. Loops!Reply(IF Loops!ToSet(chosen) \subseteq relevant THEN "high" ELSE "low",
                        Loops!FirstOf(chosen, MaxCited), chosen)
        BY <3>1, <3>4 DEF Loops!LoopAnswer
      <4>2. ToSet(cited) \subseteq Resolves
        BY <3>4, LoopLists
      <4> QED
        BY <3>4, <4>1, <4>2, LoopLists DEF Loops!Reply
    <3> QED
      BY <3>2, <3>3, <3>4
  <2> HIDE DEF last
  <2>2. /\ chosen \in Seq(Chunks) /\ ToSet(chosen) \subseteq ToSet(last) /\ IsInjective(chosen)
        /\ passing # {} => ToSet(chosen) = passing
        /\ passing = {} => chosen = last
    BY <1>2, RelevantIs
  <2> HIDE DEF chosen
  <2>3. MaxCited \in Nat /\ MaxQuoted \in Nat /\ MaxQuoted <= MaxCited /\ MaxCited > 0
    BY SearchingAssumption DEF Loops!LoopsAssumption
  <2>4. IsInjective(cited) /\ cited # <<>> /\ ToSet(quoted) \subseteq ToSet(cited)
    BY <2>1, <2>2, <2>3, FirstOfStays
  <2>5. ToSet(cited) \subseteq ToSet(chosen)
    BY <2>2, <2>3, FirstOfSet
  <2>6. ToSet(chosen) # {}
    <3>0. chosen \in Seq(Chunks) /\ chosen # <<>>
      BY <2>1, <2>2
    <3>1. 1 \in DOMAIN chosen
      BY <3>0, EmptySeq
    <3> QED
      BY <3>1 DEF ToSet
  <2>7. ToSet(chosen) \subseteq relevant <=> passing # {}
    BY <2>2, <2>6
  <2>8. Grounded(way, relevant, lists, answer')
    <3>0. cited = FirstOf(chosen, MaxCited)
      OBVIOUS
    <3> HIDE DEF cited, quoted
    <3>1. ToSet(cited) \subseteq Resolves \intersect FoundIn(lists)
      BY <1>2, <2>1, <2>2, <2>5
    <3>2. answer'.weighed = chosen /\ answer'.citations = FirstOf(answer'.weighed, MaxCited)
      BY <2>1, <3>0
    <3>3. answer'.confidence = "high" <=> passing # {}
      BY <2>1, <2>7
    <3> QED
      BY <1>1, <2>1, <2>2, <2>4, <3>1, <3>2, <3>3 DEF Grounded, last
  <2> QED
    BY <1>1, <2>8 DEF LoopInv
<1> QED
  BY <1>3, <1>4

LEMMA DeepAnswerKeeps == ASSUME LoopInv, Loops!DeepAnswer PROVE LoopInv'
<1> DEFINE fused == Loops!PreferCurrent(Loops!RrfUnion(lists))
           pad == Loops!AddHits(Loops!RelevantFirst(fused))
<1>1. lists \in Seq(Hitlists) /\ way = "deep" /\ pc' = "done" /\ UNCHANGED <<way, relevant, lists>>
  BY DEF LoopInv, Loops!DeepAnswer, Loops!question
<1>2. fused \in Seq(Chunks) /\ ToSet(fused) \subseteq FoundIn(lists)
  <2>1. Loops!RrfUnion(lists) \in Seq(Chunks) /\ ToSet(Loops!RrfUnion(lists)) \subseteq FoundIn(lists)
    BY <1>1, UnionIs
  <2> QED
    BY <2>1, LoopCurrentIs
<1>3. CASE answer'.failed # ""
  BY <1>1, <1>3 DEF LoopInv, Grounded
<1>4. CASE answer'.failed = ""
  <2>1. /\ pad # <<>> /\ ToSet(pad) \subseteq Resolves
        /\ answer' = [failed |-> "", confidence |-> "high", citations |-> pad,
                      quoted |-> FirstOf(pad, MaxQuoted), weighed |-> pad]
    <3>1. \/ Loops!CanRespond(pad) /\ Loops!Reply("high", pad, pad)
          \/ Loops!Refuse("empty_scratchpad", "empty", <<>>)
      <4> HIDE DEF fused
      <4>1. fused = Loops!PreferCurrent(Loops!RrfUnion(lists))
        BY DEF fused
      <4>2. pad = Loops!AddHits(Loops!RelevantFirst(fused))
        OBVIOUS
      <4> HIDE DEF pad
      <4> QED
        BY <4>1, <4>2 DEF Loops!DeepAnswer
    <3> HIDE DEF pad
    <3>2. CASE Loops!Refuse("empty_scratchpad", "empty", <<>>)
      BY <1>4, <3>2 DEF Loops!Refuse
    <3>3. CASE Loops!CanRespond(pad) /\ Loops!Reply("high", pad, pad)
      BY <3>3, LoopLists DEF Loops!Reply, Loops!CanRespond
    <3> QED
      BY <3>1, <3>2, <3>3
  <2> HIDE DEF fused
  <2>2. Padded(pad, Loops!RelevantFirst(fused)) /\ ToSet(Loops!RelevantFirst(fused)) \subseteq ToSet(fused)
    <3>1. /\ Loops!RelevantFirst(fused) \in Seq(Chunks)
          /\ ToSet(Loops!RelevantFirst(fused)) \subseteq ToSet(fused)
      BY <1>2, RelevantIs
    <3> QED
      BY <3>1, PadIs
  <2> HIDE DEF pad
  <2>3. /\ pad \in Seq(Chunks) /\ IsInjective(pad) /\ ToSet(pad) \subseteq FoundIn(lists)
        /\ Loops!Used(pad) <= Budget
    BY <1>2, <2>2 DEF Padded
  <2>4. MaxQuoted \in Nat
    BY SearchingAssumption DEF Loops!LoopsAssumption
  <2>5. ToSet(FirstOf(pad, MaxQuoted)) \subseteq ToSet(pad)
    BY <2>3, <2>4, FirstOfSet
  <2>6. Grounded(way, relevant, lists, answer')
    BY <1>1, <2>1, <2>3, <2>5 DEF Grounded
  <2> QED
    BY <1>1, <2>6 DEF LoopInv
<1> QED
  BY <1>3, <1>4

LEMMA LoopStep == LoopInv /\ [Loops!LoopNext]_loopVars => LoopInv'
<1> SUFFICES ASSUME LoopInv, [Loops!LoopNext]_loopVars PROVE LoopInv'
  OBVIOUS
<1>1. CASE UNCHANGED loopVars
  BY <1>1 DEF loopVars, LoopInv
<1>2. CASE Loops!Searches
  BY <1>2, SearchKeeps, FirstKeeps, CorrectKeeps DEF Loops!Searches
<1>3. CASE Loops!Answers
  BY <1>3, LoopAnswerKeeps, DeepAnswerKeeps, CorrectedKeeps DEF Loops!Answers
<1> QED
  BY <1>1, <1>2, <1>3, AskKeeps DEF Loops!LoopNext

\* Whatever the searches find and the graders say, an answer cites what was
\* found and resolves, each chunk once and within the budget, and quotes only
\* what it cites; the loop never weighs a failing chunk beside a passing one;
\* and a correction loses no hit but to the current version of its file.
THEOREM LoopsRestOnEvidence == Loops!LoopSpec => []LoopsKeepToEvidence
<1>1. LoopInv => LoopsKeepToEvidence
  <2> SUFFICES ASSUME LoopInv PROVE Loops!AnswersGrounded /\ Loops!CorrectionKeepsHits
    BY DEF LoopsKeepToEvidence
  <2>1. Loops!FoundAtAll = FoundIn(lists)
    <3>1. Loops!FoundAtAll = UNION {ToSet(l) : l \in ToSet(lists)}
      BY LoopLists DEF Loops!FoundAtAll
    <3> QED
      BY <3>1 DEF FoundIn
  <2>2. Loops!AnswersGrounded
    <3> SUFFICES ASSUME Loops!Answered PROVE Loops!AnswersGrounded
      BY DEF Loops!AnswersGrounded
    <3>1. Grounded(way, relevant, lists, answer) /\ answer.failed = ""
      BY DEF LoopInv, Loops!Answered
    <3> QED
      BY <2>1, <3>1, LoopLists DEF Grounded, Loops!AnswersGrounded, Loops!Last1
  <2>3. Loops!CorrectionKeepsHits
    BY <2>1, LoopLists DEF LoopInv, HitsKept, Loops!CorrectionKeepsHits
  <2> QED
    BY <2>2, <2>3
<1>2. Loops!loopVars = loopVars
  BY DEF Loops!loopVars, loopVars
<1>3. LoopInv /\ [Loops!LoopNext]_Loops!loopVars => LoopInv'
  BY <1>2, LoopStep DEF Loops!loopVars, loopVars
<1> QED
  BY LoopStart, <1>1, <1>3, PTL DEF Loops!LoopSpec

\* Each of the three keeps its own promises, whichever of them a behaviour is.
THEOREM PartsKeepTheirPromises ==
    Spec => [](/\ CacheServesItsEntries /\ LoopsKeepToEvidence
               /\ FusionRespectsAgreement /\ VersionsGiveWay /\ OutcomeTellsHow)
<1>1. Init => CacheInit /\ Loops!LoopInit /\ RouteInit
  BY DEF Init
<1>2. [Next]_<<part, cacheVars, loopVars, routeVars>> =>
         [CacheNext]_cacheVars /\ [Loops!LoopNext]_loopVars /\ [RouteNext]_routeVars
  BY DEF Next
<1>3. Spec => CacheSpec
  BY <1>1, <1>2, PTL DEF Spec, CacheSpec
<1>4. Spec => RouteSpec
  BY <1>1, <1>2, PTL DEF Spec, RouteSpec
<1>5. Spec => Loops!LoopSpec
  <2>1. Loops!loopVars = loopVars
    BY DEF Loops!loopVars, loopVars
  <2>2. [Next]_<<part, cacheVars, loopVars, routeVars>> => [Loops!LoopNext]_Loops!loopVars
    BY <1>2, <2>1 DEF Loops!loopVars, loopVars
  <2> QED
    BY <1>1, <2>2, PTL DEF Spec, Loops!LoopSpec
<1> QED
  BY <1>3, <1>4, <1>5, CacheKeepsItsPromise, LoopsRestOnEvidence, FusionKeepsAgreement, NewestIsShown,
     ResponsesTellHow, PTL
=============================================================================
