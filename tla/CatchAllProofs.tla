--------------------------- MODULE CatchAllProofs ---------------------------
(***************************************************************************)
(* What holds of a proxied request for documents and paths of any depth,   *)
(* any number of paths and any replacement of the configuration.  The walk *)
(* of Extract is a recursive function over a path, so the first part is    *)
(* about that: what it computes, proved by induction over its length (as a *)
(* least counterexample, the library's induction being out of reach here). *)
(***************************************************************************)
EXTENDS CatchAll, FiniteSetTheorems, SequenceTheorems, TLAPS

\* A set of natural numbers has a least member.
LEMMA Least ==
    ASSUME NEW T \in SUBSET Nat, T # {}
    PROVE  \E x \in T : \A y \in T : x <= y
<1> DEFINE U == {1..n : n \in T}
<1>1. U \subseteq FiniteSubsetsOf(Nat) /\ U # {}
    <2>1. \A n \in Nat : IsFiniteSet(1..n)
        BY FS_Interval
    <2>2. \A n \in T : 1..n \in FiniteSubsetsOf(Nat)
        BY <2>1 DEF FiniteSubsetsOf
    <2> QED
        BY <2>2
<1>2. \E u \in U : \A v \in U : ~ (<<v, u>> \in StrictSubsetOrdering(Nat))
    BY <1>1, WFMin, FS_StrictSubsetOrderingWellFounded
<1>3. ASSUME NEW x \in T, NEW y \in T, y < x
      PROVE  <<1..y, 1..x>> \in StrictSubsetOrdering(Nat)
    <2>1. x \in 1..x /\ x \notin 1..y /\ 1..y \subseteq 1..x
        BY <1>3
    <2> QED
        BY <2>1 DEF StrictSubsetOrdering
<1>4. PICK x \in T : \A v \in U : ~ (<<v, 1..x>> \in StrictSubsetOrdering(Nat))
    BY <1>2
<1>5. \A y \in T : ~(y < x)
    BY <1>3, <1>4
<1> QED
    BY <1>5

-----------------------------------------------------------------------------
\* A key is a field's name or an index, never both.
LEMMA Keys ==
    ASSUME NEW k \in Fields \cup Nat
    PROVE  /\ IsIndex(k) => k \in Nat
           /\ ~IsIndex(k) => k \in Fields
           /\ k # Wildcard /\ k # Wrong
BY CatchAllAssumption DEF IsIndex

\* The first i elements of a sequence.
LEMMA Cut ==
    ASSUME NEW S, NEW n \in Seq(S), NEW i \in 0..Len(n)
    PROVE  /\ SubSeq(n, 1, i) \in Seq(S)
           /\ Len(SubSeq(n, 1, i)) = i
           /\ \A j \in 1..i : SubSeq(n, 1, i)[j] = n[j]
<1>1. \A j \in 1..i : n[j] \in S
    OBVIOUS
<1>2. i \in Int /\ 1 \in Int
    OBVIOUS
<1>3. /\ SubSeq(n, 1, i) \in Seq(S)
      /\ Len(SubSeq(n, 1, i)) = IF 1 <= i THEN i - 1 + 1 ELSE 0
      /\ \A j \in 1..(i - 1 + 1) : SubSeq(n, 1, i)[j] = n[1 + j - 1]
    BY <1>1, <1>2, SubSeqProperties
<1> QED
    BY <1>3

LEMMA CutAgain ==
    ASSUME NEW S, NEW n \in Seq(S), NEW i \in 0..Len(n), NEW j \in 0..i
    PROVE  SubSeq(SubSeq(n, 1, i), 1, j) = SubSeq(n, 1, j)
<1> DEFINE c == SubSeq(n, 1, i)
           d == SubSeq(c, 1, j)
           e == SubSeq(n, 1, j)
<1>1. c \in Seq(S) /\ Len(c) = i /\ \A k \in 1..i : c[k] = n[k]
    BY Cut
<1>2. e \in Seq(S) /\ Len(e) = j /\ \A k \in 1..j : e[k] = n[k]
    BY Cut
<1> HIDE DEF c
<1>3. d \in Seq(S) /\ Len(d) = j /\ \A k \in 1..j : d[k] = c[k]
    BY <1>1, Cut
<1> HIDE DEF d, e
<1>4. \A k \in 1..Len(d) : d[k] = e[k]
    BY <1>1, <1>2, <1>3
<1>5. d = e
    BY <1>2, <1>3, <1>4, SeqEqual
<1> QED
    BY <1>5 DEF c, d, e

LEMMA CutAll ==
    ASSUME NEW S, NEW n \in Seq(S)
    PROVE  SubSeq(n, 1, Len(n)) = n
BY SubSeqFull

\* A node is its holder and its key.
LEMMA NodeParts ==
    ASSUME NEW S, NEW n \in Seq(S), n # <<>>
    PROVE  /\ Len(n) \in Nat \ {0}
           /\ Key(n) \in S
           /\ Holder(n) \in Seq(S)
           /\ Len(Holder(n)) = Len(n) - 1
           /\ \A j \in 1..Len(n) - 1 : Holder(n)[j] = n[j]
           /\ n = Append(Holder(n), Key(n))
<1>1. Len(n) \in Nat \ {0}
    BY EmptySeq
<1>2. Len(n) - 1 \in 0..Len(n)
    BY <1>1
<1>3. /\ Holder(n) \in Seq(S)
      /\ Len(Holder(n)) = Len(n) - 1
      /\ \A j \in 1..Len(n) - 1 : Holder(n)[j] = n[j]
    BY <1>2, Cut DEF Holder
<1>4. Key(n) \in S
    BY <1>1, ElementOfSeq DEF Key
<1> DEFINE m == Append(Holder(n), Key(n))
<1>5. /\ m \in Seq(S) /\ Len(m) = Len(n)
      /\ \A j \in 1..Len(n) - 1 : m[j] = n[j]
      /\ m[Len(n)] = n[Len(n)]
    BY <1>1, <1>3, <1>4, AppendProperties DEF Key
<1> HIDE DEF m
<1>6. \A j \in 1..Len(n) : n[j] = m[j]
    BY <1>1, <1>5
<1>7. n = m
    BY <1>5, <1>6, SeqEqual
<1> QED
    BY <1>1, <1>3, <1>4, <1>7 DEF m

LEMMA AppendParts ==
    ASSUME NEW S, NEW n \in Seq(S), NEW k \in S
    PROVE  /\ Append(n, k) \in Seq(S)
           /\ Append(n, k) # <<>>
           /\ Len(Append(n, k)) = Len(n) + 1
           /\ Key(Append(n, k)) = k
           /\ Holder(Append(n, k)) = n
<1> DEFINE m == Append(n, k)
<1>1. /\ m \in Seq(S) /\ m # <<>> /\ Len(m) = Len(n) + 1 /\ m[Len(n) + 1] = k
      /\ \A j \in 1..Len(n) : m[j] = n[j]
    BY AppendProperties
<1> HIDE DEF m
<1>2. Holder(m) \in Seq(S) /\ Len(Holder(m)) = Len(n) /\ \A j \in 1..Len(n) : Holder(m)[j] = n[j]
    BY <1>1, NodeParts
<1>3. Holder(m) = n
    BY <1>2, SeqEqual
<1> QED
    BY <1>1, <1>3 DEF m, Key

-----------------------------------------------------------------------------
\* What a tree says of one of its nodes.
LEMMA TreeNode ==
    ASSUME NEW b, IsTree(b), NEW n \in DOMAIN b
    PROVE  /\ n \in Seq(Fields \cup Nat)
           /\ n # <<>> =>
                 /\ Holder(n) \in DOMAIN b
                 /\ b[Holder(n)] = HolderKind(Key(n))
                 /\ IsIndex(Key(n)) => \A i \in 0..Key(n) : Append(Holder(n), i) \in DOMAIN b
BY EmptySeq DEF IsTree

\* Every prefix of a node is a node.
LEMMA Prefixes ==
    ASSUME NEW b, IsTree(b), NEW n \in DOMAIN b, NEW i \in 0..Len(n)
    PROVE  SubSeq(n, 1, i) \in DOMAIN b
<1>1. n \in Seq(Fields \cup Nat) /\ Len(n) \in Nat
    BY TreeNode, LenProperties
<1> DEFINE T == {k \in 0..Len(n) : SubSeq(n, 1, Len(n) - k) \notin DOMAIN b}
<1>2. ASSUME T # {}
      PROVE  FALSE
    <2>0. T \in SUBSET Nat
        BY <1>1
    <2> HIDE DEF T
    <2>1. PICK k \in T : \A l \in T : k <= l
        BY <1>2, <2>0, Least
    <2> USE DEF T
    <2>2. SubSeq(n, 1, Len(n)) = n
        BY <1>1, CutAll
    <2>3. k \in 0..Len(n) /\ k # 0
        <3>1. SubSeq(n, 1, Len(n) - k) \notin DOMAIN b
            OBVIOUS
        <3>2. CASE k = 0
            <4>1. Len(n) - k = Len(n)
                BY <1>1, <3>2
            <4> QED
                BY <2>2, <3>1, <4>1
        <3> QED
            BY <3>2
    <2>4. k - 1 \in 0..Len(n) /\ k - 1 \notin T
        BY <1>1, <2>1, <2>3
    <2> DEFINE j == Len(n) - (k - 1)
               m == SubSeq(n, 1, j)
    <2>5. m \in DOMAIN b
        BY <2>4
    <2>6. j \in 1..Len(n) /\ j - 1 = Len(n) - k
        BY <1>1, <2>3
    <2> HIDE DEF j
    <2>7. Len(m) = j /\ m \in Seq(Fields \cup Nat)
        BY <1>1, <2>6, Cut
    <2>8. m # <<>>
        BY <2>6, <2>7
    <2>9. Holder(m) = SubSeq(n, 1, j - 1)
        BY <1>1, <2>6, <2>7, CutAgain DEF Holder
    <2>10. Holder(m) \in DOMAIN b
        BY <2>5, <2>8, TreeNode
    <2> QED
        BY <2>6, <2>9, <2>10
<1>3. Len(n) - i \in 0..Len(n) /\ Len(n) - (Len(n) - i) = i
    BY <1>1
<1> QED
    BY <1>2, <1>3

\* What holds the i-th key of a node.
LEMMA HolderKinds ==
    ASSUME NEW b, IsTree(b), NEW n \in DOMAIN b, NEW i \in 1..Len(n)
    PROVE  /\ SubSeq(n, 1, i - 1) \in DOMAIN b
           /\ b[SubSeq(n, 1, i - 1)] = HolderKind(n[i])
           /\ n[i] \in Fields \cup Nat
           /\ IsIndex(n[i]) =>
                \A k \in 0..n[i] : Append(SubSeq(n, 1, i - 1), k) \in DOMAIN b
<1>1. n \in Seq(Fields \cup Nat) /\ Len(n) \in Nat
    BY TreeNode, LenProperties
<1> DEFINE m == SubSeq(n, 1, i)
<1>2. m \in DOMAIN b
    BY <1>1, Prefixes
<1>3. Len(m) = i /\ m[i] = n[i] /\ m \in Seq(Fields \cup Nat)
    BY <1>1, Cut
<1>4. Holder(m) = SubSeq(n, 1, i - 1)
    BY <1>1, <1>3, CutAgain DEF Holder
<1> HIDE DEF m
<1>5. m # <<>> /\ Key(m) = n[i]
    BY <1>3 DEF Key
<1> QED
    BY <1>1, <1>2, <1>4, <1>5, TreeNode, ElementOfSeq

-----------------------------------------------------------------------------
\* The decoded document: it has the shape of the request's.
Shape ==
    /\ IsTree(Document)
    /\ DOMAIN payload = DOMAIN Document
    /\ \A n \in DOMAIN payload : payload[n].kind = Document[n] /\ payload[n].of = n

LEMMA Indexes == \A i \in Int : IsIndex(i)
BY CatchAllAssumption DEF IsIndex

\* len(n): the elements of a node are numbered from 0 to Size(n) - 1.
LEMMA SizeCounts ==
    ASSUME Shape, NEW n \in DOMAIN payload
    PROVE  /\ Size(n) \in Nat
           /\ \A i \in Int : Append(n, i) \in DOMAIN payload <=> i \in 0..Size(n) - 1
<1> DEFINE I == {i \in Nat : Append(n, i) \in DOMAIN payload}
           K == Fields \cup Nat
<1>0. n \in Seq(K) /\ IsTree(Document) /\ DOMAIN payload = DOMAIN Document
    BY TreeNode DEF Shape
<1>1. \A i \in Nat : /\ Append(n, i) \in Seq(K) /\ Append(n, i) # <<>>
                     /\ Key(Append(n, i)) = i /\ Holder(Append(n, i)) = n
    BY <1>0, AppendParts
<1>2. \A i \in I : \A j \in 0..i : j \in I
    <2> SUFFICES ASSUME NEW i \in I, NEW j \in 0..i
                 PROVE  Append(n, j) \in DOMAIN payload
        OBVIOUS
    <2>1. IsIndex(i)
        BY Indexes
    <2> QED
        BY <1>0, <1>1, <2>1, TreeNode
<1>3. Children(n, Wildcard) = {Append(n, i) : i \in I}
    <2>1. ASSUME NEW m \in Children(n, Wildcard)
          PROVE  \E i \in I : m = Append(n, i)
        <3>1. m \in DOMAIN payload /\ m # <<>> /\ Holder(m) = n
            BY DEF Children
        <3>2. m \in Seq(K) /\ Key(m) \in K /\ m = Append(n, Key(m))
            BY <1>0, <3>1, TreeNode, NodeParts
        <3>3. Key(m) = Wildcard \/ IsIndex(Key(m))
            BY DEF Children
        <3>4. Key(m) \in Nat
            BY <3>2, <3>3, Keys
        <3> QED
            BY <3>1, <3>2, <3>4
    <2>2. ASSUME NEW i \in I
          PROVE  Append(n, i) \in Children(n, Wildcard)
        BY <1>1, Indexes DEF Children
    <2> QED
        BY <2>1, <2>2
<1> DEFINE f == [i \in I |-> Append(n, i)]
<1>4. f \in Bijection(I, Children(n, Wildcard)) /\ f \in Injection(I, DOMAIN payload)
    <2>1. \A i, j \in I : f[i] = f[j] => i = j
        BY <1>1
    <2>2. f \in [I -> Children(n, Wildcard)] /\ f \in [I -> DOMAIN payload]
        BY <1>3
    <2>3. \A m \in Children(n, Wildcard) : \E i \in I : f[i] = m
        BY <1>3
    <2> HIDE DEF f, I
    <2> QED
        BY <2>1, <2>2, <2>3 DEF Bijection, Injection, Surjection, IsInjective
<1> HIDE DEF f
<1>5. IsFiniteSet(I) /\ IsFiniteSet(Children(n, Wildcard)) /\ Cardinality(I) = Size(n)
    <2>1. IsFiniteSet(DOMAIN payload)
        BY <1>0 DEF IsTree
    <2>2. IsFiniteSet(I)
        BY <1>4, <2>1, FS_Injection
    <2>3. ExistsBijection(I, Children(n, Wildcard))
        BY <1>4 DEF ExistsBijection
    <2> QED
        BY <2>2, <2>3, FS_Bijection DEF Size
<1>6. Cardinality(I) \in Nat
    BY <1>5, FS_CardinalityType
<1> DEFINE Out == {k \in Nat : k \notin I}
<1>7. Out # {}
    <2> DEFINE c == Cardinality(I)
    <2>1. IsFiniteSet(0..c) /\ Cardinality(0..c) = c + 1
        BY <1>6, FS_Interval
    <2>2. ~ (0..c \subseteq I)
        <3>1. ASSUME 0..c \subseteq I
              PROVE  Cardinality(0..c) <= c
            BY <1>5, <3>1, FS_Subset
        <3> QED
            BY <1>6, <2>1, <3>1
    <2> QED
        BY <1>6, <2>2
<1>8. PICK k \in Out : \A l \in Out : k <= l
    <2>1. Out \in SUBSET Nat
        OBVIOUS
    <2> HIDE DEF Out
    <2> QED
        BY <1>7, <2>1, Least
<1>9. I = 0..k - 1
    <2>1. k \in Nat /\ k \notin I /\ \A l \in Nat : l \notin I => k <= l
        BY <1>8
    <2>2. I \subseteq Nat
        OBVIOUS
    <2> HIDE DEF I, Out
    <2>3. \A i \in I : i < k
        BY <1>2, <2>1, <2>2
    <2>4. \A i \in 0..k - 1 : i \in Nat /\ i < k
        BY <2>1
    <2>5. \A i \in 0..k - 1 : i \in I
        BY <2>1, <2>4
    <2>6. \A i \in I : i \in 0..k - 1
        BY <2>1, <2>2, <2>3
    <2> QED
        BY <2>5, <2>6
<1>10. Size(n) = k
    <2>1. k \in Nat
        BY <1>8
    <2>2. Cardinality(0..k - 1) = k
        BY <2>1, FS_Interval
    <2> QED
        BY <1>5, <1>9, <2>2
<1>11. ASSUME NEW i \in Int, Append(n, i) \in DOMAIN payload
       PROVE  i \in Nat
    <2>1. n \in Seq(K \cup Int)
        BY <1>0, SeqMonotonic
    <2>2. Append(n, i) # <<>> /\ Key(Append(n, i)) = i
        BY <2>1, AppendParts
    <2>3. Append(n, i) \in Seq(K)
        BY <1>0, <1>11, TreeNode
    <2>4. i \in K
        BY <2>2, <2>3, NodeParts
    <2> QED
        BY <2>4, Keys, Indexes
<1>12. k \in Nat
    BY <1>8
<1> HIDE DEF Out
<1>13. \A i \in Int : Append(n, i) \in DOMAIN payload <=> i \in I
    BY <1>11
<1> QED
    BY <1>9, <1>10, <1>12, <1>13

-----------------------------------------------------------------------------
\* One segment further, from all the nodes of S.
Onward(S, segment) == UNION {Children(n, segment) : n \in S}

\* v is the walk along the first k segments.
IsWalk(path, v, k) ==
    /\ DOMAIN v = 0..k
    /\ v = [i \in 0..k |-> v[i]]
    /\ v[0] = {<<>>}
    /\ \A i \in 1..k : v[i] = Onward(v[i - 1], path[i])

\* The recursion over the path defines a walk.
LEMMA WalkExists ==
    ASSUME NEW path, NEW length \in Nat
    PROVE  \E v : IsWalk(path, v, length)
<1> DEFINE T == {k \in Nat : ~ \E v : IsWalk(path, v, k)}
<1>1. ASSUME T # {}
      PROVE  FALSE
    <2>1. PICK k \in T : \A l \in T : k <= l
        <3>1. T \in SUBSET Nat
            OBVIOUS
        <3> HIDE DEF T
        <3> QED
            BY <1>1, <3>1, Least
    <2>2. CASE k = 0
        <3>1. IsWalk(path, [i \in 0..0 |-> {<<>>}], 0)
            BY DEF IsWalk
        <3> QED
            BY <2>2, <3>1
    <2>3. CASE k # 0
        <3>1. k - 1 \in Nat /\ k \in Nat /\ ~(k <= k - 1)
            BY <2>3
        <3>2. k - 1 \notin T
            <4> HIDE DEF T
            <4> QED
                BY <2>1, <3>1
        <3>3. PICK u : IsWalk(path, u, k - 1)
            BY <3>1, <3>2
        <3> DEFINE v == [i \in 0..k |-> IF i = k THEN Onward(u[k - 1], path[k]) ELSE u[i]]
        <3>4. v[k] = Onward(u[k - 1], path[k]) /\ \A i \in 0..k - 1 : v[i] = u[i]
            BY <3>1
        <3>5. DOMAIN v = 0..k /\ v = [i \in 0..k |-> v[i]]
            OBVIOUS
        <3> HIDE DEF v
        <3>6. v[0] = {<<>>}
            BY <3>1, <3>3, <3>4 DEF IsWalk
        <3>7. ASSUME NEW i \in 1..k
              PROVE  v[i] = Onward(v[i - 1], path[i])
            <4>1. i - 1 \in 0..k - 1 /\ (i # k => i \in 1..k - 1)
                BY <3>1
            <4>2. v[i - 1] = u[i - 1]
                BY <3>4, <4>1
            <4>3. CASE i = k
                BY <3>4, <4>2, <4>3
            <4>4. CASE i # k
                <5>1. v[i] = u[i] /\ u[i] = Onward(u[i - 1], path[i])
                    BY <3>1, <3>3, <3>4, <4>1, <4>4 DEF IsWalk
                <5> QED
                    BY <4>2, <5>1
            <4> QED
                BY <4>3, <4>4
        <3>8. IsWalk(path, v, k)
            BY <3>5, <3>6, <3>7 DEF IsWalk
        <3> QED
            BY <3>8
    <2> QED
        BY <2>2, <2>3
<1> QED
    BY <1>1

\* Where Extract stands, segment by segment.
LEMMA Walked ==
    ASSUME NEW path, Len(path) \in Nat
    PROVE  /\ Visited(path)[0] = {<<>>}
           /\ \A i \in 1..Len(path) : Visited(path)[i] = Onward(Visited(path)[i - 1], path[i])
<1> DEFINE Rule(v) ==
               v = [i \in 0..Len(path) |->
                     IF i = 0 THEN {<<>>} ELSE UNION {Children(n, path[i]) : n \in v[i - 1]}]
<1>1. PICK w : IsWalk(path, w, Len(path))
    BY WalkExists
<1>2. Rule(w)
    <2>1. \A i \in 0..Len(path) :
              w[i] = IF i = 0 THEN {<<>>} ELSE UNION {Children(n, path[i]) : n \in w[i - 1]}
        <3> SUFFICES ASSUME NEW i \in 0..Len(path)
                     PROVE  w[i] = IF i = 0 THEN {<<>>} ELSE UNION {Children(n, path[i]) : n \in w[i - 1]}
            OBVIOUS
        <3>1. CASE i = 0
            BY <1>1, <3>1 DEF IsWalk
        <3>2. CASE i # 0
            <4>0. i \in 1..Len(path)
                BY <3>2
            <4>1. w[i] = Onward(w[i - 1], path[i])
                BY <1>1, <4>0 DEF IsWalk
            <4> QED
                BY <3>2, <4>1 DEF Onward
        <3> QED
            BY <3>1, <3>2
    <2> QED
        BY <1>1, <2>1 DEF IsWalk
<1>3. Visited(path) = CHOOSE v : Rule(v)
    BY DEF Visited
<1>4. Rule(Visited(path))
    <2> HIDE DEF Rule
    <2> QED
        BY <1>2, <1>3
<1> DEFINE v == Visited(path)
<1> HIDE DEF v
<1>5. \A i \in 0..Len(path) :
          v[i] = IF i = 0 THEN {<<>>} ELSE UNION {Children(n, path[i]) : n \in v[i - 1]}
    BY <1>4 DEF v
<1>6. v[0] = {<<>>}
    <2>1. 0 \in 0..Len(path)
        OBVIOUS
    <2> QED
        BY <1>5, <2>1, Zenon
<1>7. ASSUME NEW i \in 1..Len(path)
      PROVE  v[i] = Onward(v[i - 1], path[i])
    <2>1. i \in 0..Len(path) /\ i # 0
        OBVIOUS
    <2>2. v[i] = UNION {Children(n, path[i]) : n \in v[i - 1]}
        BY <1>5, <2>1
    <2> QED
        BY <2>2 DEF Onward
<1> QED
    BY <1>6, <1>7 DEF v

-----------------------------------------------------------------------------
\* One segment matches a key.
Matches(k, segment) == k = segment \/ (segment = Wildcard /\ IsIndex(k))

\* The nodes on the first i segments of a path.
Reach(path, i) ==
    {n \in DOMAIN payload : Len(n) = i /\ \A j \in 1..i : Matches(n[j], path[j])}

\* One segment further on a path are the nodes that lie on it.
LEMMA OneSegment ==
    ASSUME Shape, NEW path, NEW i \in Nat \ {0}
    PROVE  Onward(Reach(path, i - 1), path[i]) = Reach(path, i)
<1> DEFINE K == Fields \cup Nat
<1>0. /\ IsTree(Document) /\ DOMAIN payload = DOMAIN Document
      /\ i - 1 \in Nat
    BY DEF Shape
<1>1. ASSUME NEW n \in Reach(path, i - 1), NEW m \in Children(n, path[i])
      PROVE  m \in Reach(path, i)
    <2>1. m \in DOMAIN payload /\ m # <<>> /\ Holder(m) = n /\ Matches(Key(m), path[i])
        BY DEF Children, Matches
    <2>2. m \in Seq(K)
        BY <1>0, <2>1, TreeNode
    <2>3. Len(n) = i - 1 /\ \A j \in 1..i - 1 : Matches(n[j], path[j])
        BY DEF Reach
    <2>4. /\ Len(m) \in Nat /\ Len(n) = Len(m) - 1
          /\ \A j \in 1..Len(m) - 1 : n[j] = m[j]
        BY <2>1, <2>2, NodeParts
    <2>5. Len(m) = i
        BY <2>3, <2>4
    <2>6. \A j \in 1..i : j \in 1..i - 1 \/ j = i
        OBVIOUS
    <2>7. Matches(m[i], path[i])
        BY <2>1, <2>5 DEF Key
    <2> QED
        BY <2>1, <2>3, <2>4, <2>5, <2>6, <2>7 DEF Reach
<1>2. ASSUME NEW m \in Reach(path, i)
      PROVE  Holder(m) \in Reach(path, i - 1) /\ m \in Children(Holder(m), path[i])
    <2>1. m \in DOMAIN payload /\ Len(m) = i /\ \A j \in 1..i : Matches(m[j], path[j])
        BY DEF Reach
    <2>2. m \in Seq(K) /\ m # <<>>
        BY <1>0, <2>1, TreeNode, EmptySeq
    <2>3. Holder(m) \in DOMAIN payload
        BY <1>0, <2>1, <2>2, TreeNode
    <2>4. Len(Holder(m)) = i - 1 /\ \A j \in 1..i - 1 : Holder(m)[j] = m[j]
        BY <2>1, <2>2, NodeParts
    <2>5. \A j \in 1..i - 1 : j \in 1..i
        OBVIOUS
    <2>6. Holder(m) \in Reach(path, i - 1)
        BY <2>1, <2>3, <2>4, <2>5 DEF Reach
    <2>7. Matches(Key(m), path[i])
        BY <2>1 DEF Key
    <2>8. m \in Children(Holder(m), path[i])
        BY <2>1, <2>2, <2>7 DEF Children, Matches
    <2> QED
        BY <2>6, <2>8
<1>3. Onward(Reach(path, i - 1), path[i]) \subseteq Reach(path, i)
    BY <1>1 DEF Onward
<1>4. Reach(path, i) \subseteq Onward(Reach(path, i - 1), path[i])
    BY <1>2 DEF Onward
<1> QED
    BY <1>3, <1>4

\* Extract stands exactly at the nodes that lie on what it has walked.
LEMMA VisitedIs ==
    ASSUME Shape, NEW path, Len(path) \in Nat
    PROVE  \A i \in 0..Len(path) : Visited(path)[i] = Reach(path, i)
<1> DEFINE T == {i \in 0..Len(path) : Visited(path)[i] # Reach(path, i)}
<1>1. ASSUME T # {}
      PROVE  FALSE
    <2>1. PICK k \in T : \A l \in T : k <= l
        <3>1. T \in SUBSET Nat
            OBVIOUS
        <3> HIDE DEF T
        <3> QED
            BY <1>1, <3>1, Least
    <2>2. CASE k = 0
        <3>1. Reach(path, 0) = {<<>>}
            <4>1. DOMAIN payload \subseteq Seq(Fields \cup Nat) /\ <<>> \in DOMAIN payload
                BY TreeNode DEF Shape, IsTree
            <4>2. \A n \in DOMAIN payload : Len(n) = 0 <=> n = <<>>
                BY <4>1, EmptySeq
            <4> QED
                BY <4>1, <4>2 DEF Reach
        <3> QED
            BY <2>2, <3>1, Walked
    <2>3. CASE k # 0
        <3>1. k \in 1..Len(path) /\ k - 1 \in 0..Len(path) /\ ~(k <= k - 1) /\ k \in Nat \ {0}
            BY <2>3
        <3>2. k - 1 \notin T
            <4> HIDE DEF T
            <4> QED
                BY <2>1, <3>1
        <3>3. Visited(path)[k - 1] = Reach(path, k - 1)
            BY <3>1, <3>2
        <3>4. Visited(path)[k] = Onward(Reach(path, k - 1), path[k])
            BY <3>1, <3>3, Walked
        <3>5. Visited(path)[k] = Reach(path, k)
            BY <3>1, <3>4, OneSegment
        <3> QED
            BY <3>5
    <2> QED
        BY <2>2, <2>3
<1> QED
    BY <1>1

\* Reach in the words of the specification.
LEMMA ReachLies ==
    ASSUME Shape, NEW path \in Seq(Segments), NEW i \in 0..Len(path), NEW n \in DOMAIN payload
    PROVE  n \in Reach(path, i) <=> LiesOn(n, SubSeq(path, 1, i))
<1> DEFINE p == SubSeq(path, 1, i)
<1>1. Len(p) = i /\ \A j \in 1..i : p[j] = path[j]
    BY Cut
<1>2. DOMAIN n = 1..Len(n)
    BY TreeNode, LenProperties, SMTT(30) DEF Shape
<1> HIDE DEF p
<1>3. n \in Reach(path, i) <=> LiesOn(n, p)
    BY <1>1, <1>2, Zenon DEF Reach, LiesOn, Matches
<1> QED
    BY <1>3 DEF p

\* Extract returns the strings that lie on the path.
LEMMA ExtractIs ==
    ASSUME Shape, NEW path \in Seq(Segments)
    PROVE  Extract(path) = {n \in DOMAIN Document : Document[n] = "string" /\ LiesOn(n, path)}
<1>1. /\ Len(path) \in Nat /\ Len(path) \in 0..Len(path)
      /\ SubSeq(path, 1, Len(path)) = path
    BY LenProperties, CutAll
<1>2. Visited(path)[Len(path)] = Reach(path, Len(path))
    BY <1>1, VisitedIs
<1>3. \A n \in DOMAIN payload : n \in Reach(path, Len(path)) <=> LiesOn(n, path)
    BY <1>1, ReachLies
<1>4. Reach(path, Len(path)) \subseteq DOMAIN payload
    BY DEF Reach
<1> QED
    BY <1>2, <1>3, <1>4 DEF Extract, Shape

\* A path whose goroutine sends no error is sound.
LEMMA SoundIs ==
    ASSUME Shape, NEW path \in Seq(Segments), ~Unparsable(path), ~OutOfRange(path)
    PROVE  Sound(path)
<1>1. Len(path) \in Nat /\ DOMAIN path = 1..Len(path)
    BY LenProperties
<1>2. path # <<>> /\ \A i \in DOMAIN path : path[i] # Wrong
    BY DEF Unparsable
<1>3. ASSUME NEW i \in DOMAIN path, NEW n \in DOMAIN Document,
             IsIndex(path[i]), Document[n] = "array", LiesOn(n, SubSeq(path, 1, i - 1))
      PROVE  Append(n, path[i]) \in DOMAIN Document
    <2>1. i - 1 \in 0..Len(path) /\ n \in DOMAIN payload /\ payload[n].kind = "array"
        BY <1>1, <1>3 DEF Shape
    <2>2. n \in Reach(path, i - 1)
        BY <1>3, <2>1, ReachLies
    <2>3. n \in Visited(path)[i - 1]
        BY <1>1, <2>1, <2>2, VisitedIs
    <2>4. path[i] \in 0..Size(n) - 1
        BY <1>3, <2>1, <2>3 DEF OutOfRange
    <2>5. path[i] \in Int
        BY <2>1, <2>4, SizeCounts
    <2> QED
        BY <2>1, <2>4, <2>5, SizeCounts DEF Shape
<1> QED
    BY <1>2, <1>3 DEF Sound

-----------------------------------------------------------------------------
\* An index on the way to a node lies inside its array.
LEMMA InRange ==
    ASSUME Shape, NEW n \in DOMAIN payload, NEW i \in 1..Len(n)
    PROVE  /\ SubSeq(n, 1, i - 1) \in DOMAIN payload
           /\ payload[SubSeq(n, 1, i - 1)].kind = HolderKind(n[i])
           /\ n[i] \in Fields \cup Nat
           /\ IsIndex(n[i]) => /\ n[i] \in 0..Size(SubSeq(n, 1, i - 1)) - 1
                               /\ Size(SubSeq(n, 1, i - 1)) \in Nat
<1> DEFINE h == SubSeq(n, 1, i - 1)
<1>1. /\ h \in DOMAIN payload /\ payload[h].kind = HolderKind(n[i]) /\ n[i] \in Fields \cup Nat
      /\ IsIndex(n[i]) => \A k \in 0..n[i] : Append(h, k) \in DOMAIN payload
    BY HolderKinds DEF Shape
<1> HIDE DEF h
<1>2. ASSUME IsIndex(n[i])
      PROVE  n[i] \in 0..Size(h) - 1 /\ Size(h) \in Nat
    <2>1. n[i] \in Nat
        BY <1>1, <1>2, Keys
    <2>2. Append(h, n[i]) \in DOMAIN payload
        BY <1>1, <1>2, <2>1
    <2> QED
        BY <1>1, <2>1, <2>2, SizeCounts
<1> QED
    BY <1>1, <1>2 DEF h

\* The path of a node is as long as the node, of names and numbers.
LEMMA ResolvedType ==
    ASSUME Shape, NEW n \in DOMAIN payload
    PROVE  /\ n \in Seq(Fields \cup Int) /\ Len(n) \in Nat /\ DOMAIN n = 1..Len(n)
           /\ Resolved(n) \in Seq(Fields \cup Int)
           /\ DOMAIN Resolved(n) = 1..Len(n) /\ Len(Resolved(n)) = Len(n)
<1>1. n \in Seq(Fields \cup Nat)
    BY TreeNode DEF Shape
<1>2. n \in Seq(Fields \cup Int) /\ Len(n) \in Nat /\ DOMAIN n = 1..Len(n)
    BY <1>1, SeqMonotonic, LenProperties
<1>3. \A i \in 1..Len(n) : n[i] \in Fields \cup Int
    BY <1>2, ElementOfSeq
<1>4. \A i \in 1..Len(n) : Resolved(n)[i] \in Fields \cup Int
    BY <1>2, <1>3, CatchAllAssumption DEF Resolved
<1>5. Resolved(n) \in [1..Len(n) -> Fields \cup Int]
    BY <1>2, <1>4 DEF Resolved
<1>6. Resolved(n) \in Seq(Fields \cup Int)
    BY <1>2, <1>5, SeqDef
<1> QED
    BY <1>2, <1>5, <1>6, LenProperties

\* Where the path of a node first differs from the node, a name has become an
\* index below an object.
LEMMA FirstDifference ==
    ASSUME Shape, NEW n \in DOMAIN payload, Resolved(n) # n
    PROVE  \E j \in 1..Len(n) :
              /\ \A i \in 1..j - 1 : Resolved(n)[i] = n[i]
              /\ SubSeq(Resolved(n), 1, j - 1) = SubSeq(n, 1, j - 1)
              /\ n[j] \in DOMAIN Index
              /\ IsIndex(Resolved(n)[j])
              /\ HolderKind(Resolved(n)[j]) = "array"
              /\ HolderKind(n[j]) = "object"
<1> DEFINE r == Resolved(n)
           D == {i \in 1..Len(n) : r[i] # n[i]}
<1>0. /\ n \in Seq(Fields \cup Int) /\ Len(n) \in Nat /\ DOMAIN n = 1..Len(n)
      /\ r \in Seq(Fields \cup Int) /\ DOMAIN r = 1..Len(n) /\ Len(r) = Len(n)
    BY ResolvedType
<1>1. D # {}
    <2> HIDE DEF r
    <2>1. ASSUME \A i \in 1..Len(n) : n[i] = r[i]
          PROVE  n = r
        BY <1>0, <2>1, SeqEqual
    <2> QED
        BY <2>1 DEF r
<1>2. PICK j \in D : \A l \in D : j <= l
    <2>1. D \in SUBSET Nat
        BY <1>0
    <2> HIDE DEF D
    <2> QED
        BY <1>1, <2>1, Least
<1>3. j \in 1..Len(n) /\ r[j] # n[j]
    BY <1>2
<1>4. n[j] \in DOMAIN Index /\ r[j] = Index[n[j]]
    BY <1>0, <1>3 DEF Resolved
<1>5. n[j] \in Fields /\ r[j] \in Int
    BY <1>4, CatchAllAssumption
<1>6. IsIndex(r[j]) /\ ~IsIndex(n[j])
    BY <1>5, Indexes DEF IsIndex
<1>7. \A i \in 1..j - 1 : i \in 1..Len(n) /\ ~(j <= i)
    BY <1>0, <1>3
<1>8. \A i \in 1..j - 1 : r[i] = n[i]
    BY <1>2, <1>7
<1>9. SubSeq(r, 1, j - 1) = SubSeq(n, 1, j - 1)
    <2> DEFINE c == SubSeq(r, 1, j - 1)
               d == SubSeq(n, 1, j - 1)
    <2> HIDE DEF r
    <2>0. j - 1 \in 0..Len(n)
        BY <1>0, <1>3
    <2>1. c \in Seq(Fields \cup Int) /\ Len(c) = j - 1 /\ \A i \in 1..j - 1 : c[i] = r[i]
        BY <1>0, <2>0, Cut
    <2>2. d \in Seq(Fields \cup Int) /\ Len(d) = j - 1 /\ \A i \in 1..j - 1 : d[i] = n[i]
        BY <1>0, <2>0, Cut
    <2> HIDE DEF c, d
    <2>3. \A i \in 1..Len(c) : c[i] = d[i]
        BY <1>8, <2>1, <2>2
    <2>4. c = d
        BY <2>1, <2>2, <2>3, SeqEqual
    <2> QED
        BY <2>4 DEF c, d
<1> QED
    BY <1>3, <1>4, <1>6, <1>8, <1>9 DEF HolderKind

\* SetString reaches the node it was given the path of, or fails.
LEMMA SetWhereRead ==
    ASSUME Shape, NEW n \in DOMAIN payload, ~SetFails(Resolved(n))
    PROVE  Resolved(n) = n
<1> SUFFICES ASSUME Resolved(n) # n
             PROVE  FALSE
    OBVIOUS
<1> DEFINE r == Resolved(n)
<1>1. PICK j \in 1..Len(n) :
              /\ SubSeq(r, 1, j - 1) = SubSeq(n, 1, j - 1)
              /\ HolderKind(r[j]) = "array"
              /\ HolderKind(n[j]) = "object"
    BY FirstDifference
<1>2. SubSeq(n, 1, j - 1) \in DOMAIN payload /\ payload[SubSeq(n, 1, j - 1)].kind = "object"
    BY <1>1, InRange
<1>3. j \in DOMAIN r
    BY ResolvedType
<1> HIDE DEF r
<1>4. SetFails(r)
    BY <1>1, <1>2, <1>3 DEF SetFails, Reached
<1> QED
    BY <1>4 DEF r

\* It fails for names that are numbers only.
LEMMA FailsForNumbers ==
    ASSUME Shape, NEW n \in DOMAIN payload, SetFails(Resolved(n))
    PROVE  \E i \in DOMAIN n : n[i] \in DOMAIN Index
<1>0. n \in Seq(Fields \cup Nat) /\ Len(n) \in Nat /\ DOMAIN n = 1..Len(n)
    BY TreeNode, LenProperties DEF Shape
<1>1. CASE Resolved(n) # n
    BY <1>0, <1>1, FirstDifference
<1>2. CASE Resolved(n) = n
    <2>1. PICK i \in DOMAIN n : Reached(n, i) \in DOMAIN payload /\
              \/ payload[Reached(n, i)].kind # HolderKind(n[i])
              \/ IsIndex(n[i]) /\ (n[i] < 0 \/ n[i] > Size(Reached(n, i)))
              \/ ~IsIndex(n[i]) /\ i < Len(n) /\ Reached(n, i + 1) \notin DOMAIN payload
        BY <1>2 DEF SetFails
    <2>2. ~ (payload[Reached(n, i)].kind # HolderKind(n[i]))
        BY <1>0, InRange DEF Reached
    <2>3. ~ (IsIndex(n[i]) /\ (n[i] < 0 \/ n[i] > Size(Reached(n, i))))
        <3>1. ASSUME IsIndex(n[i])
              PROVE  n[i] \in 0..Size(Reached(n, i)) - 1 /\ Size(Reached(n, i)) \in Nat
            BY <1>0, <3>1, InRange DEF Reached
        <3> QED
            BY <3>1
    <2>4. i < Len(n) => Reached(n, i + 1) \in DOMAIN payload
        <3>1. i \in 0..Len(n) /\ i + 1 - 1 = i
            BY <1>0
        <3>2. SubSeq(n, 1, i) \in DOMAIN payload
            BY <3>1, Prefixes DEF Shape
        <3> QED
            BY <3>1, <3>2 DEF Reached
    <2> QED
        BY <2>1, <2>2, <2>3, <2>4
<1> QED
    BY <1>1, <1>2

\* It never indexes behind the end of an array.
LEMMA NeverPanics ==
    ASSUME Shape, NEW n \in DOMAIN payload
    PROVE  ~SetPanics(Resolved(n))
<1> DEFINE r == Resolved(n)
<1>0. /\ Len(n) \in Nat /\ r \in Seq(Fields \cup Int) /\ DOMAIN r = 1..Len(n) /\ Len(r) = Len(n)
    BY ResolvedType
<1> HIDE DEF r
<1> SUFFICES ASSUME NEW i \in 1..Len(n), Reached(r, i) \in DOMAIN payload,
                    payload[Reached(r, i)].kind = "array", IsIndex(r[i]),
                    r[i] = Size(Reached(r, i))
             PROVE  FALSE
    BY <1>0 DEF SetPanics, r
<1>1. ASSUME Reached(r, i) = SubSeq(n, 1, i - 1), r[i] = n[i]
      PROVE  FALSE
    <2>1. n[i] \in 0..Size(Reached(r, i)) - 1 /\ Size(Reached(r, i)) \in Nat
        BY <1>1, InRange
    <2> QED
        BY <1>1, <2>1
<1>2. CASE r = n
    BY <1>1, <1>2 DEF Reached
<1>3. CASE r # n
    <2>1. PICK j \in 1..Len(n) :
                /\ \A l \in 1..j - 1 : r[l] = n[l]
                /\ SubSeq(r, 1, j - 1) = SubSeq(n, 1, j - 1)
                /\ HolderKind(r[j]) = "array"
                /\ HolderKind(n[j]) = "object"
        BY <1>3, FirstDifference DEF r
    <2>2. CASE i < j
        <3>1. i \in 1..j - 1 /\ i - 1 \in 0..j - 1 /\ j - 1 \in 0..Len(n)
            BY <1>0, <2>2
        <3>2. SubSeq(r, 1, i - 1) = SubSeq(SubSeq(r, 1, j - 1), 1, i - 1)
            BY <1>0, <3>1, CutAgain
        <3>3. SubSeq(n, 1, i - 1) = SubSeq(SubSeq(n, 1, j - 1), 1, i - 1)
            BY <3>1, CutAgain, ResolvedType
        <3> QED
            BY <1>1, <2>1, <3>1, <3>2, <3>3 DEF Reached
    <2>3. CASE i = j
        BY <2>1, <2>3, InRange DEF Reached
    <2>4. CASE i > j
        <3> DEFINE m == SubSeq(r, 1, i - 1)
        <3>1. i - 1 \in 0..Len(n) /\ j \in 1..i - 1 /\ j - 1 \in 0..i - 1
            BY <1>0, <2>4
        <3>2. Len(m) = i - 1 /\ m[j] = r[j] /\ SubSeq(m, 1, j - 1) = SubSeq(r, 1, j - 1)
            BY <1>0, <3>1, Cut, CutAgain
        <3>3. m \in DOMAIN payload
            BY DEF Reached
        <3> HIDE DEF m
        <3>4. payload[SubSeq(m, 1, j - 1)].kind = "array"
            BY <2>1, <3>1, <3>2, <3>3, InRange
        <3>5. payload[SubSeq(n, 1, j - 1)].kind = "object"
            BY <2>1, InRange
        <3> QED
            BY <2>1, <3>2, <3>4, <3>5
    <2> QED
        BY <1>0, <2>2, <2>3, <2>4
<1> QED
    BY <1>2, <1>3

-----------------------------------------------------------------------------
\* The strings a path of the target selects, and the strings all of them do.
Strings(i) ==
    {n \in DOMAIN Document : Document[n] = "string" /\ LiesOn(n, target.paths[i])}

Chosen == Selected(target)

AllSound == \A i \in DOMAIN target.paths : Sound(target.paths[i])

\* What a goroutine may have sent: the strings of its path, which is sound.
Sendable(v) ==
    v[1] \in DOMAIN target.paths /\ v[2] = Strings(v[1]) /\ Sound(target.paths[v[1]])

\* The handler knows what it is doing: a target from its routing on, no answer
\* before the end.
Routed ==
    /\ config \in Configs /\ updates \in 0..MaxUpdates /\ request \in Requests
    /\ stage \in {"route", "read", "extract", "mask", "relay", "forward", "over", "dead"}
    /\ target = Nothing \/ \E c \in Configs : \E i \in DOMAIN c : target = c[i]
    /\ stage \in {"read", "extract", "mask", "relay"} => target # Nothing
    /\ stage # "over" => answer = "none"
    /\ stage \notin {"forward", "over", "dead"} => sent = Nothing
    /\ answer \in {"none", "no route", "unreadable", "malformed", "bad path", "engine",
                   "not set", "panic", "upstream", "aborted", "forwarded"}

\* The decoded document keeps its shape while its strings are replaced.
Formed == \A n \in DOMAIN payload : payload[n].form \in {"plain", "rounded", "masked", "blank"}

Held ==
    /\ payload = Nothing \/ (Shape /\ Formed)
    /\ stage \in {"extract", "mask", "relay"} => Shape /\ Formed

\* Every path is with its goroutine or in one of the channels.
Channels ==
    /\ stage # "extract" => running = {}
    /\ stage \in {"route", "read"} => errChan = {} /\ valuesChan = {}
    /\ target # Nothing => running \cup errChan \subseteq DOMAIN target.paths
    /\ \A v \in valuesChan : Sendable(v)
    /\ stage = "extract" =>
          \A i \in DOMAIN target.paths :
              i \in running \/ i \in errChan \/ \E v \in valuesChan : v[1] = i

\* A string of the document is masked, or it is still to be; the others are as
\* they were decoded.
Texts ==
    /\ stage = "extract" => payload = Decoded(Document)
    /\ stage \in {"route", "read", "extract", "relay"} => asked = {} /\ todo = {}
    /\ \A v \in todo : v[1] \in DOMAIN target.paths /\ v[2] \in Chosen
    /\ stage \in {"mask", "relay"} => AllSound
    /\ stage = "relay" => Chosen = {}
    /\ stage = "mask" =>
          /\ Chosen # {}
          /\ \A n \in DOMAIN Document :
                /\ n \in Chosen =>
                      payload[n].form \in {"masked", "blank"} \/ \E v \in todo : v[2] = n
                /\ n \notin Chosen => payload[n].form = Decoded(Document)[n].form

SafeInv ==
    /\ Routed /\ Held /\ Channels /\ Texts
    /\ FilteredForItsTarget /\ AskedWhenSound /\ WhatIsReadCanBeSet

LEMMA InitSafe == Init => SafeInv
<1> SUFFICES ASSUME Init
             PROVE  SafeInv
    OBVIOUS
<1>1. Routed
    BY CatchAllAssumption DEF Init, Routed
<1>2. Held /\ Channels /\ Texts
    BY DEF Init, Held, Channels, Texts
<1> QED
    BY <1>1, <1>2 DEF Init, SafeInv, FilteredForItsTarget, AskedWhenSound, WhatIsReadCanBeSet

\* What the target and the request decide stays decided.
LEMMA Decided ==
    ASSUME request' = request, target' = target
    PROVE  /\ Document' = Document /\ Chosen' = Chosen /\ (AllSound' <=> AllSound)
           /\ \A v : Sendable(v)' <=> Sendable(v)
<1>1. Document' = Document
    BY DEF Document
<1>2. Chosen' = Chosen
    BY <1>1 DEF Chosen, Selected, LiesOn
<1>3. \A path : Sound(path)' <=> Sound(path)
    BY <1>1 DEF Sound, LiesOn
<1>4. \A i : Strings(i)' = Strings(i)
    BY <1>1 DEF Strings, LiesOn
<1> QED
    BY <1>1, <1>2, <1>3, <1>4 DEF AllSound, Sendable

\* What has been decided of a request stays true of what is kept of it.
LEMMA ShapeStays ==
    ASSUME request' = request, payload' = payload
    PROVE  (Shape' <=> Shape) /\ (Formed' <=> Formed)
BY DEF Shape, Formed, Document

LEMMA TargetPaths ==
    ASSUME Routed, target # Nothing
    PROVE  /\ target.paths \in Seq(Seq(Segments))
           /\ \A i \in DOMAIN target.paths : target.paths[i] \in Seq(Segments)
<1>1. target.paths \in Seq(Seq(Segments))
    BY CatchAllAssumption DEF Routed
<1> QED
    BY <1>1, ElementOfSeq, LenProperties

\* The documents of the requests the handler decodes are trees.
LEMMA DocumentIsTree ==
    ASSUME request \in Requests, request.body \notin {Unreadable, Malformed}
    PROVE  IsTree(Document)
<1>1. CASE request.body = Absent
    <2>1. Document = Empty
        BY <1>1 DEF Document
    <2>2. DOMAIN Empty = {<<>>} /\ Empty[<<>>] = "object"
        BY DEF Empty
    <2>3. IsFiniteSet({<<>>})
        BY FS_Singleton
    <2> QED
        BY <2>1, <2>2, <2>3 DEF IsTree
<1>2. CASE request.body # Absent
    BY <1>2, CatchAllAssumption DEF Document
<1> QED
    BY <1>1, <1>2

-----------------------------------------------------------------------------
\* Each of the three properties is about what only few steps touch.
LEMMA FilteredStays ==
    ASSUME FilteredForItsTarget, request' = request, sent' = sent
    PROVE  FilteredForItsTarget'
<1>1. Document' = Document
    BY DEF Document
<1>2. \A t : Selected(t)' = Selected(t)
    BY <1>1 DEF Selected, LiesOn
<1>3. Selected(sent.to)' = Selected(sent.to)
    BY <1>1 DEF Selected, LiesOn
<1> QED
    BY <1>1, <1>3 DEF FilteredForItsTarget

LEMMA AskedStays ==
    ASSUME AskedWhenSound, request' = request, target' = target, asked' = asked
    PROVE  AskedWhenSound'
BY Decided DEF AskedWhenSound, Chosen, AllSound

LEMMA ReadStays ==
    ASSUME WhatIsReadCanBeSet, request' = request, target' = target,
           answer' = answer \/ answer' \notin {"panic", "not set"}
    PROVE  WhatIsReadCanBeSet'
BY Decided DEF WhatIsReadCanBeSet, Chosen

\* The configuration is replaced: nothing of the request depends on it.
LEMMA ReconfigureSafe == SafeInv /\ Reconfigure => SafeInv'
<1> SUFFICES ASSUME SafeInv, Reconfigure
             PROVE  SafeInv'
    OBVIOUS
<1>1. /\ UNCHANGED <<request, stage, target, payload, running, errChan, valuesChan, todo,
                     asked, sent, answer>>
      /\ config' \in Updates /\ updates' = updates + 1 /\ updates < MaxUpdates
    BY DEF Reconfigure, extraction
<1>2. Routed'
    <2>1. updates' \in 0..MaxUpdates /\ config' \in Configs
        <3>1. MaxUpdates \in Nat /\ Updates \subseteq Configs
            BY CatchAllAssumption
        <3>2. updates \in 0..MaxUpdates
            BY DEF SafeInv, Routed
        <3> QED
            BY <1>1, <3>1, <3>2
    <2> QED
        BY <1>1, <2>1 DEF SafeInv, Routed
<1>3. Held'
    BY <1>1, ShapeStays DEF SafeInv, Held
<1>4. Channels'
    BY <1>1, Decided DEF SafeInv, Channels
<1>5. Texts'
    BY <1>1, Decided DEF SafeInv, Texts, Decoded, Text
<1> QED
    BY <1>1, <1>2, <1>3, <1>4, <1>5, FilteredStays, AskedStays, ReadStays DEF SafeInv

\* Routing decides the target, or the answer.
LEMMA RouteSafe == SafeInv /\ Route => SafeInv'
<1> SUFFICES ASSUME SafeInv, Route
             PROVE  SafeInv'
    OBVIOUS
<1>1. /\ stage = "route"
      /\ UNCHANGED <<config, updates, request, payload, running, errChan, valuesChan, todo,
                     asked, sent>>
      /\ \/ stage' = "over" /\ answer' = "no route" /\ UNCHANGED target
         \/ \E i \in DOMAIN config : target' = config[i] /\ stage' = "read" /\ UNCHANGED answer
    BY DEF Route, Answer, extraction
<1>2. /\ answer = "none" /\ sent = Nothing /\ asked = {} /\ todo = {}
      /\ running = {} /\ errChan = {} /\ valuesChan = {}
      /\ payload = Nothing \/ (Shape /\ Formed)
    BY <1>1 DEF SafeInv, Routed, Channels, Texts, Held
<1>3. Routed'
    BY <1>1, <1>2, CatchAllAssumption DEF SafeInv, Routed
<1>4. Held'
    BY <1>1, <1>2, ShapeStays DEF Held
<1>5. Channels' /\ Texts'
    BY <1>1, <1>2 DEF Channels, Texts
<1>6. answer' \in {"none", "no route"}
    BY <1>1, <1>2
<1> QED
    BY <1>1, <1>2, <1>3, <1>4, <1>5, <1>6
    DEF SafeInv, FilteredForItsTarget, AskedWhenSound, WhatIsReadCanBeSet

\* The decoded body has the shape of the document.
LEMMA DecodedShape ==
    ASSUME IsTree(Document), payload' = Decoded(Document), request' = request
    PROVE  Shape' /\ Formed'
<1>1. Document' = Document
    BY DEF Document
<1>2. DOMAIN payload' = DOMAIN Document
    BY DEF Decoded
<1>3. ASSUME NEW n \in DOMAIN Document
      PROVE  /\ payload'[n].kind = Document[n] /\ payload'[n].of = n
             /\ payload'[n].form \in {"plain", "rounded"}
    BY DEF Decoded, Text
<1> QED
    BY <1>1, <1>2, <1>3 DEF Shape, Formed

\* A body is decoded and a goroutine started for each path, or it is refused.
LEMMA ReadBodySafe == SafeInv /\ ReadBody => SafeInv'
<1> SUFFICES ASSUME SafeInv, ReadBody
             PROVE  SafeInv'
    OBVIOUS
<1>1. /\ stage = "read"
      /\ UNCHANGED <<config, updates, request, target, errChan, valuesChan, todo, asked, sent>>
    BY DEF ReadBody
<1>2. /\ answer = "none" /\ sent = Nothing /\ asked = {} /\ todo = {} /\ target # Nothing
      /\ running = {} /\ errChan = {} /\ valuesChan = {}
      /\ payload = Nothing \/ (Shape /\ Formed)
    BY <1>1 DEF SafeInv, Routed, Channels, Texts, Held
<1>3. \/ stage' = "over" /\ answer' \in {"unreadable", "malformed"} /\ UNCHANGED <<payload, running>>
      \/ /\ request.body \notin {Unreadable, Malformed}
         /\ payload' = Decoded(Document)
         /\ running' = DOMAIN target.paths
         /\ stage' = "extract" /\ UNCHANGED answer
    BY DEF ReadBody, Answer, Document
<1>4. Routed'
    BY <1>1, <1>2, <1>3 DEF SafeInv, Routed
<1>5. Held' /\ Channels' /\ Texts'
    <2>1. CASE stage' = "over" /\ UNCHANGED <<payload, running>>
        BY <1>1, <1>2, <2>1, ShapeStays DEF Held, Channels, Texts
    <2>2. CASE /\ request.body \notin {Unreadable, Malformed}
               /\ payload' = Decoded(Document)
               /\ running' = DOMAIN target.paths
               /\ stage' = "extract"
        <3>1. Shape' /\ Formed'
            BY <1>1, <2>2, DocumentIsTree, DecodedShape DEF SafeInv, Routed
        <3>2. payload' = Decoded(Document)'
            BY <1>1, <2>2 DEF Document, Decoded, Text
        <3> QED
            BY <1>1, <1>2, <2>2, <3>1, <3>2 DEF Held, Channels, Texts
    <2> QED
        BY <1>3, <2>1, <2>2
<1>6. answer' \in {"none", "unreadable", "malformed"}
    BY <1>2, <1>3
<1> QED
    BY <1>1, <1>2, <1>4, <1>5, <1>6
    DEF SafeInv, FilteredForItsTarget, AskedWhenSound, WhatIsReadCanBeSet

\* A goroutine sends its error or its strings, and is done.
LEMMA ExtractSafe ==
    ASSUME SafeInv, NEW i \in running, ExtractPath(i)
    PROVE  SafeInv'
<1> DEFINE path == target.paths[i]
<1>1. UNCHANGED <<config, updates, request, stage, target, payload, todo, asked, sent, answer>>
    BY DEF ExtractPath
<1>2. stage = "extract" /\ target # Nothing /\ Shape /\ i \in DOMAIN target.paths
    BY DEF SafeInv, Routed, Held, Channels
<1>3. path \in Seq(Segments)
    BY <1>2, TargetPaths DEF SafeInv
<1>4. /\ running' = running \ {i}
      /\ \/ errChan' = errChan \cup {i} /\ valuesChan' = valuesChan
         \/ /\ ~Unparsable(path) /\ ~OutOfRange(path)
            /\ valuesChan' = valuesChan \cup {<<i, Extract(path)>>}
            /\ errChan' = errChan
    BY DEF ExtractPath
<1>5. Channels'
    <2>1. CASE errChan' = errChan \cup {i} /\ valuesChan' = valuesChan
        BY <1>1, <1>2, <1>4, <2>1, Decided DEF SafeInv, Channels
    <2>2. CASE /\ ~Unparsable(path) /\ ~OutOfRange(path)
               /\ valuesChan' = valuesChan \cup {<<i, Extract(path)>>}
               /\ errChan' = errChan
        <3> DEFINE v == <<i, Extract(path)>>
        <3>1. Extract(path) = Strings(i)
            BY <1>2, <1>3, ExtractIs DEF Strings
        <3>2. Sound(path)
            BY <1>2, <1>3, <2>2, SoundIs
        <3>3. Sendable(v) /\ v[1] = i
            BY <1>2, <3>1, <3>2 DEF Sendable
        <3> HIDE DEF v
        <3>4. valuesChan' = valuesChan \cup {v}
            BY <2>2 DEF v
        <3> QED
            BY <1>1, <1>2, <1>4, <2>2, <3>3, <3>4, Decided DEF SafeInv, Channels
    <2> QED
        BY <1>4, <2>1, <2>2
<1>6. Routed' /\ Held'
    BY <1>1, ShapeStays DEF SafeInv, Routed, Held
<1>7. Texts'
    BY <1>1, Decided DEF SafeInv, Texts, Decoded, Text
<1> QED
    BY <1>1, <1>5, <1>6, <1>7, FilteredStays, AskedStays, ReadStays DEF SafeInv

\* All goroutines are through: an error ends the request, otherwise every path
\* is sound and its strings are to be masked.
LEMMA CollectSafe == SafeInv /\ Collect => SafeInv'
<1> SUFFICES ASSUME SafeInv, Collect
             PROVE  SafeInv'
    OBVIOUS
<1> DEFINE extracted == UNION {{<<v[1], n>> : n \in v[2]} : v \in valuesChan}
<1>1. /\ stage = "extract" /\ running = {}
      /\ UNCHANGED <<config, updates, request, target, payload, running, errChan, valuesChan,
                     asked, sent>>
      /\ \/ answer' = "bad path" /\ stage' = "over" /\ UNCHANGED todo
         \/ /\ errChan = {} /\ todo' = extracted /\ UNCHANGED answer
            /\ stage' = IF extracted = {} THEN "relay" ELSE "mask"
    BY DEF Collect, Waited, Refused, Answer, extraction
<1>2. /\ answer = "none" /\ sent = Nothing /\ asked = {} /\ todo = {} /\ target # Nothing
      /\ Shape /\ Formed /\ payload = Decoded(Document)
    BY <1>1 DEF SafeInv, Routed, Texts, Held
<1>3. \A v \in valuesChan : Sendable(v)
    BY DEF SafeInv, Channels
<1>4. ASSUME NEW e \in extracted
      PROVE  e[1] \in DOMAIN target.paths /\ e[2] \in Chosen
    <2>1. PICK v \in valuesChan : \E n \in v[2] : e = <<v[1], n>>
        BY <1>4
    <2>2. e[1] = v[1] /\ e[2] \in Strings(v[1])
        BY <1>3, <2>1 DEF Sendable
    <2> QED
        BY <1>3, <2>1, <2>2 DEF Sendable, Strings, Chosen, Selected
<1>5. ASSUME errChan = {}, NEW i \in DOMAIN target.paths
      PROVE  /\ Sound(target.paths[i])
             /\ \A n \in Strings(i) : \E e \in extracted : e[2] = n
    <2>1. PICK v \in valuesChan : v[1] = i
        BY <1>1, <1>5 DEF SafeInv, Channels
    <2>2. Sound(target.paths[i]) /\ v[2] = Strings(i)
        BY <1>3, <2>1 DEF Sendable
    <2>3. \A n \in Strings(i) : <<v[1], n>> \in extracted
        BY <2>2
    <2> QED
        BY <2>2, <2>3
<1>6. ASSUME errChan = {}, NEW n \in Chosen
      PROVE  \E e \in extracted : e[2] = n
    <2>1. PICK i \in DOMAIN target.paths : n \in Strings(i)
        BY DEF Chosen, Selected, Strings
    <2> QED
        BY <1>5, <1>6, <2>1
<1> HIDE DEF extracted
<1>7. Routed'
    BY <1>1, <1>2 DEF SafeInv, Routed
<1>8. Held'
    BY <1>1, <1>2, ShapeStays DEF SafeInv, Held
<1>9. Channels'
    BY <1>1, Decided DEF SafeInv, Channels
<1>10. Texts'
    <2>1. /\ Document' = Document /\ Chosen' = Chosen /\ (AllSound' <=> AllSound)
        BY <1>1, Decided
    <2>2. CASE stage' = "over" /\ UNCHANGED todo
        BY <1>1, <1>2, <2>2 DEF Texts
    <2>3. CASE /\ errChan = {} /\ todo' = extracted
               /\ stage' = IF extracted = {} THEN "relay" ELSE "mask"
        <3>1. AllSound
            BY <1>5, <2>3 DEF AllSound
        <3>2. CASE extracted = {}
            <4>1. Chosen = {}
                BY <1>6, <2>3, <3>2
            <4> QED
                BY <1>1, <1>2, <2>1, <2>3, <3>1, <3>2, <4>1 DEF Texts
        <3>3. CASE extracted # {}
            <4>1. Chosen # {}
                BY <1>4, <3>3
            <4>2. stage' = "mask" /\ payload' = Decoded(Document)
                BY <1>1, <1>2, <2>3, <3>3
            <4>3. Decoded(Document)' = Decoded(Document)
                BY <2>1 DEF Decoded, Text
            <4>4. \A n \in Chosen : \E w \in todo' : w[2] = n
                BY <1>6, <2>3
            <4>5. \A w \in todo' : w[1] \in DOMAIN target.paths /\ w[2] \in Chosen
                BY <1>4, <2>3
            <4>6. \A n \in DOMAIN Document : payload'[n].form = Decoded(Document)'[n].form
                BY <4>2, <4>3
            <4> HIDE <4>3
            <4> QED
                BY <1>1, <2>1, <3>1, <4>1, <4>2, <4>4, <4>5, <4>6 DEF Texts
        <3> QED
            BY <3>2, <3>3
    <2> QED
        BY <1>1, <2>2, <2>3
<1>11. answer' = answer \/ answer' \notin {"panic", "not set"}
    BY <1>1
<1> QED
    BY <1>1, <1>7, <1>8, <1>9, <1>10, <1>11, FilteredStays, AskedStays, ReadStays DEF SafeInv

\* A string is replaced where it was read, or the request ends.
LEMMA AnonymizeSafe ==
    ASSUME SafeInv, NEW v \in todo, Anonymize(v)
    PROVE  SafeInv'
<1> DEFINE r == Resolved(v[2])
<1>1. /\ stage = "mask" /\ asked' = asked \cup {v[2]}
      /\ UNCHANGED <<config, updates, request, target, running, errChan, valuesChan, sent>>
    BY DEF Anonymize, extraction
<1>2. \/ answer' = "engine" /\ stage' = "over" /\ UNCHANGED <<payload, todo>>
      \/ /\ SetFails(r) \/ SetPanics(r)
         /\ answer' = IF SetPanics(r) THEN "panic" ELSE "not set"
         /\ stage' = "over" /\ UNCHANGED <<payload, todo>>
      \/ /\ ~SetFails(r)
         /\ \E form \in {"masked", "blank"} : payload' = SetAt(r, Text("string", v[2], form))
         /\ todo' = todo \ {v}
         /\ UNCHANGED <<stage, answer>>
    BY DEF Anonymize, Answer
<1>3. /\ answer = "none" /\ sent = Nothing /\ target # Nothing /\ Shape /\ Formed
      /\ AllSound /\ v[2] \in Chosen
    BY <1>1 DEF SafeInv, Routed, Texts, Held
<1>4. v[2] \in DOMAIN payload /\ v[2] \in DOMAIN Document /\ Document[v[2]] = "string"
    BY <1>3 DEF Chosen, Selected, Shape
<1>5. /\ Document' = Document /\ Chosen' = Chosen /\ (AllSound' <=> AllSound)
    BY <1>1, Decided
<1>6. AskedWhenSound'
    <2>1. asked \subseteq Chosen
        BY DEF SafeInv, AskedWhenSound, Chosen
    <2>2. asked' \subseteq Chosen' /\ AllSound'
        BY <1>1, <1>3, <1>5, <2>1
    <2> QED
        BY <2>2 DEF AskedWhenSound, Chosen, AllSound
<1>7. FilteredForItsTarget'
    BY <1>1, FilteredStays DEF SafeInv
<1>8. Channels'
    BY <1>1, <1>2, Decided DEF SafeInv, Channels
<1>9. CASE stage' = "over" /\ UNCHANGED <<payload, todo>>
    <2>1. answer' \in {"engine", "not set"}
        BY <1>2, <1>4, <1>3, <1>9, NeverPanics, <1>1
    <2>2. WhatIsReadCanBeSet'
        <3>1. CASE answer' = "engine"
            BY <3>1 DEF WhatIsReadCanBeSet
        <3>2. CASE answer' = "not set"
            <4>1. SetFails(r)
                BY <1>2, <1>3, <1>4, <3>2, NeverPanics
            <4>2. \E i \in DOMAIN v[2] : v[2][i] \in DOMAIN Index
                BY <1>3, <1>4, <4>1, FailsForNumbers
            <4> QED
                BY <1>3, <1>5, <3>2, <4>2 DEF WhatIsReadCanBeSet, Chosen
        <3> QED
            BY <2>1, <3>1, <3>2
    <2>3. Routed'
        BY <1>1, <1>9, <2>1 DEF SafeInv, Routed
    <2>4. Held'
        BY <1>1, <1>3, <1>9, ShapeStays DEF Held
    <2>5. Texts'
        BY <1>1, <1>5, <1>9 DEF SafeInv, Texts
    <2> QED
        BY <1>6, <1>7, <1>8, <2>2, <2>3, <2>4, <2>5 DEF SafeInv
<1>10. CASE /\ ~SetFails(r)
            /\ \E form \in {"masked", "blank"} : payload' = SetAt(r, Text("string", v[2], form))
            /\ todo' = todo \ {v}
            /\ UNCHANGED <<stage, answer>>
    <2>1. r = v[2]
        BY <1>3, <1>4, <1>10, SetWhereRead
    <2>2. PICK form \in {"masked", "blank"} : payload' = SetAt(v[2], Text("string", v[2], form))
        BY <1>10, <2>1
    <2>3. DOMAIN payload' = DOMAIN Document
        BY <1>3, <1>4, <2>2 DEF SetAt, Shape
    <2>4. payload'[v[2]] = [kind |-> "string", of |-> v[2], form |-> form]
        BY <1>4, <2>2 DEF SetAt, Text
    <2>5. \A n \in DOMAIN Document : n # v[2] => payload'[n] = payload[n]
        BY <1>3, <2>2 DEF SetAt, Shape
    <2>6. Shape'
        <3>1. ASSUME NEW n \in DOMAIN Document
              PROVE  payload'[n].kind = Document[n] /\ payload'[n].of = n
            BY <1>3, <1>4, <2>4, <2>5, <3>1 DEF Shape
        <3> QED
            BY <1>3, <1>5, <2>3, <3>1 DEF Shape
    <2>7. Formed'
        <3>1. ASSUME NEW n \in DOMAIN Document
              PROVE  payload'[n].form \in {"plain", "rounded", "masked", "blank"}
            BY <1>3, <2>4, <2>5 DEF Shape, Formed
        <3> QED
            BY <2>3, <3>1 DEF Formed
    <2>8. Routed' /\ Held'
        BY <1>1, <1>10, <2>6, <2>7 DEF SafeInv, Routed, Held
    <2>9. Texts'
        <3>0. stage' = "mask"
            BY <1>1, <1>10
        <3>1. Decoded(Document)' = Decoded(Document)
            BY <1>5 DEF Decoded, Text
        <3>2. ASSUME NEW n \in DOMAIN Document, n \in Chosen
              PROVE  payload'[n].form \in {"masked", "blank"} \/ \E w \in todo' : w[2] = n
            <4>1. CASE n = v[2]
                BY <2>4, <4>1
            <4>2. CASE n # v[2]
                <5>1. payload[n].form \in {"masked", "blank"} \/ \E w \in todo : w[2] = n
                    BY <1>1, <3>2 DEF SafeInv, Texts
                <5>2. \A w \in todo : w[2] = n => w \in todo'
                    BY <1>10, <4>2
                <5> QED
                    BY <2>5, <4>2, <5>1, <5>2
            <4> QED
                BY <4>1, <4>2
        <3>3. ASSUME NEW n \in DOMAIN Document, n \notin Chosen
              PROVE  payload'[n].form = Decoded(Document)[n].form
            <4>1. n # v[2] /\ payload[n].form = Decoded(Document)[n].form
                BY <1>1, <1>3, <3>3 DEF SafeInv, Texts
            <4> QED
                BY <2>5, <4>1
        <3>4. \A w \in todo' : w[1] \in DOMAIN target.paths /\ w[2] \in Chosen
            BY <1>10 DEF SafeInv, Texts
        <3>5. Chosen # {}
            BY <1>3
        <3> QED
            BY <1>1, <1>3, <1>5, <3>0, <3>1, <3>2, <3>3, <3>4, <3>5 DEF Texts
    <2>10. WhatIsReadCanBeSet'
        BY <1>1, <1>10, ReadStays DEF SafeInv
    <2> QED
        BY <1>6, <1>7, <1>8, <2>8, <2>9, <2>10 DEF SafeInv
<1> QED
    BY <1>2, <1>9, <1>10

\* What is sent is what was received when nothing is selected, and otherwise
\* the document with every selected string replaced.
LEMMA ForwardSafe == SafeInv /\ Forward => SafeInv'
<1> SUFFICES ASSUME SafeInv, Forward
             PROVE  SafeInv'
    OBVIOUS
<1>1. /\ stage \in {"relay", "mask"} /\ stage' = "forward"
      /\ UNCHANGED <<config, updates, request, target, payload, running, errChan, valuesChan,
                     todo, asked, answer>>
      /\ \/ stage = "relay" /\ sent' = [to |-> target, body |-> Original(Document)]
         \/ stage = "mask" /\ todo = {} /\ sent' = [to |-> target, body |-> payload]
    BY DEF Forward, extraction, Destination, Document
<1>2. Shape /\ Formed
    BY <1>1 DEF SafeInv, Held
<1>3. /\ Document' = Document /\ Chosen' = Chosen
    BY <1>1, Decided
<1>4. sent'.to = target
    BY <1>1
<1>5. Selected(sent.to)' = Chosen
    BY <1>1, <1>3, <1>4 DEF Chosen, Selected, LiesOn
<1>6. ASSUME NEW n \in DOMAIN Document
      PROVE  /\ n \in DOMAIN sent'.body
             /\ sent'.body[n].kind = Document[n] /\ sent'.body[n].of = n
             /\ IF n \in Chosen THEN sent'.body[n].form \in {"masked", "blank"}
                ELSE IF Document[n] = "big" /\ Chosen # {} THEN sent'.body[n].form = "rounded"
                ELSE sent'.body[n].form = "plain"
    <2>1. CASE stage = "relay" /\ sent' = [to |-> target, body |-> Original(Document)]
        <3>1. Chosen = {}
            BY <2>1 DEF SafeInv, Texts
        <3> QED
            BY <2>1, <3>1 DEF Original, Text
    <2>2. CASE stage = "mask" /\ todo = {} /\ sent' = [to |-> target, body |-> payload]
        <3>1. /\ Chosen # {}
              /\ n \in Chosen => payload[n].form \in {"masked", "blank"}
              /\ n \notin Chosen => payload[n].form = Decoded(Document)[n].form
            BY <2>2 DEF SafeInv, Texts
        <3>2. Decoded(Document)[n].form = IF Document[n] = "big" THEN "rounded" ELSE "plain"
            BY DEF Decoded, Text
        <3> QED
            BY <1>2, <2>2, <3>1, <3>2 DEF Shape
    <2> QED
        BY <1>1, <2>1, <2>2
<1>7. FilteredForItsTarget'
    BY <1>3, <1>5, <1>6 DEF FilteredForItsTarget
<1>8. Routed' /\ Held'
    BY <1>1, <1>2, ShapeStays DEF SafeInv, Routed, Held
<1>9. Channels' /\ Texts'
    BY <1>1, Decided DEF SafeInv, Channels, Texts
<1>10. AskedWhenSound' /\ WhatIsReadCanBeSet'
    BY <1>1, AskedStays, ReadStays DEF SafeInv
<1> QED
    BY <1>7, <1>8, <1>9, <1>10 DEF SafeInv

\* The pool's answer becomes the client's.
LEMMA ForwardedSafe == SafeInv /\ Forwarded => SafeInv'
<1> SUFFICES ASSUME SafeInv, Forwarded
             PROVE  SafeInv'
    OBVIOUS
<1>1. /\ stage = "forward" /\ stage' = "over" /\ answer' \in {"forwarded", "upstream", "aborted"}
      /\ UNCHANGED <<config, updates, request, target, payload, running, errChan, valuesChan,
                     todo, asked, sent>>
    BY DEF Forwarded, Answer, extraction
<1>2. Routed' /\ Held'
    BY <1>1, ShapeStays DEF SafeInv, Routed, Held
<1>3. Channels' /\ Texts'
    BY <1>1, Decided DEF SafeInv, Channels, Texts
<1> QED
    BY <1>1, <1>2, <1>3, FilteredStays, AskedStays, ReadStays DEF SafeInv

\* The process dies with what the handler holds; what it sent stays sent.
LEMMA DieSafe == SafeInv /\ Die => SafeInv'
<1> SUFFICES ASSUME SafeInv, Die
             PROVE  SafeInv'
    OBVIOUS
<1>1. /\ stage # "over" /\ stage' = "dead" /\ payload' = Nothing
      /\ todo' = {} /\ running' = {} /\ errChan' = {} /\ valuesChan' = {}
      /\ UNCHANGED <<config, updates, request, target, asked, sent, answer>>
    BY DEF Die
<1>2. Routed' /\ Held'
    BY <1>1 DEF SafeInv, Routed, Held
<1>3. Channels' /\ Texts'
    BY <1>1 DEF Channels, Texts
<1> QED
    BY <1>1, <1>2, <1>3, FilteredStays, AskedStays, ReadStays DEF SafeInv

-----------------------------------------------------------------------------
LEMMA NextSafe == SafeInv /\ [Next]_vars => SafeInv'
<1> SUFFICES ASSUME SafeInv, [Next]_vars
             PROVE  SafeInv'
    OBVIOUS
<1>1. CASE UNCHANGED vars
    <2>1. UNCHANGED <<config, updates, request, stage, target, payload, running, errChan,
                      valuesChan, todo, asked, sent, answer>>
        BY <1>1 DEF vars, extraction
    <2>2. Routed' /\ Held'
        BY <2>1, ShapeStays DEF SafeInv, Routed, Held
    <2>3. Channels' /\ Texts'
        BY <2>1, Decided DEF SafeInv, Channels, Texts, Decoded, Text
    <2> QED
        BY <2>1, <2>2, <2>3, FilteredStays, AskedStays, ReadStays DEF SafeInv
<1>2. CASE Next
    BY <1>2, ReconfigureSafe, RouteSafe, ReadBodySafe, ExtractSafe, CollectSafe,
       AnonymizeSafe, ForwardSafe, ForwardedSafe, DieSafe DEF Next, Handler
<1> QED
    BY <1>1, <1>2

LEMMA AlwaysSafe == Spec => []SafeInv
BY InitSafe, NextSafe, PTL DEF Spec

\* The payload keeps the shape of the body, whatever is done to it.
THEOREM TypeCorrect == Spec => []TypeOK
<1>1. SafeInv => TypeOK
    <2> SUFFICES ASSUME SafeInv
                 PROVE  TypeOK
        OBVIOUS
    <2>1. payload # Nothing =>
            /\ DOMAIN payload = DOMAIN Document
            /\ \A n \in DOMAIN payload :
                  /\ payload[n].kind = Document[n] /\ payload[n].of = n
                  /\ payload[n].form \in {"plain", "rounded", "masked", "blank"}
        BY DEF SafeInv, Held, Shape, Formed
    <2>2. target # Nothing =>
            /\ running \cup errChan \cup {v[1] : v \in valuesChan} \subseteq DOMAIN target.paths
            /\ \A v \in todo : v[1] \in DOMAIN target.paths /\ v[2] \in Selected(target)
        BY DEF SafeInv, Channels, Sendable, Texts, Chosen
    <2> QED
        BY <2>1, <2>2 DEF SafeInv, Routed, TypeOK
<1> QED
    BY <1>1, AlwaysSafe, PTL

\* What an upstream gets is filtered by the paths of its own target, for any
\* body and paths, any order of the goroutines and any change of configuration.
THEOREM Filtered == Spec => []FilteredForItsTarget
BY AlwaysSafe, PTL DEF SafeInv

\* The engine sees selected strings only, and nothing of a request one of whose
\* paths is in error.
THEOREM AskedSoundly == Spec => []AskedWhenSound
BY AlwaysSafe, PTL DEF SafeInv

\* SetString never panics on what Extract returns, and fails only for a name
\* that is a number.
THEOREM ReadCanBeSet == Spec => []WhatIsReadCanBeSet
BY AlwaysSafe, PTL DEF SafeInv

=============================================================================
