-------------------------- MODULE ExtractorsProofs --------------------------
(***************************************************************************)
(* Lemmas about the extractors' operators, for any text: what selecting,   *)
(* concatenating and counting lists keep, where the matches of a pattern   *)
(* can lie, what finditer returns, how many digits a match holds, and      *)
(* where the patterns match a document in each of its documented forms.    *)
(***************************************************************************)
EXTENDS Extractors, FiniteSetTheorems, SequenceTheorems, TLAPS

-----------------------------------------------------------------------------
\* A set of natural numbers has a least member.
LEMMA Least ==
    ASSUME NEW T \in SUBSET Nat, T # {}
    PROVE  \E x \in T : \A y \in T : x <= y
<1> DEFINE U == {1..n : n \in T}
<1>1. U \subseteq FiniteSubsetsOf(Nat) /\ U # {}
    <2>1. \A n \in Nat : IsFiniteSet(1..n)
        BY FS_Interval
    <2>2. \A n \in T : 1..n \in FiniteSubsetsOf(Nat)
        BY <2>1 DEF FiniteSubsetsOf
    <2> QED
        BY <2>2
<1>2. \E u \in U : \A v \in U : ~ (<<v, u>> \in StrictSubsetOrdering(Nat))
    <2>1. IsWellFoundedOn(StrictSubsetOrdering(Nat), FiniteSubsetsOf(Nat))
        BY FS_StrictSubsetOrderingWellFounded
    <2> HIDE DEF U
    <2> QED
        BY <1>1, <2>1, WFMin
<1>3. ASSUME NEW x \in T, NEW y \in T, y < x
      PROVE  <<1..y, 1..x>> \in StrictSubsetOrdering(Nat)
    <2>1. x \in 1..x /\ x \notin 1..y /\ 1..y \subseteq 1..x
        BY <1>3
    <2> QED
        BY <2>1 DEF StrictSubsetOrdering
<1>4. PICK x \in T : \A v \in U : ~ (<<v, 1..x>> \in StrictSubsetOrdering(Nat))
    BY <1>2
<1>5. \A y \in T : ~(y < x)
    BY <1>3, <1>4
<1> QED
    BY <1>5

\* Induction up to n, of what is said by a set of numbers.
LEMMA Induct ==
    ASSUME NEW n \in Nat, NEW S, 0 \in S, \A k \in 1..n : k - 1 \in S => k \in S
    PROVE  0..n \subseteq S
<1> DEFINE T == {k \in 0..n : k \notin S}
<1>1. SUFFICES ASSUME T # {} PROVE FALSE
    OBVIOUS
<1>2. T \in SUBSET Nat
    OBVIOUS
<1> HIDE DEF T
<1>3. PICK k \in T : \A l \in T : k <= l
    BY <1>1, <1>2, Least
<1>4. k \in 0..n /\ k # 0 /\ k \notin S
    BY <1>3 DEF T
<1>5. k - 1 \in 0..n /\ ~(k <= k - 1) /\ k \in 1..n
    BY <1>4
<1>6. k - 1 \notin T
    BY <1>3, <1>5
<1>7. k - 1 \in S
    BY <1>5, <1>6 DEF T
<1> QED
    BY <1>4, <1>5, <1>7

\* g starts with b, and h says what the next value is, up to n.
Follows(g, h, b, n, V) ==
    /\ g \in [0..n -> V]
    /\ g[0] = b
    /\ \A k \in 1..n : g[k] = h[k][g[k - 1]]

\* Recursion up to n.
LEMMA Recursion ==
    ASSUME NEW V, NEW b \in V, NEW n \in Nat, NEW h \in [1..n -> [V -> V]]
    PROVE  \E g : Follows(g, h, b, n, V)
<1> DEFINE Good(g, m) == g[0] = b /\ \A k \in 1..m : g[k] = h[k][g[k - 1]]
           S == {m \in 0..n : \E g \in [0..m -> V] : Good(g, m)}
<1>1. 0 \in S
    <2> DEFINE z == [k \in 0..0 |-> b]
    <2>1. z \in [0..0 -> V] /\ Good(z, 0)
        OBVIOUS
    <2>2. 0 \in 0..n
        OBVIOUS
    <2> HIDE DEF z, Good
    <2> QED
        BY <2>1, <2>2
<1>2. ASSUME NEW m \in 1..n, m - 1 \in S
      PROVE  m \in S
    <2>1. PICK u \in [0..m - 1 -> V] : Good(u, m - 1)
        BY <1>2
    <2> DEFINE v == [k \in 0..m |-> IF k = m THEN h[m][u[m - 1]] ELSE u[k]]
    <2>2. u[m - 1] \in V /\ h[m][u[m - 1]] \in V
        <3>1. m - 1 \in 0..m - 1
            OBVIOUS
        <3> QED
            BY <3>1
    <2>3. v \in [0..m -> V]
        <3>1. \A k \in 0..m : k # m => k \in 0..m - 1
            OBVIOUS
        <3> QED
            BY <2>2, <3>1
    <2>4. v[m] = h[m][u[m - 1]] /\ \A k \in 0..m - 1 : v[k] = u[k]
        OBVIOUS
    <2> HIDE DEF v
    <2>5. v[0] = b
        BY <2>1, <2>4
    <2>6. ASSUME NEW k \in 1..m
          PROVE  v[k] = h[k][v[k - 1]]
        <3>1. k - 1 \in 0..m - 1 /\ v[k - 1] = u[k - 1]
            BY <2>4
        <3>2. CASE k = m
            BY <2>4, <3>1, <3>2
        <3>3. CASE k # m
            <4>1. k \in 1..m - 1 /\ k \in 0..m - 1
                BY <3>3
            <4> QED
                BY <2>1, <2>4, <3>1, <4>1
        <3> QED
            BY <3>2, <3>3
    <2>7. Good(v, m)
        BY <2>5, <2>6
    <2>8. m \in 0..n
        OBVIOUS
    <2> HIDE DEF Good
    <2> QED
        BY <2>3, <2>7, <2>8
<1> HIDE DEF S
<1>3. n \in S
    <2>1. 0..n \subseteq S
        BY <1>1, <1>2, Induct
    <2> QED
        BY <2>1
<1> QED
    BY <1>3 DEF S, Follows

-----------------------------------------------------------------------------
\* g[k] is what Among has taken of the first k elements.
Takes(g, X, s, S) ==
    /\ g \in [0..Len(s) -> Seq(X)]
    /\ g[0] = <<>>
    /\ \A k \in 1..Len(s) : g[k] = IF s[k] \in S THEN Append(g[k - 1], s[k]) ELSE g[k - 1]

\* Among takes the elements one by one.
LEMMA AmongSteps ==
    ASSUME NEW X, NEW s \in Seq(X), NEW S
    PROVE  \E g : Takes(g, X, s, S) /\ Among(s, S) = g[Len(s)]
<1> DEFINE n == Len(s)
           V == Seq(X)
           h == [k \in 1..n |-> [v \in V |-> IF s[k] \in S THEN Append(v, s[k]) ELSE v]]
           Rule(g) == g = [k \in 0..Len(s) |->
                              IF k = 0 THEN <<>>
                              ELSE IF s[k] \in S THEN Append(g[k - 1], s[k]) ELSE g[k - 1]]
           chosen == CHOOSE g : Rule(g)
<1>0. n \in Nat /\ \A k \in 1..n : s[k] \in X
    BY LenProperties
<1>1. \A k \in 1..n, v \in V : Append(v, s[k]) \in V
    BY <1>0, AppendProperties
<1>2. h \in [1..n -> [V -> V]]
    BY <1>1
<1>3. \A k \in 1..n, v \in V : h[k][v] = IF s[k] \in S THEN Append(v, s[k]) ELSE v
    OBVIOUS
<1>4. <<>> \in V
    BY EmptySeq
<1> HIDE DEF V, h, n
<1>5. PICK w \in [0..n -> V] : w[0] = <<>> /\ \A k \in 1..n : w[k] = h[k][w[k - 1]]
    <2>1. n \in Nat
        BY <1>0
    <2>2. \E w : Follows(w, h, <<>>, n, V)
        BY <1>2, <1>4, <2>1, Recursion
    <2> QED
        BY <2>2 DEF Follows
<1>6. \A k \in 1..n : w[k] = IF s[k] \in S THEN Append(w[k - 1], s[k]) ELSE w[k - 1]
    <2>1. \A k \in 1..n : w[k - 1] \in V
        BY <1>0
    <2> QED
        BY <1>3, <1>5, <2>1
<1>7. Rule(w)
    <2>1. \A k \in 0..n : w[k] = IF k = 0 THEN <<>>
                                 ELSE IF s[k] \in S THEN Append(w[k - 1], s[k]) ELSE w[k - 1]
        <3> SUFFICES ASSUME NEW k \in 0..n
                     PROVE  w[k] = IF k = 0 THEN <<>>
                                   ELSE IF s[k] \in S THEN Append(w[k - 1], s[k]) ELSE w[k - 1]
            OBVIOUS
        <3>1. k = 0 \/ k \in 1..n
            BY <1>0
        <3> QED
            BY <1>0, <1>5, <1>6, <3>1
    <2> QED
        BY <2>1 DEF n
<1>8. Rule(chosen)
    <2> HIDE DEF Rule
    <2> QED
        BY <1>7
<1>9. Among(s, S) = chosen[n]
    BY DEF Among, n
<1> HIDE DEF chosen
<1>10. chosen[0] = <<>> /\ \A k \in 1..n : chosen[k] = IF s[k] \in S THEN Append(chosen[k - 1], s[k]) ELSE chosen[k - 1]
    <2>1. \A k \in 0..n : chosen[k] = IF k = 0 THEN <<>>
                                 ELSE IF s[k] \in S THEN Append(chosen[k - 1], s[k]) ELSE chosen[k - 1]
        BY <1>8 DEF n
    <2>2. 0 \in 0..n /\ \A k \in 1..n : k \in 0..n /\ k # 0
        BY <1>0
    <2> QED
        BY <2>1, <2>2
<1>11. \A k \in 0..n : chosen[k] = w[k]
    <2> DEFINE T == {k \in 0..n : chosen[k] = w[k]}
    <2>1. 0 \in T
        BY <1>0, <1>5, <1>10
    <2>2. \A k \in 1..n : k - 1 \in T => k \in T
        BY <1>0, <1>6, <1>10
    <2> HIDE DEF T
    <2>3. 0..n \subseteq T
        BY <1>0, <2>1, <2>2, Induct
    <2> QED
        BY <2>3 DEF T
<1>12. Among(s, S) = w[n]
    BY <1>0, <1>9, <1>11
<1> QED
    BY <1>5, <1>6, <1>12 DEF n, V, Takes

\* The elements of r are those of s that are in S, in their order: at gives
\* their places.
Selects(at, r, s, S) ==
    /\ at \in [1..Len(r) -> 1..Len(s)]
    /\ \A j \in 1..Len(r) : r[j] = s[at[j]]
    /\ \A j, k \in 1..Len(r) : j < k => at[j] < at[k]
    /\ \A i \in 1..Len(s) : s[i] \in S => \E j \in 1..Len(r) : at[j] = i

\* What Among returns.
LEMMA AmongIs ==
    ASSUME NEW X, NEW s \in Seq(X), NEW S
    PROVE  /\ Among(s, S) \in Seq(X \cap S)
           /\ \E at : Selects(at, Among(s, S), s, S)
<1>0. PICK g : Takes(g, X, s, S) /\ Among(s, S) = g[Len(s)]
    BY AmongSteps
<1> DEFINE n == Len(s)
           V == Seq(X \cap S)
           Maps(r, m, at) == /\ \A j \in 1..Len(r) : r[j] = s[at[j]]
                             /\ \A j, k \in 1..Len(r) : j < k => at[j] < at[k]
                             /\ \A i \in 1..m : s[i] \in S => \E j \in 1..Len(r) : at[j] = i
           Good(r, m) == r \in V /\ \E at \in [1..Len(r) -> 1..m] : Maps(r, m, at)
<1>1. /\ g \in [0..n -> Seq(X)]
      /\ g[0] = <<>>
      /\ \A k \in 1..n : g[k] = IF s[k] \in S THEN Append(g[k - 1], s[k]) ELSE g[k - 1]
      /\ Among(s, S) = g[n]
    BY <1>0 DEF Takes
<1>2. n \in Nat /\ \A k \in 1..n : s[k] \in X
    BY LenProperties
<1> HIDE DEF n
<1> DEFINE T == {m \in 0..n : Good(g[m], m)}
<1>3. 0 \in T
    <2> DEFINE z == [j \in {} |-> j]
    <2>0. 0 \in 0..n
        BY <1>2
    <2>1. g[0] \in V /\ Len(g[0]) = 0
        BY <1>1, EmptySeq
    <2>2. 1..Len(g[0]) = {}
        BY <2>1
    <2>3. z \in [1..Len(g[0]) -> 1..0]
        BY <2>2
    <2>4. Maps(g[0], 0, z)
        BY <2>2
    <2> HIDE DEF Maps, V, z
    <2> QED
        BY <2>0, <2>1, <2>3, <2>4
<1>4. ASSUME NEW m \in 1..n, m - 1 \in T
      PROVE  m \in T
    <2> DEFINE r == g[m - 1]
    <2>1. r \in V /\ Len(r) \in Nat
        <3>1. r \in V
            BY <1>4
        <3> QED
            BY <3>1, LenProperties
    <2>2. PICK at \in [1..Len(r) -> 1..m - 1] : Maps(r, m - 1, at)
        BY <1>4
    <2>3. m \in Nat /\ m - 1 \in Nat /\ m \in 0..n
        BY <1>2
    <2> HIDE DEF r
    <2>4. CASE s[m] \in S
        <3>1. g[m] = Append(r, s[m]) /\ s[m] \in X \cap S
            BY <1>1, <1>2, <2>4 DEF r
        <3> DEFINE q == Append(r, s[m])
                   l == Len(r)
                   to == [j \in 1..l + 1 |-> IF j = l + 1 THEN m ELSE at[j]]
        <3>2. /\ q \in V /\ Len(q) = l + 1 /\ q[l + 1] = s[m]
              /\ \A j \in 1..l : q[j] = r[j]
            BY <2>1, <3>1, AppendProperties
        <3>3. l \in Nat /\ at \in [1..l -> 1..m - 1]
            BY <2>1, <2>2
        <3>4. Maps(r, m - 1, at)
            BY <2>2
        <3> HIDE DEF q
        <3>5. /\ \A j \in 1..l : r[j] = s[at[j]]
              /\ \A j, k \in 1..l : j < k => at[j] < at[k]
              /\ \A i \in 1..m - 1 : s[i] \in S => \E j \in 1..l : at[j] = i
            BY <3>4
        <3> HIDE DEF l, Maps
        <3>6. \A j \in 1..l + 1 : j = l + 1 \/ j \in 1..l
            BY <3>3
        <3>7. /\ to[l + 1] = m
              /\ \A j \in 1..l : to[j] = at[j] /\ to[j] \in 1..m - 1
            BY <3>3
        <3>8. to \in [1..l + 1 -> 1..m]
            <4>1. \A j \in 1..l + 1 : to[j] \in 1..m
                <5>1. m \in 1..m /\ \A j \in 1..m - 1 : j \in 1..m
                    BY <2>3
                <5> QED
                    BY <3>6, <3>7, <5>1
            <4> QED
                BY <4>1
        <3> HIDE DEF to
        <3>9. \A j \in 1..l + 1 : q[j] = s[to[j]]
            BY <3>2, <3>5, <3>6, <3>7
        <3>10. \A j, k \in 1..l + 1 : j < k => to[j] < to[k]
            <4> SUFFICES ASSUME NEW j \in 1..l + 1, NEW k \in 1..l + 1, j < k
                         PROVE  to[j] < to[k]
                OBVIOUS
            <4>1. j \in 1..l
                BY <3>3
            <4>2. to[j] = at[j] /\ to[j] \in 1..m - 1
                BY <3>7, <4>1
            <4>3. CASE k = l + 1
                BY <2>3, <3>7, <4>2, <4>3
            <4>4. CASE k \in 1..l
                BY <3>5, <3>7, <4>1, <4>2, <4>4
            <4> QED
                BY <3>6, <4>3, <4>4
        <3>11. \A i \in 1..m : s[i] \in S => \E j \in 1..l + 1 : to[j] = i
            <4> SUFFICES ASSUME NEW i \in 1..m, s[i] \in S
                         PROVE  \E j \in 1..l + 1 : to[j] = i
                OBVIOUS
            <4>1. CASE i = m
                BY <3>3, <3>7, <4>1
            <4>2. CASE i # m
                <5>1. i \in 1..m - 1
                    BY <2>3, <4>2
                <5>2. PICK j \in 1..l : at[j] = i
                    BY <3>5, <5>1
                <5>3. j \in 1..l + 1 /\ to[j] = i
                    BY <3>3, <3>7, <5>2
                <5> QED
                    BY <5>3
            <4> QED
                BY <4>1, <4>2
        <3>12. Maps(q, m, to)
            BY <3>2, <3>9, <3>10, <3>11 DEF Maps
        <3>13. Good(q, m)
            <4> HIDE DEF V
            <4> QED
                BY <3>2, <3>8, <3>12
        <3>14. g[m] = q
            BY <3>1 DEF q
        <3> HIDE DEF Good
        <3> QED
            BY <2>3, <3>13, <3>14
    <2>5. CASE s[m] \notin S
        <3>1. g[m] = r
            BY <1>1, <2>5 DEF r
        <3>2. at \in [1..Len(r) -> 1..m]
            BY <2>1, <2>2, <2>3
        <3>3. \A i \in 1..m : s[i] \in S => i \in 1..m - 1
            BY <2>3, <2>5
        <3>4. Maps(r, m, at)
            BY <2>2, <3>3
        <3> HIDE DEF Maps, V
        <3>5. Good(r, m)
            BY <2>1, <3>2, <3>4
        <3> HIDE DEF Good
        <3> QED
            BY <2>3, <3>1, <3>5
    <2> QED
        BY <2>4, <2>5
<1> HIDE DEF T
<1>5. n \in T
    <2>1. 0..n \subseteq T
        BY <1>2, <1>3, <1>4, Induct
    <2> QED
        BY <1>2, <2>1
<1> QED
    BY <1>1, <1>5 DEF T, n, Selects

\* No element occurs twice in s.
Distinct(s) == \A j, k \in DOMAIN s : j # k => s[j] # s[k]

\* No two of the matches ms start at the same character.
Apart(ms) == \A j, k \in DOMAIN ms : j # k => ms[j].start # ms[k].start

\* What Among keeps of its sequence.
LEMMA AmongKeeps ==
    ASSUME NEW X, NEW s \in Seq(X), NEW S
    PROVE  /\ Among(s, S) \in Seq(X)
           /\ ToSet(Among(s, S)) = ToSet(s) \cap S
           /\ Distinct(s) => Distinct(Among(s, S))
           /\ Apart(s) => Apart(Among(s, S))
<1> DEFINE r == Among(s, S)
<1>1. r \in Seq(X \cap S) /\ \E at : Selects(at, r, s, S)
    BY AmongIs
<1>2. PICK at : Selects(at, r, s, S)
    BY <1>1
<1> HIDE DEF r
<1>3. /\ at \in [1..Len(r) -> 1..Len(s)]
      /\ \A j \in 1..Len(r) : r[j] = s[at[j]]
      /\ \A j, k \in 1..Len(r) : j < k => at[j] < at[k]
      /\ \A i \in 1..Len(s) : s[i] \in S => \E j \in 1..Len(r) : at[j] = i
    BY <1>2 DEF Selects
<1>4. DOMAIN r = 1..Len(r) /\ Len(r) \in Nat /\ \A j \in 1..Len(r) : r[j] \in X \cap S
    BY <1>1, LenProperties
<1>5. DOMAIN s = 1..Len(s) /\ Len(s) \in Nat
    BY LenProperties
<1>6. r \in Seq(X)
    BY <1>1, SeqMonotonic
<1>7. ToSet(r) = ToSet(s) \cap S
    <2>1. ASSUME NEW x \in ToSet(r)
          PROVE  x \in ToSet(s) \cap S
        <3>1. PICK j \in 1..Len(r) : x = r[j]
            BY <1>4 DEF ToSet
        <3> QED
            BY <1>3, <1>4, <1>5, <3>1 DEF ToSet
    <2>2. ASSUME NEW x \in ToSet(s) \cap S
          PROVE  x \in ToSet(r)
        <3>1. PICK i \in 1..Len(s) : x = s[i]
            BY <1>5 DEF ToSet
        <3>2. PICK j \in 1..Len(r) : at[j] = i
            BY <1>3, <3>1
        <3>3. x = r[j]
            BY <1>3, <3>1, <3>2
        <3> QED
            BY <1>4, <3>3 DEF ToSet
    <2> QED
        BY <2>1, <2>2
<1>8. ASSUME NEW j \in 1..Len(r), NEW k \in 1..Len(r), j # k
      PROVE  at[j] \in 1..Len(s) /\ at[k] \in 1..Len(s) /\ at[j] # at[k]
    <2>1. j < k \/ k < j
        BY <1>4, <1>8
    <2>2. at[j] \in 1..Len(s) /\ at[k] \in 1..Len(s)
        BY <1>3
    <2>3. at[j] < at[k] \/ at[k] < at[j]
        BY <1>3, <2>1
    <2> QED
        BY <1>5, <2>2, <2>3
<1>9. Distinct(s) => Distinct(r)
    <2> SUFFICES ASSUME Distinct(s), NEW j \in 1..Len(r), NEW k \in 1..Len(r), j # k
                 PROVE  r[j] # r[k]
        BY <1>4 DEF Distinct
    <2>1. at[j] \in 1..Len(s) /\ at[k] \in 1..Len(s) /\ at[j] # at[k]
        BY <1>8
    <2>2. s[at[j]] # s[at[k]]
        BY <1>5, <2>1 DEF Distinct
    <2> QED
        BY <1>3, <2>2
<1>10. Apart(s) => Apart(r)
    <2> SUFFICES ASSUME Apart(s), NEW j \in 1..Len(r), NEW k \in 1..Len(r), j # k
                 PROVE  r[j].start # r[k].start
        BY <1>4 DEF Apart
    <2>1. at[j] \in 1..Len(s) /\ at[k] \in 1..Len(s) /\ at[j] # at[k]
        BY <1>8
    <2>2. s[at[j]].start # s[at[k]].start
        BY <1>5, <2>1 DEF Apart
    <2>3. r[j] = s[at[j]] /\ r[k] = s[at[k]]
        BY <1>3
    <2> QED
        BY <2>2, <2>3
<1> QED
    BY <1>6, <1>7, <1>9, <1>10 DEF r

-----------------------------------------------------------------------------
\* Two sequences, one behind the other.
LEMMA Behind ==
    ASSUME NEW E, NEW r \in Seq(E), NEW q \in Seq(E)
    PROVE  /\ r \o q \in Seq(E)
           /\ ToSet(r \o q) = ToSet(r) \cup ToSet(q)
           /\ Distinct(r) /\ Distinct(q) /\ ToSet(r) \cap ToSet(q) = {} => Distinct(r \o q)
<1> DEFINE m == Len(r)
           n == Len(q)
           c == r \o q
<1>1. /\ m \in Nat /\ n \in Nat /\ DOMAIN r = 1..m /\ DOMAIN q = 1..n
      /\ c \in Seq(E) /\ Len(c) = m + n
      /\ \A i \in 1..m + n : c[i] = IF i <= m THEN r[i] ELSE q[i - m]
    BY LenProperties, ConcatProperties
<1>2. DOMAIN c = 1..m + n
    BY <1>1, LenProperties
<1> HIDE DEF m, n, c
<1>3. \A i \in 1..m : i \in 1..m + n /\ c[i] = r[i]
    BY <1>1
<1>4. \A i \in 1..n : i + m \in 1..m + n /\ c[i + m] = q[i]
    <2> SUFFICES ASSUME NEW i \in 1..n PROVE i + m \in 1..m + n /\ c[i + m] = q[i]
        OBVIOUS
    <2>1. i + m \in 1..m + n /\ ~(i + m <= m) /\ (i + m) - m = i
        BY <1>1
    <2> QED
        BY <1>1, <2>1
<1>5. \A i \in 1..m + n : i \in 1..m \/ \E j \in 1..n : i = j + m
    <2> SUFFICES ASSUME NEW i \in 1..m + n, i \notin 1..m PROVE \E j \in 1..n : i = j + m
        OBVIOUS
    <2>1. i - m \in 1..n /\ i = (i - m) + m
        BY <1>1
    <2> QED
        BY <2>1
<1>6. ToSet(c) = ToSet(r) \cup ToSet(q)
    <2>1. ASSUME NEW x \in ToSet(c)
          PROVE  x \in ToSet(r) \cup ToSet(q)
        <3>1. PICK i \in 1..m + n : x = c[i]
            BY <1>2 DEF ToSet
        <3>2. CASE i \in 1..m
            BY <1>1, <1>3, <3>1, <3>2 DEF ToSet
        <3>3. CASE \E j \in 1..n : i = j + m
            <4>1. PICK j \in 1..n : i = j + m
                BY <3>3
            <4>2. x = q[j]
                BY <1>4, <3>1, <4>1
            <4> QED
                BY <1>1, <4>2 DEF ToSet
        <3> QED
            BY <1>5, <3>2, <3>3
    <2>2. ASSUME NEW x \in ToSet(r)
          PROVE  x \in ToSet(c)
        <3>1. PICK i \in 1..m : x = r[i]
            BY <1>1 DEF ToSet
        <3> QED
            BY <1>2, <1>3, <3>1 DEF ToSet
    <2>3. ASSUME NEW x \in ToSet(q)
          PROVE  x \in ToSet(c)
        <3>1. PICK i \in 1..n : x = q[i]
            BY <1>1 DEF ToSet
        <3>2. i + m \in DOMAIN c /\ x = c[i + m]
            BY <1>2, <1>4, <3>1
        <3> QED
            BY <3>2 DEF ToSet
    <2> QED
        BY <2>1, <2>2, <2>3
<1>7. ASSUME Distinct(r), Distinct(q), ToSet(r) \cap ToSet(q) = {}
      PROVE  Distinct(c)
    <2>1. \A i \in 1..m : r[i] \in ToSet(r)
        BY <1>1 DEF ToSet
    <2>2. \A i \in 1..n : q[i] \in ToSet(q)
        BY <1>1 DEF ToSet
    <2>3. \A i \in 1..m, j \in 1..n : r[i] # q[j]
        BY <1>7, <2>1, <2>2
    <2>4. \A i, j \in 1..m : i # j => r[i] # r[j]
        BY <1>1, <1>7 DEF Distinct
    <2>5. \A i, j \in 1..n : i # j => q[i] # q[j]
        BY <1>1, <1>7 DEF Distinct
    <2> SUFFICES ASSUME NEW i \in 1..m + n, NEW j \in 1..m + n, i # j
                 PROVE  c[i] # c[j]
        BY <1>2 DEF Distinct
    <2>6. CASE i \in 1..m /\ j \in 1..m
        BY <1>3, <2>4, <2>6
    <2>7. ASSUME NEW k \in 1..n, j = k + m, i \in 1..m
          PROVE  c[i] # c[j]
        BY <1>3, <1>4, <2>3, <2>7
    <2>8. ASSUME NEW k \in 1..n, i = k + m, j \in 1..m
          PROVE  c[i] # c[j]
        BY <1>3, <1>4, <2>3, <2>8
    <2>9. ASSUME NEW k \in 1..n, i = k + m, NEW l \in 1..n, j = l + m
          PROVE  c[i] # c[j]
        <3>1. k # l
            BY <2>9
        <3> QED
            BY <1>4, <2>5, <2>9, <3>1
    <2> QED
        BY <1>5, <2>6, <2>7, <2>8, <2>9
<1> QED
    BY <1>1, <1>6, <1>7 DEF c

\* g[k] is the first k sequences of f, one behind the other.
Joins(g, E, n, f) ==
    /\ g \in [0..n -> Seq(E)]
    /\ g[0] = <<>>
    /\ \A k \in 1..n : g[k] = g[k - 1] \o f[k]

LEMMA FlattenSteps ==
    ASSUME NEW E, NEW n \in Nat, NEW f \in [1..n -> Seq(E)]
    PROVE  \E g : Joins(g, E, n, f) /\ FlattenSeq(f) = g[n]
<1> DEFINE V == Seq(E)
           h == [k \in 1..n |-> [v \in V |-> v \o f[k]]]
<1>1. \A k \in 1..n, v \in V : v \o f[k] \in V
    BY ConcatProperties
<1>2. h \in [1..n -> [V -> V]]
    BY <1>1
<1>3. \A k \in 1..n, v \in V : h[k][v] = v \o f[k]
    OBVIOUS
<1>4. <<>> \in V
    BY EmptySeq
<1>5. f \in Seq(V) /\ Len(f) = n
    <2>1. f \in Seq(V)
        BY SeqDef
    <2> QED
        BY <2>1, LenProperties
<1>6. \A k \in 1..n : f[k] \in V
    OBVIOUS
<1> HIDE DEF V, h
<1>7. PICK g \in [0..n -> V] : g[0] = <<>> /\ \A k \in 1..n : g[k] = h[k][g[k - 1]]
    <2>1. \E w : Follows(w, h, <<>>, n, V)
        BY <1>2, <1>4, Recursion
    <2> QED
        BY <2>1 DEF Follows
<1>8. \A k \in 1..n : g[k - 1] \in V /\ g[k] = g[k - 1] \o f[k]
    <2>1. \A k \in 1..n : g[k - 1] \in V
        BY <1>7
    <2> QED
        BY <1>3, <1>7, <2>1
<1>9. Joins(g, E, n, f)
    BY <1>7, <1>8 DEF Joins, V
<1>10. CASE n = 0
    <2>1. FlattenSeq(f) = f
        BY <1>5, <1>10 DEF FlattenSeq
    <2>2. f = <<>>
        BY <1>5, <1>10, EmptySeq
    <2> QED
        BY <1>7, <1>9, <1>10, <2>1, <2>2
<1>11. CASE n # 0
    <2> DEFINE Rule(u) == u = [k \in 1..Len(f) |-> IF k = 1 THEN f[k] ELSE u[k - 1] \o f[k]]
               chosen == CHOOSE u : Rule(u)
               w == [k \in 1..n |-> g[k]]
    <2>1. FlattenSeq(f) = chosen[n]
        BY <1>5, <1>11 DEF FlattenSeq
    <2>2. g[1] = f[1]
        <3>1. 1 \in 1..n /\ 1 - 1 = 0
            BY <1>11
        <3>2. g[1] = <<>> \o f[1] /\ f[1] \in Seq(E)
            BY <1>6, <1>7, <1>8, <3>1 DEF V
        <3> QED
            BY <3>2, ConcatEmptySeq
    <2>3. \A k \in 1..n : w[k] = IF k = 1 THEN f[k] ELSE w[k - 1] \o f[k]
        <3> SUFFICES ASSUME NEW k \in 1..n
                     PROVE  w[k] = IF k = 1 THEN f[k] ELSE w[k - 1] \o f[k]
            OBVIOUS
        <3>1. CASE k = 1
            BY <2>2, <3>1
        <3>2. CASE k # 1
            <4>1. k - 1 \in 1..n
                BY <3>2
            <4> QED
                BY <1>8, <3>2, <4>1
        <3> QED
            BY <3>1, <3>2
    <2>4. Rule(w)
        BY <1>5, <2>3
    <2>5. Rule(chosen)
        <3> HIDE DEF Rule
        <3> QED
            BY <2>4
    <2> HIDE DEF chosen
    <2>6. \A k \in 1..n : chosen[k] = IF k = 1 THEN f[k] ELSE chosen[k - 1] \o f[k]
        BY <1>5, <2>5
    <2> DEFINE T == {k \in 0..n : k # 0 => chosen[k] = g[k]}
    <2>7. 0 \in T
        OBVIOUS
    <2>8. ASSUME NEW k \in 1..n, k - 1 \in T
          PROVE  k \in T
        <3>1. CASE k = 1
            BY <2>2, <2>6, <3>1
        <3>2. CASE k # 1
            <4>1. chosen[k - 1] = g[k - 1]
                BY <2>8, <3>2
            <4>2. chosen[k] = chosen[k - 1] \o f[k] /\ g[k] = g[k - 1] \o f[k]
                BY <1>8, <2>6, <3>2
            <4>3. chosen[k] = g[k] /\ k \in 0..n
                BY <4>1, <4>2
            <4> QED
                BY <4>3
        <3> QED
            BY <3>1, <3>2
    <2> HIDE DEF T
    <2>9. 0..n \subseteq T
        BY <2>7, <2>8, Induct
    <2>10. chosen[n] = g[n]
        BY <1>11, <2>9 DEF T
    <2> QED
        BY <1>9, <2>1, <2>10
<1> QED
    BY <1>10, <1>11

\* A sequence of sequences made one: its elements are theirs, and none occurs
\* twice if none occurs twice in one of them, or in two.
LEMMA FlattenIs ==
    ASSUME NEW E, NEW n \in Nat, NEW f \in [1..n -> Seq(E)]
    PROVE  /\ FlattenSeq(f) \in Seq(E)
           /\ ToSet(FlattenSeq(f)) = UNION {ToSet(f[k]) : k \in 1..n}
           /\ (/\ \A k \in 1..n : Distinct(f[k])
               /\ \A j, k \in 1..n : j # k => ToSet(f[j]) \cap ToSet(f[k]) = {})
              => Distinct(FlattenSeq(f))
<1> DEFINE All(k) == UNION {ToSet(f[j]) : j \in 1..k}
           Apart1 == \A k \in 1..n : Distinct(f[k])
           Apart2 == \A j, k \in 1..n : j # k => ToSet(f[j]) \cap ToSet(f[k]) = {}
<1>1. PICK g : Joins(g, E, n, f) /\ FlattenSeq(f) = g[n]
    BY FlattenSteps
<1>2. /\ g \in [0..n -> Seq(E)] /\ g[0] = <<>>
      /\ \A k \in 1..n : g[k] = g[k - 1] \o f[k]
    BY <1>1 DEF Joins
<1> DEFINE Good(k) == ToSet(g[k]) = All(k) /\ (Apart1 /\ Apart2 => Distinct(g[k]))
           T == {k \in 0..n : Good(k)}
<1>3. 0 \in T
    <2>1. DOMAIN <<>> = {}
        OBVIOUS
    <2>2. ToSet(g[0]) = {} /\ Distinct(g[0])
        BY <1>2, <2>1 DEF ToSet, Distinct
    <2>3. All(0) = {}
        OBVIOUS
    <2> QED
        BY <2>2, <2>3
<1>4. ASSUME NEW k \in 1..n, k - 1 \in T
      PROVE  k \in T
    <2>0. k - 1 \in 0..n /\ k \in 0..n
        OBVIOUS
    <2>1. g[k - 1] \in Seq(E) /\ f[k] \in Seq(E) /\ g[k] = g[k - 1] \o f[k]
        BY <1>2, <2>0
    <2>2. ToSet(g[k]) = ToSet(g[k - 1]) \cup ToSet(f[k])
        BY <2>1, Behind
    <2>3. Good(k - 1)
        BY <1>4
    <2>4. All(k) = All(k - 1) \cup ToSet(f[k])
        <3>1. 1..k = 1..(k - 1) \cup {k}
            OBVIOUS
        <3> QED
            BY <3>1
    <2>5. ASSUME Apart1, Apart2
          PROVE  Distinct(g[k])
        <3>1. Distinct(g[k - 1])
            BY <2>3, <2>5
        <3>2. All(k - 1) \cap ToSet(f[k]) = {}
            <4>1. \A j \in 1..k - 1 : j \in 1..n /\ j # k
                OBVIOUS
            <4>2. \A j \in 1..k - 1 : ToSet(f[j]) \cap ToSet(f[k]) = {}
                BY <2>5, <4>1
            <4> QED
                BY <4>2
        <3>3. ToSet(g[k - 1]) \cap ToSet(f[k]) = {}
            BY <2>3, <3>2
        <3> QED
            BY <2>1, <2>5, <3>1, <3>3, Behind
    <2>6. Good(k)
        BY <2>2, <2>3, <2>4, <2>5
    <2> HIDE DEF Good
    <2> QED
        BY <2>0, <2>6
<1> HIDE DEF T
<1>5. n \in T
    <2>1. 0..n \subseteq T
        BY <1>3, <1>4, Induct
    <2> QED
        BY <2>1
<1>6. g[n] \in Seq(E)
    BY <1>2
<1> QED
    BY <1>1, <1>5, <1>6 DEF T

-----------------------------------------------------------------------------
\* Repetitions of a class of characters; none has the characters that stand for
\* other text.
Known == Int \ {Other}
Items == [class : SUBSET Known, least : Nat, most : Nat]

\* One that takes a character at least.
Takes1(item) == item.least >= 1

\* How many characters a repetition takes.
LEMMA GreedyIs ==
    ASSUME NEW X, NEW chars \in Seq(X), NEW i \in 0..Len(chars), NEW item \in Items
    PROVE  LET n == Greedy(chars, i, item)
           IN  /\ n \in 0..Len(chars) - i
               /\ n <= item.most
               /\ \A k \in i + 1..i + n : chars[k] \in item.class
               /\ n < item.most /\ n < Len(chars) - i => chars[i + n + 1] \notin item.class
<1> DEFINE L == Len(chars)
           most == IF item.most < L - i THEN item.most ELSE L - i
           Is(n) == /\ \A k \in i + 1..i + n : chars[k] \in item.class
                    /\ n < most => chars[i + n + 1] \notin item.class
           T == {n \in 0..most : n < most => chars[i + n + 1] \notin item.class}
<1>1. L \in Nat /\ i \in Nat /\ L - i \in Nat /\ item.most \in Nat
    <2>1. L \in Nat
        BY LenProperties
    <2>2. i \in 0..L
        OBVIOUS
    <2> HIDE DEF L
    <2> QED
        BY <2>1, <2>2 DEF Items
<1> HIDE DEF L
<1>2. most \in Nat /\ most <= item.most /\ most <= L - i
    BY <1>1
<1>3. T \in SUBSET Nat /\ T # {}
    <2>1. most \in T
        BY <1>2
    <2> QED
        BY <1>2, <2>1
<1>4. \E n \in 0..most : Is(n)
    <2>1. PICK n \in T : \A m \in T : n <= m
        <3> HIDE DEF T
        <3> QED
            BY <1>3, Least
    <2>2. n \in 0..most /\ n \in Nat
        BY <1>2, <2>1
    <2>3. ASSUME NEW k \in i + 1..i + n
          PROVE  chars[k] \in item.class
        <3>1. k - i - 1 \in 0..most /\ k - i - 1 < n /\ k - i - 1 < most /\ i + (k - i - 1) + 1 = k
            BY <1>1, <1>2, <2>2
        <3>2. k - i - 1 \notin T
            BY <2>1, <2>2, <3>1
        <3> QED
            BY <3>1, <3>2
    <2> QED
        BY <2>1, <2>2, <2>3
<1>5. Greedy(chars, i, item) = CHOOSE n \in 0..most : Is(n)
    BY DEF Greedy, L
<1>6. Greedy(chars, i, item) \in 0..most /\ Is(Greedy(chars, i, item))
    <2> HIDE DEF most, Is
    <2> QED
        BY <1>4, <1>5
<1> DEFINE n == Greedy(chars, i, item)
<1>7. n \in 0..most /\ Is(n)
    BY <1>6
<1> HIDE DEF n
<1>8. /\ n \in 0..L - i
      /\ n <= item.most
      /\ \A k \in i + 1..i + n : chars[k] \in item.class
      /\ n < item.most /\ n < L - i => chars[i + n + 1] \notin item.class
    BY <1>1, <1>7
<1> QED
    BY <1>8 DEF n, L

\* at[k] is where the first k repetitions of an alternative end.
Reaches(at, chars, items, i) ==
    /\ at \in [0..Len(items) -> {NoMatch} \cup (i..Len(chars))]
    /\ at[0] = i
    /\ \A k \in 1..Len(items) :
          LET n == IF at[k - 1] = NoMatch THEN 0 ELSE Greedy(chars, at[k - 1], items[k])
          IN  at[k] = IF at[k - 1] = NoMatch \/ n < items[k].least THEN NoMatch ELSE at[k - 1] + n

LEMMA StopSteps ==
    ASSUME NEW X, NEW chars \in Seq(X), NEW i \in 0..Len(chars), NEW items \in Seq(Items)
    PROVE  \E at : Reaches(at, chars, items, i) /\ StopOf(chars, items, i) = at[Len(items)]
<1> DEFINE L == Len(chars)
           m == Len(items)
           V == {NoMatch} \cup (i..L)
           Step(k, v) == LET n == IF v = NoMatch THEN 0 ELSE Greedy(chars, v, items[k])
                         IN  IF v = NoMatch \/ n < items[k].least THEN NoMatch ELSE v + n
           h == [k \in 1..m |-> [v \in V |-> Step(k, v)]]
           Rule(u) == u = [k \in 0..Len(items) |->
                IF k = 0 THEN i
                ELSE LET before == u[k - 1]
                         n == IF before = NoMatch THEN 0 ELSE Greedy(chars, before, items[k])
                     IN  IF before = NoMatch \/ n < items[k].least THEN NoMatch ELSE before + n]
           chosen == CHOOSE u : Rule(u)
<1>1. L \in Nat /\ m \in Nat /\ \A k \in 1..m : items[k] \in Items
    BY LenProperties
<1>2. ASSUME NEW k \in 1..m, NEW v \in V
      PROVE  Step(k, v) \in V
    <2>1. CASE v = NoMatch
        BY <2>1
    <2>2. CASE v # NoMatch
        <3>1. v \in i..L /\ v \in 0..L /\ items[k] \in Items
            BY <1>1, <2>2
        <3>2. Greedy(chars, v, items[k]) \in 0..L - v
            BY <3>1, GreedyIs
        <3>3. v + Greedy(chars, v, items[k]) \in i..L
            BY <1>1, <3>1, <3>2
        <3> QED
            BY <2>2, <3>3
    <2> QED
        BY <2>1, <2>2
<1>3. h \in [1..m -> [V -> V]] /\ \A k \in 1..m, v \in V : h[k][v] = Step(k, v)
    BY <1>2
<1>4. i \in V
    BY <1>1
<1> HIDE DEF h, V, m
<1>5. PICK g : Follows(g, h, i, m, V)
    BY <1>1, <1>3, <1>4, Recursion
<1>6. /\ g \in [0..m -> V] /\ g[0] = i
      /\ \A k \in 1..m : g[k - 1] \in V /\ g[k] = Step(k, g[k - 1])
    <2>1. /\ g \in [0..m -> V] /\ g[0] = i
          /\ \A k \in 1..m : g[k] = h[k][g[k - 1]]
        BY <1>5 DEF Follows
    <2>2. \A k \in 1..m : k - 1 \in 0..m
        BY <1>1
    <2> HIDE DEF Step
    <2> QED
        BY <1>3, <2>1, <2>2
<1>7. Reaches(g, chars, items, i)
    BY <1>6 DEF Reaches, V, m
<1>8. Rule(g)
    <2> HIDE DEF Step
    <2>1. \A k \in 0..m : g[k] = IF k = 0 THEN i ELSE Step(k, g[k - 1])
        <3>1. \A k \in 0..m : k = 0 \/ k \in 1..m
            BY <1>1
        <3> QED
            BY <1>6, <3>1
    <2>2. g = [k \in 0..m |-> IF k = 0 THEN i ELSE Step(k, g[k - 1])]
        BY <1>6, <2>1
    <2> QED
        BY SMTT(30), <2>2 DEF m, Step
<1>9. Rule(chosen)
    <2> HIDE DEF Rule
    <2> QED
        BY <1>8
<1>10. StopOf(chars, items, i) = chosen[m]
    BY DEF StopOf, m
<1>11. chosen = [k \in 0..m |-> IF k = 0 THEN i ELSE Step(k, chosen[k - 1])]
    BY Zenon, <1>9 DEF m
<1> HIDE DEF chosen, Step
<1>12. chosen[0] = i /\ \A k \in 1..m : chosen[k] = Step(k, chosen[k - 1])
    <2>1. 0 \in 0..m /\ \A k \in 1..m : k \in 0..m /\ k # 0
        BY <1>1
    <2>2. \A k \in 0..m : chosen[k] = IF k = 0 THEN i ELSE Step(k, chosen[k - 1])
        BY <1>11
    <2> QED
        BY <2>1, <2>2
<1> DEFINE T == {k \in 0..m : chosen[k] = g[k]}
<1>13. 0 \in T
    BY <1>1, <1>6, <1>12
<1>14. \A k \in 1..m : k - 1 \in T => k \in T
    BY <1>1, <1>6, <1>12
<1> HIDE DEF T
<1>15. 0..m \subseteq T
    BY <1>1, <1>13, <1>14, Induct
<1>16. chosen[m] = g[m]
    BY <1>1, <1>15 DEF T
<1> QED
    BY <1>7, <1>10, <1>16 DEF m

\* Where an alternative may end; not where it starts, if one of its
\* repetitions takes a character.
LEMMA StopLies ==
    ASSUME NEW X, NEW chars \in Seq(X), NEW i \in 0..Len(chars), NEW items \in Seq(Items)
    PROVE  /\ StopOf(chars, items, i) \in {NoMatch} \cup (i..Len(chars))
           /\ (\E k \in DOMAIN items : Takes1(items[k])) => StopOf(chars, items, i) # i
<1> DEFINE L == Len(chars)
           m == Len(items)
<1>1. PICK at : Reaches(at, chars, items, i) /\ StopOf(chars, items, i) = at[m]
    BY StopSteps
<1>2. L \in Nat /\ m \in Nat /\ DOMAIN items = 1..m /\ \A k \in 1..m : items[k] \in Items
    BY LenProperties
<1>3. i \in 0..L
    OBVIOUS
<1>4. /\ at \in [0..m -> {NoMatch} \cup (i..L)] /\ at[0] = i
      /\ \A k \in 1..m :
            LET n == IF at[k - 1] = NoMatch THEN 0 ELSE Greedy(chars, at[k - 1], items[k])
            IN  at[k] = IF at[k - 1] = NoMatch \/ n < items[k].least THEN NoMatch ELSE at[k - 1] + n
    BY <1>1 DEF Reaches
<1>5. ASSUME NEW k \in 1..m, at[k] # NoMatch
      PROVE  /\ at[k - 1] # NoMatch /\ at[k - 1] \in i..L /\ at[k] \in i..L
             /\ at[k - 1] + items[k].least <= at[k]
             /\ items[k].least \in Nat
    <2>1. k - 1 \in 0..m /\ k \in 0..m
        BY <1>2
    <2>2. at[k - 1] # NoMatch /\ at[k - 1] \in i..L /\ at[k] \in i..L
        BY <1>4, <1>5, <2>1
    <2>3. ~(Greedy(chars, at[k - 1], items[k]) < items[k].least)
          /\ at[k] = at[k - 1] + Greedy(chars, at[k - 1], items[k])
        BY <1>4, <1>5, <2>2
    <2>4. at[k - 1] \in 0..L
        BY <1>2, <1>3, <2>2
    <2>5. Greedy(chars, at[k - 1], items[k]) \in 0..L - at[k - 1]
        BY <1>2, <2>4, GreedyIs
    <2>6. items[k].least \in Nat
        BY <1>2 DEF Items
    <2> HIDE DEF L
    <2> QED
        BY <1>2, <1>3, <2>2, <2>3, <2>4, <2>5, <2>6
<1> HIDE DEF L, m
<1> DEFINE T == {k \in 0..m : at[k] # NoMatch => \A j \in 0..k : at[j] # NoMatch /\ at[j] <= at[k]}
<1>6. 0 \in T
    <2>1. at[0] <= at[0] /\ 0..0 = {0} /\ 0 \in 0..m
        BY <1>2, <1>3, <1>4
    <2> QED
        BY <2>1
<1>7. ASSUME NEW k \in 1..m, k - 1 \in T
      PROVE  k \in T
    <2> SUFFICES ASSUME at[k] # NoMatch, NEW j \in 0..k
                 PROVE  at[j] # NoMatch /\ at[j] <= at[k]
        OBVIOUS
    <2>1. /\ at[k - 1] # NoMatch /\ at[k - 1] \in i..L /\ at[k] \in i..L
          /\ at[k - 1] <= at[k]
        BY SMTT(30), <1>2, <1>3, <1>5
    <2>2. CASE j = k
        BY <1>2, <1>3, <2>1, <2>2
    <2>3. CASE j # k
        <3>1. j \in 0..k - 1 /\ j \in 0..m
            BY <1>2, <2>3
        <3>2. at[j] # NoMatch /\ at[j] <= at[k - 1]
            BY <1>7, <2>1, <3>1
        <3>3. at[j] \in i..L
            BY <1>4, <3>1, <3>2
        <3> QED
            BY <1>2, <1>3, <2>1, <3>2, <3>3
    <2> QED
        BY <2>2, <2>3
<1> HIDE DEF T
<1>8. m \in T
    <2>1. 0..m \subseteq T
        BY <1>2, <1>6, <1>7, Induct
    <2> QED
        BY <1>2, <2>1
<1>9. at[m] \in {NoMatch} \cup (i..L)
    BY <1>2, <1>4
<1>10. ASSUME NEW k \in 1..m, Takes1(items[k]), at[m] # NoMatch
       PROVE  at[m] # i
    <2>1. k \in 0..m
        BY <1>2
    <2>2. at[k] # NoMatch /\ at[k] <= at[m]
        BY <1>8, <1>10, <2>1 DEF T
    <2>3. items[k].least \in Nat /\ items[k].least >= 1 /\ at[k - 1] \in i..L
          /\ at[k - 1] + items[k].least <= at[k] /\ at[k] \in i..L
        BY <1>5, <1>10, <2>2 DEF Takes1
    <2>4. at[m] \in i..L
        BY <1>9, <1>10
    <2> QED
        BY <1>2, <1>3, <2>2, <2>3, <2>4
<1>11. NoMatch # i
    BY <1>3 DEF NoMatch
<1> QED
    BY <1>1, <1>2, <1>9, <1>10, <1>11 DEF L, m

-----------------------------------------------------------------------------
\* Then by rows: the quotient and the remainder are places of its operands.
LEMMA Rows ==
    ASSUME NEW l \in Nat, NEW m \in {1, 2, 3}, NEW k \in 1..l * m
    PROVE  ((k - 1) \div m) + 1 \in 1..l /\ ((k - 1) % m) + 1 \in 1..m
<1>1. CASE m = 1
    <2>1. k \in 1..l * 1
        BY <1>1
    <2>2. ((k - 1) \div 1) + 1 \in 1..l /\ ((k - 1) % 1) + 1 \in 1..1
        BY <2>1
    <2> QED
        BY <1>1, <2>2
<1>2. CASE m = 2
    <2>1. k \in 1..l * 2
        BY <1>2
    <2>2. ((k - 1) \div 2) + 1 \in 1..l /\ ((k - 1) % 2) + 1 \in 1..2
        BY <2>1
    <2> QED
        BY <1>2, <2>2
<1>3. CASE m = 3
    <2>1. k \in 1..l * 3
        BY <1>3
    <2>2. ((k - 1) \div 3) + 1 \in 1..l /\ ((k - 1) % 3) + 1 \in 1..3
        BY <2>1
    <2> QED
        BY <1>3, <2>2
<1> QED
    BY <1>1, <1>2, <1>3

\* Alternatives of repetitions, and those that take a character, all of them.
Patterns == Seq(Seq(Items))
Proper(ps) == \A k \in DOMAIN ps : \E i \in DOMAIN ps[k] : Takes1(ps[k][i])

\* An alternative of Then is one of the first group and one of the second.
LEMMA ThenIs ==
    ASSUME NEW ps \in Patterns, NEW qs \in Patterns, Len(qs) \in {1, 2, 3}
    PROVE  /\ Then(ps, qs) \in Patterns
           /\ Len(Then(ps, qs)) = Len(ps) * Len(qs)
           /\ \A k \in DOMAIN Then(ps, qs) : \E a \in DOMAIN ps, b \in DOMAIN qs :
                 Then(ps, qs)[k] = ps[a] \o qs[b]
           /\ Proper(qs) => Proper(Then(ps, qs))
<1> DEFINE l == Len(ps)
           m == Len(qs)
           t == Then(ps, qs)
<1>1. /\ l \in Nat /\ DOMAIN ps = 1..l /\ \A a \in 1..l : ps[a] \in Seq(Items)
      /\ m \in Nat /\ DOMAIN qs = 1..m /\ \A b \in 1..m : qs[b] \in Seq(Items)
    BY LenProperties DEF Patterns
<1>2. l * m \in Nat /\ m \in {1, 2, 3}
    <2>1. CASE m = 1
        BY <1>1, <2>1
    <2>2. CASE m = 2
        BY <1>1, <2>2
    <2>3. CASE m = 3
        BY <1>1, <2>3
    <2> QED
        BY <2>1, <2>2, <2>3
<1>3. t = [k \in 1..l * m |-> ps[((k - 1) \div m) + 1] \o qs[((k - 1) % m) + 1]]
    BY DEF Then
<1> HIDE DEF l, m, t
<1>4. ASSUME NEW k \in 1..l * m
      PROVE  \E a \in 1..l, b \in 1..m : t[k] = ps[a] \o qs[b]
    <2>1. ((k - 1) \div m) + 1 \in 1..l /\ ((k - 1) % m) + 1 \in 1..m
        BY <1>1, <1>2, Rows
    <2> QED
        BY <1>3, <2>1
<1>5. ASSUME NEW k \in 1..l * m
      PROVE  t[k] \in Seq(Items)
    <2>1. PICK a \in 1..l, b \in 1..m : t[k] = ps[a] \o qs[b]
        BY <1>4
    <2>2. ps[a] \in Seq(Items) /\ qs[b] \in Seq(Items)
        BY <1>1
    <2> QED
        BY <2>1, <2>2, ConcatProperties
<1>6. t \in Patterns /\ Len(t) = l * m
    <2>1. t \in [1..l * m -> Seq(Items)]
        BY <1>3, <1>5
    <2>2. t \in Seq(Seq(Items))
        BY <1>2, <2>1, SeqDef
    <2>3. DOMAIN t = 1..l * m /\ DOMAIN t = 1..Len(t) /\ Len(t) \in Nat
        BY <2>1, <2>2, LenProperties
    <2> QED
        BY <1>2, <2>2, <2>3 DEF Patterns
<1>7. DOMAIN t = 1..l * m
    BY <1>3
<1>8. ASSUME Proper(qs), NEW k \in 1..l * m
      PROVE  \E i \in DOMAIN t[k] : Takes1(t[k][i])
    <2>1. PICK a \in 1..l, b \in 1..m : t[k] = ps[a] \o qs[b]
        BY <1>4
    <2>2. PICK i \in DOMAIN qs[b] : Takes1(qs[b][i])
        BY <1>1, <1>8 DEF Proper
    <2> DEFINE p == ps[a]
               q == qs[b]
    <2>3. p \in Seq(Items) /\ q \in Seq(Items)
        BY <1>1
    <2>4. i \in DOMAIN q /\ Takes1(q[i]) /\ t[k] = p \o q
        BY <2>1, <2>2
    <2> HIDE DEF p, q
    <2>5. /\ Len(p) \in Nat /\ Len(q) \in Nat /\ i \in 1..Len(q)
          /\ DOMAIN (p \o q) = 1..Len(p) + Len(q)
          /\ \A j \in 1..Len(p) + Len(q) : (p \o q)[j] = IF j <= Len(p) THEN p[j] ELSE q[j - Len(p)]
        BY <2>3, <2>4, LenProperties, ConcatProperties
    <2>6. Len(p) + i \in 1..Len(p) + Len(q) /\ ~(Len(p) + i <= Len(p)) /\ (Len(p) + i) - Len(p) = i
        BY <2>5
    <2>7. (p \o q)[Len(p) + i] = q[i]
        BY <2>5, <2>6
    <2> QED
        BY <2>4, <2>5, <2>6, <2>7
<1> QED
    BY ZenonT(40), <1>1, <1>4, <1>6, <1>7, <1>8 DEF l, m, t, Proper

\* One, two and three alternatives.
LEMMA Alternatives ==
    ASSUME NEW p \in Seq(Items), NEW q \in Seq(Items), NEW r \in Seq(Items)
    PROVE  /\ <<p>> \in Patterns /\ Len(<<p>>) = 1
           /\ <<p, q>> \in Patterns /\ Len(<<p, q>>) = 2
           /\ <<p, q, r>> \in Patterns /\ Len(<<p, q, r>>) = 3
BY DEF Patterns

LEMMA Repetitions ==
    ASSUME NEW class \in SUBSET Known, NEW least \in Nat, NEW most \in Nat
    PROVE  /\ Times(class, least, most) \in Items
           /\ <<Times(class, least, most)>> \in Seq(Items)
           /\ least >= 1 => Takes1(Times(class, least, most))
<1>1. Times(class, least, most) \in Items
    BY DEF Times, Items
<1> QED
    BY <1>1 DEF Times, Takes1

LEMMA Chars ==
    /\ Digit \subseteq Known
    /\ {Space, Hyphen, Comma, OpenParen, CloseParen, PlusSign, AtSign, Dot, Colon, NumeroSign,
        Letter, Inn, Snils, Passport, Series, Number, Underscore, 7, 8} \subseteq Known
    /\ Many \in Nat
BY DEF Known, Digit, Space, Hyphen, Comma, OpenParen, CloseParen, PlusSign, AtSign, Dot, Colon, NumeroSign,
    Letter, Inn, Snils, Passport, Series, Number, Underscore, Other, Many

\* A number of digits.
LEMMA DigitsIs ==
    ASSUME NEW n \in Nat \ {0}
    PROVE  /\ Digits(n) \in Seq(Items) /\ Len(Digits(n)) = 1
           /\ Digits(n)[1] = Times(Digit, n, n)
           /\ \E i \in DOMAIN Digits(n) : Takes1(Digits(n)[i])
<1>1. Times(Digit, n, n) \in Items /\ Takes1(Times(Digit, n, n))
    BY Chars, Repetitions
<1>2. /\ Digits(n) \in Seq(Items) /\ Len(Digits(n)) = 1 /\ Digits(n)[1] = Times(Digit, n, n)
      /\ DOMAIN Digits(n) = 1..1
    BY <1>1 DEF Digits
<1> QED
    BY <1>1, <1>2

\* A label that may be there.
LEMMA LabelledIs ==
    ASSUME NEW word \in Known
    PROVE  Labelled(word) \in Patterns /\ Len(Labelled(word)) = 2
<1> DEFINE a == One(word)
           b == Star({Space})
           c == Times({Colon, NumeroSign}, 0, 1)
<1>1. a \in Items /\ b \in Items /\ c \in Items
    BY Chars, Repetitions DEF One, Star
<1> DEFINE p == <<a, b, c, b>>
           q == <<>>
<1>2. p \in Seq(Items) /\ q \in Seq(Items)
    <2> HIDE DEF a, b, c
    <2> QED
        BY <1>1
<1>3. Labelled(word) = <<p, q>>
    BY DEF Labelled
<1> HIDE DEF p, q
<1> QED
    BY <1>2, <1>3, Alternatives

\* A sequence of repetitions that takes a character stays one among others.
LEMMA StillTakes ==
    ASSUME NEW p \in Seq(Items), NEW q \in Seq(Items),
           (\E i \in DOMAIN p : Takes1(p[i])) \/ (\E i \in DOMAIN q : Takes1(q[i]))
    PROVE  p \o q \in Seq(Items) /\ \E i \in DOMAIN (p \o q) : Takes1((p \o q)[i])
<1>1. /\ Len(p) \in Nat /\ Len(q) \in Nat
      /\ DOMAIN p = 1..Len(p) /\ DOMAIN q = 1..Len(q)
      /\ p \o q \in Seq(Items)
      /\ DOMAIN (p \o q) = 1..Len(p) + Len(q)
      /\ \A j \in 1..Len(p) + Len(q) : (p \o q)[j] = IF j <= Len(p) THEN p[j] ELSE q[j - Len(p)]
    BY LenProperties, ConcatProperties
<1>2. ASSUME NEW i \in 1..Len(p), Takes1(p[i])
      PROVE  \E j \in DOMAIN (p \o q) : Takes1((p \o q)[j])
    <2>1. i \in 1..Len(p) + Len(q) /\ i <= Len(p)
        BY <1>1
    <2> QED
        BY <1>1, <1>2, <2>1
<1>3. ASSUME NEW i \in 1..Len(q), Takes1(q[i])
      PROVE  \E j \in DOMAIN (p \o q) : Takes1((p \o q)[j])
    <2>1. Len(p) + i \in 1..Len(p) + Len(q) /\ ~(Len(p) + i <= Len(p)) /\ (Len(p) + i) - Len(p) = i
        BY <1>1
    <2> QED
        BY <1>1, <1>3, <2>1
<1> QED
    BY <1>1, <1>2, <1>3

\* A group of one alternative.
LEMMA Single ==
    ASSUME NEW p \in Seq(Items), \E i \in DOMAIN p : Takes1(p[i])
    PROVE  <<p>> \in Patterns /\ Len(<<p>>) = 1 /\ Proper(<<p>>)
<1> DEFINE ps == <<p>>
<1>1. ps \in Patterns /\ Len(ps) = 1
    BY DEF Patterns
<1>2. DOMAIN ps = {1} /\ ps[1] = p
    OBVIOUS
<1> HIDE DEF ps
<1>3. Proper(ps)
    BY <1>2 DEF Proper
<1> QED
    BY <1>1, <1>3 DEF ps

\* Every alternative of the five patterns takes a character.
LEMMA InnIs == InnPattern \in Patterns /\ Proper(InnPattern)
<1> DEFINE qs == <<Digits(10), Digits(12)>>
<1>1. Digits(10) \in Seq(Items) /\ Digits(12) \in Seq(Items)
    BY DigitsIs
<1>2. qs \in Patterns /\ Len(qs) = 2
    BY <1>1, Alternatives
<1>3. Proper(qs)
    <2>1. DOMAIN qs = 1..2 /\ qs[1] = Digits(10) /\ qs[2] = Digits(12)
        OBVIOUS
    <2> HIDE DEF qs
    <2>2. \A k \in 1..2 : k = 1 \/ k = 2
        OBVIOUS
    <2>3. /\ \E i \in DOMAIN qs[1] : Takes1(qs[1][i])
          /\ \E i \in DOMAIN qs[2] : Takes1(qs[2][i])
        BY <2>1, DigitsIs
    <2> QED
        BY <2>1, <2>2, <2>3 DEF Proper
<1>4. Labelled(Inn) \in Patterns
    BY LabelledIs, Chars
<1>5. InnPattern = Then(Labelled(Inn), qs)
    BY DEF InnPattern
<1> HIDE DEF qs
<1> QED
    BY <1>2, <1>3, <1>4, <1>5, ThenIs

LEMMA SnilsIs == SnilsPattern \in Patterns /\ Proper(SnilsPattern)
<1> DEFINE gap == <<Times({Space, Hyphen}, 1, 1)>>
           p == Digits(3) \o gap \o Digits(3) \o gap \o Digits(3) \o gap \o Digits(2)
           q == Digits(11)
           qs == <<p, q>>
<1>1. gap \in Seq(Items)
    BY Chars, Repetitions
<1>2. /\ Digits(3) \in Seq(Items) /\ Digits(2) \in Seq(Items) /\ q \in Seq(Items)
      /\ \E i \in DOMAIN Digits(2) : Takes1(Digits(2)[i])
      /\ \E i \in DOMAIN q : Takes1(q[i])
    BY DigitsIs
<1> DEFINE r == Digits(3) \o gap \o Digits(3) \o gap \o Digits(3) \o gap
<1>3. r \in Seq(Items)
    <2> HIDE DEF gap
    <2> QED
        BY <1>1, <1>2, ConcatProperties
<1> HIDE DEF r, q
<1>4. p \in Seq(Items) /\ \E i \in DOMAIN p : Takes1(p[i])
    <2>1. r \o Digits(2) \in Seq(Items) /\ \E i \in DOMAIN (r \o Digits(2)) : Takes1((r \o Digits(2))[i])
        BY <1>2, <1>3, StillTakes
    <2> QED
        BY <2>1 DEF r
<1> HIDE DEF p
<1>5. qs \in Patterns /\ Len(qs) = 2
    BY <1>2, <1>4, Alternatives
<1>6. Proper(qs)
    <2>1. DOMAIN qs = 1..2 /\ qs[1] = p /\ qs[2] = q
        OBVIOUS
    <2> HIDE DEF qs
    <2>2. \A k \in 1..2 : k = 1 \/ k = 2
        OBVIOUS
    <2> QED
        BY <1>2, <1>4, <2>1, <2>2 DEF Proper
<1>7. Labelled(Snils) \in Patterns
    BY LabelledIs, Chars
<1>8. SnilsPattern = Then(Labelled(Snils), qs)
    BY DEF SnilsPattern, p, q
<1> HIDE DEF qs
<1> QED
    BY <1>5, <1>6, <1>7, <1>8, ThenIs

LEMMA PassportIs == PassportPattern \in Patterns /\ Proper(PassportPattern)
<1> DEFINE opt == <<Times({Space, Hyphen}, 0, 1)>>
           gap == <<Star({Space, Hyphen, Comma})>>
           series == Digits(2) \o opt \o Digits(2) \o gap
           sign == <<One(NumeroSign), Star({Space})>>
           none == <<>>
           label == <<Word(Passport), Word(Series), none>>
           number == <<Word(Number), sign, none>>
           six == <<Digits(6)>>
<1>1. opt \in Seq(Items) /\ gap \in Seq(Items)
    BY Chars, Repetitions DEF Star
<1>2. /\ Digits(2) \in Seq(Items) /\ Digits(6) \in Seq(Items)
      /\ \E i \in DOMAIN Digits(6) : Takes1(Digits(6)[i])
    BY DigitsIs
<1>3. series \in Seq(Items)
    <2> HIDE DEF opt, gap
    <2> QED
        BY <1>1, <1>2, ConcatProperties
<1>4. ASSUME NEW word \in {Passport, Series, Number}
      PROVE  Word(word) \in Seq(Items)
    <2> DEFINE a == One(word)
               b == Times({Space}, 1, Many)
    <2>1. a \in Items /\ b \in Items
        BY Chars, Repetitions DEF One
    <2> HIDE DEF a, b
    <2>2. <<a, b>> \in Seq(Items)
        BY <2>1
    <2> QED
        BY <2>2 DEF Word, a, b
<1>5. sign \in Seq(Items)
    <2> DEFINE a == One(NumeroSign)
               b == Star({Space})
    <2>1. a \in Items /\ b \in Items
        BY Chars, Repetitions DEF One, Star
    <2> HIDE DEF a, b
    <2>2. <<a, b>> \in Seq(Items)
        BY <2>1
    <2> QED
        BY <2>2 DEF a, b
<1>6. none \in Seq(Items)
    BY EmptySeq
<1> HIDE DEF series, sign, none
<1>7. label \in Patterns /\ number \in Patterns /\ Len(number) = 3
    BY <1>4, <1>5, <1>6, Alternatives
<1>8. <<series>> \in Patterns /\ Len(<<series>>) = 1
    BY <1>3, Alternatives
<1>9. six \in Patterns /\ Len(six) = 1 /\ Proper(six)
    BY <1>2, Single
<1> HIDE DEF label, number, six
<1>10. PassportPattern = Then(Then(Then(label, <<series>>), number), six)
    BY DEF PassportPattern, series, sign, none, label, number, six
<1>11. Then(label, <<series>>) \in Patterns
    BY <1>7, <1>8, ThenIs
<1>12. Then(Then(label, <<series>>), number) \in Patterns
    BY <1>7, <1>11, ThenIs
<1> QED
    BY <1>9, <1>10, <1>12, ThenIs

LEMMA PhoneIs == PhonePattern \in Patterns /\ Proper(PhonePattern)
<1> DEFINE gap == <<Star({Space, Hyphen})>>
           open == <<Star({Space, Hyphen, OpenParen})>>
           close == <<Star({Space, Hyphen, CloseParen})>>
           plus == <<One(PlusSign), One(7)>>
           eight == <<One(8)>>
           r == open \o Digits(3) \o close \o Digits(3) \o gap \o Digits(2) \o gap
           p == r \o Digits(2)
<1>1. gap \in Seq(Items) /\ open \in Seq(Items) /\ close \in Seq(Items)
    BY Chars, Repetitions DEF Star
<1>2. /\ Digits(3) \in Seq(Items) /\ Digits(2) \in Seq(Items)
      /\ \E i \in DOMAIN Digits(2) : Takes1(Digits(2)[i])
    BY DigitsIs
<1>3. plus \in Seq(Items) /\ eight \in Seq(Items)
    <2> DEFINE a == One(PlusSign)
               b == One(7)
    <2>1. a \in Items /\ b \in Items /\ One(8) \in Items
        BY Chars, Repetitions DEF One
    <2> HIDE DEF a, b
    <2>2. <<a, b>> \in Seq(Items)
        BY <2>1
    <2> QED
        BY <2>1, <2>2 DEF a, b
<1> HIDE DEF gap, open, close, plus, eight
<1>4. r \in Seq(Items)
    BY <1>1, <1>2, ConcatProperties
<1> HIDE DEF r
<1>5. p \in Seq(Items) /\ \E i \in DOMAIN p : Takes1(p[i])
    BY <1>2, <1>4, StillTakes
<1> HIDE DEF p
<1>6. <<p>> \in Patterns /\ Len(<<p>>) = 1 /\ Proper(<<p>>)
    BY <1>5, Single
<1>7. <<plus, eight>> \in Patterns
    BY <1>3, Alternatives
<1>8. PhonePattern = Then(<<plus, eight>>, <<p>>)
    BY DEF PhonePattern, gap, open, close, plus, eight, r, p
<1> QED
    BY <1>6, <1>7, <1>8, ThenIs

LEMMA EmailIs == EmailPattern \in Patterns /\ Proper(EmailPattern)
<1> DEFINE local == Times(Digit \cup {Letter, Underscore, Dot, PlusSign, Hyphen}, 1, Many)
           domain == Times(Digit \cup {Letter, Hyphen}, 1, Many)
           dot == One(Dot)
           letters == Times({Letter}, 2, Many)
           label == <<dot, letters>>
           at == One(AtSign)
           head == <<local, at, domain>>
           tail(k) == FlattenSeq([i \in 1..MaxLabels + 1 - k |-> label])
<1>1. local \in Items /\ Takes1(local) /\ domain \in Items /\ dot \in Items
      /\ letters \in Items /\ at \in Items
    <2>1. Digit \cup {Letter, Underscore, Dot, PlusSign, Hyphen} \in SUBSET Known
          /\ Digit \cup {Letter, Hyphen} \in SUBSET Known /\ {Letter} \in SUBSET Known
          /\ {Dot} \in SUBSET Known /\ {AtSign} \in SUBSET Known /\ Many \in Nat
        BY Chars
    <2> QED
        BY <2>1, Repetitions DEF One
<1> HIDE DEF local, domain, dot, letters, at
<1>2. label \in Seq(Items) /\ head \in Seq(Items) /\ DOMAIN head = 1..3 /\ head[1] = local
    BY <1>1
<1>3. \E i \in DOMAIN head : Takes1(head[i])
    <2>1. 1 \in DOMAIN head /\ head[1] = local
        BY <1>2
    <2> HIDE DEF head
    <2> QED
        BY <1>1, <2>1
<1> HIDE DEF label, head
<1>4. ASSUME NEW k \in 1..MaxLabels
      PROVE  tail(k) \in Seq(Items)
    <2> DEFINE n == MaxLabels + 1 - k
               f == [i \in 1..n |-> label]
    <2>1. n \in Nat
        BY DEF MaxLabels
    <2>2. f \in [1..n -> Seq(Items)]
        BY <1>2
    <2> HIDE DEF n, f
    <2>3. FlattenSeq(f) \in Seq(Items)
        BY <2>1, <2>2, FlattenIs
    <2> QED
        BY <2>3 DEF n, f
<1>5. EmailPattern = [k \in 1..MaxLabels |-> head \o tail(k)]
    BY DEF EmailPattern, local, domain, dot, letters, label, at, head
<1> HIDE DEF tail
<1>6. \A k \in 1..MaxLabels : /\ head \o tail(k) \in Seq(Items)
                              /\ \E i \in DOMAIN (head \o tail(k)) : Takes1((head \o tail(k))[i])
    BY <1>2, <1>3, <1>4, StillTakes
<1>7. EmailPattern \in [1..MaxLabels -> Seq(Items)]
    BY <1>5, <1>6
<1>8. EmailPattern \in Patterns
    <2>1. MaxLabels \in Nat
        BY DEF MaxLabels
    <2> QED
        BY <1>7, <2>1, SeqDef DEF Patterns
<1>9. Proper(EmailPattern)
    <2>1. DOMAIN EmailPattern = 1..MaxLabels /\ \A k \in 1..MaxLabels : EmailPattern[k] = head \o tail(k)
        BY <1>5
    <2> QED
        BY <1>6, <2>1 DEF Proper
<1> QED
    BY <1>8, <1>9

Regexes == {"email", "inn", "passport", "phone", "snils"}

LEMMA PatternIs ==
    ASSUME NEW x \in Regexes
    PROVE  Pattern(x) \in Patterns /\ Proper(Pattern(x))
<1>1. CASE x = "inn"
    BY <1>1, InnIs DEF Pattern
<1>2. CASE x = "snils"
    BY <1>2, SnilsIs DEF Pattern
<1>3. CASE x = "passport"
    BY <1>3, PassportIs DEF Pattern
<1>4. CASE x = "phone"
    BY <1>4, PhoneIs DEF Pattern
<1>5. CASE x = "email"
    BY <1>5, EmailIs DEF Pattern
<1> QED
    BY <1>1, <1>2, <1>3, <1>4, <1>5 DEF Regexes

\* The least of some numbers.
LEMMA MinIs ==
    ASSUME NEW T \in SUBSET Nat, T # {}
    PROVE  Min(T) \in T /\ \A y \in T : Min(T) <= y
<1>1. \E x \in T : \A y \in T : x <= y
    BY Least
<1> QED
    BY <1>1 DEF Min

-----------------------------------------------------------------------------
\* A match is that of one of the alternatives and takes a character.
LEMMA MatchIs ==
    ASSUME NEW chars \in Seq(Int), NEW x \in Regexes, NEW i \in 0..Len(chars)
    PROVE  /\ MatchAt(chars, x, i) \in {NoMatch} \cup (i + 1..Len(chars))
           /\ MatchAt(chars, x, i) # NoMatch =>
                 \E k \in DOMAIN Pattern(x) :
                     /\ MatchAt(chars, x, i) = StopOf(chars, Pattern(x)[k], i)
                     /\ \A j \in 1..k - 1 : StopOf(chars, Pattern(x)[j], i) = NoMatch
<1> DEFINE p == Pattern(x)
           hits == {k \in DOMAIN p : StopOf(chars, p[k], i) # NoMatch}
<1>1. p \in Patterns /\ Proper(p)
    BY PatternIs
<1>2. /\ DOMAIN p = 1..Len(p) /\ Len(p) \in Nat
      /\ \A k \in DOMAIN p : p[k] \in Seq(Items) /\ \E j \in DOMAIN p[k] : Takes1(p[k][j])
    BY <1>1, LenProperties DEF Patterns, Proper
<1>3. MatchAt(chars, x, i) = IF hits = {} THEN NoMatch ELSE StopOf(chars, p[Min(hits)], i)
    BY DEF MatchAt
<1> HIDE DEF p
<1>4. CASE hits = {}
    BY <1>3, <1>4
<1>5. CASE hits # {}
    <2>1. hits \in SUBSET Nat
        BY <1>2
    <2> DEFINE k == Min(hits)
    <2>2. k \in hits
        <3> HIDE DEF hits
        <3> QED
            BY <1>5, <2>1, MinIs
    <2>3. k \in DOMAIN p /\ StopOf(chars, p[k], i) # NoMatch
        BY <2>2
    <2>4. MatchAt(chars, x, i) = StopOf(chars, p[k], i)
        BY <1>3, <1>5
    <2>a. \A j \in hits : k <= j
        <3> HIDE DEF hits
        <3> QED
            BY <1>5, <2>1, MinIs
    <2> HIDE DEF k
    <2>5. p[k] \in Seq(Items) /\ \E j \in DOMAIN p[k] : Takes1(p[k][j])
        BY <1>2, <2>3
    <2>6. StopOf(chars, p[k], i) \in i..Len(chars) /\ StopOf(chars, p[k], i) # i
        BY <2>3, <2>5, StopLies
    <2>7. Len(chars) \in Nat
        BY LenProperties
    <2> DEFINE L == Len(chars)
               s == StopOf(chars, p[k], i)
    <2>8. i \in 0..L /\ s \in i..L /\ s # i
        BY <2>6
    <2> HIDE DEF L, s
    <2>9. s \in i + 1..L
        BY <2>7, <2>8 DEF L
    <2>10. ASSUME NEW j \in 1..k - 1
           PROVE  StopOf(chars, p[j], i) = NoMatch
        <3>1. j \in DOMAIN p /\ ~(k <= j)
            BY <1>2, <2>3
        <3> QED
            BY <2>a, <3>1
    <2> QED
        BY <2>3, <2>4, <2>9, <2>10 DEF L, s, p
<1> QED
    BY <1>4, <1>5

\* from[i] is what finditer yields once it stands at position i.
Searches(from, chars, x) ==
    /\ DOMAIN from = 0..Len(chars)
    /\ \A i \in 0..Len(chars) :
          from[i] = IF i = Len(chars) THEN <<>>
                    ELSE IF MatchAt(chars, x, i) = NoMatch THEN from[i + 1]
                    ELSE <<[start |-> i, stop |-> MatchAt(chars, x, i)]>> \o from[MatchAt(chars, x, i)]

LEMMA SearchSteps ==
    ASSUME NEW chars \in Seq(Int), NEW x \in Regexes
    PROVE  \E from : Searches(from, chars, x) /\ Finditer(chars, x) = from[0]
<1> DEFINE L == Len(chars)
           stop(i) == MatchAt(chars, x, i)
           Next1(u, i) == IF i = L THEN <<>>
                          ELSE IF stop(i) = NoMatch THEN u[i + 1]
                          ELSE <<[start |-> i, stop |-> stop(i)]>> \o u[stop(i)]
           Part(u, j) == DOMAIN u = L - j..L /\ \A i \in L - j..L : u[i] = Next1(u, i)
           T == {j \in 0..L : \E u : Part(u, j)}
<1>1. L \in Nat
    BY LenProperties
<1>2. \A i \in 0..L : stop(i) \in {NoMatch} \cup (i + 1..L)
    BY MatchIs
<1> HIDE DEF L, stop
<1>3. 0 \in T
    <2> DEFINE u == [i \in L - 0..L |-> <<>>]
    <2>1. L - 0..L = {L}
        BY <1>1
    <2>2. Part(u, 0)
        BY <2>1
    <2>3. 0 \in 0..L
        BY <1>1
    <2> HIDE DEF Part, u
    <2> QED
        BY <2>2, <2>3
<1>4. ASSUME NEW j \in 1..L, j - 1 \in T
      PROVE  j \in T
    <2>1. PICK u : Part(u, j - 1)
        BY <1>4
    <2> DEFINE d == L - j
               w == [i \in d..L |-> IF i = d THEN Next1(u, d) ELSE u[i]]
    <2>2. d \in 0..L /\ d # L /\ L - (j - 1) = d + 1 /\ L - j = d
        BY <1>1
    <2>3. DOMAIN u = d + 1..L /\ \A i \in d + 1..L : u[i] = Next1(u, i)
        BY <2>1, <2>2
    <2> HIDE DEF d
    <2>4. /\ DOMAIN w = d..L /\ w[d] = Next1(u, d)
          /\ \A i \in d + 1..L : w[i] = u[i]
        BY <1>1, <2>2
    <2> HIDE DEF w
    <2>5. ASSUME NEW i \in d..L
          PROVE  Next1(w, i) = Next1(u, i)
        <3>1. CASE i = L
            BY <3>1
        <3>2. CASE i # L /\ stop(i) = NoMatch
            <4>1. i + 1 \in d + 1..L
                BY <1>1, <2>2, <3>2
            <4>2. w[i + 1] = u[i + 1]
                BY <2>4, <4>1
            <4> QED
                BY <3>2, <4>2
        <3>3. CASE i # L /\ stop(i) # NoMatch
            <4>1. i \in 0..L
                BY <1>1, <2>2
            <4>2. stop(i) \in i + 1..L
                BY <1>2, <3>3, <4>1
            <4>3. stop(i) \in d + 1..L
                BY <1>1, <2>2, <4>1, <4>2
            <4>4. w[stop(i)] = u[stop(i)]
                BY <2>4, <4>3
            <4> QED
                BY <3>3, <4>4
        <3> QED
            BY <3>1, <3>2, <3>3
    <2> HIDE DEF Next1
    <2>6. ASSUME NEW i \in d..L
          PROVE  w[i] = Next1(w, i)
        <3>1. i = d \/ i \in d + 1..L
            BY <1>1, <2>2
        <3>2. w[i] = Next1(u, i)
            BY <2>3, <2>4, <3>1
        <3> QED
            BY <2>5, <3>2
    <2>7. Part(w, j)
        BY <2>2, <2>4, <2>6
    <2>8. j \in 0..L
        BY <1>1
    <2> HIDE DEF Part
    <2> QED
        BY <2>7, <2>8
<1> HIDE DEF T
<1>5. L \in T
    <2>1. 0..L \subseteq T
        BY <1>1, <1>3, <1>4, Induct
    <2> QED
        BY <1>1, <2>1
<1>6. PICK u : Part(u, L)
    BY <1>5 DEF T
<1> DEFINE Rule(v) == v = [i \in 0..Len(chars) |->
                IF i = Len(chars) THEN <<>>
                ELSE LET s == MatchAt(chars, x, i)
                     IN  IF s = NoMatch THEN v[i + 1]
                         ELSE <<[start |-> i, stop |-> s]>> \o v[s]]
           chosen == CHOOSE v : Rule(v)
           w == [i \in 0..L |-> u[i]]
<1>7. L - L = 0
    BY <1>1
<1>8. DOMAIN u = 0..L /\ \A i \in 0..L : u[i] = Next1(u, i)
    BY <1>6, <1>7
<1>9. \A i \in 0..L : w[i] = Next1(w, i)
    <2> SUFFICES ASSUME NEW i \in 0..L PROVE w[i] = Next1(w, i)
        OBVIOUS
    <2>1. i # L => i + 1 \in 0..L
        BY <1>1
    <2>2. stop(i) # NoMatch => stop(i) \in 0..L
        BY <1>1, <1>2
    <2> QED
        BY <1>8, <2>1, <2>2
<1>10. Rule(w)
    <2>1. w = [i \in 0..L |-> Next1(w, i)]
        <3> HIDE DEF Next1
        <3> QED
            BY <1>9
    <2> HIDE DEF w
    <2> QED
        BY <2>1 DEF L, stop
<1>11. Rule(chosen)
    <2> HIDE DEF Rule
    <2> QED
        BY <1>10
<1>12. Finditer(chars, x) = chosen[0]
    BY DEF Finditer
<1> HIDE DEF chosen
<1>13. Searches(chosen, chars, x)
    BY <1>11 DEF Searches
<1> QED
    BY <1>12, <1>13

\* Matches of x, one behind the other, none before position i.
Spans(chars) == [start : 0..Len(chars), stop : 0..Len(chars)]

Yields(r, chars, x, i) ==
    /\ r \in Seq(Spans(chars))
    /\ \A k \in 1..Len(r) :
          /\ i <= r[k].start /\ r[k].start < r[k].stop
          /\ r[k].stop = MatchAt(chars, x, r[k].start)
    /\ \A j, k \in 1..Len(r) : j < k => r[j].stop <= r[k].start

LEMMA YieldsMore ==
    ASSUME NEW chars \in Seq(Int), NEW x, NEW i \in 0..Len(chars), NEW stop \in i + 1..Len(chars),
           stop = MatchAt(chars, x, i), NEW r, Yields(r, chars, x, stop)
    PROVE  Yields(<<[start |-> i, stop |-> stop]>> \o r, chars, x, i)
<1> DEFINE L == Len(chars)
           m == [start |-> i, stop |-> stop]
           M == Spans(chars)
           n == Len(r)
           q == <<m>> \o r
<1>0. L \in Nat /\ i \in 0..L /\ stop \in i + 1..L
    BY LenProperties
<1>1. m \in M /\ m.start = i /\ m.stop = stop
    <2>1. i \in 0..L /\ stop \in 0..L
        <3> HIDE DEF L
        <3> QED
            BY <1>0
    <2> QED
        BY <2>1 DEF Spans
<1>2. /\ r \in Seq(M) /\ n \in Nat
      /\ \A k \in 1..n : /\ r[k] \in M
                         /\ stop <= r[k].start /\ r[k].start < r[k].stop
                         /\ r[k].stop = MatchAt(chars, x, r[k].start)
      /\ \A j, k \in 1..n : j < k => r[j].stop <= r[k].start
    <2>1. r \in Seq(M)
        BY DEF Yields
    <2>2. n \in Nat /\ \A k \in 1..n : r[k] \in M
        BY <2>1, LenProperties
    <2> HIDE DEF M
    <2> QED
        BY <2>1, <2>2 DEF Yields
<1>3. \A e \in M : e.start \in 0..L /\ e.stop \in 0..L
    BY DEF Spans
<1> HIDE DEF L, m, M, n
<1>4. <<m>> \in Seq(M) /\ Len(<<m>>) = 1 /\ <<m>>[1] = m
    BY <1>1
<1>5. /\ q \in Seq(M) /\ Len(q) = 1 + n
      /\ \A k \in 1..1 + n : q[k] = IF k <= 1 THEN <<m>>[k] ELSE r[k - 1]
    BY <1>2, <1>4, ConcatProperties DEF n
<1> HIDE DEF q
<1>6. q[1] = m /\ \A k \in 1..n + 1 : k # 1 => k - 1 \in 1..n /\ q[k] = r[k - 1]
    <2>1. 1 \in 1..1 + n
        BY <1>2
    <2>2. q[1] = m
        BY <1>4, <1>5, <2>1
    <2>3. ASSUME NEW k \in 1..n + 1, k # 1
          PROVE  k - 1 \in 1..n /\ q[k] = r[k - 1]
        <3>1. k - 1 \in 1..n /\ k \in 1..1 + n /\ ~(k <= 1)
            BY <1>2, <2>3
        <3> QED
            BY <1>5, <3>1
    <2> QED
        BY <2>2, <2>3
<1>7. Len(q) = n + 1
    BY <1>2, <1>5
<1>8. ASSUME NEW k \in 1..n + 1
      PROVE  /\ i <= q[k].start /\ q[k].start < q[k].stop
             /\ q[k].stop = MatchAt(chars, x, q[k].start)
    <2>1. CASE k = 1
        BY <1>0, <1>1, <1>6, <2>1
    <2>2. CASE k # 1
        <3>1. k - 1 \in 1..n /\ q[k] = r[k - 1]
            BY <1>6, <2>2
        <3>2. /\ r[k - 1].start \in 0..L /\ stop <= r[k - 1].start /\ r[k - 1].start < r[k - 1].stop
              /\ r[k - 1].stop = MatchAt(chars, x, r[k - 1].start)
            BY <1>2, <1>3, <3>1
        <3>3. i <= r[k - 1].start
            BY SMTT(30), <1>0, <3>2
        <3> QED
            BY <3>1, <3>2, <3>3
    <2> QED
        BY <2>1, <2>2
<1>9. ASSUME NEW j \in 1..n + 1, NEW k \in 1..n + 1, j < k
      PROVE  q[j].stop <= q[k].start
    <2>1. k # 1
        BY <1>2, <1>9
    <2>2. k - 1 \in 1..n /\ q[k] = r[k - 1]
        BY <1>6, <2>1
    <2>3. CASE j = 1
        BY <1>1, <1>2, <1>6, <2>2, <2>3
    <2>4. CASE j # 1
        <3>1. j - 1 \in 1..n /\ q[j] = r[j - 1] /\ j - 1 < k - 1
            BY <1>2, <1>6, <1>9, <2>4
        <3> QED
            BY <1>2, <2>2, <3>1
    <2> QED
        BY <2>3, <2>4
<1>10. Yields(q, chars, x, i)
    <2>1. q \in Seq(Spans(chars))
        BY <1>5 DEF M
    <2> QED
        BY <1>7, <1>8, <1>9, <2>1 DEF Yields
<1> QED
    BY <1>10 DEF q, m

\* What finditer yields from each position on.
LEMMA SearchYields ==
    ASSUME NEW chars \in Seq(Int), NEW x \in Regexes, NEW from, Searches(from, chars, x)
    PROVE  \A i \in 0..Len(chars) : Yields(from[i], chars, x, i)
<1> DEFINE L == Len(chars)
<1>2. \A i \in 0..L :
          from[i] = IF i = L THEN <<>>
                    ELSE IF MatchAt(chars, x, i) = NoMatch THEN from[i + 1]
                    ELSE <<[start |-> i, stop |-> MatchAt(chars, x, i)]>> \o from[MatchAt(chars, x, i)]
    BY DEF Searches
<1>3. L \in Nat /\ \A i \in 0..L : MatchAt(chars, x, i) \in {NoMatch} \cup (i + 1..L)
    BY LenProperties, MatchIs
<1> DEFINE stop(i) == MatchAt(chars, x, i)
           behind(i) == <<[start |-> i, stop |-> stop(i)]>> \o from[stop(i)]
           Good(i) == Yields(from[i], chars, x, i)
           T == {j \in 0..L : \A i \in L - j..L : Good(i)}
<1>a. \A i \in 0..L : from[i] = IF i = L THEN <<>> ELSE IF stop(i) = NoMatch THEN from[i + 1] ELSE behind(i)
    BY <1>2
<1>b. \A i \in 0..L : stop(i) \in {NoMatch} \cup (i + 1..L)
    BY <1>3
<1>4. Good(L)
    <2>1. from[L] = <<>>
        <3> HIDE DEF L, stop, behind
        <3> QED
            BY <1>3, <1>a
    <2>2. <<>> \in Seq(Spans(chars)) /\ Len(<<>>) = 0
        BY EmptySeq
    <2>3. Yields(<<>>, chars, x, L)
        BY <2>2 DEF Yields
    <2> QED
        BY <2>1, <2>3
<1>5. ASSUME NEW j \in 1..L, j - 1 \in T
      PROVE  j \in T
    <2> DEFINE i == L - j
    <2>1. i \in 0..L /\ i # L /\ i + 1 \in 0..L /\ L - (j - 1) = i + 1
        BY <1>3
    <2>2. \A k \in i + 1..L : Good(k)
        BY <1>5, <2>1
    <2> HIDE DEF i
    <2>3. ASSUME MatchAt(chars, x, i) = NoMatch
          PROVE  Good(i)
        <3>1. from[i] = from[i + 1] /\ i + 1 \in i + 1..L
            <4>1. stop(i) = NoMatch
                BY <2>3
            <4> HIDE DEF stop, behind, L
            <4> QED
                BY <1>3, <1>a, <2>1, <4>1
        <3>2. Yields(from[i], chars, x, i + 1)
            BY <2>2, <3>1
        <3> DEFINE r == from[i]
        <3>3. /\ r \in Seq(Spans(chars))
              /\ \A k \in 1..Len(r) : /\ i + 1 <= r[k].start /\ r[k].start < r[k].stop
                                      /\ r[k].stop = MatchAt(chars, x, r[k].start)
              /\ \A l, k \in 1..Len(r) : l < k => r[l].stop <= r[k].start
            BY <3>2 DEF Yields
        <3>4. \A k \in 1..Len(r) : r[k].start \in 0..L
            <4>1. \A k \in 1..Len(r) : r[k] \in Spans(chars)
                BY <3>3, ElementOfSeq
            <4> QED
                BY <4>1 DEF Spans
        <3> HIDE DEF r, L
        <3>5. \A k \in 1..Len(r) : i <= r[k].start
            BY <1>3, <2>1, <3>3, <3>4
        <3>6. Yields(r, chars, x, i)
            BY <3>3, <3>5 DEF Yields
        <3>7. Yields(from[i], chars, x, i)
            BY <3>6 DEF r
        <3> QED
            BY <3>7
    <2>4. ASSUME MatchAt(chars, x, i) # NoMatch
          PROVE  Good(i)
        <3> DEFINE s == MatchAt(chars, x, i)
        <3>1. s \in i + 1..L /\ from[i] = <<[start |-> i, stop |-> s]>> \o from[s]
            <4>1. from[i] = behind(i) /\ stop(i) \in i + 1..L
                <5>1. stop(i) # NoMatch
                    BY <2>4
                <5> HIDE DEF stop, behind, L
                <5> QED
                    BY <1>a, <1>b, <2>1, <5>1
            <4> QED
                BY <4>1
        <3>2. Yields(from[s], chars, x, s) /\ s = MatchAt(chars, x, i)
            BY <2>2, <3>1
        <3> HIDE DEF s
        <3>3. i \in 0..Len(chars) /\ s \in i + 1..Len(chars)
            BY <2>1, <3>1
        <3>4. Yields(<<[start |-> i, stop |-> s]>> \o from[s], chars, x, i)
            BY <3>2, <3>3, YieldsMore
        <3>5. Yields(from[i], chars, x, i)
            BY <3>1, <3>4
        <3> QED
            BY <3>5
    <2>5. Good(i)
        BY <2>3, <2>4
    <2>6. \A k \in i..L : k = i \/ k \in i + 1..L
        BY <1>3, <2>1
    <2>7. \A k \in i..L : Good(k)
        BY <2>2, <2>5, <2>6
    <2>8. j \in 0..L
        BY <1>3
    <2> HIDE DEF Good
    <2> QED
        BY <2>7, <2>8 DEF i
<1>6. 0 \in T
    <2>1. \A i \in L - 0..L : i = L
        BY <1>3
    <2> HIDE DEF Good
    <2> QED
        BY <1>3, <1>4, <2>1
<1> HIDE DEF T
<1>7. 0..L \subseteq T
    BY <1>3, <1>5, <1>6, Induct
<1>8. \A i \in 0..L : Good(i)
    <2>1. L \in T /\ L - L = 0
        BY <1>3, <1>7
    <2> HIDE DEF Good
    <2> QED
        BY <2>1 DEF T
<1> QED
    BY <1>8

\* What finditer yields.
LEMMA FinditerIs ==
    ASSUME NEW chars \in Seq(Int), NEW x \in Regexes
    PROVE  Yields(Finditer(chars, x), chars, x, 0)
<1>1. PICK from : Searches(from, chars, x) /\ Finditer(chars, x) = from[0]
    BY SearchSteps
<1>2. 0 \in 0..Len(chars)
    BY LenProperties
<1> QED
    BY <1>1, <1>2, SearchYields

-----------------------------------------------------------------------------
\* The sum of numbers is one.
LEMMA TotalIs ==
    ASSUME NEW s \in Seq(Int)
    PROVE  Total(s) \in Int
<1> DEFINE n == Len(s)
           h == [k \in 1..n |-> [v \in Int |-> v + s[k]]]
           Rule(g) == g = [k \in 0..Len(s) |-> IF k = 0 THEN 0 ELSE g[k - 1] + s[k]]
           chosen == CHOOSE g : Rule(g)
<1>1. n \in Nat /\ \A k \in 1..n : s[k] \in Int
    BY LenProperties
<1> HIDE DEF n
<1>2. h \in [1..n -> [Int -> Int]] /\ \A k \in 1..n, v \in Int : h[k][v] = v + s[k]
    BY <1>1
<1> HIDE DEF h
<1>3. PICK w : Follows(w, h, 0, n, Int)
    <2>1. 0 \in Int
        OBVIOUS
    <2> QED
        BY <1>1, <1>2, <2>1, Recursion
<1>4. /\ w \in [0..n -> Int] /\ w[0] = 0
      /\ \A k \in 1..n : w[k] = w[k - 1] + s[k]
    <2>1. /\ w \in [0..n -> Int] /\ w[0] = 0
          /\ \A k \in 1..n : w[k] = h[k][w[k - 1]]
        BY <1>3 DEF Follows
    <2>2. \A k \in 1..n : w[k - 1] \in Int
        BY <1>1, <2>1
    <2> QED
        BY <1>2, <2>1, <2>2
<1>5. Rule(w)
    <2>1. \A k \in 0..n : k = 0 \/ k \in 1..n
        BY <1>1
    <2>2. \A k \in 0..n : w[k] = IF k = 0 THEN 0 ELSE w[k - 1] + s[k]
        BY <1>4, <2>1
    <2> QED
        BY <1>4, <2>2 DEF n
<1>6. Rule(chosen)
    <2> HIDE DEF Rule
    <2> QED
        BY <1>5
<1>7. Total(s) = chosen[n]
    BY DEF Total, n
<1> HIDE DEF chosen
<1>8. \A k \in 0..n : chosen[k] = IF k = 0 THEN 0 ELSE chosen[k - 1] + s[k]
    BY <1>6 DEF n
<1> DEFINE T == {k \in 0..n : chosen[k] \in Int}
<1>9. 0 \in T
    BY <1>1, <1>8
<1>10. \A k \in 1..n : k - 1 \in T => k \in T
    <2> SUFFICES ASSUME NEW k \in 1..n, k - 1 \in T PROVE k \in T
        OBVIOUS
    <2>1. k \in 0..n /\ k # 0
        BY <1>1
    <2>2. chosen[k] = chosen[k - 1] + s[k] /\ s[k] \in Int
        BY <1>1, <1>8, <2>1
    <2> QED
        BY <2>1, <2>2
<1> HIDE DEF T
<1>11. 0..n \subseteq T
    BY <1>1, <1>9, <1>10, Induct
<1>12. n \in T
    BY <1>1, <1>11
<1> QED
    BY <1>7, <1>12 DEF T

\* The number that two digits make.
LEMMA TwoDigits ==
    ASSUME NEW d, d[10] \in Int, d[11] \in Int
    PROVE  IntOf(d, 10, 11) = 10 * d[10] + d[11]
<1> DEFINE Rule(u) == u = [k \in 10 - 1..11 |-> IF k < 10 THEN 0 ELSE 10 * u[k - 1] + d[k]]
           w == [k \in 10 - 1..11 |-> IF k = 9 THEN 0 ELSE IF k = 10 THEN d[10] ELSE 10 * d[10] + d[11]]
           chosen == CHOOSE u : Rule(u)
<1>1. Rule(w)
    <2>1. w[9] = 0 /\ w[10] = d[10] /\ w[11] = 10 * d[10] + d[11]
        OBVIOUS
    <2>2. \A k \in 10 - 1..11 : w[k] = IF k < 10 THEN 0 ELSE 10 * w[k - 1] + d[k]
        <3>1. \A k \in 10 - 1..11 : k = 9 \/ k = 10 \/ k = 11
            OBVIOUS
        <3> HIDE DEF w
        <3> QED
            BY <2>1, <3>1
    <2> QED
        BY <2>2
<1>2. Rule(chosen)
    <2> HIDE DEF Rule
    <2> QED
        BY <1>1
<1>3. IntOf(d, 10, 11) = chosen[11]
    BY DEF IntOf
<1> HIDE DEF chosen
<1>4. chosen[9] = 0 /\ chosen[10] = 10 * chosen[9] + d[10] /\ chosen[11] = 10 * chosen[10] + d[11]
    BY <1>2
<1> QED
    BY <1>3, <1>4

-----------------------------------------------------------------------------
\* What Reaches says at each of its places.
LEMMA ReachesIs ==
    ASSUME NEW chars \in Seq(Int), NEW i \in 0..Len(chars), NEW items \in Seq(Items),
           NEW at, Reaches(at, chars, items, i)
    PROVE  /\ Len(items) \in Nat
           /\ at[0] = i
           /\ \A k \in 0..Len(items) : at[k] \in {NoMatch} \cup (0..Len(chars))
           /\ \A k \in 1..Len(items) :
                 /\ at[k - 1] = NoMatch => at[k] = NoMatch
                 /\ at[k - 1] # NoMatch =>
                       at[k] = IF Greedy(chars, at[k - 1], items[k]) < items[k].least THEN NoMatch
                               ELSE at[k - 1] + Greedy(chars, at[k - 1], items[k])
<1> DEFINE L == Len(chars)
           m == Len(items)
<1>1. L \in Nat /\ m \in Nat /\ i \in 0..L
    BY LenProperties
<1>2. at \in [0..m -> {NoMatch} \cup (i..L)] /\ at[0] = i
    BY DEF Reaches
<1>3. \A k \in 1..m :
          LET n == IF at[k - 1] = NoMatch THEN 0 ELSE Greedy(chars, at[k - 1], items[k])
          IN  at[k] = IF at[k - 1] = NoMatch \/ n < items[k].least THEN NoMatch ELSE at[k - 1] + n
    BY DEF Reaches
<1> HIDE DEF L, m
<1>4. \A k \in 0..m : at[k] \in {NoMatch} \cup (0..L)
    BY <1>1, <1>2
<1>5. \A k \in 1..m : at[k - 1] = NoMatch => at[k] = NoMatch
    BY <1>3
<1>6. \A k \in 1..m : at[k - 1] # NoMatch =>
          at[k] = IF Greedy(chars, at[k - 1], items[k]) < items[k].least THEN NoMatch
                  ELSE at[k - 1] + Greedy(chars, at[k - 1], items[k])
    BY <1>3
<1> QED
    BY <1>1, <1>2, <1>4, <1>5, <1>6 DEF L, m

\* Repetitions one group after the other: the second starts where the first
\* ends.
LEMMA StopAfter ==
    ASSUME NEW chars \in Seq(Int), NEW i \in 0..Len(chars),
           NEW p \in Seq(Items), NEW q \in Seq(Items)
    PROVE  StopOf(chars, p \o q, i) = IF StopOf(chars, p, i) = NoMatch THEN NoMatch
                                      ELSE StopOf(chars, q, StopOf(chars, p, i))
<1> DEFINE m == Len(p)
           n == Len(q)
           r == p \o q
           j == StopOf(chars, p, i)
           Nth(a, s, k) == /\ a[k - 1] = NoMatch => a[k] = NoMatch
                           /\ a[k - 1] # NoMatch =>
                                 a[k] = IF Greedy(chars, a[k - 1], s[k]) < s[k].least THEN NoMatch
                                        ELSE a[k - 1] + Greedy(chars, a[k - 1], s[k])
<1>1. /\ m \in Nat /\ n \in Nat /\ r \in Seq(Items) /\ Len(r) = m + n
      /\ \A k \in 1..m : r[k] = p[k]
      /\ \A k \in 1..n : r[m + k] = q[k]
    <2>1. m \in Nat /\ n \in Nat
        BY LenProperties
    <2>2. /\ r \in Seq(Items) /\ Len(r) = m + n
          /\ \A k \in 1..m + n : r[k] = IF k <= m THEN p[k] ELSE q[k - m]
        BY ConcatProperties
    <2> HIDE DEF m, n, r
    <2>3. \A k \in 1..m : r[k] = p[k]
        BY <2>1, <2>2
    <2>4. \A k \in 1..n : r[m + k] = q[k]
        <3> SUFFICES ASSUME NEW k \in 1..n PROVE r[m + k] = q[k]
            OBVIOUS
        <3>1. m + k \in 1..m + n /\ ~(m + k <= m) /\ (m + k) - m = k
            BY <2>1
        <3>2. r[m + k] = q[(m + k) - m]
            BY <2>2, <3>1
        <3> QED
            BY <3>1, <3>2
    <2> QED
        BY <2>1, <2>2, <2>3, <2>4
<1>2. PICK a : Reaches(a, chars, r, i) /\ StopOf(chars, r, i) = a[Len(r)]
    <2> HIDE DEF r
    <2> QED
        BY ZenonT(40), <1>1, StopSteps
<1>3. PICK b : Reaches(b, chars, p, i) /\ j = b[m]
    BY StopSteps
<1> HIDE DEF r, m, n, j
<1>4. a[0] = i /\ \A k \in 1..m + n : Nth(a, r, k)
    <2>1. a[0] = i /\ \A k \in 1..Len(r) : Nth(a, r, k)
        <3>1. r \in Seq(Items) /\ Reaches(a, chars, r, i)
            BY <1>1, <1>2
        <3> QED
            BY <3>1, ReachesIs
    <2> HIDE DEF Nth
    <2> QED
        BY <1>1, <2>1
<1>5. /\ b[0] = i /\ \A k \in 1..m : Nth(b, p, k)
      /\ \A k \in 0..m : b[k] \in {NoMatch} \cup (0..Len(chars))
    BY <1>3, ReachesIs DEF m
<1> DEFINE S == {k \in 0..m : a[k] = b[k]}
<1>6. 0..m \subseteq S
    <2>1. 0 \in S
        BY <1>1, <1>4, <1>5
    <2>2. ASSUME NEW k \in 1..m, k - 1 \in S
          PROVE  k \in S
        <3>1. k \in 1..m + n /\ k \in 0..m /\ r[k] = p[k] /\ a[k - 1] = b[k - 1]
            BY <1>1, <2>2
        <3>2. Nth(a, r, k) /\ Nth(b, p, k)
            BY <1>4, <1>5, <3>1
        <3> QED
            BY <3>1, <3>2
    <2> HIDE DEF S
    <2> QED
        BY <1>1, <2>1, <2>2, Induct
<1>7. a[m] = j
    BY <1>1, <1>3, <1>6
<1>8. CASE j = NoMatch
    <2> DEFINE T == {k \in 0..n : a[m + k] = NoMatch}
    <2>1. 0 \in T
        BY <1>1, <1>7, <1>8
    <2>2. ASSUME NEW k \in 1..n, k - 1 \in T
          PROVE  k \in T
        <3>1. m + k \in 1..m + n /\ (m + k) - 1 = m + (k - 1) /\ k \in 0..n
            BY <1>1
        <3>2. a[(m + k) - 1] = NoMatch
            BY <2>2, <3>1
        <3>3. Nth(a, r, m + k)
            <4> HIDE DEF Nth
            <4> QED
                BY <1>4, <3>1
        <3>4. a[m + k] = NoMatch
            BY <3>2, <3>3
        <3> QED
            BY <3>1, <3>4
    <2> HIDE DEF T
    <2>3. n \in T
        <3>1. 0..n \subseteq T
            BY <1>1, <2>1, <2>2, Induct
        <3> QED
            BY <1>1, <3>1
    <2> QED
        BY <1>1, <1>2, <1>8, <2>3 DEF T, r, j
<1>9. CASE j # NoMatch
    <2>1. j \in 0..Len(chars)
        BY <1>1, <1>3, <1>5, <1>9
    <2>2. PICK c : Reaches(c, chars, q, j) /\ StopOf(chars, q, j) = c[n]
        BY <2>1, StopSteps DEF n
    <2>3. c[0] = j /\ \A k \in 1..n : Nth(c, q, k)
        BY <2>1, <2>2, ReachesIs DEF n
    <2> DEFINE T == {k \in 0..n : a[m + k] = c[k]}
    <2>4. 0 \in T
        BY <1>1, <1>7, <2>3
    <2>5. ASSUME NEW k \in 1..n, k - 1 \in T
          PROVE  k \in T
        <3>1. m + k \in 1..m + n /\ (m + k) - 1 = m + (k - 1) /\ k \in 0..n
            BY <1>1
        <3>2. a[(m + k) - 1] = c[k - 1] /\ r[m + k] = q[k]
            BY <1>1, <2>5, <3>1
        <3>3. Nth(a, r, m + k) /\ Nth(c, q, k)
            <4> HIDE DEF Nth
            <4> QED
                BY <1>4, <2>3, <3>1
        <3>4. a[m + k] = c[k]
            BY <3>2, <3>3
        <3> QED
            BY <3>1, <3>4
    <2> HIDE DEF T
    <2>6. n \in T
        <3>1. 0..n \subseteq T
            BY <1>1, <2>4, <2>5, Induct
        <3> QED
            BY <1>1, <3>1
    <2> QED
        BY <1>1, <1>2, <1>9, <2>2, <2>6 DEF T, r, j
<1> QED
    BY <1>8, <1>9

\* A repetition takes the characters of its class up to one that is not, or up
\* to its bound; ...
LEMMA ItemStops ==
    ASSUME NEW chars \in Seq(Int), NEW i \in 0..Len(chars), NEW item \in Items,
           NEW n \in 0..Len(chars) - i, item.least <= n, n <= item.most,
           \A k \in i + 1..i + n : chars[k] \in item.class,
           n = item.most \/ i + n = Len(chars) \/ chars[i + n + 1] \notin item.class
    PROVE  StopOf(chars, <<item>>, i) = i + n
<1> DEFINE L == Len(chars)
           g == Greedy(chars, i, item)
<1>1. L \in Nat /\ i \in 0..L /\ item.most \in Nat /\ item.least \in Nat
    BY LenProperties DEF Items
<1>2. /\ g \in 0..L - i
      /\ g <= item.most
      /\ \A k \in i + 1..i + g : chars[k] \in item.class
      /\ g < item.most /\ g < L - i => chars[i + g + 1] \notin item.class
    BY GreedyIs
<1> HIDE DEF L, g
<1>3. ~(g < n)
    <2>1. SUFFICES ASSUME g < n PROVE FALSE
        OBVIOUS
    <2>2. n <= item.most /\ n \in 0..L - i
        BY DEF L
    <2>3. g < item.most /\ g < L - i /\ i + g + 1 \in i + 1..i + n
        BY <1>1, <1>2, <2>1, <2>2
    <2> QED
        BY <1>2, <2>3
<1>4. ~(n < g)
    <2>1. SUFFICES ASSUME n < g PROVE FALSE
        OBVIOUS
    <2>2. n \in 0..L - i
        BY DEF L
    <2>3. n # item.most /\ i + n # L /\ i + n + 1 \in i + 1..i + g
        BY <1>1, <1>2, <2>1, <2>2
    <2> QED
        BY <1>2, <2>3 DEF L
<1>5. g = n
    BY <1>1, <1>2, <1>3, <1>4 DEF L
<1>6. <<item>> \in Seq(Items) /\ Len(<<item>>) = 1 /\ <<item>>[1] = item
    OBVIOUS
<1> DEFINE one == <<item>>
<1> HIDE DEF one
<1>a. one \in Seq(Items) /\ Len(one) = 1 /\ one[1] = item
    BY <1>6 DEF one
<1>7. PICK at : Reaches(at, chars, one, i) /\ StopOf(chars, one, i) = at[1]
    <2>1. PICK at : Reaches(at, chars, one, i) /\ StopOf(chars, one, i) = at[Len(one)]
        BY <1>a, StopSteps
    <2> QED
        BY <1>a, <2>1
<1>8. at[0] = i /\ at[1] = IF at[0] = NoMatch THEN NoMatch
                           ELSE IF Greedy(chars, at[0], item) < item.least THEN NoMatch
                                ELSE at[0] + Greedy(chars, at[0], item)
    <2>1. 1 \in 1..1 /\ 1 - 1 = 0
        OBVIOUS
    <2>2. /\ at[0] = i
          /\ \A k \in 1..Len(one) :
                 /\ at[k - 1] = NoMatch => at[k] = NoMatch
                 /\ at[k - 1] # NoMatch =>
                       at[k] = IF Greedy(chars, at[k - 1], one[k]) < one[k].least THEN NoMatch
                               ELSE at[k - 1] + Greedy(chars, at[k - 1], one[k])
        <3>1. one \in Seq(Items) /\ Reaches(at, chars, one, i)
            BY <1>a, <1>7
        <3> QED
            BY <3>1, ReachesIs
    <2> QED
        BY <1>a, <2>1, <2>2
<1>9. i # NoMatch
    BY <1>1 DEF NoMatch
<1> QED
    BY <1>1, <1>5, <1>7, <1>8, <1>9 DEF g, L, one

\* ... if it needs a character and there is none of its class, there is no
\* match, whatever comes after it.
LEMMA HeadFails ==
    ASSUME NEW chars \in Seq(Int), NEW i \in 0..Len(chars), NEW items \in Seq(Items),
           Len(items) >= 1, Takes1(items[1]),
           i = Len(chars) \/ chars[i + 1] \notin items[1].class
    PROVE  StopOf(chars, items, i) = NoMatch
<1> DEFINE L == Len(chars)
           m == Len(items)
           g == Greedy(chars, i, items[1])
<1>1. L \in Nat /\ m \in Nat /\ i \in 0..L
    BY LenProperties
<1>2. items[1] \in Items
    <2>1. 1 \in 1..Len(items)
        BY <1>1
    <2> QED
        BY <2>1, ElementOfSeq
<1>3. g \in 0..L - i /\ \A k \in i + 1..i + g : chars[k] \in items[1].class
    BY <1>2, GreedyIs
<1> HIDE DEF g, L
<1>4. g = 0
    <2>1. i # L => chars[i + 1] \notin items[1].class
        BY DEF L
    <2>2. g # 0 => i + 1 \in i + 1..i + g /\ i # L
        BY <1>1, <1>3
    <2> QED
        BY <1>3, <2>1, <2>2
<1>5. items[1].least \in Nat /\ items[1].least >= 1
    BY <1>2 DEF Items, Takes1
<1>6. PICK at : Reaches(at, chars, items, i) /\ StopOf(chars, items, i) = at[m]
    BY StopSteps
<1>7. /\ at[0] = i
      /\ \A k \in 1..m : /\ at[k - 1] = NoMatch => at[k] = NoMatch
                         /\ at[k - 1] # NoMatch =>
                               at[k] = IF Greedy(chars, at[k - 1], items[k]) < items[k].least THEN NoMatch
                                       ELSE at[k - 1] + Greedy(chars, at[k - 1], items[k])
    BY <1>6, ReachesIs
<1> HIDE DEF m
<1>8. at[1] = NoMatch
    <2>1. 1 \in 1..m /\ 1 - 1 = 0
        BY <1>1 DEF m
    <2>2. i # NoMatch
        BY <1>1 DEF NoMatch
    <2>3. Greedy(chars, at[0], items[1]) < items[1].least
        BY <1>4, <1>5, <1>7 DEF g
    <2> QED
        BY <1>7, <2>1, <2>2, <2>3
<1> DEFINE T == {k \in 0..m : k # 0 => at[k] = NoMatch}
<1>9. 0 \in T
    BY <1>1
<1>10. ASSUME NEW k \in 1..m, k - 1 \in T
       PROVE  k \in T
    <2>1. k \in 0..m /\ (k = 1 \/ k - 1 # 0)
        BY <1>1
    <2> QED
        BY <1>7, <1>8, <1>10, <2>1
<1> HIDE DEF T
<1>11. 0..m \subseteq T
    BY <1>1, <1>9, <1>10, Induct
<1>12. m \in T /\ m # 0
    BY SMTT(30), <1>1, <1>11 DEF m
<1> QED
    BY <1>6, <1>12 DEF T

-----------------------------------------------------------------------------
\* Which alternative of Then is made of which.
LEMMA ThenAt ==
    ASSUME NEW ps \in Patterns, NEW qs \in Patterns, Len(qs) \in {1, 2, 3},
           NEW a \in 1..Len(ps), NEW b \in 1..Len(qs)
    PROVE  /\ (a - 1) * Len(qs) + b \in 1..Len(ps) * Len(qs)
           /\ Then(ps, qs)[(a - 1) * Len(qs) + b] = ps[a] \o qs[b]
<1> DEFINE l == Len(ps)
           m == Len(qs)
           k == (a - 1) * m + b
<1>1. l \in Nat /\ m \in {1, 2, 3} /\ a \in 1..l /\ b \in 1..m
    BY LenProperties
<1>2. Then(ps, qs) = [j \in 1..l * m |-> ps[((j - 1) \div m) + 1] \o qs[((j - 1) % m) + 1]]
    BY DEF Then
<1> HIDE DEF l, m
<1>3. k \in 1..l * m /\ ((k - 1) \div m) + 1 = a /\ ((k - 1) % m) + 1 = b
    <2>1. CASE m = 1
        <3>1. k = a /\ b = 1 /\ l * m = l
            BY <1>1, <2>1
        <3>2. (a - 1) \div 1 = a - 1 /\ (a - 1) % 1 = 0
            BY <1>1
        <3> QED
            BY <1>1, <2>1, <3>1, <3>2
    <2>2. CASE m = 2
        <3>1. k = 2 * (a - 1) + b /\ b \in {1, 2} /\ l * m = 2 * l
            BY <1>1, <2>2
        <3> HIDE DEF k
        <3>2. (k - 1) \div 2 = a - 1 /\ (k - 1) % 2 = b - 1
            BY <1>1, <3>1
        <3>3. k \in 1..2 * l
            BY <1>1, <3>1
        <3> QED
            BY <1>1, <2>2, <3>1, <3>2, <3>3
    <2>3. CASE m = 3
        <3>1. k = 3 * (a - 1) + b /\ b \in {1, 2, 3} /\ l * m = 3 * l
            BY <1>1, <2>3
        <3> HIDE DEF k
        <3>2. (k - 1) \div 3 = a - 1 /\ (k - 1) % 3 = b - 1
            BY <1>1, <3>1
        <3>3. k \in 1..3 * l
            BY <1>1, <3>1
        <3> QED
            BY <1>1, <2>3, <3>1, <3>2, <3>3
    <2> QED
        BY <1>1, <2>1, <2>2, <2>3
<1> HIDE DEF k
<1>4. Then(ps, qs)[k] = ps[a] \o qs[b]
    BY <1>2, <1>3
<1> QED
    BY <1>3, <1>4 DEF k, l, m

\* Python's re takes the first alternative that matches.
LEMMA FirstHit ==
    ASSUME NEW chars \in Seq(Int), NEW x \in Regexes, NEW i \in 0..Len(chars),
           NEW k \in DOMAIN Pattern(x), StopOf(chars, Pattern(x)[k], i) # NoMatch,
           \A j \in 1..k - 1 : StopOf(chars, Pattern(x)[j], i) = NoMatch
    PROVE  MatchAt(chars, x, i) = StopOf(chars, Pattern(x)[k], i)
<1> DEFINE p == Pattern(x)
           hits == {l \in DOMAIN p : StopOf(chars, p[l], i) # NoMatch}
<1>1. p \in Patterns
    BY PatternIs
<1>2. DOMAIN p = 1..Len(p) /\ Len(p) \in Nat
    BY <1>1, LenProperties DEF Patterns
<1>3. MatchAt(chars, x, i) = IF hits = {} THEN NoMatch ELSE StopOf(chars, p[Min(hits)], i)
    BY DEF MatchAt
<1>4. k \in hits /\ \A j \in hits : j \in 1..Len(p) /\ j \notin 1..k - 1
    BY <1>2
<1>5. hits \in SUBSET Nat
    BY <1>2
<1> HIDE DEF hits, p
<1>6. Min(hits) \in hits /\ Min(hits) <= k
    BY <1>4, <1>5, MinIs
<1>7. Min(hits) = k
    <2>1. Min(hits) \in 1..Len(p) /\ Min(hits) \notin 1..k - 1 /\ k \in 1..Len(p)
        BY <1>4, <1>6
    <2> HIDE DEF hits
    <2> QED
        BY <1>2, <1>6, <2>1
<1> QED
    BY <1>3, <1>4, <1>7 DEF p

\* The characters an alternative takes are of the classes of its repetitions.
LEMMA TakesFrom ==
    ASSUME NEW chars \in Seq(Int), NEW i \in 0..Len(chars), NEW items \in Seq(Items),
           NEW S, \A k \in 1..Len(items) : items[k].class \subseteq S,
           StopOf(chars, items, i) # NoMatch, NEW c \in i + 1..StopOf(chars, items, i)
    PROVE  chars[c] \in S
<1> DEFINE L == Len(chars)
           m == Len(items)
<1>1. /\ L \in Nat /\ m \in Nat /\ i \in 0..L
      /\ \A k \in 1..m : items[k] \in Items /\ items[k].class \subseteq S
    BY LenProperties
<1>2. PICK at : Reaches(at, chars, items, i) /\ StopOf(chars, items, i) = at[m]
    BY StopSteps
<1>3. /\ at[0] = i
      /\ \A k \in 0..m : at[k] \in {NoMatch} \cup (0..L)
      /\ \A k \in 1..m : /\ at[k - 1] = NoMatch => at[k] = NoMatch
                         /\ at[k - 1] # NoMatch =>
                               at[k] = IF Greedy(chars, at[k - 1], items[k]) < items[k].least THEN NoMatch
                                       ELSE at[k - 1] + Greedy(chars, at[k - 1], items[k])
    BY <1>2, ReachesIs
<1>a. \A k \in 0..m : at[k] # NoMatch => at[k] \in 0..L
    BY <1>3
<1> HIDE DEF L, m
<1> DEFINE T == {k \in 0..m : at[k] # NoMatch => \A d \in i + 1..at[k] : chars[d] \in S}
<1>4. 0 \in T
    <2>1. \A d \in i + 1..at[0] : FALSE
        BY <1>1, <1>3
    <2> QED
        BY <1>1, <2>1
<1>5. ASSUME NEW k \in 1..m, k - 1 \in T
      PROVE  k \in T
    <2> SUFFICES ASSUME at[k] # NoMatch, NEW d \in i + 1..at[k]
                 PROVE  chars[d] \in S
        BY <1>1
    <2> DEFINE p == at[k - 1]
               g == Greedy(chars, p, items[k])
    <2>1. k - 1 \in 0..m /\ k \in 0..m /\ p # NoMatch /\ p \in 0..L /\ at[k] = p + g /\ at[k] \in 0..L
        <3>1. k - 1 \in 0..m /\ k \in 0..m
            BY <1>1
        <3>2. p # NoMatch
            BY <1>3
        <3>3. at[k] = p + g
            BY <1>3, <3>2
        <3> QED
            BY <1>a, <3>1, <3>2, <3>3
    <2>2. items[k] \in Items /\ items[k].class \subseteq S
        BY <1>1
    <2>3. g \in 0..L - p /\ \A c1 \in p + 1..p + g : chars[c1] \in items[k].class
        BY <2>1, <2>2, GreedyIs DEF L
    <2> HIDE DEF g, p
    <2>4. CASE d \in i + 1..p
        BY <1>5, <2>1, <2>4 DEF p
    <2>5. CASE d \in p + 1..p + g
        BY <2>2, <2>3, <2>5
    <2>6. d \in i + 1..p \/ d \in p + 1..p + g
        BY <1>1, <2>1, <2>3
    <2> QED
        BY <2>4, <2>5, <2>6
<1> HIDE DEF T
<1>6. m \in T
    <2>1. 0..m \subseteq T
        BY <1>1, <1>4, <1>5, Induct
    <2> QED
        BY <1>1, <2>1
<1> QED
    BY <1>2, <1>6 DEF T, m

\* Where an extractor matches, finditer yields a match that begins there or
\* comes over that place: what it has taken before it may reach further.
LEMMA FoundOver ==
    ASSUME NEW chars \in Seq(Int), NEW x \in Regexes, NEW i \in 0..Len(chars),
           MatchAt(chars, x, i) # NoMatch
    PROVE  \E k \in 1..Len(Finditer(chars, x)) :
               Finditer(chars, x)[k].start <= i /\ i < Finditer(chars, x)[k].stop
<1> DEFINE L == Len(chars)
           stop(j) == MatchAt(chars, x, j)
           one(j) == <<[start |-> j, stop |-> stop(j)]>>
           Over(m) == m.start <= i /\ i < m.stop
           Has(r) == r \in Seq(Spans(chars)) /\ \E k \in 1..Len(r) : Over(r[k])
<1>1. PICK from : Searches(from, chars, x) /\ Finditer(chars, x) = from[0]
    BY SearchSteps
<1>2. \A j \in 0..L :
          from[j] = IF j = L THEN <<>>
                    ELSE IF stop(j) = NoMatch THEN from[j + 1]
                    ELSE one(j) \o from[stop(j)]
    BY <1>1 DEF Searches
<1>3. \A j \in 0..L : from[j] \in Seq(Spans(chars))
    BY <1>1, SearchYields DEF Yields
<1>4. L \in Nat /\ i \in 0..L
    BY LenProperties
<1>5. \A j \in 0..L : stop(j) \in {NoMatch} \cup (j + 1..L)
    BY MatchIs
<1>6. stop(i) # NoMatch
    OBVIOUS
<1>7. ASSUME NEW j \in 0..L, stop(j) # NoMatch
      PROVE  /\ one(j) \in Seq(Spans(chars)) /\ Len(one(j)) = 1
             /\ j <= i /\ i < stop(j) => Over(one(j)[1])
    <2>1. stop(j) \in 0..L
        <3> HIDE DEF stop, L
        <3> QED
            BY <1>4, <1>5, <1>7
    <2>2. [start |-> j, stop |-> stop(j)] \in Spans(chars)
        BY <2>1 DEF Spans
    <2> QED
        BY <2>2
<1> HIDE DEF L, stop, one, Over
<1>8. ASSUME NEW j \in 0..L, stop(j) # NoMatch, j <= i, i < stop(j)
      PROVE  Has(from[j])
    <2>1. j # L /\ stop(j) \in 0..L
        BY <1>4, <1>5, <1>8
    <2>2. from[j] = one(j) \o from[stop(j)]
        BY <1>2, <1>8, <2>1
    <2> DEFINE p == one(j)
               q == from[stop(j)]
    <2>3. p \in Seq(Spans(chars)) /\ q \in Seq(Spans(chars)) /\ Len(p) = 1 /\ Over(p[1])
        BY <1>3, <1>7, <1>8, <2>1
    <2> HIDE DEF p, q
    <2>4. /\ p \o q \in Seq(Spans(chars)) /\ Len(p \o q) = 1 + Len(q) /\ Len(q) \in Nat
          /\ \A k \in 1..1 + Len(q) : k <= 1 => (p \o q)[k] = p[k]
        BY ZenonT(40), <2>3, ConcatProperties, LenProperties
    <2>5. 1 \in 1..1 + Len(q) /\ Over((p \o q)[1])
        BY <2>3, <2>4
    <2> QED
        BY <2>2, <2>4, <2>5 DEF p, q
<1>10. Has(from[i])
    <2>1. i <= i /\ i < stop(i)
        BY <1>4, <1>5, <1>6
    <2> HIDE DEF Has
    <2> QED
        BY <1>4, <1>6, <1>8, <2>1
<1> DEFINE T == {j \in 0..i : \A q \in i - j..i : Has(from[q])}
<1>11. 0 \in T
    <2>1. \A q \in i - 0..i : q = i
        BY <1>4
    <2> HIDE DEF Has
    <2> QED
        BY <1>4, <1>10, <2>1
<1>12. ASSUME NEW j \in 1..i, j - 1 \in T
       PROVE  j \in T
    <2> DEFINE p == i - j
    <2>1. p \in 0..L /\ p # L /\ p < i /\ p + 1 \in p + 1..i /\ i - (j - 1) = p + 1 /\ i > 0
        BY <1>4
    <2>2. \A q \in p + 1..i : Has(from[q])
        BY <1>12, <2>1
    <2> HIDE DEF p
    <2>3. Has(from[p])
        <3>1. CASE stop(p) = NoMatch
            <4>1. from[p] = from[p + 1]
                BY <1>2, <2>1, <3>1
            <4> QED
                BY <2>1, <2>2, <4>1
        <3>2. CASE stop(p) # NoMatch /\ i < stop(p)
            <4>1. p <= i
                BY <2>1, <1>4
            <4> HIDE DEF Has
            <4> QED
                BY <1>8, <2>1, <3>2, <4>1
        <3>3. CASE stop(p) # NoMatch /\ ~(i < stop(p))
            <4>1. stop(p) \in p + 1..L
                BY <1>5, <2>1, <3>3
            <4>3. stop(p) \in p + 1..i
                BY <1>4, <2>1, <3>3, <4>1
            <4> DEFINE u == one(p)
                       v == from[stop(p)]
            <4>4. from[p] = u \o v
                BY <1>2, <2>1, <3>3
            <4>5. Has(v)
                BY <2>2, <4>3
            <4>6. u \in Seq(Spans(chars)) /\ Len(u) = 1
                BY <1>7, <2>1, <3>3
            <4> HIDE DEF u, v
            <4>7. PICK k \in 1..Len(v) : Over(v[k])
                BY <4>5
            <4>8. /\ u \o v \in Seq(Spans(chars)) /\ Len(u \o v) = 1 + Len(v) /\ Len(v) \in Nat
                  /\ \A l \in 1..1 + Len(v) : (u \o v)[l] = IF l <= 1 THEN u[l] ELSE v[l - 1]
                <5>1. u \in Seq(Spans(chars)) /\ v \in Seq(Spans(chars)) /\ Len(u) = 1
                    BY <4>5, <4>6
                <5>2. /\ u \o v \in Seq(Spans(chars)) /\ Len(u \o v) = Len(u) + Len(v)
                      /\ \A l \in 1..Len(u) + Len(v) :
                            (u \o v)[l] = IF l <= Len(u) THEN u[l] ELSE v[l - Len(u)]
                    BY <5>1, ConcatProperties
                <5>3. Len(v) \in Nat
                    BY <5>1, LenProperties
                <5> QED
                    BY <5>1, <5>2, <5>3
            <4>9. 1 + k \in 1..1 + Len(v) /\ Over((u \o v)[1 + k])
                <5>1. 1 + k \in 1..1 + Len(v) /\ ~(1 + k <= 1) /\ (1 + k) - 1 = k
                    BY <4>8
                <5> QED
                    BY <4>7, <4>8, <5>1
            <4> QED
                BY <4>4, <4>8, <4>9
        <3> QED
            BY <3>1, <3>2, <3>3
    <2>4. \A q \in i - j..i : q = p \/ q \in p + 1..i
        BY <1>4 DEF p
    <2>5. j \in 0..i
        BY <1>4
    <2> HIDE DEF Has
    <2> QED
        BY <2>2, <2>3, <2>4, <2>5
<1> HIDE DEF T
<1>13. i \in T
    <2>1. i \in Nat
        BY <1>4
    <2>2. 0..i \subseteq T
        BY <1>11, <1>12, <2>1, Induct
    <2> QED
        BY <2>1, <2>2
<1>14. Has(from[0])
    <2>1. 0 \in i - i..i
        BY <1>4
    <2> HIDE DEF Has
    <2> QED
        BY <1>13, <2>1 DEF T
<1> QED
    BY <1>1, <1>14 DEF Over

-----------------------------------------------------------------------------
\* The digits between two positions.
DigitsIn(chars, i, j) == {c \in i + 1..j : chars[c] \in Digit}

\* DigitsOf has them all.
LEMMA DigitsCounted ==
    ASSUME NEW chars \in Seq(Int), NEW m, m.start \in 0..Len(chars), m.stop \in 0..Len(chars),
           m.start < m.stop
    PROVE  /\ DigitsOf(chars, m) \in Seq(Digit)
           /\ Len(DigitsOf(chars, m)) = Cardinality(DigitsIn(chars, m.start, m.stop))
<1> DEFINE a == m.start
           b == m.stop
           cut == SubSeq(chars, a + 1, b)
           d == DigitsOf(chars, m)
           T == DigitsIn(chars, a, b)
<1>1. /\ Len(chars) \in Nat /\ \A k \in 1..Len(chars) : chars[k] \in Int
      /\ a \in 0..Len(chars) /\ b \in 0..Len(chars) /\ a < b
    BY LenProperties
<1> HIDE DEF a, b
<1>2. /\ cut \in Seq(Int) /\ Len(cut) = b - a
      /\ \A k \in 1..b - a : cut[k] = chars[a + k]
    <2>1. a + 1 \in Int /\ b \in Int /\ \A k \in a + 1..b : chars[k] \in Int
        BY <1>1
    <2>2. /\ cut \in Seq(Int) /\ Len(cut) = IF a + 1 <= b THEN b - (a + 1) + 1 ELSE 0
          /\ \A k \in 1..b - (a + 1) + 1 : cut[k] = chars[a + 1 + k - 1]
        BY <2>1, SubSeqProperties
    <2>3. b - (a + 1) + 1 = b - a /\ a + 1 <= b
        BY <1>1
    <2>4. \A k \in 1..b - a : a + 1 + k - 1 = a + k
        BY <1>1
    <2> HIDE DEF cut
    <2> QED
        BY <2>2, <2>3, <2>4
<1>3. d = Among(cut, Digit)
    BY DEF DigitsOf, a, b
<1> HIDE DEF cut, d
<1>4. d \in Seq(Int \cap Digit)
    BY <1>2, <1>3, AmongIs
<1>5. PICK at : Selects(at, d, cut, Digit)
    BY <1>2, <1>3, AmongIs
<1> DEFINE n == Len(d)
<1>6. n \in Nat /\ \A j \in 1..n : d[j] \in Digit
    BY <1>4, LenProperties
<1> HIDE DEF n
<1>7. /\ at \in [1..n -> 1..b - a]
      /\ \A j \in 1..n : d[j] = cut[at[j]]
      /\ \A j, k \in 1..n : j < k => at[j] < at[k]
      /\ \A i \in 1..b - a : cut[i] \in Digit => \E j \in 1..n : at[j] = i
    BY <1>2, <1>5 DEF Selects, n
<1> DEFINE f == [j \in 1..n |-> a + at[j]]
<1>8. f \in [1..n -> T]
    <2> SUFFICES ASSUME NEW j \in 1..n PROVE a + at[j] \in T
        OBVIOUS
    <2>1. at[j] \in 1..b - a /\ chars[a + at[j]] \in Digit
        BY <1>2, <1>6, <1>7
    <2>2. \A v \in 1..b - a : a + v \in a + 1..b
        BY <1>1
    <2>3. a + at[j] \in a + 1..b
        BY <2>1, <2>2
    <2> QED
        BY <2>1, <2>3 DEF DigitsIn
<1>9. \A j, k \in 1..n : f[j] = f[k] => j = k
    <2> SUFFICES ASSUME NEW j \in 1..n, NEW k \in 1..n, f[j] = f[k] PROVE j = k
        OBVIOUS
    <2>1. at[j] \in 1..b - a /\ at[k] \in 1..b - a /\ a + at[j] = a + at[k]
        BY <1>7
    <2>2. at[j] = at[k]
        BY SMTT(30), <1>1, <2>1
    <2>3. ~(j < k) /\ ~(k < j)
        BY <1>1, <1>7, <2>1, <2>2
    <2> QED
        BY <1>6, <2>3
<1>10. \A t \in T : \E j \in 1..n : f[j] = t
    <2> SUFFICES ASSUME NEW t \in T PROVE \E j \in 1..n : f[j] = t
        OBVIOUS
    <2>1. t \in a + 1..b /\ chars[t] \in Digit
        BY DEF DigitsIn
    <2>2. t - a \in 1..b - a /\ a + (t - a) = t
        BY <1>1, <2>1
    <2>3. PICK j \in 1..n : at[j] = t - a
        BY <1>2, <1>7, <2>1, <2>2
    <2> QED
        BY <2>2, <2>3
<1>11. Cardinality(T) = n
    <2> HIDE DEF f, T
    <2>1. f \in Bijection(1..n, T)
        BY <1>8, <1>9, <1>10 DEF Bijection, Injection, IsInjective, Surjection
    <2>2. ExistsBijection(1..n, T)
        BY <2>1 DEF ExistsBijection
    <2> QED
        BY <1>6, <2>2, FS_CountingElements
<1>12. d \in Seq(Digit)
    BY <1>4 DEF Digit
<1> QED
    BY <1>11, <1>12 DEF n, d, a, b, T

-----------------------------------------------------------------------------
\* An alternative takes this many digits in any match.
Digital(chars, items, n) ==
    \A i \in 0..Len(chars) :
        StopOf(chars, items, i) # NoMatch =>
            Cardinality(DigitsIn(chars, i, StopOf(chars, items, i))) = n

\* How much a repetition takes where it matches.
LEMMA ItemTakes ==
    ASSUME NEW chars \in Seq(Int), NEW i \in 0..Len(chars), NEW item \in Items,
           StopOf(chars, <<item>>, i) # NoMatch
    PROVE  /\ i + item.least <= StopOf(chars, <<item>>, i)
           /\ StopOf(chars, <<item>>, i) <= i + item.most
           /\ StopOf(chars, <<item>>, i) \in i..Len(chars)
           /\ \A c \in i + 1..StopOf(chars, <<item>>, i) : chars[c] \in item.class
<1> DEFINE L == Len(chars)
           g == Greedy(chars, i, item)
           one == <<item>>
<1>1. L \in Nat /\ i \in 0..L /\ item.most \in Nat /\ item.least \in Nat
    BY LenProperties DEF Items
<1>2. /\ g \in 0..L - i /\ g <= item.most
      /\ \A c \in i + 1..i + g : chars[c] \in item.class
    BY GreedyIs
<1>3. one \in Seq(Items) /\ Len(one) = 1 /\ one[1] = item
    OBVIOUS
<1> HIDE DEF L, g, one
<1>4. PICK at : Reaches(at, chars, one, i) /\ StopOf(chars, one, i) = at[Len(one)]
    BY <1>3, StopSteps
<1>5. /\ at[0] = i
      /\ \A k \in 1..Len(one) :
             /\ at[k - 1] = NoMatch => at[k] = NoMatch
             /\ at[k - 1] # NoMatch =>
                   at[k] = IF Greedy(chars, at[k - 1], one[k]) < one[k].least THEN NoMatch
                           ELSE at[k - 1] + Greedy(chars, at[k - 1], one[k])
    <2>1. one \in Seq(Items) /\ Reaches(at, chars, one, i)
        BY <1>3, <1>4
    <2> QED
        BY <2>1, ReachesIs
<1>6. at[1] = IF g < item.least THEN NoMatch ELSE i + g
    <2>1. 1 \in 1..1 /\ 1 - 1 = 0 /\ i # NoMatch
        BY <1>1 DEF NoMatch
    <2> QED
        BY <1>3, <1>5, <2>1 DEF g
<1>7. at[1] # NoMatch
    BY <1>3, <1>4 DEF one
<1>8. at[1] = i + g /\ ~(g < item.least)
    BY <1>6, <1>7
<1>9. StopOf(chars, <<item>>, i) = i + g
    BY <1>3, <1>4, <1>8 DEF one
<1>10. i + item.least <= i + g /\ i + g <= i + item.most /\ i + g \in i..L
    BY <1>1, <1>2, <1>8
<1> QED
    BY <1>2, <1>9, <1>10 DEF L

\* None, if no class has a digit.
LEMMA NoDigits ==
    ASSUME NEW chars \in Seq(Int), NEW items \in Seq(Items),
           \A k \in 1..Len(items) : items[k].class \cap Digit = {}
    PROVE  Digital(chars, items, 0)
<1> SUFFICES ASSUME NEW i \in 0..Len(chars), StopOf(chars, items, i) # NoMatch
             PROVE  Cardinality(DigitsIn(chars, i, StopOf(chars, items, i))) = 0
    BY DEF Digital
<1> DEFINE S == Int \ Digit
<1>1. \A k \in 1..Len(items) : items[k].class \subseteq S
    <2>1. \A k \in 1..Len(items) : items[k] \in Items
        BY LenProperties
    <2> QED
        BY <2>1 DEF Items, Known
<1>2. \A c \in i + 1..StopOf(chars, items, i) : chars[c] \in S
    <2> HIDE DEF S
    <2> QED
        BY <1>1, TakesFrom
<1>3. DigitsIn(chars, i, StopOf(chars, items, i)) = {}
    BY <1>2 DEF DigitsIn
<1> QED
    BY <1>3, FS_EmptySet

\* A number of digits.
LEMMA AllDigits ==
    ASSUME NEW chars \in Seq(Int), NEW n \in Nat \ {0}
    PROVE  Digital(chars, Digits(n), n)
<1> SUFFICES ASSUME NEW i \in 0..Len(chars), StopOf(chars, Digits(n), i) # NoMatch
             PROVE  Cardinality(DigitsIn(chars, i, StopOf(chars, Digits(n), i))) = n
    BY DEF Digital
<1> DEFINE item == Times(Digit, n, n)
           s == StopOf(chars, Digits(n), i)
<1>1. item \in Items
    BY Chars, Repetitions
<1>2. item.least = n /\ item.most = n /\ item.class = Digit /\ Digits(n) = <<item>>
    BY DEF Times, Digits
<1> HIDE DEF item
<1>3. /\ i + n <= s /\ s <= i + n /\ s \in i..Len(chars)
      /\ \A c \in i + 1..s : chars[c] \in Digit
    BY <1>1, <1>2, ItemTakes
<1> HIDE DEF s
<1>4. Len(chars) \in Nat /\ i \in 0..Len(chars)
    BY LenProperties
<1>5. s = i + n
    BY <1>3, <1>4
<1>6. DigitsIn(chars, i, s) = i + 1..i + n
    BY <1>3, <1>5 DEF DigitsIn
<1>7. Cardinality(i + 1..i + n) = n
    <2>1. i + 1 \in Int /\ i + n \in Int /\ ~(i + 1 > i + n) /\ i + n - (i + 1) + 1 = n
        BY <1>4
    <2> QED
        BY <2>1, FS_Interval
<1> QED
    BY <1>6, <1>7 DEF s

\* Of two groups, both.
LEMMA DigitsOfBoth ==
    ASSUME NEW chars \in Seq(Int), NEW p \in Seq(Items), NEW q \in Seq(Items),
           NEW m \in Nat, NEW n \in Nat, Digital(chars, p, m), Digital(chars, q, n)
    PROVE  Digital(chars, p \o q, m + n)
<1> SUFFICES ASSUME NEW i \in 0..Len(chars), StopOf(chars, p \o q, i) # NoMatch
             PROVE  Cardinality(DigitsIn(chars, i, StopOf(chars, p \o q, i))) = m + n
    BY DEF Digital
<1> DEFINE L == Len(chars)
           j == StopOf(chars, p, i)
           k == StopOf(chars, q, j)
           A == DigitsIn(chars, i, j)
           B == DigitsIn(chars, j, k)
           C == DigitsIn(chars, i, k)
<1>1. j # NoMatch /\ StopOf(chars, p \o q, i) = k /\ k # NoMatch
    BY StopAfter
<1>2. j \in i..L /\ L \in Nat /\ i \in 0..L
    BY <1>1, StopLies, LenProperties
<1>3. j \in 0..Len(chars)
    <2> HIDE DEF j
    <2> QED
        BY <1>2
<1>4. k \in j..L
    <2> HIDE DEF j
    <2> QED
        BY <1>1, <1>3, StopLies
<1>5. Cardinality(A) = m /\ Cardinality(B) = n
    BY <1>1, <1>3 DEF Digital
<1> HIDE DEF j, k, L
<1>6. IsFiniteSet(A) /\ IsFiniteSet(B)
    <2>1. IsFiniteSet(i + 1..j) /\ IsFiniteSet(j + 1..k)
        <3>1. i + 1 \in Int /\ j \in Int /\ j + 1 \in Int /\ k \in Int
            BY <1>2, <1>4
        <3> QED
            BY <3>1, FS_Interval
    <2>2. A \subseteq i + 1..j /\ B \subseteq j + 1..k
        BY DEF DigitsIn
    <2> HIDE DEF A, B
    <2> QED
        BY <2>1, <2>2, FS_Subset
<1>7. C = A \cup B /\ A \cap B = {}
    <2>1. \A c : c \in i + 1..k <=> c \in i + 1..j \/ c \in j + 1..k
        BY <1>2, <1>4
    <2>2. \A c : ~(c \in i + 1..j /\ c \in j + 1..k)
        BY <1>2, <1>4
    <2> QED
        BY <2>1, <2>2 DEF DigitsIn
<1> HIDE DEF A, B, C
<1>8. Cardinality(C) = m + n
    <2>1. Cardinality(C) = Cardinality(A) + Cardinality(B) - Cardinality(A \cap B)
        BY <1>6, <1>7, FS_Union
    <2>2. Cardinality(A \cap B) = 0
        BY <1>7, FS_EmptySet
    <2> QED
        BY <1>5, <2>1, <2>2
<1> QED
    BY <1>1, <1>8 DEF C

-----------------------------------------------------------------------------
\* A label has no digits.
LEMMA LabelDigits ==
    ASSUME NEW chars \in Seq(Int), NEW word \in Known \ Digit, NEW a \in 1..2
    PROVE  Labelled(word)[a] \in Seq(Items) /\ Digital(chars, Labelled(word)[a], 0)
<1> DEFINE u == One(word)
           v == Star({Space})
           w == Times({Colon, NumeroSign}, 0, 1)
           p == <<u, v, w, v>>
<1>1. u \in Items /\ v \in Items /\ w \in Items
    BY Chars, Repetitions DEF One, Star
<1>2. u.class \cap Digit = {} /\ v.class \cap Digit = {} /\ w.class \cap Digit = {}
    BY DEF One, Star, Times, Space, Colon, NumeroSign, Digit
<1>3. Labelled(word) = <<p, <<>>>>
    BY DEF Labelled
<1> HIDE DEF u, v, w
<1>4. p \in Seq(Items) /\ \A k \in 1..Len(p) : p[k].class \cap Digit = {}
    BY <1>1, <1>2
<1> HIDE DEF p
<1>5. Digital(chars, p, 0)
    BY <1>4, NoDigits
<1>6. <<>> \in Seq(Items) /\ Digital(chars, <<>>, 0)
    <2>1. <<>> \in Seq(Items) /\ Len(<<>>) = 0
        BY EmptySeq
    <2>2. \A k \in 1..Len(<<>>) : <<>>[k].class \cap Digit = {}
        BY <2>1
    <2> QED
        BY <2>1, <2>2, NoDigits
<1>7. Labelled(word)[1] = p /\ Labelled(word)[2] = <<>>
    BY <1>3
<1>8. CASE a = 1
    BY <1>4, <1>5, <1>7, <1>8
<1>9. CASE a = 2
    BY <1>6, <1>7, <1>9
<1> QED
    BY <1>8, <1>9

\* Two groups of two alternatives.
LEMMA TwoByTwo ==
    ASSUME NEW ps \in Patterns, NEW qs \in Patterns, Len(ps) = 2, Len(qs) = 2
    PROVE  /\ DOMAIN Then(ps, qs) = 1..4
           /\ Then(ps, qs)[1] = ps[1] \o qs[1] /\ Then(ps, qs)[2] = ps[1] \o qs[2]
           /\ Then(ps, qs)[3] = ps[2] \o qs[1] /\ Then(ps, qs)[4] = ps[2] \o qs[2]
<1> DEFINE p == Then(ps, qs)
<1>1. DOMAIN p = 1..4
    <2>1. p \in Patterns /\ Len(p) = Len(ps) * Len(qs)
        BY ThenIs
    <2>2. Len(p) = 4
        BY <2>1
    <2> QED
        BY <2>1, <2>2, LenProperties DEF Patterns
<1> HIDE DEF p
<1>2. /\ 1 \in 1..Len(ps) /\ 2 \in 1..Len(ps) /\ 1 \in 1..Len(qs) /\ 2 \in 1..Len(qs)
      /\ Len(qs) \in {1, 2, 3}
    OBVIOUS
<1>3. \A a \in 1..Len(ps), b \in 1..Len(qs) : p[(a - 1) * Len(qs) + b] = ps[a] \o qs[b]
    BY <1>2, ThenAt DEF p
<1>4. /\ (1 - 1) * Len(qs) + 1 = 1 /\ (1 - 1) * Len(qs) + 2 = 2
      /\ (2 - 1) * Len(qs) + 1 = 3 /\ (2 - 1) * Len(qs) + 2 = 4
    OBVIOUS
<1>5. p[(1 - 1) * Len(qs) + 1] = ps[1] \o qs[1] /\ p[(1 - 1) * Len(qs) + 2] = ps[1] \o qs[2]
    BY Zenon, <1>2, <1>3
<1>6. p[(2 - 1) * Len(qs) + 1] = ps[2] \o qs[1] /\ p[(2 - 1) * Len(qs) + 2] = ps[2] \o qs[2]
    BY Zenon, <1>2, <1>3
<1> QED
    BY Zenon, <1>1, <1>4, <1>5, <1>6 DEF p

\* The alternatives for an INN ...
LEMMA InnAre ==
    LET p == Pattern("inn")
        lab == Labelled(Inn)
    IN  /\ DOMAIN p = 1..4
        /\ p[1] = lab[1] \o Digits(10) /\ p[2] = lab[1] \o Digits(12)
        /\ p[3] = lab[2] \o Digits(10) /\ p[4] = lab[2] \o Digits(12)
        /\ \A a \in 1..2 : lab[a] \in Seq(Items)
<1> DEFINE lab == Labelled(Inn)
           t == Digits(10)
           w == Digits(12)
           two == <<t, w>>
<1>1. t \in Seq(Items) /\ w \in Seq(Items)
    BY DigitsIs
<1>2. lab \in Patterns /\ Len(lab) = 2
    <2>1. Inn \in Known
        BY DEF Inn, Known, Other
    <2> QED
        BY <2>1, LabelledIs
<1>3. Pattern("inn") = Then(lab, two)
    BY DEF Pattern, InnPattern
<1> HIDE DEF t, w
<1>4. two \in Patterns /\ Len(two) = 2 /\ two[1] = t /\ two[2] = w
    BY <1>1, Alternatives
<1> HIDE DEF lab, two
<1>5. \A a \in 1..2 : lab[a] \in Seq(Items)
    BY <1>2, LenProperties DEF Patterns
<1>6. /\ DOMAIN Then(lab, two) = 1..4
      /\ Then(lab, two)[1] = lab[1] \o t /\ Then(lab, two)[2] = lab[1] \o w
      /\ Then(lab, two)[3] = lab[2] \o t /\ Then(lab, two)[4] = lab[2] \o w
    BY <1>2, <1>4, TwoByTwo
<1> QED
    BY Zenon, <1>3, <1>5, <1>6 DEF lab, t, w

\* ... and for a SNILS.
LongSnils ==
    LET gap == <<Times({Space, Hyphen}, 1, 1)>>
    IN  Digits(3) \o gap \o Digits(3) \o gap \o Digits(3) \o gap \o Digits(2)

LEMMA LongIs == LongSnils \in Seq(Items) /\ <<Times({Space, Hyphen}, 1, 1)>> \in Seq(Items)
<1> DEFINE gap == <<Times({Space, Hyphen}, 1, 1)>>
<1>1. gap \in Seq(Items)
    BY Chars, Repetitions
<1>2. Digits(3) \in Seq(Items) /\ Digits(2) \in Seq(Items)
    BY DigitsIs
<1>3. LongSnils = Digits(3) \o gap \o Digits(3) \o gap \o Digits(3) \o gap \o Digits(2)
    BY DEF LongSnils
<1> HIDE DEF gap
<1> QED
    BY <1>1, <1>2, <1>3, ConcatProperties DEF gap

LEMMA SnilsAre ==
    LET p == Pattern("snils")
        lab == Labelled(Snils)
    IN  /\ DOMAIN p = 1..4
        /\ p[1] = lab[1] \o LongSnils /\ p[2] = lab[1] \o Digits(11)
        /\ p[3] = lab[2] \o LongSnils /\ p[4] = lab[2] \o Digits(11)
        /\ \A a \in 1..2 : lab[a] \in Seq(Items)
<1> DEFINE lab == Labelled(Snils)
           t == LongSnils
           w == Digits(11)
           two == <<t, w>>
<1>1. t \in Seq(Items) /\ w \in Seq(Items)
    BY DigitsIs, LongIs
<1>2. lab \in Patterns /\ Len(lab) = 2
    <2>1. Snils \in Known
        BY DEF Snils, Known, Other
    <2> QED
        BY <2>1, LabelledIs
<1>3. Pattern("snils") = Then(lab, two)
    BY DEF Pattern, SnilsPattern, LongSnils
<1> HIDE DEF t, w
<1>4. two \in Patterns /\ Len(two) = 2 /\ two[1] = t /\ two[2] = w
    BY <1>1, Alternatives
<1> HIDE DEF lab, two
<1>5. \A a \in 1..2 : lab[a] \in Seq(Items)
    BY <1>2, LenProperties DEF Patterns
<1>6. /\ DOMAIN Then(lab, two) = 1..4
      /\ Then(lab, two)[1] = lab[1] \o t /\ Then(lab, two)[2] = lab[1] \o w
      /\ Then(lab, two)[3] = lab[2] \o t /\ Then(lab, two)[4] = lab[2] \o w
    BY <1>2, <1>4, TwoByTwo
<1> QED
    BY Zenon, <1>3, <1>5, <1>6 DEF lab, t, w

\* A number a SNILS is taken for has eleven.
LEMMA SnilsHasEleven ==
    ASSUME NEW chars \in Seq(Int), NEW i \in 0..Len(chars), MatchAt(chars, "snils", i) # NoMatch
    PROVE  Cardinality(DigitsIn(chars, i, MatchAt(chars, "snils", i))) = 11
<1> DEFINE lab == Labelled(Snils)
           gap == <<Times({Space, Hyphen}, 1, 1)>>
           d2 == Digits(2)
           d3 == Digits(3)
           short == Digits(11)
           p == Pattern("snils")
<1>1. d3 \in Seq(Items) /\ d2 \in Seq(Items) /\ short \in Seq(Items)
    BY DigitsIs
<1>2. gap \in Seq(Items) /\ Digital(chars, gap, 0)
    <2> DEFINE w == Times({Space, Hyphen}, 1, 1)
    <2>1. w \in Items
        BY Chars, Repetitions
    <2>2. w.class \cap Digit = {}
        BY DEF Times, Space, Hyphen, Digit
    <2> HIDE DEF w
    <2>3. <<w>> \in Seq(Items) /\ \A k \in 1..Len(<<w>>) : <<w>>[k].class \cap Digit = {}
        BY <2>1, <2>2
    <2>4. Digital(chars, <<w>>, 0)
        BY <2>3, NoDigits
    <2> QED
        BY <2>3, <2>4 DEF w
<1>3. Digital(chars, d3, 3) /\ Digital(chars, d2, 2) /\ Digital(chars, short, 11)
    BY AllDigits
<1>4. Snils \in Known \ Digit
    BY DEF Snils, Known, Other, Digit
<1> DEFINE r1 == d3 \o gap
           r2 == r1 \o d3
           r3 == r2 \o gap
           r4 == r3 \o d3
           r5 == r4 \o gap
           r6 == r5 \o d2
<1>6. LongSnils = r6
    BY DEF LongSnils
<1> HIDE DEF gap, d2, d3, short
<1>7. Digital(chars, LongSnils, 11)
    <2>1. r1 \in Seq(Items) /\ Digital(chars, r1, 3 + 0)
        BY <1>1, <1>2, <1>3, DigitsOfBoth, ConcatProperties
    <2> HIDE DEF r1
    <2>2. r2 \in Seq(Items) /\ Digital(chars, r2, 3 + 0 + 3)
        BY <1>1, <1>3, <2>1, DigitsOfBoth, ConcatProperties
    <2> HIDE DEF r2
    <2>3. r3 \in Seq(Items) /\ Digital(chars, r3, 3 + 0 + 3 + 0)
        BY <1>2, <2>2, DigitsOfBoth, ConcatProperties
    <2> HIDE DEF r3
    <2>4. r4 \in Seq(Items) /\ Digital(chars, r4, 3 + 0 + 3 + 0 + 3)
        BY <1>1, <1>3, <2>3, DigitsOfBoth, ConcatProperties
    <2> HIDE DEF r4
    <2>5. r5 \in Seq(Items) /\ Digital(chars, r5, 3 + 0 + 3 + 0 + 3 + 0)
        BY <1>2, <2>4, DigitsOfBoth, ConcatProperties
    <2> HIDE DEF r5
    <2>6. r6 \in Seq(Items) /\ Digital(chars, r6, 3 + 0 + 3 + 0 + 3 + 0 + 2)
        BY <1>1, <1>3, <2>5, DigitsOfBoth, ConcatProperties
    <2> HIDE DEF r6
    <2>7. 3 + 0 + 3 + 0 + 3 + 0 + 2 = 11
        OBVIOUS
    <2> QED
        BY <1>6, <2>6, <2>7
<1> HIDE DEF r1, r2, r3, r4, r5, r6
<1>8. PICK k \in DOMAIN p : MatchAt(chars, "snils", i) = StopOf(chars, p[k], i)
    <2>1. "snils" \in Regexes
        BY DEF Regexes
    <2> QED
        BY <2>1, MatchIs
<1>9. /\ DOMAIN p = 1..4
      /\ p[1] = lab[1] \o LongSnils /\ p[2] = lab[1] \o short
      /\ p[3] = lab[2] \o LongSnils /\ p[4] = lab[2] \o short
    BY SnilsAre DEF short
<1> HIDE DEF p
<1>10. \E a \in 1..2 : p[k] = lab[a] \o LongSnils \/ p[k] = lab[a] \o short
    <2>1. 1 \in 1..2 /\ 2 \in 1..2
        OBVIOUS
    <2>2. CASE k \in {1, 2}
        BY <1>9, <2>1, <2>2, Zenon
    <2>3. CASE k \in {3, 4}
        BY <1>9, <2>1, <2>3, Zenon
    <2>4. k \in {1, 2} \/ k \in {3, 4}
        BY <1>8, <1>9
    <2> QED
        BY <2>2, <2>3, <2>4
<1>11. \A a \in 1..2 : lab[a] \in Seq(Items) /\ Digital(chars, lab[a], 0)
    BY <1>4, LabelDigits
<1> HIDE DEF lab
<1>12. Digital(chars, p[k], 0 + 11)
    BY <1>1, <1>3, <1>7, <1>10, <1>11, LongIs, DigitsOfBoth
<1>13. Digital(chars, p[k], 11)
    BY <1>12
<1> QED
    BY <1>8, <1>13 DEF Digital

-----------------------------------------------------------------------------
\* Repetitions that match from position i on end at j; ...
Covers(chars, items, i, j) ==
    /\ items \in Seq(Items)
    /\ i \in 0..Len(chars) /\ j \in 0..Len(chars)
    /\ StopOf(chars, items, i) = j

\* ... others do not match there.
Misses(chars, items, i) ==
    /\ items \in Seq(Items)
    /\ i \in 0..Len(chars)
    /\ StopOf(chars, items, i) = NoMatch

\* The n characters behind position i are digits.
AreDigits(chars, i, n) ==
    /\ i + n <= Len(chars)
    /\ \A k \in 1..n : chars[i + k] \in Digit

\* What does not match and what does.
LEMMA CoversNothing ==
    ASSUME NEW chars \in Seq(Int), NEW i \in 0..Len(chars)
    PROVE  Covers(chars, <<>>, i, i)
<1> DEFINE none == <<>>
<1>1. none \in Seq(Items) /\ Len(none) = 0
    BY EmptySeq
<1> HIDE DEF none
<1>2. PICK at : Reaches(at, chars, none, i) /\ StopOf(chars, none, i) = at[Len(none)]
    BY <1>1, StopSteps
<1>3. at[0] = i
    BY <1>2 DEF Reaches
<1> QED
    BY <1>1, <1>2, <1>3 DEF Covers, none

LEMMA CoversOne ==
    ASSUME NEW chars \in Seq(Int), NEW i \in 0..Len(chars), NEW n \in Nat, i + n <= Len(chars),
           NEW class \in SUBSET Known, NEW least \in Nat, NEW most \in Nat, least <= n, n <= most,
           \A k \in 1..n : chars[i + k] \in class,
           n = most \/ i + n = Len(chars) \/ chars[i + n + 1] \notin class
    PROVE  Covers(chars, <<Times(class, least, most)>>, i, i + n)
<1> DEFINE item == Times(class, least, most)
           L == Len(chars)
<1>1. item \in Items /\ <<item>> \in Seq(Items)
    BY Repetitions
<1>2. item.least = least /\ item.most = most /\ item.class = class
    BY DEF Times
<1> HIDE DEF item
<1>3. L \in Nat /\ n \in 0..L - i /\ i + n \in 0..L
    BY LenProperties
<1>4. ASSUME NEW k \in i + 1..i + n
      PROVE  chars[k] \in class
    <2>1. k - i \in 1..n /\ i + (k - i) = k
        OBVIOUS
    <2> QED
        BY <2>1
<1>5. StopOf(chars, <<item>>, i) = i + n
    BY ZenonT(40), <1>1, <1>2, <1>3, <1>4, ItemStops
<1> QED
    BY <1>1, <1>3, <1>5 DEF Covers, item

LEMMA CoversBoth ==
    ASSUME NEW chars \in Seq(Int), NEW p, NEW q, NEW i, NEW j, NEW k,
           Covers(chars, p, i, j), Covers(chars, q, j, k)
    PROVE  Covers(chars, p \o q, i, k)
<1>1. p \in Seq(Items) /\ q \in Seq(Items) /\ p \o q \in Seq(Items)
    BY ConcatProperties DEF Covers
<1>2. j # NoMatch
    BY LenProperties DEF Covers, NoMatch
<1> QED
    BY <1>1, <1>2, StopAfter DEF Covers

LEMMA MissesFirst ==
    ASSUME NEW chars \in Seq(Int), NEW p, NEW q \in Seq(Items), NEW i, Misses(chars, p, i)
    PROVE  Misses(chars, p \o q, i)
<1>1. p \in Seq(Items) /\ p \o q \in Seq(Items)
    BY ConcatProperties DEF Misses
<1> QED
    BY <1>1, StopAfter DEF Misses

LEMMA MissesSecond ==
    ASSUME NEW chars \in Seq(Int), NEW p, NEW q, NEW i, NEW j,
           Covers(chars, p, i, j), Misses(chars, q, j)
    PROVE  Misses(chars, p \o q, i)
<1>1. p \in Seq(Items) /\ q \in Seq(Items) /\ p \o q \in Seq(Items)
    BY ConcatProperties DEF Covers, Misses
<1>2. j # NoMatch
    BY LenProperties DEF Covers, NoMatch
<1> QED
    BY <1>1, <1>2, StopAfter DEF Covers, Misses

\* A character that a repetition needs is not there.
LEMMA MissesOne ==
    ASSUME NEW chars \in Seq(Int), NEW i \in 0..Len(chars),
           NEW class \in SUBSET Known, NEW least \in Nat, NEW most \in Nat, NEW k \in 1..least,
           i + k > Len(chars) \/ chars[i + k] \notin class
    PROVE  Misses(chars, <<Times(class, least, most)>>, i)
<1> DEFINE item == Times(class, least, most)
           stop == StopOf(chars, <<item>>, i)
<1>1. item \in Items /\ <<item>> \in Seq(Items)
    BY Repetitions
<1>2. item.least = least /\ item.class = class
    BY DEF Times
<1> HIDE DEF item
<1>3. ASSUME stop # NoMatch
      PROVE  FALSE
    <2>1. /\ i + least <= stop /\ stop \in i..Len(chars)
          /\ \A c \in i + 1..stop : chars[c] \in class
        BY <1>1, <1>2, <1>3, ItemTakes
    <2> HIDE DEF stop
    <2>2. Len(chars) \in Nat
        BY LenProperties
    <2>3. i + k \in i + 1..stop /\ i + k <= Len(chars)
        BY <2>1, <2>2
    <2> QED
        BY <2>1, <2>2, <2>3
<1> QED
    BY <1>1, <1>3 DEF Misses, item

\* The same of a pattern's first repetition.
LEMMA HeadMisses ==
    ASSUME NEW chars \in Seq(Int), NEW i \in 0..Len(chars), NEW items \in Seq(Items),
           Len(items) >= 1, Takes1(items[1]),
           i = Len(chars) \/ chars[i + 1] \notin items[1].class
    PROVE  Misses(chars, items, i)
BY HeadFails DEF Misses

\* Digits.
LEMMA DigitsCover ==
    ASSUME NEW chars \in Seq(Int), NEW i \in 0..Len(chars), NEW n \in Nat \ {0}, AreDigits(chars, i, n)
    PROVE  Covers(chars, Digits(n), i, i + n)
<1>1. i + n <= Len(chars) /\ \A k \in 1..n : chars[i + k] \in Digit
    BY DEF AreDigits
<1>2. Digit \in SUBSET Known /\ n \in Nat
    BY Chars
<1>3. n <= n
    OBVIOUS
<1>4. Covers(chars, <<Times(Digit, n, n)>>, i, i + n)
    BY <1>1, <1>2, <1>3, CoversOne
<1> QED
    BY <1>4 DEF Digits

LEMMA DigitsMiss ==
    ASSUME NEW chars \in Seq(Int), NEW i \in 0..Len(chars), NEW n \in Nat, NEW k \in 1..n,
           i + k > Len(chars) \/ chars[i + k] \notin Digit
    PROVE  Misses(chars, Digits(n), i)
BY MissesOne, Chars DEF Digits

-----------------------------------------------------------------------------
\* The first alternative that matches is the match.
LEMMA FirstCovers ==
    ASSUME NEW chars \in Seq(Int), NEW x \in Regexes, NEW i \in 0..Len(chars), NEW j,
           NEW k \in DOMAIN Pattern(x), Covers(chars, Pattern(x)[k], i, j),
           \A l \in 1..k - 1 : Misses(chars, Pattern(x)[l], i)
    PROVE  MatchAt(chars, x, i) = j
<1>1. j # NoMatch /\ StopOf(chars, Pattern(x)[k], i) = j
    BY LenProperties DEF Covers, NoMatch
<1>2. \A l \in 1..k - 1 : StopOf(chars, Pattern(x)[l], i) = NoMatch
    BY DEF Misses
<1> QED
    BY <1>1, <1>2, FirstHit

\* A label that is not there.
LEMMA LabelMisses ==
    ASSUME NEW chars \in Seq(Int), NEW i \in 0..Len(chars), NEW word \in Known,
           i = Len(chars) \/ chars[i + 1] # word
    PROVE  /\ Misses(chars, Labelled(word)[1], i)
           /\ Covers(chars, Labelled(word)[2], i, i)
<1> DEFINE a == One(word)
           b == Star({Space})
           c == Times({Colon, NumeroSign}, 0, 1)
           p == <<a, b, c, b>>
<1>1. a \in Items /\ b \in Items /\ c \in Items /\ Takes1(a) /\ a.class = {word}
    <2>1. a.class = {word}
        BY DEF One, Times
    <2>2. {word} \in SUBSET Known /\ {Space} \in SUBSET Known /\ {Colon, NumeroSign} \in SUBSET Known
        BY Chars
    <2>3. 0 \in Nat /\ 1 \in Nat /\ Many \in Nat
        BY Chars
    <2>4. b \in Items /\ c \in Items
        BY <2>2, <2>3, Repetitions DEF Star
    <2>5. a \in Items /\ Takes1(a)
        BY <2>2, <2>3, Repetitions DEF One
    <2> QED
        BY <2>1, <2>4, <2>5
<1>2. Labelled(word)[1] = p /\ Labelled(word)[2] = <<>>
    BY DEF Labelled
<1> HIDE DEF a, b, c
<1>3. p \in Seq(Items) /\ Len(p) = 4 /\ p[1] = a
    BY <1>1
<1> HIDE DEF p
<1>4. Misses(chars, p, i)
    BY SMTT(30), <1>1, <1>3, HeadMisses
<1> QED
    BY <1>2, <1>4, CoversNothing

\* Ten digits are an INN's.
LEMMA InnFound ==
    ASSUME NEW chars \in Seq(Int), NEW i \in 0..Len(chars), AreDigits(chars, i, 10)
    PROVE  MatchAt(chars, "inn", i) = i + 10
<1> DEFINE p == Pattern("inn")
           lab == Labelled(Inn)
<1>1. /\ DOMAIN p = 1..4
      /\ p[1] = lab[1] \o Digits(10) /\ p[2] = lab[1] \o Digits(12)
      /\ p[3] = lab[2] \o Digits(10)
    BY InnAre
<1> HIDE DEF p
<1>2. Misses(chars, lab[1], i) /\ Covers(chars, lab[2], i, i)
    <2>1. chars[i + 1] \in Digit
        BY DEF AreDigits
    <2>2. Inn \notin Digit /\ Inn \in Known
        <3>1. Inn \notin Digit
            BY DEF Inn, Digit
        <3> QED
            BY <3>1, Chars
    <2> QED
        BY <2>1, <2>2, LabelMisses
<1> HIDE DEF lab
<1>3. Covers(chars, Digits(10), i, i + 10)
    BY DigitsCover
<1>4. Covers(chars, p[3], i, i + 10)
    BY <1>1, <1>2, <1>3, CoversBoth
<1>5. Digits(10) \in Seq(Items) /\ Digits(12) \in Seq(Items)
    BY DigitsIs
<1>6. Misses(chars, p[1], i) /\ Misses(chars, p[2], i)
    BY <1>1, <1>2, <1>5, MissesFirst
<1>7. 3 \in DOMAIN p /\ "inn" \in Regexes
    BY <1>1 DEF Regexes
<1>8. \A l \in 1..3 - 1 : l = 1 \/ l = 2
    OBVIOUS
<1>9. \A l \in 1..3 - 1 : Misses(chars, p[l], i)
    BY <1>6, <1>8
<1> QED
    BY <1>4, <1>7, <1>9, FirstCovers DEF p

\* Eleven digits are a SNILS's, ...
LEMMA SnilsFound ==
    ASSUME NEW chars \in Seq(Int), NEW i \in 0..Len(chars), AreDigits(chars, i, 11)
    PROVE  MatchAt(chars, "snils", i) = i + 11
<1> DEFINE p == Pattern("snils")
           lab == Labelled(Snils)
<1>1. /\ DOMAIN p = 1..4
      /\ p[1] = lab[1] \o LongSnils /\ p[2] = lab[1] \o Digits(11)
      /\ p[3] = lab[2] \o LongSnils /\ p[4] = lab[2] \o Digits(11)
    BY SnilsAre
<1> HIDE DEF p
<1>2. Misses(chars, lab[1], i) /\ Covers(chars, lab[2], i, i)
    <2>1. chars[i + 1] \in Digit
        BY DEF AreDigits
    <2>2. Snils \notin Digit /\ Snils \in Known
        <3>1. Snils \notin Digit
            BY DEF Snils, Digit
        <3> QED
            BY <3>1, Chars
    <2> QED
        BY <2>1, <2>2, LabelMisses
<1> HIDE DEF lab
<1>3. Covers(chars, Digits(11), i, i + 11)
    BY DigitsCover
<1>4. Covers(chars, p[4], i, i + 11)
    BY <1>1, <1>2, <1>3, CoversBoth
<1>5. Digits(11) \in Seq(Items)
    BY DigitsIs
<1>6. Misses(chars, p[1], i) /\ Misses(chars, p[2], i)
    BY <1>1, <1>2, <1>5, LongIs, MissesFirst
<1>7. Misses(chars, LongSnils, i)
    <2> DEFINE gap == <<Times({Space, Hyphen}, 1, 1)>>
    <2>1. Covers(chars, Digits(3), i, i + 3) /\ i + 3 \in 0..Len(chars)
        <3>1. AreDigits(chars, i, 3) /\ i + 3 \in 0..Len(chars)
            BY LenProperties DEF AreDigits
        <3> QED
            BY <3>1, DigitsCover
    <2>2. Misses(chars, gap, i + 3)
        <3>1. i + 3 + 1 = i + 4 /\ chars[i + 4] \in Digit
            BY DEF AreDigits
        <3>2. \A c \in Digit : c \notin {Space, Hyphen}
            BY DEF Digit, Space, Hyphen
        <3>4. chars[i + 3 + 1] \notin {Space, Hyphen}
            BY <3>1, <3>2
        <3>3. {Space, Hyphen} \in SUBSET Known /\ 1 \in 1..1
            BY Chars
        <3> QED
            BY <2>1, <3>3, <3>4, MissesOne
    <2>3. /\ Digits(3) \in Seq(Items) /\ Digits(2) \in Seq(Items) /\ gap \in Seq(Items)
        BY DigitsIs, LongIs
    <2> DEFINE r1 == Digits(3) \o gap
               r2 == r1 \o Digits(3)
               r3 == r2 \o gap
               r4 == r3 \o Digits(3)
               r5 == r4 \o gap
    <2>4. LongSnils = r5 \o Digits(2)
        BY DEF LongSnils
    <2> HIDE DEF gap
    <2>5. Misses(chars, r1, i)
        BY <2>1, <2>2, MissesSecond
    <2> HIDE DEF r1
    <2>6. Misses(chars, r2, i)
        BY <2>3, <2>5, MissesFirst
    <2> HIDE DEF r2
    <2>7. Misses(chars, r3, i)
        BY <2>3, <2>6, MissesFirst
    <2> HIDE DEF r3
    <2>8. Misses(chars, r4, i)
        BY <2>3, <2>7, MissesFirst
    <2> HIDE DEF r4
    <2>9. Misses(chars, r5, i)
        BY <2>3, <2>8, MissesFirst
    <2> HIDE DEF r5
    <2> QED
        BY <2>3, <2>4, <2>9, MissesFirst
<1>8. Misses(chars, p[3], i)
    BY <1>1, <1>2, <1>7, MissesSecond
<1>9. 4 \in DOMAIN p /\ "snils" \in Regexes
    BY <1>1 DEF Regexes
<1>10. \A l \in 1..4 - 1 : l = 1 \/ l = 2 \/ l = 3
    OBVIOUS
<1>11. \A l \in 1..4 - 1 : Misses(chars, p[l], i)
    BY <1>6, <1>8, <1>10
<1> QED
    BY <1>4, <1>9, <1>11, FirstCovers DEF p

\* ... and so are four groups of them.
LEMMA GroupedSnilsFound ==
    ASSUME NEW chars \in Seq(Int), NEW i \in 0..Len(chars),
           AreDigits(chars, i, 3), AreDigits(chars, i + 4, 3), AreDigits(chars, i + 8, 3),
           AreDigits(chars, i + 12, 2),
           chars[i + 4] = Hyphen, chars[i + 8] = Hyphen, chars[i + 12] = Space
    PROVE  MatchAt(chars, "snils", i) = i + 14
<1> DEFINE p == Pattern("snils")
           lab == Labelled(Snils)
<1>1. /\ DOMAIN p = 1..4
      /\ p[1] = lab[1] \o LongSnils /\ p[2] = lab[1] \o Digits(11)
      /\ p[3] = lab[2] \o LongSnils
    BY SnilsAre
<1> HIDE DEF p
<1>2. Misses(chars, lab[1], i) /\ Covers(chars, lab[2], i, i)
    <2>1. chars[i + 1] \in Digit
        BY DEF AreDigits
    <2>2. Snils \notin Digit /\ Snils \in Known
        <3>1. Snils \notin Digit
            BY DEF Snils, Digit
        <3> QED
            BY <3>1, Chars
    <2> QED
        BY <2>1, <2>2, LabelMisses
<1> HIDE DEF lab
<1>3. Digits(11) \in Seq(Items)
    BY DigitsIs
<1>4. Misses(chars, p[1], i) /\ Misses(chars, p[2], i)
    BY <1>1, <1>2, <1>3, LongIs, MissesFirst
<1>5. Covers(chars, LongSnils, i, i + 14)
    <2> DEFINE gap == <<Times({Space, Hyphen}, 1, 1)>>
    <2>1. i + 14 <= Len(chars) /\ Len(chars) \in Nat /\ i \in Nat
        BY LenProperties DEF AreDigits
    <2>2. ASSUME NEW j \in {i, i + 4, i + 8}
          PROVE  Covers(chars, Digits(3), j, j + 3)
        <3>1. j \in 0..Len(chars) /\ AreDigits(chars, j, 3)
            BY SMTT(30), <2>1
        <3> QED
            BY <3>1, DigitsCover
    <2>3. Covers(chars, Digits(2), i + 12, i + 14)
        <3>1. i + 12 \in 0..Len(chars) /\ i + 12 + 2 = i + 14
            BY <2>1
        <3>2. Covers(chars, Digits(2), i + 12, i + 12 + 2)
            BY <3>1, DigitsCover
        <3> QED
            BY <3>1, <3>2
    <2>4. ASSUME NEW j \in {i + 3, i + 7, i + 11}
          PROVE  Covers(chars, gap, j, j + 1)
        <3>1. j \in 0..Len(chars) /\ j + 1 <= Len(chars) /\ j + 1 \in {i + 4, i + 8, i + 12}
            BY SMTT(30), <2>1
        <3>6. chars[j + 1] \in {Space, Hyphen}
            BY <3>1
        <3>2. {Space, Hyphen} \in SUBSET Known
            BY Chars
        <3>3. \A k \in 1..1 : k = 1
            OBVIOUS
        <3>4. \A k \in 1..1 : chars[j + k] \in {Space, Hyphen}
            BY <3>3, <3>6
        <3>5. 1 \in Nat /\ 1 <= 1
            OBVIOUS
        <3> QED
            BY <3>1, <3>2, <3>4, <3>5, CoversOne
    <2>5. /\ Covers(chars, Digits(3), i, i + 3) /\ Covers(chars, gap, i + 3, i + 4)
          /\ Covers(chars, Digits(3), i + 4, i + 7) /\ Covers(chars, gap, i + 7, i + 8)
          /\ Covers(chars, Digits(3), i + 8, i + 11) /\ Covers(chars, gap, i + 11, i + 12)
        <3> HIDE DEF gap
        <3>1. i + 3 + 1 = i + 4 /\ i + 4 + 3 = i + 7 /\ i + 7 + 1 = i + 8 /\ i + 8 + 3 = i + 11
              /\ i + 11 + 1 = i + 12
            BY <2>1
        <3>2. /\ Covers(chars, Digits(3), i, i + 3) /\ Covers(chars, Digits(3), i + 4, i + 4 + 3)
              /\ Covers(chars, Digits(3), i + 8, i + 8 + 3)
            BY <2>2
        <3>3. /\ Covers(chars, gap, i + 3, i + 3 + 1) /\ Covers(chars, gap, i + 7, i + 7 + 1)
              /\ Covers(chars, gap, i + 11, i + 11 + 1)
            BY <2>4
        <3> QED
            BY <3>1, <3>2, <3>3
    <2> DEFINE r1 == Digits(3) \o gap
               r2 == r1 \o Digits(3)
               r3 == r2 \o gap
               r4 == r3 \o Digits(3)
               r5 == r4 \o gap
    <2>6. LongSnils = r5 \o Digits(2)
        BY DEF LongSnils
    <2> HIDE DEF gap
    <2>7. Covers(chars, r1, i, i + 4)
        BY <2>5, CoversBoth
    <2> HIDE DEF r1
    <2>8. Covers(chars, r2, i, i + 7)
        BY <2>5, <2>7, CoversBoth
    <2> HIDE DEF r2
    <2>9. Covers(chars, r3, i, i + 8)
        BY <2>5, <2>8, CoversBoth
    <2> HIDE DEF r3
    <2>10. Covers(chars, r4, i, i + 11)
        BY <2>5, <2>9, CoversBoth
    <2> HIDE DEF r4
    <2>11. Covers(chars, r5, i, i + 12)
        BY <2>5, <2>10, CoversBoth
    <2> HIDE DEF r5
    <2> QED
        BY <2>3, <2>6, <2>11, CoversBoth
<1>6. Covers(chars, p[3], i, i + 14)
    BY <1>1, <1>2, <1>5, CoversBoth
<1>7. 3 \in DOMAIN p /\ "snils" \in Regexes
    BY <1>1 DEF Regexes
<1>8. \A l \in 1..3 - 1 : l = 1 \/ l = 2
    OBVIOUS
<1>9. \A l \in 1..3 - 1 : Misses(chars, p[l], i)
    BY <1>4, <1>8
<1> QED
    BY <1>6, <1>7, <1>9, FirstCovers DEF p

-----------------------------------------------------------------------------
\* A word and the space behind it.
LEMMA WordCovers ==
    ASSUME NEW chars \in Seq(Int), NEW i \in 0..Len(chars), NEW word \in Known, i + 2 < Len(chars),
           chars[i + 1] = word, chars[i + 2] = Space, chars[i + 3] # Space
    PROVE  Covers(chars, Word(word), i, i + 2)
<1> DEFINE a == <<Times({word}, 1, 1)>>
           b == <<Times({Space}, 1, Many)>>
<1>1. {word} \in SUBSET Known /\ {Space} \in SUBSET Known /\ Many \in Nat /\ 1 <= Many
    <2>1. 1 <= Many
        BY DEF Many
    <2> QED
        BY <2>1, Chars
<1>2. /\ Len(chars) \in Nat /\ i + 1 \in 0..Len(chars) /\ i + 1 + 1 = i + 2 /\ i + 1 + 1 + 1 = i + 3
      /\ \A k \in 1..1 : k = 1
    BY LenProperties
<1>3. Covers(chars, a, i, i + 1)
    <2>1. \A k \in 1..1 : chars[i + k] \in {word}
        BY <1>2
    <2>2. 1 \in Nat /\ 1 <= 1 /\ i + 1 <= Len(chars)
        BY <1>2
    <2> QED
        BY <1>1, <2>1, <2>2, CoversOne
<1>4. Covers(chars, b, i + 1, i + 2)
    <2>1. \A k \in 1..1 : chars[i + 1 + k] \in {Space}
        BY <1>2
    <2>2. 1 \in Nat /\ 1 <= 1 /\ i + 1 + 1 <= Len(chars) /\ chars[i + 1 + 1 + 1] \notin {Space}
        BY <1>2
    <2>3. Covers(chars, b, i + 1, i + 1 + 1)
        BY <1>1, <1>2, <2>1, <2>2, CoversOne
    <2> QED
        BY <1>2, <2>3
<1>5. Word(word) = a \o b
    BY DEF Word, One
<1> HIDE DEF a, b
<1> QED
    BY <1>3, <1>4, <1>5, CoversBoth

\* It is not there.
LEMMA WordMisses ==
    ASSUME NEW chars \in Seq(Int), NEW i \in 0..Len(chars), NEW word \in Known,
           i = Len(chars) \/ chars[i + 1] # word
    PROVE  Misses(chars, Word(word), i)
<1> DEFINE a == <<Times({word}, 1, 1)>>
           b == <<Times({Space}, 1, Many)>>
<1>1. {word} \in SUBSET Known /\ {Space} \in SUBSET Known /\ Many \in Nat /\ 1 \in 1..1 /\ 1 \in Nat
    BY Chars
<1>2. b \in Seq(Items)
    BY <1>1, Repetitions
<1>3. i + 1 > Len(chars) \/ chars[i + 1] \notin {word}
    BY LenProperties
<1>4. Misses(chars, a, i)
    BY <1>1, <1>3, MissesOne
<1>5. Word(word) = a \o b
    BY DEF Word, One
<1> HIDE DEF a, b
<1> QED
    BY <1>2, <1>4, <1>5, MissesFirst

\* The parts of the passport's pattern.
SeriesItems ==
    Digits(2) \o <<Times({Space, Hyphen}, 0, 1)>> \o Digits(2) \o <<Star({Space, Hyphen, Comma})>>
PassportLabel == <<Word(Passport), Word(Series), <<>>>>
NumberLabel == <<Word(Number), <<One(NumeroSign), Star({Space})>>, <<>>>>

LEMMA PassportParts ==
    /\ SeriesItems \in Seq(Items)
    /\ PassportLabel \in Patterns /\ Len(PassportLabel) = 3
    /\ PassportLabel[1] = Word(Passport) /\ PassportLabel[2] = Word(Series) /\ PassportLabel[3] = <<>>
    /\ NumberLabel \in Patterns /\ Len(NumberLabel) = 3
    /\ NumberLabel[1] = Word(Number) /\ NumberLabel[2] = <<One(NumeroSign), Star({Space})>>
    /\ NumberLabel[3] = <<>>
    /\ \A k \in 1..3 : PassportLabel[k] \in Seq(Items) /\ NumberLabel[k] \in Seq(Items)
<1> DEFINE opt == <<Times({Space, Hyphen}, 0, 1)>>
           gap == <<Star({Space, Hyphen, Comma})>>
           sign == <<One(NumeroSign), Star({Space})>>
           none == <<>>
           L(word) == <<word>>
<1>1. /\ {Space, Hyphen} \in SUBSET Known /\ {Space, Hyphen, Comma} \in SUBSET Known /\ {Space} \in SUBSET Known
      /\ {NumeroSign} \in SUBSET Known /\ Many \in Nat /\ 0 \in Nat /\ 1 \in Nat
    BY Chars
<1>2. opt \in Seq(Items) /\ gap \in Seq(Items)
    BY <1>1, Repetitions DEF Star
<1>3. SeriesItems \in Seq(Items)
    <2> HIDE DEF opt, gap
    <2>1. Digits(2) \in Seq(Items)
        BY DigitsIs
    <2>2. SeriesItems = Digits(2) \o opt \o Digits(2) \o gap
        BY DEF SeriesItems, opt, gap
    <2> QED
        BY <1>2, <2>1, <2>2, ConcatProperties
<1>4. ASSUME NEW word \in Known
      PROVE  Word(word) \in Seq(Items)
    <2> DEFINE a == One(word)
               b == Times({Space}, 1, Many)
    <2>1. a \in Items /\ b \in Items
        BY <1>1, Repetitions DEF One
    <2> HIDE DEF a, b
    <2>2. <<a, b>> \in Seq(Items)
        BY <2>1
    <2> QED
        BY <2>2 DEF Word, a, b
<1>5. sign \in Seq(Items)
    <2> DEFINE a == One(NumeroSign)
               b == Star({Space})
    <2>1. a \in Items /\ b \in Items
        BY <1>1, Repetitions DEF One, Star
    <2> HIDE DEF a, b
    <2>2. <<a, b>> \in Seq(Items)
        BY <2>1
    <2> QED
        BY <2>2 DEF a, b
<1>6. none \in Seq(Items)
    BY EmptySeq
<1>7. Word(Passport) \in Seq(Items) /\ Word(Series) \in Seq(Items) /\ Word(Number) \in Seq(Items)
    BY <1>4, Chars
<1>8. \A k \in 1..3 : k = 1 \/ k = 2 \/ k = 3
    OBVIOUS
<1> HIDE DEF sign, none
<1>9. PassportLabel = <<Word(Passport), Word(Series), none>> /\ NumberLabel = <<Word(Number), sign, none>>
    BY DEF PassportLabel, NumberLabel, sign, none
<1> DEFINE w1 == Word(Passport)
           w2 == Word(Series)
           w3 == Word(Number)
<1> HIDE DEF w1, w2, w3
<1>10. PassportLabel = <<w1, w2, none>> /\ NumberLabel = <<w3, sign, none>>
    BY <1>9 DEF w1, w2, w3
<1>11. /\ PassportLabel[1] = w1 /\ PassportLabel[2] = w2 /\ PassportLabel[3] = none
       /\ NumberLabel[1] = w3 /\ NumberLabel[2] = sign /\ NumberLabel[3] = none
    BY <1>10
<1>12. \A k \in 1..3 : PassportLabel[k] \in Seq(Items) /\ NumberLabel[k] \in Seq(Items)
    BY <1>5, <1>6, <1>7, <1>8, <1>11 DEF w1, w2, w3
<1>13. /\ PassportLabel \in Patterns /\ Len(PassportLabel) = 3
       /\ NumberLabel \in Patterns /\ Len(NumberLabel) = 3
    BY <1>5, <1>6, <1>7, <1>10, Alternatives DEF w1, w2, w3
<1> QED
    BY <1>3, <1>11, <1>12, <1>13 DEF w1, w2, w3, sign, none

LEMMA PassportAre ==
    /\ DOMAIN Pattern("passport") = 1..9
    /\ \A a, b \in 1..3 :
          Pattern("passport")[(a - 1) * 3 + b] =
              PassportLabel[a] \o SeriesItems \o NumberLabel[b] \o Digits(6)
<1> DEFINE label == PassportLabel
           number == NumberLabel
           series == <<SeriesItems>>
           six == <<Digits(6)>>
           u == Then(label, series)
           v == Then(u, number)
           p == Pattern("passport")
<1>1. /\ label \in Patterns /\ Len(label) = 3 /\ number \in Patterns /\ Len(number) = 3
      /\ series \in Patterns /\ Len(series) = 1 /\ series[1] = SeriesItems
      /\ six \in Patterns /\ Len(six) = 1 /\ six[1] = Digits(6)
    <2>1. Digits(6) \in Seq(Items)
        BY DigitsIs
    <2> QED
        BY <2>1, PassportParts, Alternatives
<1>2. p = Then(v, six)
    BY DEF Pattern, PassportPattern, PassportLabel, NumberLabel, SeriesItems
<1> HIDE DEF label, number, series, six, p
<1>3. u \in Patterns /\ Len(u) = 3
    <2>1. Len(u) = Len(label) * Len(series) /\ u \in Patterns
        BY <1>1, ThenIs
    <2> QED
        BY <1>1, <2>1
<1>4. \A a \in 1..3 : u[a] = label[a] \o SeriesItems
    <2> SUFFICES ASSUME NEW a \in 1..3 PROVE u[a] = label[a] \o SeriesItems
        OBVIOUS
    <2>1. a \in 1..Len(label) /\ 1 \in 1..Len(series) /\ (a - 1) * Len(series) + 1 = a
        BY <1>1
    <2>2. Len(series) \in {1, 2, 3}
        BY <1>1
    <2>3. Then(label, series)[(a - 1) * Len(series) + 1] = label[a] \o series[1]
        BY <1>1, <2>1, <2>2, ThenAt
    <2> QED
        BY <1>1, <2>1, <2>3
<1> HIDE DEF u
<1>5. v \in Patterns /\ Len(v) = 9
    <2>1. Len(v) = Len(u) * Len(number) /\ v \in Patterns
        BY <1>1, <1>3, ThenIs
    <2> QED
        BY <1>1, <1>3, <2>1
<1>6. \A a, b \in 1..3 : v[(a - 1) * 3 + b] = u[a] \o number[b] /\ (a - 1) * 3 + b \in 1..9
    <2> SUFFICES ASSUME NEW a \in 1..3, NEW b \in 1..3
                 PROVE  v[(a - 1) * 3 + b] = u[a] \o number[b] /\ (a - 1) * 3 + b \in 1..9
        OBVIOUS
    <2>1. a \in 1..Len(u) /\ b \in 1..Len(number) /\ (a - 1) * Len(number) + b = (a - 1) * 3 + b
        BY <1>1, <1>3
    <2>2. Len(number) \in {1, 2, 3}
        BY <1>1
    <2>3. Then(u, number)[(a - 1) * Len(number) + b] = u[a] \o number[b]
        BY <1>1, <1>3, <2>1, <2>2, ThenAt
    <2>4. (a - 1) * 3 + b \in 1..9
        OBVIOUS
    <2> QED
        BY <2>1, <2>3, <2>4
<1> HIDE DEF v
<1>7. DOMAIN p = 1..9
    <2>1. Len(p) = Len(v) * Len(six) /\ p \in Patterns
        BY <1>1, <1>2, <1>5, ThenIs
    <2>2. Len(p) = 9
        BY <1>1, <1>5, <2>1
    <2>3. p \in Seq(Seq(Items))
        BY <2>1 DEF Patterns
    <2> QED
        BY <2>2, <2>3, LenProperties
<1>8. \A k \in 1..9 : p[k] = v[k] \o Digits(6)
    <2> SUFFICES ASSUME NEW k \in 1..9 PROVE p[k] = v[k] \o Digits(6)
        OBVIOUS
    <2>1. k \in 1..Len(v) /\ 1 \in 1..Len(six) /\ (k - 1) * Len(six) + 1 = k
        BY <1>1, <1>5
    <2>2. Len(six) \in {1, 2, 3}
        BY <1>1
    <2>3. Then(v, six)[(k - 1) * Len(six) + 1] = v[k] \o six[1]
        BY <1>1, <1>5, <2>1, <2>2, ThenAt
    <2> QED
        BY <1>1, <1>2, <2>1, <2>3
<1>9. ASSUME NEW a \in 1..3, NEW b \in 1..3
      PROVE  p[(a - 1) * 3 + b] = label[a] \o SeriesItems \o number[b] \o Digits(6)
    <2>1. p[(a - 1) * 3 + b] = v[(a - 1) * 3 + b] \o Digits(6) /\ v[(a - 1) * 3 + b] = u[a] \o number[b]
        BY <1>6, <1>8
    <2> QED
        BY <1>4, <2>1
<1> QED
    BY <1>7, <1>9 DEF p, label, number

\* A label, the series, a label of the number and the number: the first of
\* the labels that are there count.
LEMMA PassportMatch ==
    ASSUME NEW chars \in Seq(Int), NEW i \in 0..Len(chars), NEW a \in 1..3, NEW b \in 1..3,
           NEW j, NEW k, NEW l \in Nat,
           \A c \in 1..a - 1 : Misses(chars, PassportLabel[c], i),
           Covers(chars, PassportLabel[a], i, j), Covers(chars, SeriesItems, j, k),
           \A d \in 1..b - 1 : Misses(chars, NumberLabel[d], k),
           Covers(chars, NumberLabel[b], k, l), AreDigits(chars, l, 6)
    PROVE  MatchAt(chars, "passport", i) = l + 6
<1> DEFINE p == Pattern("passport")
           at(c, d) == (c - 1) * 3 + d
           body(c, d) == PassportLabel[c] \o SeriesItems \o NumberLabel[d] \o Digits(6)
<1>1. DOMAIN p = 1..9 /\ \A c, d \in 1..3 : p[at(c, d)] = body(c, d)
    BY PassportAre
<1>2. /\ SeriesItems \in Seq(Items) /\ Digits(6) \in Seq(Items)
      /\ \A c \in 1..3 : PassportLabel[c] \in Seq(Items) /\ NumberLabel[c] \in Seq(Items)
    BY PassportParts, DigitsIs
<1>3. Covers(chars, Digits(6), l, l + 6)
    <2>1. l \in 0..Len(chars)
        BY DEF Covers
    <2> QED
        BY SMTT(30), <2>1, DigitsCover
<1>4. Covers(chars, PassportLabel[a] \o SeriesItems, i, k)
    BY CoversBoth
<1>5. Covers(chars, body(a, b), i, l + 6)
    <2>1. Covers(chars, PassportLabel[a] \o SeriesItems \o NumberLabel[b], i, l)
        BY <1>4, CoversBoth
    <2> QED
        BY <1>3, <2>1, CoversBoth
<1>6. ASSUME NEW c \in 1..a - 1, NEW d \in 1..3
      PROVE  Misses(chars, body(c, d), i)
    <2>1. c \in 1..3
        OBVIOUS
    <2>2. Misses(chars, PassportLabel[c] \o SeriesItems, i)
        BY <1>2, MissesFirst
    <2>3. Misses(chars, PassportLabel[c] \o SeriesItems \o NumberLabel[d], i)
        BY <1>2, <2>2, MissesFirst
    <2> QED
        BY <1>2, <2>3, MissesFirst
<1>7. ASSUME NEW d \in 1..b - 1
      PROVE  Misses(chars, body(a, d), i)
    <2>1. Misses(chars, PassportLabel[a] \o SeriesItems \o NumberLabel[d], i)
        BY <1>4, MissesSecond
    <2> QED
        BY <1>2, <2>1, MissesFirst
<1> HIDE DEF p, body
<1>8. ASSUME NEW m \in 1..at(a, b) - 1
      PROVE  Misses(chars, p[m], i)
    <2>1. m \in 1..9
        OBVIOUS
    <2>2. \E c, d \in 1..3 : m = at(c, d)
        <3> DEFINE Is(n, c, d) == n = at(c, d) /\ c \in 1..3 /\ d \in 1..3
        <3>1. \A n \in 1..9 : \/ Is(n, 1, 1) \/ Is(n, 1, 2) \/ Is(n, 1, 3)
                              \/ Is(n, 2, 1) \/ Is(n, 2, 2) \/ Is(n, 2, 3)
                              \/ Is(n, 3, 1) \/ Is(n, 3, 2) \/ Is(n, 3, 3)
            OBVIOUS
        <3> HIDE DEF at
        <3> QED
            BY <2>1, <3>1
    <2>3. PICK c \in 1..3, d \in 1..3 : m = at(c, d)
        BY <2>2
    <2>4. c < a \/ (c = a /\ d < b)
        BY <2>3
    <2>5. p[m] = body(c, d)
        BY <1>1, <2>3
    <2>6. CASE c < a
        <3>1. c \in 1..a - 1
            BY <2>6
        <3> QED
            BY <1>6, <2>5, <3>1
    <2>7. CASE c = a /\ d < b
        <3>1. d \in 1..b - 1
            BY <2>7
        <3> QED
            BY <1>7, <2>5, <2>7, <3>1
    <2> QED
        BY <2>4, <2>6, <2>7
<1>9. at(a, b) \in DOMAIN p
    <2>1. (a - 1) * 3 + b \in 1..9
        OBVIOUS
    <2> QED
        BY <1>1, <2>1
<1>10. "passport" \in Regexes
    BY DEF Regexes
<1>11. Covers(chars, p[at(a, b)], i, l + 6)
    BY <1>1, <1>5
<1> HIDE DEF at
<1> QED
    BY <1>8, <1>9, <1>10, <1>11, FirstCovers DEF p

\* Two digits, o spaces, two digits and a space.
LEMMA SeriesCovers ==
    ASSUME NEW chars \in Seq(Int), NEW i \in 0..Len(chars), NEW o \in {0, 1},
           AreDigits(chars, i, 2), AreDigits(chars, i + 2 + o, 2),
           o = 1 => chars[i + 3] = Space,
           i + 5 + o < Len(chars), chars[i + 5 + o] = Space,
           chars[i + 6 + o] \notin {Space, Hyphen, Comma}
    PROVE  Covers(chars, SeriesItems, i, i + 5 + o)
<1> DEFINE opt == <<Times({Space, Hyphen}, 0, 1)>>
           gap == <<Times({Space, Hyphen, Comma}, 0, Many)>>
<1>1. /\ Len(chars) \in Nat /\ i \in Nat /\ o \in Nat
      /\ i + 2 \in 0..Len(chars) /\ i + 2 + o \in 0..Len(chars) /\ i + 4 + o \in 0..Len(chars)
      /\ i + 2 + o + 2 = i + 4 + o /\ i + 4 + o + 1 = i + 5 + o /\ i + 5 + o + 1 = i + 6 + o
      /\ i + 2 + 1 = i + 3
    BY SMTT(30), LenProperties
<1>2. /\ {Space, Hyphen} \in SUBSET Known /\ {Space, Hyphen, Comma} \in SUBSET Known
      /\ Many \in Nat /\ 1 <= Many /\ 0 \in Nat /\ 1 \in Nat
    <2>1. 1 <= Many
        BY DEF Many
    <2> QED
        BY <2>1, Chars
<1>3. \A k \in 1..1 : k = 1
    OBVIOUS
<1>4. Covers(chars, Digits(2), i, i + 2)
    BY DigitsCover
<1>5. Covers(chars, opt, i + 2, i + 2 + o)
    <2>1. CASE o = 0
        <3>1. \A c \in Digit : c \notin {Space, Hyphen}
            BY SMTT(30) DEF Digit, Space, Hyphen
        <3>2. chars[i + 2 + 1] \in Digit
            BY <1>1, <2>1 DEF AreDigits
        <3>3. chars[i + 2 + 0 + 1] \notin {Space, Hyphen} /\ \A k \in 1..0 : chars[i + 2 + k] \in {Space, Hyphen}
            BY SMTT(30), <1>1, <3>1, <3>2
        <3>4. 0 <= 0 /\ 0 <= 1 /\ i + 2 + 0 <= Len(chars)
            BY <1>1
        <3>5. Covers(chars, opt, i + 2, i + 2 + 0)
            BY <1>1, <1>2, <3>3, <3>4, CoversOne
        <3> QED
            BY <2>1, <3>5
    <2>2. CASE o = 1
        <3>1. \A k \in 1..1 : chars[i + 2 + k] \in {Space, Hyphen}
            BY <1>1, <1>3, <2>2
        <3>2. 0 <= 1 /\ 1 <= 1 /\ i + 2 + 1 <= Len(chars)
            BY <1>1, <2>2
        <3>3. Covers(chars, opt, i + 2, i + 2 + 1)
            BY <1>1, <1>2, <3>1, <3>2, CoversOne
        <3> QED
            BY <2>2, <3>3
    <2> QED
        BY <2>1, <2>2
<1>6. Covers(chars, Digits(2), i + 2 + o, i + 4 + o)
    <2>1. Covers(chars, Digits(2), i + 2 + o, i + 2 + o + 2)
        BY <1>1, DigitsCover
    <2> QED
        BY <1>1, <2>1
<1>7. Covers(chars, gap, i + 4 + o, i + 5 + o)
    <2>1. \A k \in 1..1 : chars[i + 4 + o + k] \in {Space, Hyphen, Comma}
        BY <1>1, <1>3
    <2>2. 0 <= 1 /\ i + 4 + o + 1 <= Len(chars) /\ chars[i + 4 + o + 1 + 1] \notin {Space, Hyphen, Comma}
        BY <1>1
    <2>3. Covers(chars, gap, i + 4 + o, i + 4 + o + 1)
        BY <1>1, <1>2, <2>1, <2>2, CoversOne
    <2> QED
        BY <1>1, <2>3
<1>8. SeriesItems = Digits(2) \o opt \o Digits(2) \o gap
    BY DEF SeriesItems, Star
<1> HIDE DEF opt, gap
<1>9. Covers(chars, Digits(2) \o opt, i, i + 2 + o)
    BY <1>4, <1>5, CoversBoth
<1>10. Covers(chars, Digits(2) \o opt \o Digits(2), i, i + 4 + o)
    BY <1>6, <1>9, CoversBoth
<1> QED
    BY <1>7, <1>8, <1>10, CoversBoth

\* No label of the number before a digit.
LEMMA NoNumberLabel ==
    ASSUME NEW chars \in Seq(Int), NEW i \in 0..Len(chars), chars[i + 1] \in Digit
    PROVE  /\ \A d \in 1..3 - 1 : Misses(chars, NumberLabel[d], i)
           /\ Covers(chars, NumberLabel[3], i, i)
<1> DEFINE a == One(NumeroSign)
           b == Star({Space})
           sign == <<a, b>>
<1>1. Number \notin Digit /\ NumeroSign \notin Digit
    BY DEF Number, NumeroSign, Digit
<1>2. Number \in Known /\ {NumeroSign} \in SUBSET Known /\ {Space} \in SUBSET Known /\ Many \in Nat
    BY Chars
<1>3. Misses(chars, Word(Number), i)
    BY <1>1, <1>2, WordMisses
<1>4. Misses(chars, sign, i)
    <2>1. a \in Items /\ b \in Items /\ Takes1(a)
        BY <1>2, Repetitions DEF One, Star
    <2>2. a.class = {NumeroSign}
        BY DEF One, Times
    <2> HIDE DEF a, b
    <2>3. sign \in Seq(Items) /\ Len(sign) = 2 /\ sign[1] = a
        BY <2>1
    <2> HIDE DEF sign
    <2>4. chars[i + 1] \notin sign[1].class
        BY <1>1, <2>2, <2>3
    <2> QED
        BY <2>1, <2>3, <2>4, HeadMisses
<1>5. \A d \in 1..3 - 1 : d = 1 \/ d = 2
    OBVIOUS
<1> HIDE DEF sign
<1>6. NumberLabel[1] = Word(Number) /\ NumberLabel[2] = sign /\ NumberLabel[3] = <<>>
    BY PassportParts DEF sign
<1> QED
    BY <1>3, <1>4, <1>5, <1>6, CoversNothing

-----------------------------------------------------------------------------
\* Places in a text that is long enough.
LEMMA Within ==
    ASSUME NEW l \in Nat, NEW i \in 0..l, NEW m \in Nat, i + m <= l
    PROVE  \A n \in 0..m : i + n \in Nat /\ i + n \in 0..l /\ (n < m => i + n < l)
OBVIOUS

\* A label, the series and a number without a label.
LEMMA SeriesAndNumber ==
    ASSUME NEW chars \in Seq(Int), NEW i \in 0..Len(chars), NEW a \in 1..3, NEW j \in 0..Len(chars),
           NEW o \in {0, 1},
           \A c \in 1..a - 1 : Misses(chars, PassportLabel[c], i), Covers(chars, PassportLabel[a], i, j),
           AreDigits(chars, j, 2), AreDigits(chars, j + 2 + o, 2), AreDigits(chars, j + 5 + o, 6),
           o = 1 => chars[j + 3] = Space, chars[j + 5 + o] = Space
    PROVE  MatchAt(chars, "passport", i) = j + 11 + o
<1>1. /\ Len(chars) \in Nat /\ j + 5 + o < Len(chars) /\ j + 5 + o \in 0..Len(chars) /\ j + 5 + o \in Nat
      /\ j + 5 + o + 1 = j + 6 + o /\ j + 5 + o + 6 = j + 11 + o
    <2>1. j + 5 + o + 6 <= Len(chars)
        BY DEF AreDigits
    <2>2. Len(chars) \in Nat
        BY LenProperties
    <2> QED
        BY SMTT(30), <2>1, <2>2
<1>2. chars[j + 6 + o] \in Digit
    <2>1. 1 \in 1..6
        OBVIOUS
    <2>2. chars[j + 5 + o + 1] \in Digit
        BY <2>1 DEF AreDigits
    <2> QED
        BY <1>1, <2>2
<1>3. chars[j + 6 + o] \notin {Space, Hyphen, Comma}
    <2>1. \A c \in Digit : c \notin {Space, Hyphen, Comma}
        BY DEF Digit, Space, Hyphen, Comma
    <2> QED
        BY <1>2, <2>1
<1>4. Covers(chars, SeriesItems, j, j + 5 + o)
    BY <1>1, <1>3, SeriesCovers
<1>5. /\ \A d \in 1..3 - 1 : Misses(chars, NumberLabel[d], j + 5 + o)
      /\ Covers(chars, NumberLabel[3], j + 5 + o, j + 5 + o)
    BY <1>1, <1>2, NoNumberLabel
<1>6. 3 \in 1..3
    OBVIOUS
<1>7. MatchAt(chars, "passport", i) = j + 5 + o + 6
    BY SMTT(30), <1>1, <1>4, <1>5, <1>6, PassportMatch
<1> QED
    BY <1>1, <1>7

\* No label of the passport before a digit; ...
LEMMA NoPassportLabel ==
    ASSUME NEW chars \in Seq(Int), NEW i \in 0..Len(chars), chars[i + 1] \in Digit
    PROVE  /\ \A c \in 1..3 - 1 : Misses(chars, PassportLabel[c], i)
           /\ Covers(chars, PassportLabel[3], i, i)
<1>1. Passport \notin Digit /\ Series \notin Digit
    BY DEF Passport, Series, Digit
<1>2. Passport \in Known /\ Series \in Known
    BY Chars
<1>3. Misses(chars, Word(Passport), i) /\ Misses(chars, Word(Series), i)
    BY <1>1, <1>2, WordMisses
<1>4. \A c \in 1..3 - 1 : c = 1 \/ c = 2
    OBVIOUS
<1> QED
    BY <1>3, <1>4, PassportParts, CoversNothing

\* ... the bare series and number, written together or apart, ...
LEMMA PassportFound ==
    ASSUME NEW chars \in Seq(Int), NEW i \in 0..Len(chars), NEW o \in {0, 1},
           AreDigits(chars, i, 2), AreDigits(chars, i + 2 + o, 2), AreDigits(chars, i + 5 + o, 6),
           o = 1 => chars[i + 3] = Space, chars[i + 5 + o] = Space
    PROVE  MatchAt(chars, "passport", i) = i + 11 + o
<1>1. chars[i + 1] \in Digit
    BY DEF AreDigits
<1>2. 3 \in 1..3
    OBVIOUS
<1> QED
    BY <1>1, <1>2, NoPassportLabel, SeriesAndNumber

\* ... the same behind the first label, ...
LEMMA LabelledPassportFound ==
    ASSUME NEW chars \in Seq(Int), NEW i \in 0..Len(chars),
           chars[i + 1] = Passport, chars[i + 2] = Space,
           AreDigits(chars, i + 2, 2), AreDigits(chars, i + 5, 2), AreDigits(chars, i + 8, 6),
           chars[i + 5] = Space, chars[i + 8] = Space
    PROVE  MatchAt(chars, "passport", i) = i + 14
<1>1. /\ Len(chars) \in Nat /\ i \in Nat /\ i + 2 \in 0..Len(chars) /\ i + 2 < Len(chars)
      /\ i + 2 + 1 = i + 3 /\ i + 2 + 3 = i + 5 /\ i + 2 + 2 + 1 = i + 5 /\ i + 2 + 5 + 1 = i + 8
      /\ i + 2 + 11 + 1 = i + 14
    <2>1. i + 8 + 6 <= Len(chars)
        BY DEF AreDigits
    <2>2. Len(chars) \in Nat
        BY LenProperties
    <2>3. i \in Nat
        BY <2>2
    <2>4. i + 2 < Len(chars)
        BY <2>1, <2>2
    <2>5. i + 2 \in 0..Len(chars)
        BY <2>1, <2>2, <2>3
    <2>6. i + 2 + 1 = i + 3 /\ i + 2 + 3 = i + 5
        BY <2>3
    <2>7. i + 2 + 2 + 1 = i + 5 /\ i + 2 + 5 + 1 = i + 8 /\ i + 2 + 11 + 1 = i + 14
        BY <2>3
    <2> QED
        BY <2>2, <2>3, <2>4, <2>5, <2>6, <2>7
<1>2. chars[i + 3] # Space
    <2>1. chars[i + 2 + 1] \in Digit
        BY DEF AreDigits
    <2>2. Space \notin Digit
        BY DEF Space, Digit
    <2> QED
        BY <1>1, <2>1, <2>2
<1>3. Passport \in Known
    BY Chars
<1>4. Covers(chars, PassportLabel[1], i, i + 2)
    BY <1>1, <1>2, <1>3, WordCovers, PassportParts
<1>5. 1 \in 1..3 /\ 1 \in {0, 1} /\ \A c \in 1..1 - 1 : FALSE
    OBVIOUS
<1>6. \A c \in 1..1 - 1 : Misses(chars, PassportLabel[c], i)
    BY <1>5
<1>7. /\ AreDigits(chars, i + 2 + 2 + 1, 2) /\ AreDigits(chars, i + 2 + 5 + 1, 6)
      /\ chars[i + 2 + 3] = Space /\ chars[i + 2 + 5 + 1] = Space
    BY <1>1
<1>8. MatchAt(chars, "passport", i) = i + 2 + 11 + 1
    BY <1>1, <1>4, <1>5, <1>6, <1>7, SeriesAndNumber
<1> QED
    BY <1>1, <1>8

\* ... and with a label before the series and one before the number.
LEMMA SeriesNumberFound ==
    ASSUME NEW chars \in Seq(Int), NEW i \in 0..Len(chars),
           chars[i + 1] = Series, chars[i + 2] = Space, AreDigits(chars, i + 2, 4),
           chars[i + 7] = Space, chars[i + 8] = Number, chars[i + 9] = Space, AreDigits(chars, i + 9, 6)
    PROVE  MatchAt(chars, "passport", i) = i + 15
<1>1. /\ Len(chars) \in Nat /\ i \in Nat /\ i + 2 \in 0..Len(chars) /\ i + 7 \in 0..Len(chars)
      /\ i + 2 < Len(chars) /\ i + 7 < Len(chars) /\ i + 7 + 2 < Len(chars)
      /\ i + 2 + 1 = i + 3 /\ i + 2 + 5 + 0 = i + 7 /\ i + 2 + 6 + 0 = i + 8 /\ i + 2 + 2 + 0 = i + 4
      /\ i + 7 + 1 = i + 8 /\ i + 7 + 2 = i + 9 /\ i + 7 + 3 = i + 10 /\ i + 9 + 1 = i + 10
      /\ i + 9 \in Nat /\ i + 9 + 6 = i + 15
    <2>1. i + 9 + 6 <= Len(chars)
        BY DEF AreDigits
    <2>2. Len(chars) \in Nat
        BY LenProperties
    <2>3. i \in Nat
        BY <2>2
    <2>4. /\ i + 2 < Len(chars) /\ i + 7 < Len(chars) /\ i + 9 < Len(chars)
          /\ i + 2 \in 0..Len(chars) /\ i + 7 \in 0..Len(chars)
        <3>1. i + 15 <= Len(chars) /\ 15 \in Nat
            BY <2>1, <2>3
        <3>2. \A n \in 0..15 : i + n \in 0..Len(chars) /\ (n < 15 => i + n < Len(chars))
            BY <2>2, <3>1, Within
        <3>3. 2 \in 0..15 /\ 7 \in 0..15 /\ 9 \in 0..15 /\ 2 < 15 /\ 7 < 15 /\ 9 < 15
            OBVIOUS
        <3> QED
            BY <3>2, <3>3
    <2>5. i + 7 + 2 = i + 9
        BY <2>3
    <2>6. /\ i + 2 + 1 = i + 3 /\ i + 2 + 5 + 0 = i + 7 /\ i + 2 + 6 + 0 = i + 8
          /\ i + 2 + 2 + 0 = i + 4
        BY <2>3
    <2>7. i + 7 + 1 = i + 8 /\ i + 7 + 2 = i + 9 /\ i + 7 + 3 = i + 10 /\ i + 9 + 1 = i + 10
        BY <2>3
    <2>8. i + 9 \in Nat /\ i + 9 + 6 = i + 15
        BY <2>3
    <2> QED
        BY <2>2, <2>3, <2>4, <2>5, <2>6, <2>7, <2>8
<1>2. chars[i + 3] # Space /\ chars[i + 10] # Space
    <2>1. chars[i + 2 + 1] \in Digit /\ chars[i + 9 + 1] \in Digit
        BY DEF AreDigits
    <2>2. Space \notin Digit
        BY DEF Space, Digit
    <2> QED
        BY <1>1, <2>1, <2>2
<1>3. Passport \in Known /\ Series \in Known /\ Number \in Known
    BY Chars
<1>4. Series # Passport /\ Number \notin {Space, Hyphen, Comma}
    BY DEF Series, Passport, Number, Space, Hyphen, Comma
<1>5. \A c \in 1..2 - 1 : Misses(chars, PassportLabel[c], i)
    <2>1. Misses(chars, Word(Passport), i)
        BY <1>3, <1>4, WordMisses
    <2>2. \A c \in 1..2 - 1 : c = 1
        OBVIOUS
    <2> QED
        BY <2>1, <2>2, PassportParts
<1>6. Covers(chars, PassportLabel[2], i, i + 2)
    BY <1>1, <1>2, <1>3, WordCovers, PassportParts
<1>7. Covers(chars, SeriesItems, i + 2, i + 7)
    <2>1. AreDigits(chars, i + 2, 2) /\ AreDigits(chars, i + 4, 2)
        <3>1. \A n \in 1..2 : n \in 1..4 /\ n + 2 \in 1..4 /\ i + 4 + n = i + 2 + (n + 2)
            BY SMTT(30), <1>1
        <3>2. \A n \in 1..4 : chars[i + 2 + n] \in Digit
            BY DEF AreDigits
        <3>3. \A n \in 1..2 : chars[i + 2 + n] \in Digit /\ chars[i + 4 + n] \in Digit
            BY <3>1, <3>2
        <3>4. i + 2 + 2 <= Len(chars) /\ i + 4 + 2 <= Len(chars)
            BY SMTT(30), <1>1
        <3> QED
            BY <3>3, <3>4 DEF AreDigits
    <2>2. /\ AreDigits(chars, i + 2 + 2 + 0, 2)
          /\ i + 2 + 5 + 0 < Len(chars) /\ chars[i + 2 + 5 + 0] = Space
          /\ chars[i + 2 + 6 + 0] \notin {Space, Hyphen, Comma}
          /\ 0 \in {0, 1} /\ (0 = 1 => chars[i + 2 + 3] = Space)
        BY <1>1, <1>4, <2>1
    <2>3. Covers(chars, SeriesItems, i + 2, i + 2 + 5 + 0)
        BY <1>1, <2>1, <2>2, SeriesCovers
    <2> QED
        BY <1>1, <2>3
<1>8. Covers(chars, NumberLabel[1], i + 7, i + 9)
    <2>1. chars[i + 7 + 1] = Number /\ chars[i + 7 + 2] = Space /\ chars[i + 7 + 3] # Space
        BY <1>1, <1>2
    <2>2. Covers(chars, Word(Number), i + 7, i + 7 + 2)
        BY <1>1, <1>3, <2>1, WordCovers
    <2> QED
        BY <1>1, <2>2, PassportParts
<1>9. 2 \in 1..3 /\ 1 \in 1..3 /\ \A d \in 1..1 - 1 : FALSE
    OBVIOUS
<1>10. \A d \in 1..1 - 1 : Misses(chars, NumberLabel[d], i + 7)
    BY <1>9
<1>11. MatchAt(chars, "passport", i) = i + 9 + 6
    BY <1>1, <1>5, <1>6, <1>7, <1>8, <1>9, <1>10, PassportMatch
<1> QED
    BY <1>1, <1>11

\* n characters of a class and then a digit.
LEMMA StarCovers ==
    ASSUME NEW chars \in Seq(Int), NEW i \in 0..Len(chars), NEW n \in 1..2, i + n < Len(chars),
           NEW class \in SUBSET Known, class \cap Digit = {},
           \A k \in 1..n : chars[i + k] \in class, chars[i + n + 1] \in Digit
    PROVE  Covers(chars, <<Star(class)>>, i, i + n)
<1>1. n \in Nat /\ 0 <= n /\ n <= Many /\ Many \in Nat /\ 0 \in Nat /\ i + n <= Len(chars)
    BY LenProperties DEF Many
<1>2. chars[i + n + 1] \notin class
    OBVIOUS
<1>3. Covers(chars, <<Times(class, 0, Many)>>, i, i + n)
    BY <1>1, <1>2, CoversOne
<1> QED
    BY <1>3 DEF Star

\* A phone number.
LEMMA PhoneFound ==
    ASSUME NEW chars \in Seq(Int), NEW i \in 0..Len(chars),
           chars[i + 1] = PlusSign, chars[i + 2] = 7, chars[i + 3] = Space, chars[i + 4] = OpenParen,
           AreDigits(chars, i + 4, 3), chars[i + 8] = CloseParen, chars[i + 9] = Space,
           AreDigits(chars, i + 9, 3), chars[i + 13] = Hyphen, AreDigits(chars, i + 13, 2),
           chars[i + 16] = Hyphen, AreDigits(chars, i + 16, 2)
    PROVE  MatchAt(chars, "phone", i) = i + 18
<1> DEFINE gap == <<Star({Space, Hyphen})>>
           open == <<Star({Space, Hyphen, OpenParen})>>
           close == <<Star({Space, Hyphen, CloseParen})>>
           plus == <<One(PlusSign), One(7)>>
           eight == <<One(8)>>
           r1 == open \o Digits(3)
           r2 == r1 \o close
           r3 == r2 \o Digits(3)
           r4 == r3 \o gap
           r5 == r4 \o Digits(2)
           r6 == r5 \o gap
           r7 == r6 \o Digits(2)
           p == Pattern("phone")
<1>1. /\ Len(chars) \in Nat /\ i \in Nat /\ i + 18 <= Len(chars)
      /\ \A n \in 0..18 : i + n \in 0..Len(chars) /\ (n < 18 => i + n < Len(chars))
    <2>1. i + 16 + 2 <= Len(chars)
        BY DEF AreDigits
    <2>2. Len(chars) \in Nat
        BY LenProperties
    <2>3. i \in Nat
        BY <2>2
    <2>4. i + 18 <= Len(chars)
        BY <2>1, <2>2, <2>3
    <2>5. \A n \in 0..18 : i + n \in 0..Len(chars) /\ (n < 18 => i + n < Len(chars))
        <3>1. 18 \in Nat
            OBVIOUS
        <3> QED
            BY <2>2, <2>4, <3>1, Within
    <2> QED
        BY <2>2, <2>3, <2>4, <2>5
<1>2. \A n \in {4, 9} : Covers(chars, Digits(3), i + n, i + n + 3) /\ chars[i + n + 1] \in Digit
    <2> SUFFICES ASSUME NEW n \in {4, 9}
                 PROVE  Covers(chars, Digits(3), i + n, i + n + 3) /\ chars[i + n + 1] \in Digit
        OBVIOUS
    <2>1. n \in 0..18 /\ 1 \in 1..3 /\ 3 \in Nat \ {0}
        OBVIOUS
    <2>2. i + n \in 0..Len(chars)
        BY <1>1, <2>1
    <2>3. AreDigits(chars, i + n, 3)
        OBVIOUS
    <2>4. Covers(chars, Digits(3), i + n, i + n + 3)
        BY <2>1, <2>2, <2>3, DigitsCover
    <2>5. chars[i + n + 1] \in Digit
        BY <2>1, <2>3 DEF AreDigits
    <2> QED
        BY <2>4, <2>5
<1>3. \A n \in {13, 16} : Covers(chars, Digits(2), i + n, i + n + 2) /\ chars[i + n + 1] \in Digit
    <2> SUFFICES ASSUME NEW n \in {13, 16}
                 PROVE  Covers(chars, Digits(2), i + n, i + n + 2) /\ chars[i + n + 1] \in Digit
        OBVIOUS
    <2>1. n \in 0..18 /\ 1 \in 1..2 /\ 2 \in Nat \ {0}
        OBVIOUS
    <2>2. i + n \in 0..Len(chars)
        BY <1>1, <2>1
    <2>3. AreDigits(chars, i + n, 2)
        OBVIOUS
    <2>4. Covers(chars, Digits(2), i + n, i + n + 2)
        BY <2>1, <2>2, <2>3, DigitsCover
    <2>5. chars[i + n + 1] \in Digit
        BY <2>1, <2>3 DEF AreDigits
    <2> QED
        BY <2>4, <2>5
<1>4. /\ {Space, Hyphen} \in SUBSET Known /\ {Space, Hyphen, OpenParen} \in SUBSET Known
      /\ {Space, Hyphen, CloseParen} \in SUBSET Known
      /\ {PlusSign} \in SUBSET Known /\ {7} \in SUBSET Known /\ {8} \in SUBSET Known
    BY Chars
<1>5. /\ {Space, Hyphen} \cap Digit = {} /\ {Space, Hyphen, OpenParen} \cap Digit = {}
      /\ {Space, Hyphen, CloseParen} \cap Digit = {}
    BY DEF Space, Hyphen, OpenParen, CloseParen, Digit
<1>6. (\A k \in 1..1 : k = 1) /\ (\A k \in 1..2 : k = 1 \/ k = 2)
    OBVIOUS
<1>7. Covers(chars, open, i + 2, i + 4)
    <2>1. i + 2 + 1 = i + 3 /\ i + 2 + 2 = i + 4 /\ i + 2 + 2 + 1 = i + 4 + 1 /\ i + 2 + 2 < Len(chars)
          /\ i + 2 \in 0..Len(chars) /\ 2 \in 1..2
        BY <1>1
    <2>2. \A k \in 1..2 : chars[i + 2 + k] \in {Space, Hyphen, OpenParen}
        BY <1>6, <2>1
    <2>3. chars[i + 2 + 2 + 1] \in Digit
        BY <1>2, <2>1
    <2>4. Covers(chars, open, i + 2, i + 2 + 2)
        BY <1>4, <1>5, <2>1, <2>2, <2>3, StarCovers
    <2> QED
        BY <2>1, <2>4
<1>8. Covers(chars, close, i + 7, i + 9)
    <2>1. i + 7 + 1 = i + 8 /\ i + 7 + 2 = i + 9 /\ i + 7 + 2 + 1 = i + 9 + 1 /\ i + 7 + 2 < Len(chars)
          /\ i + 7 \in 0..Len(chars) /\ 2 \in 1..2
        BY <1>1
    <2>2. \A k \in 1..2 : chars[i + 7 + k] \in {Space, Hyphen, CloseParen}
        BY <1>6, <2>1
    <2>3. chars[i + 7 + 2 + 1] \in Digit
        BY <1>2, <2>1
    <2>4. Covers(chars, close, i + 7, i + 7 + 2)
        BY <1>4, <1>5, <2>1, <2>2, <2>3, StarCovers
    <2> QED
        BY <2>1, <2>4
<1>9. \A n \in {12, 15} : Covers(chars, gap, i + n, i + n + 1)
    <2> SUFFICES ASSUME NEW n \in {12, 15}
                 PROVE  Covers(chars, gap, i + n, i + n + 1)
        OBVIOUS
    <2>1. n + 1 \in {13, 16} /\ 1 \in 1..2 /\ n \in 0..18
        OBVIOUS
    <2>6. i + n + 1 = i + (n + 1)
        BY <1>1
    <2>8. 13 \in 0..18 /\ 13 < 18 /\ 16 \in 0..18 /\ 16 < 18
        OBVIOUS
    <2>7. \A k \in {13, 16} : k \in 0..18 /\ k < 18
        BY <2>8, Zenon
    <2>5. i + n + 1 < Len(chars) /\ i + n \in 0..Len(chars)
        BY <1>1, <2>1, <2>6, <2>7
    <2>2. chars[i + n + 1] = Hyphen
        BY <2>1, <2>6
    <2>3. \A k \in 1..1 : chars[i + n + k] \in {Space, Hyphen}
        BY <1>6, <2>2
    <2>4. chars[i + n + 1 + 1] \in Digit
        BY <1>3, <2>1, <2>6
    <2> QED
        BY <1>4, <1>5, <2>1, <2>3, <2>4, <2>5, StarCovers
<1>10. Covers(chars, plus, i, i + 2)
    <2> DEFINE a == <<Times({PlusSign}, 1, 1)>>
               b == <<Times({7}, 1, 1)>>
    <2>1. i + 1 \in 0..Len(chars) /\ i + 1 + 1 = i + 2 /\ i + 1 <= Len(chars) /\ i + 1 + 1 <= Len(chars)
          /\ 1 \in Nat /\ 1 <= 1
        BY <1>1
    <2>2. (\A k \in 1..1 : chars[i + k] \in {PlusSign}) /\ (\A k \in 1..1 : chars[i + 1 + k] \in {7})
        BY <1>6, <2>1
    <2>3. Covers(chars, a, i, i + 1)
        BY <1>4, <2>1, <2>2, CoversOne
    <2>4. Covers(chars, b, i + 1, i + 1 + 1)
        BY <1>4, <2>1, <2>2, CoversOne
    <2>5. plus = a \o b
        BY DEF One
    <2> HIDE DEF a, b
    <2> QED
        BY <2>1, <2>3, <2>4, <2>5, CoversBoth
<1>11. p = Then(<<plus, eight>>, <<r7>>)
    BY DEF Pattern, PhonePattern
<1>12. plus \in Seq(Items) /\ eight \in Seq(Items)
    <2>1. One(8) \in Items
        BY <1>4, Repetitions DEF One
    <2> QED
        BY <1>10, <2>1 DEF Covers
<1>13. /\ i + 4 + 3 = i + 7 /\ i + 9 + 3 = i + 12 /\ i + 12 + 1 = i + 13 /\ i + 13 + 2 = i + 15
       /\ i + 15 + 1 = i + 16 /\ i + 16 + 2 = i + 18
    BY <1>1
<1>14. /\ Covers(chars, Digits(3), i + 4, i + 7) /\ Covers(chars, Digits(3), i + 9, i + 12)
       /\ Covers(chars, Digits(2), i + 13, i + 15) /\ Covers(chars, Digits(2), i + 16, i + 18)
       /\ Covers(chars, gap, i + 12, i + 13) /\ Covers(chars, gap, i + 15, i + 16)
    <2> HIDE DEF gap
    <2>1. /\ Covers(chars, Digits(3), i + 4, i + 4 + 3) /\ Covers(chars, Digits(3), i + 9, i + 9 + 3)
          /\ Covers(chars, Digits(2), i + 13, i + 13 + 2) /\ Covers(chars, Digits(2), i + 16, i + 16 + 2)
          /\ Covers(chars, gap, i + 12, i + 12 + 1) /\ Covers(chars, gap, i + 15, i + 15 + 1)
        BY <1>2, <1>3, <1>9
    <2> QED
        BY <1>13, <2>1
<1> HIDE DEF gap, open, close, plus, eight, p
<1>15. Covers(chars, r1, i + 2, i + 7)
    BY <1>7, <1>14, CoversBoth
<1> HIDE DEF r1
<1>16. Covers(chars, r2, i + 2, i + 9)
    BY <1>8, <1>15, CoversBoth
<1> HIDE DEF r2
<1>17. Covers(chars, r3, i + 2, i + 12)
    BY <1>14, <1>16, CoversBoth
<1> HIDE DEF r3
<1>18. Covers(chars, r4, i + 2, i + 13)
    BY <1>14, <1>17, CoversBoth
<1> HIDE DEF r4
<1>19. Covers(chars, r5, i + 2, i + 15)
    BY <1>14, <1>18, CoversBoth
<1> HIDE DEF r5
<1>20. Covers(chars, r6, i + 2, i + 16)
    BY <1>14, <1>19, CoversBoth
<1> HIDE DEF r6
<1>21. Covers(chars, r7, i + 2, i + 18)
    BY <1>14, <1>20, CoversBoth
<1> HIDE DEF r7
<1>22. Covers(chars, plus \o r7, i, i + 18)
    BY <1>10, <1>21, CoversBoth
<1> DEFINE ps == <<plus, eight>>
           qs == <<r7>>
<1>23. ps \in Patterns /\ Len(ps) = 2 /\ qs \in Patterns /\ Len(qs) = 1 /\ ps[1] = plus /\ qs[1] = r7
    BY <1>12, <1>21, Alternatives DEF Covers
<1>24. p = Then(ps, qs)
    BY <1>11
<1> HIDE DEF ps, qs
<1>25. p[1] = plus \o r7 /\ 1 \in DOMAIN p
    <2>1. Len(qs) \in {1, 2, 3} /\ 1 \in 1..Len(ps) /\ 1 \in 1..Len(qs) /\ (1 - 1) * Len(qs) + 1 = 1
        BY <1>23
    <2>2. Then(ps, qs)[(1 - 1) * Len(qs) + 1] = ps[1] \o qs[1]
        BY <1>23, <2>1, ThenAt
    <2>3. p \in Patterns /\ Len(p) = 2 * 1
        BY <1>23, <1>24, <2>1, ThenIs
    <2>4. DOMAIN p = 1..2
        BY <2>3, LenProperties DEF Patterns
    <2> QED
        BY <1>23, <1>24, <2>1, <2>2, <2>4
<1>26. \A l \in 1..1 - 1 : Misses(chars, p[l], i)
    <2>1. \A l \in 1..1 - 1 : FALSE
        OBVIOUS
    <2> QED
        BY <2>1
<1>27. "phone" \in Regexes
    BY DEF Regexes
<1> QED
    BY <1>22, <1>25, <1>26, <1>27, FirstCovers DEF p

-----------------------------------------------------------------------------
\* A passport without a label, its series in two parts ...
LEMMA SpacedPassportFound ==
    ASSUME NEW chars \in Seq(Int), NEW i \in 0..Len(chars),
           AreDigits(chars, i, 2), AreDigits(chars, i + 3, 2), AreDigits(chars, i + 6, 6),
           chars[i + 3] = Space, chars[i + 6] = Space
    PROVE  MatchAt(chars, "passport", i) = i + 12
<1>1. Len(chars) \in Nat /\ i \in Nat
    BY LenProperties
<1>2. i + 2 + 1 = i + 3 /\ i + 5 + 1 = i + 6 /\ i + 11 + 1 = i + 12
    BY <1>1
<1>3. 1 \in {0, 1}
    OBVIOUS
<1>4. MatchAt(chars, "passport", i) = i + 11 + 1
    BY <1>2, <1>3, PassportFound
<1> QED
    BY <1>2, <1>4

\* ... or in one.
LEMMA BarePassportFound ==
    ASSUME NEW chars \in Seq(Int), NEW i \in 0..Len(chars),
           AreDigits(chars, i, 4), AreDigits(chars, i + 5, 6), chars[i + 5] = Space
    PROVE  MatchAt(chars, "passport", i) = i + 11
<1>1. Len(chars) \in Nat /\ i \in Nat
    BY LenProperties
<1>2. i + 2 + 0 = i + 2 /\ i + 5 + 0 = i + 5 /\ i + 11 + 0 = i + 11
    BY <1>1
<1>3. AreDigits(chars, i, 2) /\ AreDigits(chars, i + 2, 2)
    <2>1. \A n \in 1..2 : n \in 1..4 /\ n + 2 \in 1..4 /\ i + 2 + n = i + (n + 2)
        BY <1>1
    <2>2. i + 4 <= Len(chars) /\ \A n \in 1..4 : chars[i + n] \in Digit
        BY DEF AreDigits
    <2>3. \A n \in 1..2 : chars[i + n] \in Digit /\ chars[i + 2 + n] \in Digit
        BY <2>1, <2>2
    <2>4. i + 2 <= Len(chars) /\ i + 2 + 2 <= Len(chars)
        BY <1>1, <2>2
    <2> QED
        BY <2>3, <2>4 DEF AreDigits
<1>4. 0 \in {0, 1} /\ 0 # 1
    OBVIOUS
<1>5. MatchAt(chars, "passport", i) = i + 11 + 0
    BY <1>2, <1>3, <1>4, PassportFound
<1> QED
    BY <1>2, <1>5

-----------------------------------------------------------------------------
\* Elements in front that Among leaves out make no difference.
LEMMA AmongBehind ==
    ASSUME NEW X, NEW s \in Seq(X), NEW S, NEW m \in 0..Len(s), \A k \in 1..m : s[k] \notin S
    PROVE  Among(s, S) = Among(SubSeq(s, m + 1, Len(s)), S)
<1> DEFINE n == Len(s)
           r == SubSeq(s, m + 1, n)
<1>1. n \in Nat /\ m \in 0..n /\ \A k \in 1..n : s[k] \in X
    BY LenProperties
<1>2. r \in Seq(X) /\ Len(r) = n - m /\ \A k \in 1..n - m : r[k] = s[m + k]
    <2>1. m + 1 \in Int /\ n \in Int /\ \A k \in m + 1..n : s[k] \in X
        BY <1>1
    <2>2. /\ r \in Seq(X) /\ Len(r) = IF m + 1 <= n THEN n - (m + 1) + 1 ELSE 0
          /\ \A k \in 1..n - (m + 1) + 1 : r[k] = s[m + 1 + k - 1]
        BY <2>1, SubSeqProperties
    <2>3. /\ n - (m + 1) + 1 = n - m /\ (~(m + 1 <= n) => n - m = 0)
          /\ \A k \in 1..n - m : m + 1 + k - 1 = m + k
        BY <1>1
    <2> HIDE DEF r, n
    <2> QED
        BY <1>1, <2>2, <2>3
<1>3. PICK g : Takes(g, X, s, S) /\ Among(s, S) = g[n]
    BY AmongSteps
<1> HIDE DEF r
<1>4. PICK h : Takes(h, X, r, S) /\ Among(r, S) = h[n - m]
    BY <1>2, AmongSteps
<1>5. g[0] = <<>> /\ \A k \in 1..n : g[k] = IF s[k] \in S THEN Append(g[k - 1], s[k]) ELSE g[k - 1]
    BY <1>3 DEF Takes
<1>6. h[0] = <<>> /\ \A k \in 1..n - m : h[k] = IF r[k] \in S THEN Append(h[k - 1], r[k]) ELSE h[k - 1]
    BY <1>2, <1>4 DEF Takes
<1> HIDE DEF n
<1> DEFINE T == {k \in 0..m : g[k] = <<>>}
<1>7. m \in T
    <2>1. 0 \in T
        BY <1>1, <1>5
    <2>2. ASSUME NEW k \in 1..m, k - 1 \in T
          PROVE  k \in T
        <3>1. k \in 1..n /\ k \in 0..m /\ s[k] \notin S
            BY <1>1
        <3> QED
            BY <1>5, <2>2, <3>1
    <2> HIDE DEF T
    <2>4. m \in Nat
        BY <1>1
    <2>3. 0..m \subseteq T
        BY <2>1, <2>2, <2>4, Induct
    <2> QED
        BY <2>3, <2>4
<1> DEFINE U == {k \in 0..n - m : g[m + k] = h[k]}
<1>8. n - m \in U
    <2>1. 0 \in U
        BY <1>1, <1>6, <1>7
    <2>2. ASSUME NEW k \in 1..n - m, k - 1 \in U
          PROVE  k \in U
        <3>1. m + k \in 1..n /\ (m + k) - 1 = m + (k - 1) /\ k \in 0..n - m
            BY <1>1
        <3>2. g[(m + k) - 1] = h[k - 1] /\ s[m + k] = r[k]
            BY <1>2, <2>2, <3>1
        <3>3. g[m + k] = IF s[m + k] \in S THEN Append(g[(m + k) - 1], s[m + k]) ELSE g[(m + k) - 1]
            BY <1>5, <3>1
        <3>4. h[k] = IF r[k] \in S THEN Append(h[k - 1], r[k]) ELSE h[k - 1]
            BY <1>6
        <3> QED
            BY <3>1, <3>2, <3>3, <3>4
    <2> HIDE DEF U
    <2>4. n - m \in Nat
        BY <1>1
    <2>3. 0..n - m \subseteq U
        BY <2>1, <2>2, <2>4, Induct
    <2> QED
        BY <2>3, <2>4
<1>9. g[n] = h[n - m]
    <2>1. m + (n - m) = n
        BY <1>1
    <2> QED
        BY <1>8, <2>1
<1> QED
    BY <1>3, <1>4, <1>9 DEF r, n

\* So the digits of a match are those behind a label, or other characters,
\* that has none.
LEMMA DigitsBehind ==
    ASSUME NEW chars \in Seq(Int), NEW m, NEW i, m.start \in 0..Len(chars), m.stop \in 0..Len(chars),
           i \in m.start..m.stop, \A c \in m.start + 1..i : chars[c] \notin Digit
    PROVE  DigitsOf(chars, m) = DigitsOf(chars, [start |-> i, stop |-> m.stop])
<1> DEFINE a == m.start
           b == m.stop
           s == SubSeq(chars, a + 1, b)
           t == SubSeq(chars, i + 1, b)
           u == SubSeq(s, (i - a) + 1, Len(s))
<1>1. /\ Len(chars) \in Nat /\ a \in 0..Len(chars) /\ b \in 0..Len(chars) /\ i \in a..b
      /\ \A c \in 1..Len(chars) : chars[c] \in Int
      /\ \A c \in a + 1..i : chars[c] \notin Digit
    BY LenProperties
<1> HIDE DEF a, b
<1>2. ASSUME NEW j \in a..b
      PROVE  LET r == SubSeq(chars, j + 1, b)
             IN  r \in Seq(Int) /\ Len(r) = b - j /\ \A k \in 1..b - j : r[k] = chars[j + k]
    <2> DEFINE r == SubSeq(chars, j + 1, b)
    <2>1. j + 1 \in Int /\ b \in Int /\ \A c \in j + 1..b : chars[c] \in Int
        BY <1>1
    <2>2. /\ r \in Seq(Int) /\ Len(r) = IF j + 1 <= b THEN b - (j + 1) + 1 ELSE 0
          /\ \A k \in 1..b - (j + 1) + 1 : r[k] = chars[j + 1 + k - 1]
        BY <2>1, SubSeqProperties
    <2>3. /\ b - (j + 1) + 1 = b - j /\ (~(j + 1 <= b) => b - j = 0)
          /\ \A k \in 1..b - j : j + 1 + k - 1 = j + k
        BY <1>1
    <2> HIDE DEF r
    <2> QED
        BY <2>2, <2>3 DEF r
<1>3. s \in Seq(Int) /\ Len(s) = b - a /\ \A k \in 1..b - a : s[k] = chars[a + k]
    BY <1>1, <1>2
<1>4. t \in Seq(Int) /\ Len(t) = b - i /\ \A k \in 1..b - i : t[k] = chars[i + k]
    BY <1>1, <1>2
<1> HIDE DEF s, t
<1>5. u \in Seq(Int) /\ Len(u) = b - i /\ \A k \in 1..b - i : u[k] = s[(i - a) + k]
    <2> DEFINE l == Len(s)
    <2>0. l = b - a
        BY <1>3
    <2> HIDE DEF l
    <2>1. (i - a) + 1 \in Int /\ l \in Int /\ \A c \in (i - a) + 1..l : s[c] \in Int
        BY <1>1, <1>3, <2>0, LenProperties
    <2>2. /\ SubSeq(s, (i - a) + 1, l) \in Seq(Int)
          /\ Len(SubSeq(s, (i - a) + 1, l)) = IF (i - a) + 1 <= l THEN l - ((i - a) + 1) + 1 ELSE 0
          /\ \A k \in 1..l - ((i - a) + 1) + 1 :
                SubSeq(s, (i - a) + 1, l)[k] = s[(i - a) + 1 + k - 1]
        BY <2>1, SubSeqProperties
    <2>3. /\ l - ((i - a) + 1) + 1 = b - i /\ (~((i - a) + 1 <= l) => b - i = 0)
          /\ \A k \in 1..b - i : (i - a) + 1 + k - 1 = (i - a) + k
        BY <1>1, <2>0
    <2>4. u = SubSeq(s, (i - a) + 1, l)
        BY DEF l
    <2> HIDE DEF u
    <2> QED
        BY <2>2, <2>3, <2>4
<1>6. u = t
    <2>1. \A k \in 1..b - i : (i - a) + k \in 1..b - a /\ a + ((i - a) + k) = i + k
        BY <1>1
    <2>2. \A k \in 1..b - i : u[k] = t[k]
        BY <1>3, <1>4, <1>5, <2>1
    <2> HIDE DEF u
    <2> QED
        BY <1>4, <1>5, <2>2, SeqEqual
<1>7. i - a \in 0..Len(s) /\ \A k \in 1..i - a : s[k] \notin Digit
    <2>1. \A k \in 1..i - a : k \in 1..b - a /\ a + k \in a + 1..i
        BY <1>1
    <2>2. \A k \in 1..i - a : s[k] \notin Digit
        BY <1>1, <1>3, <2>1
    <2>3. i - a \in 0..b - a
        BY <1>1
    <2> QED
        BY <1>3, <2>2, <2>3
<1>8. Among(s, Digit) = Among(u, Digit)
    BY <1>3, <1>7, AmongBehind
<1> QED
    BY <1>6, <1>8 DEF DigitsOf, s, t, a, b

-----------------------------------------------------------------------------
\* What a match has taken.  Of two groups, both, the second where the first
\* ends; ...
LEMMA BothTaken ==
    ASSUME NEW chars \in Seq(Int), NEW p \in Seq(Items), NEW q \in Seq(Items), NEW i, NEW k,
           Covers(chars, p \o q, i, k)
    PROVE  \E j \in i..k : Covers(chars, p, i, j) /\ Covers(chars, q, j, k)
<1> DEFINE L == Len(chars)
           j == StopOf(chars, p, i)
<1>1. i \in 0..L /\ k \in 0..L /\ L \in Nat /\ StopOf(chars, p \o q, i) = k
    BY LenProperties DEF Covers
<1>2. k # NoMatch
    BY <1>1 DEF NoMatch
<1>3. j # NoMatch /\ StopOf(chars, q, j) = k
    BY <1>1, <1>2, StopAfter
<1>4. j \in i..L
    BY <1>1, <1>3, StopLies
<1>a. StopOf(chars, p, i) = j
    OBVIOUS
<1> HIDE DEF j, L
<1>5. j \in 0..L
    BY <1>1, <1>4
<1>6. k \in j..L
    <2>1. StopOf(chars, q, j) \in {NoMatch} \cup (j..Len(chars))
        BY <1>5, StopLies DEF L
    <2> QED
        BY <1>2, <1>3, <2>1 DEF L
<1>7. j \in i..k
    BY <1>1, <1>4, <1>6
<1>8. Covers(chars, p, i, j) /\ Covers(chars, q, j, k)
    BY <1>1, <1>3, <1>5, <1>a DEF Covers, L
<1> QED
    BY <1>7, <1>8

\* ... of a class, as many of its characters as it may; ...
LEMMA ItemTaken ==
    ASSUME NEW chars \in Seq(Int), NEW class \in SUBSET Known, NEW least \in Nat, NEW most \in Nat,
           NEW i, NEW k, Covers(chars, <<Times(class, least, most)>>, i, k)
    PROVE  /\ i + least <= k /\ k <= i + most
           /\ \A c \in i + 1..k : chars[c] \in class
<1> DEFINE item == Times(class, least, most)
<1>1. item \in Items /\ item.least = least /\ item.most = most /\ item.class = class
    BY Repetitions DEF Times
<1> HIDE DEF item
<1>2. i \in 0..Len(chars) /\ k \in 0..Len(chars) /\ StopOf(chars, <<item>>, i) = k
    BY DEF Covers, item
<1>3. StopOf(chars, <<item>>, i) # NoMatch
    BY <1>2, LenProperties DEF NoMatch
<1> QED
    BY <1>1, <1>2, <1>3, ItemTakes

\* ... of n digits, n; ...
LEMMA DigitsTaken ==
    ASSUME NEW chars \in Seq(Int), NEW n \in Nat \ {0}, NEW i, NEW k, Covers(chars, Digits(n), i, k)
    PROVE  i \in Nat /\ k = i + n /\ AreDigits(chars, i, n)
<1>1. i \in 0..Len(chars) /\ k \in 0..Len(chars) /\ Len(chars) \in Nat
    BY LenProperties DEF Covers
<1>2. i + n <= k /\ k <= i + n /\ \A c \in i + 1..k : chars[c] \in Digit
    <2>1. Covers(chars, <<Times(Digit, n, n)>>, i, k) /\ Digit \in SUBSET Known
        BY Chars DEF Digits
    <2> QED
        BY <2>1, ItemTaken
<1>3. k = i + n
    BY <1>1, <1>2
<1>4. \A c \in 1..n : i + c \in i + 1..k
    BY <1>1, <1>3
<1> QED
    BY <1>1, <1>2, <1>3, <1>4 DEF AreDigits

\* ... of a label, no digit; ...
LEMMA LabelTaken ==
    ASSUME NEW chars \in Seq(Int), NEW word \in Known \ Digit, NEW a \in 1..2, NEW i, NEW k,
           Covers(chars, Labelled(word)[a], i, k)
    PROVE  \A c \in i + 1..k : chars[c] \notin Digit
<1> DEFINE D == DigitsIn(chars, i, k)
           p == Labelled(word)[a]
<1>1. i \in 0..Len(chars) /\ k \in 0..Len(chars) /\ Len(chars) \in Nat /\ StopOf(chars, p, i) = k
    BY LenProperties DEF Covers
<1>2. Digital(chars, p, 0)
    BY LabelDigits
<1> HIDE DEF p
<1>3. k # NoMatch
    BY <1>1 DEF NoMatch
<1>4. Cardinality(D) = 0
    BY <1>1, <1>2, <1>3 DEF Digital
<1>5. IsFiniteSet(D)
    <2>1. i + 1 \in Int /\ k \in Int
        BY <1>1
    <2>2. IsFiniteSet(i + 1..k) /\ D \subseteq i + 1..k
        BY <2>1, FS_Interval DEF DigitsIn
    <2> HIDE DEF D
    <2> QED
        BY <2>2, FS_Subset
<1>6. D = {}
    <2> HIDE DEF D
    <2> QED
        BY <1>4, <1>5, FS_EmptySet
<1> QED
    BY <1>6 DEF DigitsIn

\* ... of a word, it and the space behind it.
LEMMA WordTaken ==
    ASSUME NEW chars \in Seq(Int), NEW word \in Known, NEW i, NEW k, Covers(chars, Word(word), i, k)
    PROVE  chars[i + 1] = word /\ \A c \in i + 2..k : chars[c] = Space
<1> DEFINE a == <<Times({word}, 1, 1)>>
           b == <<Times({Space}, 1, Many)>>
<1>1. {word} \in SUBSET Known /\ {Space} \in SUBSET Known /\ Many \in Nat /\ 1 \in Nat
    BY Chars
<1>2. a \in Seq(Items) /\ b \in Seq(Items)
    BY <1>1, Repetitions
<1>3. Word(word) = a \o b
    BY DEF Word, One
<1>4. i \in Nat
    BY LenProperties DEF Covers
<1> HIDE DEF a, b
<1>5. PICK j \in i..k : Covers(chars, a, i, j) /\ Covers(chars, b, j, k)
    BY <1>2, <1>3, BothTaken
<1>6. i + 1 <= j /\ j <= i + 1 /\ \A c \in i + 1..j : chars[c] \in {word}
    BY <1>1, <1>5, ItemTaken DEF a
<1>7. \A c \in j + 1..k : chars[c] \in {Space}
    BY <1>1, <1>5, ItemTaken DEF b
<1>8. j = i + 1 /\ i + 1 \in i + 1..j /\ j + 1 = i + 2
    BY <1>4, <1>5, <1>6
<1>9. \A c \in i + 2..k : chars[c] \in {Space}
    BY <1>7, <1>8
<1> QED
    BY <1>6, <1>8, <1>9

\* A match is what its alternative takes.
LEMMA MatchCovers ==
    ASSUME NEW chars \in Seq(Int), NEW x \in Regexes, NEW i \in 0..Len(chars), MatchAt(chars, x, i) # NoMatch
    PROVE  \E k \in DOMAIN Pattern(x) :
               /\ Covers(chars, Pattern(x)[k], i, MatchAt(chars, x, i))
               /\ \A j \in 1..k - 1 : StopOf(chars, Pattern(x)[j], i) = NoMatch
<1> DEFINE p == Pattern(x)
           s == MatchAt(chars, x, i)
<1>1. PICK k \in DOMAIN p : s = StopOf(chars, p[k], i) /\ \A j \in 1..k - 1 : StopOf(chars, p[j], i) = NoMatch
    BY MatchIs
<1>2. s \in {NoMatch} \cup (i + 1..Len(chars))
    BY MatchIs
<1>3. p \in Seq(Seq(Items))
    BY PatternIs DEF Patterns
<1> HIDE DEF p, s
<1>4. p[k] \in Seq(Items)
    BY <1>1, <1>3, LenProperties
<1>5. s \in 0..Len(chars)
    BY <1>2, LenProperties DEF s
<1>6. Covers(chars, p[k], i, s)
    BY <1>1, <1>4, <1>5 DEF Covers
<1> QED
    BY <1>1, <1>6 DEF p, s

-----------------------------------------------------------------------------
\* An INN's match: a label, or nothing, and ten digits.
LEMMA InnTaken ==
    ASSUME NEW chars \in Seq(Int), NEW i \in 0..Len(chars), MatchAt(chars, "inn", i) # NoMatch
    PROVE  \E l \in i..MatchAt(chars, "inn", i) :
               /\ \A c \in i + 1..l : chars[c] \notin Digit
               /\ AreDigits(chars, l, 10)
               /\ MatchAt(chars, "inn", i) = l + 10
<1> DEFINE p == Pattern("inn")
           lab == Labelled(Inn)
           s == MatchAt(chars, "inn", i)
           ten == Digits(10)
           twelve == Digits(12)
<1>1. ten \in Seq(Items) /\ twelve \in Seq(Items)
    BY DigitsIs
<1>2. Inn \in Known \ Digit
    BY DEF Inn, Known, Other, Digit
<1>3. /\ DOMAIN p = 1..4
      /\ p[1] = lab[1] \o ten /\ p[2] = lab[1] \o twelve
      /\ p[3] = lab[2] \o ten /\ p[4] = lab[2] \o twelve
      /\ \A a \in 1..2 : lab[a] \in Seq(Items)
    BY InnAre
<1>4. PICK k \in DOMAIN p : Covers(chars, p[k], i, s) /\ \A j \in 1..k - 1 : StopOf(chars, p[j], i) = NoMatch
    <2>1. "inn" \in Regexes
        BY DEF Regexes
    <2> QED
        BY <2>1, MatchCovers
<1>5. ASSUME NEW a \in 1..2, NEW l, Covers(chars, lab[a], i, l)
      PROVE  \A c \in i + 1..l : chars[c] \notin Digit
    BY <1>2, <1>5, LabelTaken
<1> HIDE DEF p, lab, s, ten, twelve
<1>6. ASSUME NEW a \in 1..2, Covers(chars, lab[a] \o ten, i, s)
      PROVE  \E l \in i..s : /\ \A c \in i + 1..l : chars[c] \notin Digit
                             /\ AreDigits(chars, l, 10)
                             /\ s = l + 10
    <2>1. PICK l \in i..s : Covers(chars, lab[a], i, l) /\ Covers(chars, ten, l, s)
        BY <1>1, <1>3, <1>6, BothTaken
    <2>2. s = l + 10 /\ AreDigits(chars, l, 10)
        BY <2>1, DigitsTaken DEF ten
    <2> QED
        BY <1>5, <2>1, <2>2
<1>7. ASSUME NEW a \in 1..2, Covers(chars, lab[a] \o twelve, i, s)
      PROVE  StopOf(chars, lab[a] \o ten, i) # NoMatch
    <2>1. PICK l \in i..s : Covers(chars, lab[a], i, l) /\ Covers(chars, twelve, l, s)
        BY <1>1, <1>3, <1>7, BothTaken
    <2>2. l \in Nat /\ AreDigits(chars, l, 12)
        BY <2>1, DigitsTaken DEF twelve
    <2>3. l \in 0..Len(chars)
        BY <2>1 DEF Covers
    <2>4. AreDigits(chars, l, 10)
        <3>1. l + 12 <= Len(chars) /\ \A c \in 1..12 : chars[l + c] \in Digit
            BY <2>2 DEF AreDigits
        <3>2. l + 10 <= Len(chars) /\ \A c \in 1..10 : c \in 1..12
            BY <2>2, <3>1, LenProperties
        <3> QED
            BY <3>1, <3>2 DEF AreDigits
    <2>5. Covers(chars, ten, l, l + 10)
        BY <2>3, <2>4, DigitsCover DEF ten
    <2>6. Covers(chars, lab[a] \o ten, i, l + 10)
        BY <2>1, <2>5, CoversBoth
    <2> QED
        BY <2>2, <2>6 DEF Covers, NoMatch
<1>8. 1 \in 1..2 /\ 2 \in 1..2 /\ 1 \in 1..2 - 1 /\ 3 \in 1..4 - 1
    OBVIOUS
<1>9. CASE k = 1 \/ k = 3
    <2>1. \E a \in 1..2 : Covers(chars, lab[a] \o ten, i, s)
        BY Zenon, <1>3, <1>4, <1>8, <1>9
    <2> QED
        BY <1>6, <2>1 DEF s
<1>10. CASE k = 2
    <2>1. StopOf(chars, p[1], i) = NoMatch /\ Covers(chars, lab[1] \o twelve, i, s)
        BY <1>3, <1>4, <1>8, <1>10
    <2> QED
        BY Zenon, <1>3, <1>7, <1>8, <2>1
<1>11. CASE k = 4
    <2>1. StopOf(chars, p[3], i) = NoMatch /\ Covers(chars, lab[2] \o twelve, i, s)
        BY <1>3, <1>4, <1>8, <1>11
    <2> QED
        BY Zenon, <1>3, <1>7, <1>8, <2>1
<1> QED
    BY <1>3, <1>4, <1>9, <1>10, <1>11

\* So a number it is taken for has ten digits, although the pattern knows
\* numbers of twelve.
LEMMA InnHasTen ==
    ASSUME NEW chars \in Seq(Int), NEW i \in 0..Len(chars), MatchAt(chars, "inn", i) # NoMatch
    PROVE  Cardinality(DigitsIn(chars, i, MatchAt(chars, "inn", i))) = 10
<1> DEFINE s == MatchAt(chars, "inn", i)
<1>1. PICK l \in i..s : /\ \A c \in i + 1..l : chars[c] \notin Digit
                        /\ AreDigits(chars, l, 10)
                        /\ s = l + 10
    BY InnTaken
<1> HIDE DEF s
<1>2. i \in Nat /\ l \in Nat /\ i <= l
    BY LenProperties
<1>3. DigitsIn(chars, i, s) = l + 1..l + 10
    <2>1. \A c \in i + 1..s : c \in i + 1..l \/ c \in l + 1..l + 10
        BY <1>1, <1>2
    <2>2. \A c \in l + 1..l + 10 : c \in i + 1..s /\ c - l \in 1..10 /\ l + (c - l) = c
        BY <1>1, <1>2
    <2>3. \A c \in l + 1..l + 10 : chars[c] \in Digit
        <3> SUFFICES ASSUME NEW c \in l + 1..l + 10 PROVE chars[c] \in Digit
            OBVIOUS
        <3>1. chars[l + (c - l)] \in Digit
            BY <1>1, <2>2 DEF AreDigits
        <3> QED
            BY <2>2, <3>1
    <2> QED
        BY <1>1, <2>1, <2>2, <2>3 DEF DigitsIn
<1>4. Cardinality(l + 1..l + 10) = 10
    <2>1. l + 1 \in Int /\ l + 10 \in Int /\ ~(l + 1 > l + 10) /\ l + 10 - (l + 1) + 1 = 10
        BY <1>2
    <2> QED
        BY <2>1, FS_Interval
<1> QED
    BY <1>3, <1>4 DEF s

\* A match that comes over the beginning of ten digits, or begins there, ends
\* where they do: it starts with a label that is not theirs; ...
LEMMA InnOver ==
    ASSUME NEW chars \in Seq(Int), NEW j \in 0..Len(chars), NEW i \in Nat,
           MatchAt(chars, "inn", j) # NoMatch, j <= i, i < MatchAt(chars, "inn", j),
           AreDigits(chars, i, 10), i > 0 => chars[i] \notin Digit
    PROVE  MatchAt(chars, "inn", j) = i + 10 /\ \A c \in j + 1..i : chars[c] \notin Digit
<1> DEFINE s == MatchAt(chars, "inn", j)
<1>1. PICK l \in j..s : /\ \A c \in j + 1..l : chars[c] \notin Digit
                        /\ AreDigits(chars, l, 10)
                        /\ s = l + 10
    BY InnTaken
<1>2. i < s /\ j <= i
    OBVIOUS
<1> HIDE DEF s
<1>3. j \in Nat /\ l \in Nat
    BY LenProperties
<1>4. ~(i < l)
    <2> SUFFICES ASSUME i < l PROVE FALSE
        OBVIOUS
    <2>1. i + 1 \in j + 1..l /\ 1 \in 1..10
        BY <1>1, <1>2, <1>3
    <2> QED
        BY <1>1, <2>1 DEF AreDigits
<1>5. ~(i > l)
    <2> SUFFICES ASSUME i > l PROVE FALSE
        OBVIOUS
    <2>1. i - l \in 1..10 /\ l + (i - l) = i /\ i > 0
        BY <1>1, <1>2, <1>3
    <2>2. chars[l + (i - l)] \in Digit
        BY <1>1, <2>1 DEF AreDigits
    <2> QED
        BY <2>1, <2>2
<1>6. i = l
    BY <1>3, <1>4, <1>5
<1> QED
    BY <1>1, <1>6 DEF s

\* ... and none ends where twelve digits do.
LEMMA InnNeverTwelve ==
    ASSUME NEW chars \in Seq(Int), NEW j \in 0..Len(chars), NEW i \in Nat,
           MatchAt(chars, "inn", j) # NoMatch, j <= i, MatchAt(chars, "inn", j) = i + 12,
           AreDigits(chars, i, 12)
    PROVE  FALSE
<1> DEFINE s == MatchAt(chars, "inn", j)
<1>1. PICK l \in j..s : /\ \A c \in j + 1..l : chars[c] \notin Digit
                        /\ AreDigits(chars, l, 10)
                        /\ s = l + 10
    BY InnTaken
<1>2. s = i + 12 /\ j <= i
    OBVIOUS
<1> HIDE DEF s
<1>3. j \in Nat /\ l \in Nat
    BY LenProperties
<1>4. i + 1 \in j + 1..l /\ 1 \in 1..12
    BY <1>1, <1>2, <1>3
<1> QED
    BY <1>1, <1>4 DEF AreDigits

-----------------------------------------------------------------------------
\* Digits between gaps: what the longer alternative for a SNILS takes.
IsGap(chars, i) == chars[i] \in {Space, Hyphen}

Grouped(chars, l) ==
    /\ AreDigits(chars, l, 3) /\ AreDigits(chars, l + 4, 3) /\ AreDigits(chars, l + 8, 3)
    /\ AreDigits(chars, l + 12, 2)
    /\ IsGap(chars, l + 4) /\ IsGap(chars, l + 8) /\ IsGap(chars, l + 12)

LEMMA LongTaken ==
    ASSUME NEW chars \in Seq(Int), NEW l, NEW s, Covers(chars, LongSnils, l, s)
    PROVE  l \in Nat /\ s = l + 14 /\ Grouped(chars, l)
<1> DEFINE gap == <<Times({Space, Hyphen}, 1, 1)>>
           d3 == Digits(3)
           d2 == Digits(2)
           r1 == d3 \o gap
           r2 == r1 \o d3
           r3 == r2 \o gap
           r4 == r3 \o d3
           r5 == r4 \o gap
           r6 == r5 \o d2
<1>1. gap \in Seq(Items) /\ d3 \in Seq(Items) /\ d2 \in Seq(Items)
    BY DigitsIs, LongIs
<1>2. LongSnils = r6
    BY DEF LongSnils
<1>3. ASSUME NEW i, NEW k, Covers(chars, d3, i, k)
      PROVE  i \in Nat /\ k = i + 3 /\ AreDigits(chars, i, 3)
    BY <1>3, DigitsTaken
<1>4. ASSUME NEW i, NEW k, Covers(chars, d2, i, k)
      PROVE  i \in Nat /\ k = i + 2 /\ AreDigits(chars, i, 2)
    BY <1>4, DigitsTaken
<1>5. ASSUME NEW i \in Nat, NEW k, Covers(chars, gap, i, k)
      PROVE  k = i + 1 /\ IsGap(chars, i + 1)
    <2>1. {Space, Hyphen} \in SUBSET Known /\ 1 \in Nat
        BY Chars
    <2>2. i + 1 <= k /\ k <= i + 1 /\ \A c \in i + 1..k : chars[c] \in {Space, Hyphen}
        BY <1>5, <2>1, ItemTaken
    <2>3. k \in Nat
        BY <1>5, LenProperties DEF Covers
    <2>4. k = i + 1 /\ i + 1 \in i + 1..k
        BY <2>2, <2>3
    <2> QED
        BY <2>2, <2>4 DEF IsGap
<1> HIDE DEF gap, d3, d2
<1>6. /\ r1 \in Seq(Items) /\ r2 \in Seq(Items) /\ r3 \in Seq(Items) /\ r4 \in Seq(Items)
      /\ r5 \in Seq(Items)
    BY <1>1, ConcatProperties
<1> HIDE DEF r5
<1>7. PICK c6 : Covers(chars, r5, l, c6) /\ Covers(chars, d2, c6, s)
    BY <1>1, <1>2, <1>6, BothTaken
<1> HIDE DEF r4
<1>8. PICK c5 : Covers(chars, r4, l, c5) /\ Covers(chars, gap, c5, c6)
    BY <1>1, <1>6, <1>7, BothTaken DEF r5
<1> HIDE DEF r3
<1>9. PICK c4 : Covers(chars, r3, l, c4) /\ Covers(chars, d3, c4, c5)
    BY <1>1, <1>6, <1>8, BothTaken DEF r4
<1> HIDE DEF r2
<1>10. PICK c3 : Covers(chars, r2, l, c3) /\ Covers(chars, gap, c3, c4)
    BY <1>1, <1>6, <1>9, BothTaken DEF r3
<1> HIDE DEF r1
<1>11. PICK c2 : Covers(chars, r1, l, c2) /\ Covers(chars, d3, c2, c3)
    BY <1>1, <1>6, <1>10, BothTaken DEF r2
<1>12. PICK c1 : Covers(chars, d3, l, c1) /\ Covers(chars, gap, c1, c2)
    BY <1>1, <1>6, <1>11, BothTaken DEF r1
<1>13. l \in Nat /\ c1 = l + 3 /\ AreDigits(chars, l, 3)
    BY <1>3, <1>12
<1>14. c2 = l + 4 /\ IsGap(chars, l + 4)
    BY <1>5, <1>12, <1>13
<1>15. c3 = l + 7 /\ AreDigits(chars, l + 4, 3)
    BY <1>3, <1>11, <1>13, <1>14
<1>16. c4 = l + 8 /\ IsGap(chars, l + 8)
    BY <1>5, <1>10, <1>13, <1>15
<1>17. c5 = l + 11 /\ AreDigits(chars, l + 8, 3)
    BY <1>3, <1>9, <1>13, <1>16
<1>18. c6 = l + 12 /\ IsGap(chars, l + 12)
    BY <1>5, <1>8, <1>13, <1>17
<1>19. s = l + 14 /\ AreDigits(chars, l + 12, 2)
    BY <1>4, <1>7, <1>13, <1>18
<1> QED
    BY <1>13, <1>14, <1>15, <1>16, <1>17, <1>18, <1>19 DEF Grouped

\* A SNILS's match: a label, or nothing, and eleven digits.
LEMMA SnilsTaken ==
    ASSUME NEW chars \in Seq(Int), NEW i \in 0..Len(chars), MatchAt(chars, "snils", i) # NoMatch
    PROVE  \E l \in i..MatchAt(chars, "snils", i) :
               /\ \A c \in i + 1..l : chars[c] \notin Digit
               /\ \/ AreDigits(chars, l, 11) /\ MatchAt(chars, "snils", i) = l + 11
                  \/ Grouped(chars, l) /\ MatchAt(chars, "snils", i) = l + 14
<1> DEFINE p == Pattern("snils")
           lab == Labelled(Snils)
           s == MatchAt(chars, "snils", i)
           short == Digits(11)
<1>1. short \in Seq(Items) /\ LongSnils \in Seq(Items)
    BY DigitsIs, LongIs
<1>2. Snils \in Known \ Digit
    BY DEF Snils, Known, Other, Digit
<1>3. /\ DOMAIN p = 1..4
      /\ p[1] = lab[1] \o LongSnils /\ p[2] = lab[1] \o short
      /\ p[3] = lab[2] \o LongSnils /\ p[4] = lab[2] \o short
      /\ \A a \in 1..2 : lab[a] \in Seq(Items)
    BY SnilsAre
<1>4. PICK k \in DOMAIN p : Covers(chars, p[k], i, s)
    <2>1. "snils" \in Regexes
        BY DEF Regexes
    <2> QED
        BY <2>1, MatchCovers
<1>5. ASSUME NEW a \in 1..2, NEW l, Covers(chars, lab[a], i, l)
      PROVE  \A c \in i + 1..l : chars[c] \notin Digit
    BY <1>2, <1>5, LabelTaken
<1>6. ASSUME NEW l, Covers(chars, short, l, s)
      PROVE  AreDigits(chars, l, 11) /\ s = l + 11
    BY <1>6, DigitsTaken
<1> HIDE DEF p, lab, s, short
<1>7. 1 \in 1..2 /\ 2 \in 1..2
    OBVIOUS
<1>8. \E a \in 1..2 : Covers(chars, lab[a] \o LongSnils, i, s) \/ Covers(chars, lab[a] \o short, i, s)
    <2>1. CASE k = 1
        BY Zenon, <1>3, <1>4, <1>7, <2>1
    <2>2. CASE k = 2
        BY Zenon, <1>3, <1>4, <1>7, <2>2
    <2>3. CASE k = 3
        BY Zenon, <1>3, <1>4, <1>7, <2>3
    <2>4. CASE k = 4
        BY Zenon, <1>3, <1>4, <1>7, <2>4
    <2> QED
        BY <1>3, <1>4, <2>1, <2>2, <2>3, <2>4
<1>9. PICK a \in 1..2 : Covers(chars, lab[a] \o LongSnils, i, s) \/ Covers(chars, lab[a] \o short, i, s)
    BY <1>8
<1>10. lab[a] \in Seq(Items)
    BY <1>3
<1>11. CASE Covers(chars, lab[a] \o LongSnils, i, s)
    <2>1. PICK l \in i..s : Covers(chars, lab[a], i, l) /\ Covers(chars, LongSnils, l, s)
        BY <1>1, <1>10, <1>11, BothTaken
    <2>2. s = l + 14 /\ Grouped(chars, l)
        BY <2>1, LongTaken
    <2> QED
        BY <1>5, <2>1, <2>2 DEF s
<1>12. CASE Covers(chars, lab[a] \o short, i, s)
    <2>1. PICK l \in i..s : Covers(chars, lab[a], i, l) /\ Covers(chars, short, l, s)
        BY <1>1, <1>10, <1>12, BothTaken
    <2>2. AreDigits(chars, l, 11) /\ s = l + 11
        BY <1>6, <2>1
    <2> QED
        BY <1>5, <2>1, <2>2 DEF s
<1> QED
    BY <1>9, <1>11, <1>12

\* One that comes over the beginning of a SNILS, or begins there, ends where
\* it does.
LEMMA SnilsOver ==
    ASSUME NEW chars \in Seq(Int), NEW j \in 0..Len(chars), NEW i \in Nat,
           MatchAt(chars, "snils", j) # NoMatch, j <= i, i < MatchAt(chars, "snils", j),
           i > 0 => chars[i] \notin Digit,
           i > 1 /\ IsGap(chars, i) => chars[i - 1] \notin Digit,
           NEW n, \/ n = 11 /\ AreDigits(chars, i, 11)
                  \/ n = 14 /\ Grouped(chars, i)
    PROVE  MatchAt(chars, "snils", j) = i + n /\ \A c \in j + 1..i : chars[c] \notin Digit
<1> DEFINE s == MatchAt(chars, "snils", j)
<1>1. PICK l \in j..s : /\ \A c \in j + 1..l : chars[c] \notin Digit
                        /\ \/ AreDigits(chars, l, 11) /\ s = l + 11
                           \/ Grouped(chars, l) /\ s = l + 14
    BY SnilsTaken
<1>2. i < s /\ j <= i
    OBVIOUS
<1> HIDE DEF s
<1>3. j \in Nat /\ l \in Nat
    BY LenProperties
<1>4. chars[i + 1] \in Digit
    <2>1. 1 \in 1..11 /\ 1 \in 1..3
        OBVIOUS
    <2> QED
        BY <2>1 DEF AreDigits, Grouped
<1>5. ~(i < l)
    <2> SUFFICES ASSUME i < l PROVE FALSE
        OBVIOUS
    <2>1. i + 1 \in j + 1..l
        BY <1>2, <1>3
    <2> QED
        BY <1>1, <1>4, <2>1
<1>6. ~(i > l)
    <2> SUFFICES ASSUME i > l PROVE FALSE
        OBVIOUS
    <2> DEFINE d == i - l
    <2>1. d \in Nat /\ d >= 1 /\ l + d = i /\ i > 0 /\ chars[i] \notin Digit
        BY <1>3
    <2>2. CASE AreDigits(chars, l, 11) /\ s = l + 11
        <3>1. d \in 1..11
            BY <1>2, <1>3, <2>2
        <3>2. chars[l + d] \in Digit
            BY <2>2, <3>1 DEF AreDigits
        <3> QED
            BY <2>1, <3>2
    <2>3. CASE Grouped(chars, l) /\ s = l + 14
        <3>1. d \in 1..13
            BY <1>2, <1>3, <2>3
        <3> HIDE DEF d
        <3>2. ASSUME NEW k \in {0, 4, 8}
              PROVE  /\ chars[l + k + 1] \in Digit /\ chars[l + k + 2] \in Digit /\ chars[l + k + 3] \in Digit
            <4>1. AreDigits(chars, l + k, 3) \/ k = 0
                BY <2>3 DEF Grouped
            <4>2. AreDigits(chars, l, 3) /\ l + 0 = l
                BY <1>3, <2>3 DEF Grouped
            <4>3. 1 \in 1..3 /\ 2 \in 1..3 /\ 3 \in 1..3
                OBVIOUS
            <4> QED
                BY <4>1, <4>2, <4>3 DEF AreDigits
        <3>3. /\ l + 0 + 1 = l + 1 /\ l + 0 + 2 = l + 2 /\ l + 0 + 3 = l + 3
              /\ l + 4 + 1 = l + 5 /\ l + 4 + 2 = l + 6 /\ l + 4 + 3 = l + 7
              /\ l + 8 + 1 = l + 9 /\ l + 8 + 2 = l + 10 /\ l + 8 + 3 = l + 11
              /\ l + 12 + 1 = l + 13
            BY <1>3
        <3>4. /\ chars[l + 1] \in Digit /\ chars[l + 2] \in Digit /\ chars[l + 3] \in Digit
              /\ chars[l + 5] \in Digit /\ chars[l + 6] \in Digit /\ chars[l + 7] \in Digit
              /\ chars[l + 9] \in Digit /\ chars[l + 10] \in Digit /\ chars[l + 11] \in Digit
            <4> HIDE <2>3
            <4>1. 0 \in {0, 4, 8} /\ 4 \in {0, 4, 8} /\ 8 \in {0, 4, 8}
                OBVIOUS
            <4> QED
                BY <3>2, <3>3, <4>1
        <3>5. chars[l + 13] \in Digit
            <4>1. 1 \in 1..2
                OBVIOUS
            <4> QED
                BY <2>3, <3>3, <4>1 DEF Grouped, AreDigits
        <3>6. d \in {4, 8, 12}
            <4>1. d \in {1, 2, 3, 5, 6, 7, 9, 10, 11, 13} \/ d \in {4, 8, 12}
                BY <3>1
            <4> QED
                BY <2>1, <3>4, <3>5, <4>1
        <3>7. IsGap(chars, i) /\ i > 1
            BY <1>3, <2>1, <2>3, <3>6 DEF Grouped
        <3>8. i - 1 \in {l + 3, l + 7, l + 11}
            BY <1>3, <2>1, <3>6
        <3> QED
            BY <3>4, <3>7, <3>8
    <2> QED
        BY <1>1, <2>2, <2>3
<1>7. i = l
    BY <1>3, <1>5, <1>6
<1>8. AreDigits(chars, l, 11) /\ Grouped(chars, l) => FALSE
    <2>1. 4 \in 1..11 /\ \A c \in Digit : c \notin {Space, Hyphen}
        BY DEF Digit, Space, Hyphen
    <2> QED
        BY <2>1 DEF AreDigits, Grouped, IsGap
<1> QED
    BY <1>1, <1>7, <1>8 DEF s

-----------------------------------------------------------------------------
\* Nothing, or one of some words and the space behind it.
Titled(chars, i, k, words) ==
    /\ i \in Nat /\ k \in Nat /\ i <= k
    /\ i # k => chars[i + 1] \in words
    /\ \A c \in i + 2..k : chars[c] = Space

LEMMA NothingTaken ==
    ASSUME NEW chars \in Seq(Int), NEW i, NEW k, Covers(chars, <<>>, i, k)
    PROVE  k = i /\ i \in Nat
<1>1. i \in 0..Len(chars) /\ Len(chars) \in Nat
    BY LenProperties DEF Covers
<1>2. Covers(chars, <<>>, i, i)
    BY <1>1, CoversNothing
<1> QED
    BY <1>1, <1>2 DEF Covers

LEMMA WordTitles ==
    ASSUME NEW chars \in Seq(Int), NEW word \in Known, NEW i, NEW k, NEW words, word \in words,
           Covers(chars, Word(word), i, k)
    PROVE  Titled(chars, i, k, words)
<1>1. chars[i + 1] = word /\ \A c \in i + 2..k : chars[c] = Space
    BY WordTaken
<1>2. i \in 0..Len(chars) /\ k \in 0..Len(chars) /\ Len(chars) \in Nat /\ Word(word) \in Seq(Items)
    BY LenProperties DEF Covers
<1>3. StopOf(chars, Word(word), i) \in {NoMatch} \cup (i..Len(chars)) /\ k # NoMatch
    BY <1>2, StopLies DEF NoMatch
<1>4. i <= k
    BY <1>2, <1>3 DEF Covers
<1> QED
    BY <1>1, <1>2, <1>4 DEF Titled

\* The passport's labels, ...
LEMMA PassportLabelTaken ==
    ASSUME NEW chars \in Seq(Int), NEW a \in 1..3, NEW i, NEW k, Covers(chars, PassportLabel[a], i, k)
    PROVE  Titled(chars, i, k, {Passport, Series})
<1>1. PassportLabel[1] = Word(Passport) /\ PassportLabel[2] = Word(Series) /\ PassportLabel[3] = <<>>
    BY PassportParts
<1>2. Passport \in Known /\ Series \in Known
    BY Chars
<1>3. CASE a = 1
    <2>1. Covers(chars, Word(Passport), i, k)
        BY <1>1, <1>3
    <2> QED
        BY <1>2, <2>1, WordTitles
<1>4. CASE a = 2
    <2>1. Covers(chars, Word(Series), i, k)
        BY <1>1, <1>4
    <2> QED
        BY <1>2, <2>1, WordTitles
<1>5. CASE a = 3
    <2>1. k = i /\ i \in Nat
        BY <1>1, <1>5, NothingTaken
    <2> QED
        BY <2>1 DEF Titled
<1> QED
    BY <1>3, <1>4, <1>5

LEMMA OneThenStar ==
    ASSUME NEW char, NEW class
    PROVE  <<One(char), Star({class})>> = <<Times({char}, 1, 1)>> \o <<Times({class}, 0, Many)>>
BY DEF One, Star

\* ... those of its number ...
LEMMA NumberLabelTaken ==
    ASSUME NEW chars \in Seq(Int), NEW b \in 1..3, NEW i, NEW k, Covers(chars, NumberLabel[b], i, k)
    PROVE  Titled(chars, i, k, {Number, NumeroSign})
<1> DEFINE u == <<Times({NumeroSign}, 1, 1)>>
           v == <<Times({Space}, 0, Many)>>
<1>1. /\ NumberLabel[1] = Word(Number) /\ NumberLabel[3] = <<>>
      /\ NumberLabel[2] = <<One(NumeroSign), Star({Space})>>
    BY PassportParts
<1>2. /\ Number \in Known /\ {NumeroSign} \in SUBSET Known /\ {Space} \in SUBSET Known
      /\ Many \in Nat /\ 0 \in Nat /\ 1 \in Nat
    BY Chars
<1>3. CASE b = 1
    <2>1. Covers(chars, Word(Number), i, k)
        BY <1>1, <1>3
    <2> QED
        BY <1>2, <2>1, WordTitles
<1>4. CASE b = 2
    <2>1. Covers(chars, u \o v, i, k)
        <3>1. u \o v = <<One(NumeroSign), Star({Space})>>
            BY OneThenStar
        <3> QED
            BY <1>1, <1>4, <3>1
    <2>2. u \in Seq(Items) /\ v \in Seq(Items)
        BY <1>2, Repetitions
    <2>3. i \in Nat /\ k \in Nat
        BY <2>1, LenProperties DEF Covers
    <2> HIDE DEF u, v
    <2>4. PICK j \in i..k : Covers(chars, u, i, j) /\ Covers(chars, v, j, k)
        BY <2>1, <2>2, BothTaken
    <2>5. i + 1 <= j /\ j <= i + 1 /\ \A c \in i + 1..j : chars[c] \in {NumeroSign}
        BY <1>2, <2>4, ItemTaken DEF u
    <2>6. \A c \in j + 1..k : chars[c] \in {Space}
        BY <1>2, <2>4, ItemTaken DEF v
    <2>7. j = i + 1 /\ i + 1 \in i + 1..j /\ j + 1 = i + 2 /\ i <= k
        BY <2>3, <2>4, <2>5
    <2>8. \A c \in i + 2..k : chars[c] \in {Space}
        BY <2>6, <2>7
    <2> QED
        BY <2>3, <2>5, <2>7, <2>8 DEF Titled
<1>5. CASE b = 3
    <2>1. k = i /\ i \in Nat
        BY <1>1, <1>5, NothingTaken
    <2> QED
        BY <2>1 DEF Titled
<1> QED
    BY <1>3, <1>4, <1>5

\* ... and its series, with g gaps in it.
SeriesOf(chars, l, g, q) ==
    /\ l \in Nat /\ q \in Nat /\ g \in {0, 1} /\ l + 4 + g <= q
    /\ AreDigits(chars, l, 2) /\ AreDigits(chars, l + 2 + g, 2)
    /\ g = 1 => IsGap(chars, l + 3)
    /\ \A c \in l + 5 + g..q : chars[c] \in {Space, Hyphen, Comma}

LEMMA SeriesTaken ==
    ASSUME NEW chars \in Seq(Int), NEW l, NEW q, Covers(chars, SeriesItems, l, q)
    PROVE  \E g \in {0, 1} : SeriesOf(chars, l, g, q)
<1> DEFINE opt == <<Times({Space, Hyphen}, 0, 1)>>
           gap == <<Times({Space, Hyphen, Comma}, 0, Many)>>
           d2 == Digits(2)
           r1 == d2 \o opt
           r2 == r1 \o d2
<1>1. /\ {Space, Hyphen} \in SUBSET Known /\ {Space, Hyphen, Comma} \in SUBSET Known
      /\ Many \in Nat /\ 0 \in Nat /\ 1 \in Nat
    BY Chars
<1>2. opt \in Seq(Items) /\ gap \in Seq(Items) /\ d2 \in Seq(Items)
    BY <1>1, DigitsIs, Repetitions
<1>3. SeriesItems = r2 \o gap
    BY DEF SeriesItems, Star
<1>4. ASSUME NEW i, NEW k, Covers(chars, d2, i, k)
      PROVE  i \in Nat /\ k = i + 2 /\ AreDigits(chars, i, 2)
    BY <1>4, DigitsTaken
<1>5. ASSUME NEW i, NEW k, Covers(chars, opt, i, k)
      PROVE  i + 0 <= k /\ k <= i + 1 /\ \A c \in i + 1..k : chars[c] \in {Space, Hyphen}
    BY <1>1, <1>5, ItemTaken
<1>6. ASSUME NEW i, NEW k, Covers(chars, gap, i, k)
      PROVE  i + 0 <= k /\ \A c \in i + 1..k : chars[c] \in {Space, Hyphen, Comma}
    BY <1>1, <1>6, ItemTaken
<1> HIDE DEF opt, gap, d2
<1>7. r1 \in Seq(Items) /\ r2 \in Seq(Items)
    BY <1>2, ConcatProperties
<1> HIDE DEF r2
<1>8. PICK c3 : Covers(chars, r2, l, c3) /\ Covers(chars, gap, c3, q)
    BY <1>2, <1>3, <1>7, BothTaken
<1> HIDE DEF r1
<1>9. PICK c2 : Covers(chars, r1, l, c2) /\ Covers(chars, d2, c2, c3)
    BY <1>2, <1>7, <1>8, BothTaken DEF r2
<1>10. PICK c1 : Covers(chars, d2, l, c1) /\ Covers(chars, opt, c1, c2)
    BY <1>2, <1>7, <1>9, BothTaken DEF r1
<1>11. l \in Nat /\ c1 = l + 2 /\ AreDigits(chars, l, 2)
    BY <1>4, <1>10
<1>12. c2 \in Nat /\ c3 = c2 + 2 /\ AreDigits(chars, c2, 2)
    BY <1>4, <1>9
<1> DEFINE g == c2 - c1
<1>13. g \in {0, 1} /\ c2 = l + 2 + g
    BY <1>5, <1>10, <1>11, <1>12
<1>14. g = 1 => IsGap(chars, l + 3)
    <2>1. g = 1 => l + 3 \in c1 + 1..c2
        BY <1>11, <1>12
    <2> QED
        BY <1>5, <1>10, <2>1 DEF IsGap
<1>15. q \in Nat
    BY <1>8, LenProperties DEF Covers
<1> HIDE DEF g
<1>16. c3 = l + 4 + g /\ c3 + 1 = l + 5 + g
    BY <1>11, <1>12, <1>13
<1>17. l + 4 + g <= q /\ \A c \in l + 5 + g..q : chars[c] \in {Space, Hyphen, Comma}
    <2>1. c3 + 0 <= q /\ \A c \in c3 + 1..q : chars[c] \in {Space, Hyphen, Comma}
        BY <1>6, <1>8
    <2>2. l + 4 + g <= q
        BY <1>11, <1>13, <1>15, <1>16, <2>1
    <2> QED
        BY <1>16, <2>1, <2>2
<1> QED
    BY <1>11, <1>12, <1>13, <1>14, <1>15, <1>17 DEF SeriesOf

LEMMA PassportTaken ==
    ASSUME NEW chars \in Seq(Int), NEW i \in 0..Len(chars), MatchAt(chars, "passport", i) # NoMatch
    PROVE  \E l, q, r \in Nat, g \in {0, 1} :
               /\ Titled(chars, i, l, {Passport, Series})
               /\ SeriesOf(chars, l, g, q)
               /\ Titled(chars, q, r, {Number, NumeroSign})
               /\ AreDigits(chars, r, 6)
               /\ MatchAt(chars, "passport", i) = r + 6
<1> DEFINE p == Pattern("passport")
           s == MatchAt(chars, "passport", i)
           six == Digits(6)
<1>1. DOMAIN p = 1..9 /\ \A a, b \in 1..3 :
          p[(a - 1) * 3 + b] = PassportLabel[a] \o SeriesItems \o NumberLabel[b] \o six
    BY PassportAre
<1>2. PICK k \in DOMAIN p : Covers(chars, p[k], i, s)
    <2>1. "passport" \in Regexes
        BY DEF Regexes
    <2> QED
        BY <2>1, MatchCovers
<1>3. ASSUME NEW r, Covers(chars, six, r, s)
      PROVE  r \in Nat /\ s = r + 6 /\ AreDigits(chars, r, 6)
    BY <1>3, DigitsTaken
<1>4. six \in Seq(Items) /\ SeriesItems \in Seq(Items)
    BY DigitsIs, PassportParts
<1> HIDE DEF p, s, six
<1>5. PICK a \in 1..3, b \in 1..3 : k = (a - 1) * 3 + b
    <2>1. k \in 1..9
        BY <1>1
    <2>2. CASE k \in 1..3
        <3>1. k = (1 - 1) * 3 + k
            BY <2>2
        <3> QED
            BY <2>2, <3>1
    <2>3. CASE k \in 4..6
        <3>1. k = (2 - 1) * 3 + (k - 3) /\ k - 3 \in 1..3
            BY <2>3
        <3> QED
            BY <3>1
    <2>4. CASE k \in 7..9
        <3>1. k = (3 - 1) * 3 + (k - 6) /\ k - 6 \in 1..3
            BY <2>4
        <3> QED
            BY <3>1
    <2> QED
        BY <2>1, <2>2, <2>3, <2>4
<1> DEFINE u == PassportLabel[a]
           w == NumberLabel[b]
           r1 == u \o SeriesItems
           r2 == r1 \o w
<1>6. Covers(chars, r2 \o six, i, s)
    <2>1. p[k] = r2 \o six
        BY <1>1, <1>5
    <2> QED
        BY <1>2, <2>1
<1>7. u \in Seq(Items) /\ w \in Seq(Items)
    BY PassportParts
<1>a. ASSUME NEW x, NEW y, Covers(chars, u, x, y)
      PROVE  Titled(chars, x, y, {Passport, Series})
    BY <1>a, PassportLabelTaken
<1>b. ASSUME NEW x, NEW y, Covers(chars, w, x, y)
      PROVE  Titled(chars, x, y, {Number, NumeroSign})
    BY <1>b, NumberLabelTaken
<1> HIDE DEF u, w
<1>8. r1 \in Seq(Items) /\ r2 \in Seq(Items)
    BY <1>4, <1>7, ConcatProperties
<1> HIDE DEF r2
<1>9. PICK r : Covers(chars, r2, i, r) /\ Covers(chars, six, r, s)
    BY <1>4, <1>6, <1>8, BothTaken
<1> HIDE DEF r1
<1>10. PICK q : Covers(chars, r1, i, q) /\ Covers(chars, w, q, r)
    BY <1>7, <1>8, <1>9, BothTaken DEF r2
<1>11. PICK l : Covers(chars, u, i, l) /\ Covers(chars, SeriesItems, l, q)
    BY <1>4, <1>7, <1>10, BothTaken DEF r1
<1>12. PICK g \in {0, 1} : SeriesOf(chars, l, g, q)
    BY <1>11, SeriesTaken
<1>13. Titled(chars, i, l, {Passport, Series}) /\ Titled(chars, q, r, {Number, NumeroSign})
    BY <1>a, <1>b, <1>10, <1>11
<1>14. r \in Nat /\ s = r + 6 /\ AreDigits(chars, r, 6)
    BY <1>3, <1>9
<1>15. l \in Nat /\ q \in Nat
    BY <1>12 DEF SeriesOf
<1> QED
    BY <1>12, <1>13, <1>14, <1>15 DEF s

-----------------------------------------------------------------------------
\* What of a match has been taken by nothing but blanks is not a digit.
LEMMA TitledHas ==
    ASSUME NEW chars \in Seq(Int), NEW i \in Nat, NEW k \in Nat, NEW words, words \cap Digit = {},
           Titled(chars, i, k, words)
    PROVE  \A c \in i + 1..k : chars[c] \notin Digit
<1> SUFFICES ASSUME NEW c \in i + 1..k PROVE chars[c] \notin Digit
    OBVIOUS
<1>1. CASE c = i + 1
    <2>1. i # k
        BY <1>1
    <2> QED
        BY <1>1, <2>1 DEF Titled
<1>2. CASE c # i + 1
    <2>1. c \in i + 2..k
        BY <1>2
    <2>2. chars[c] = Space
        BY <2>1 DEF Titled
    <2> QED
        BY <2>2 DEF Space, Digit
<1> QED
    BY <1>1, <1>2

\* A passport number that begins with digits is not taken apart: a match over
\* its first digit ends where it does, and takes no digit before it.
LEMMA PassportOver ==
    ASSUME NEW chars \in Seq(Int), NEW j \in 0..Len(chars), NEW i \in Nat,
           MatchAt(chars, "passport", j) # NoMatch, j <= i, i < MatchAt(chars, "passport", j),
           i > 0 => chars[i] \notin Digit,
           NEW g \in {0, 1},
           AreDigits(chars, i, 2), AreDigits(chars, i + 2 + g, 2), AreDigits(chars, i + 5 + g, 6),
           g = 1 => chars[i + 3] = Space, chars[i + 5 + g] = Space
    PROVE  MatchAt(chars, "passport", j) = i + 11 + g /\ \A c \in j + 1..i : chars[c] \notin Digit
<1> DEFINE s == MatchAt(chars, "passport", j)
<1>1. PICK l \in Nat, q \in Nat, r \in Nat, h \in {0, 1} :
          /\ Titled(chars, j, l, {Passport, Series})
          /\ SeriesOf(chars, l, h, q)
          /\ Titled(chars, q, r, {Number, NumeroSign})
          /\ AreDigits(chars, r, 6)
          /\ s = r + 6
    BY PassportTaken
<1>2. i < s /\ j <= i
    OBVIOUS
<1> HIDE DEF s
<1>3. /\ j \in Nat /\ j <= l /\ q <= r /\ l + 4 + h <= q
      /\ {Passport, Series} \cap Digit = {} /\ {Number, NumeroSign} \cap Digit = {}
      /\ Space \notin Digit /\ Hyphen \notin Digit /\ Comma \notin Digit
    BY <1>1, LenProperties DEF Titled, SeriesOf, Passport, Series, Number, NumeroSign, Space, Hyphen, Comma, Digit
<1>4. /\ \A c \in j + 1..l : chars[c] \notin Digit
      /\ \A c \in q + 1..r : chars[c] \notin Digit
    BY <1>1, <1>3, TitledHas
<1>5. /\ chars[l + 1] \in Digit /\ chars[l + 2] \in Digit
      /\ chars[l + 3 + h] \in Digit /\ chars[l + 4 + h] \in Digit
      /\ h = 1 => chars[l + 3] \notin Digit
      /\ \A c \in l + 5 + h..q : chars[c] \notin Digit
    <2>1. AreDigits(chars, l, 2) /\ AreDigits(chars, l + 2 + h, 2) /\ 1 \in 1..2 /\ 2 \in 1..2
        BY <1>1 DEF SeriesOf
    <2>2. l + 2 + h + 1 = l + 3 + h /\ l + 2 + h + 2 = l + 4 + h
        BY <1>1
    <2>3. h = 1 => chars[l + 3] \in {Space, Hyphen}
        BY <1>1 DEF SeriesOf, IsGap
    <2>4. \A c \in l + 5 + h..q : chars[c] \in {Space, Hyphen, Comma}
        BY <1>1 DEF SeriesOf
    <2>5. chars[l + 1] \in Digit /\ chars[l + 2] \in Digit
          /\ chars[l + 2 + h + 1] \in Digit /\ chars[l + 2 + h + 2] \in Digit
        BY <2>1 DEF AreDigits
    <2> QED
        BY <1>3, <2>2, <2>3, <2>4, <2>5
<1>6. \A k \in 1..6 : chars[r + k] \in Digit
    BY <1>1 DEF AreDigits
<1>7. /\ chars[i + 1] \in Digit /\ chars[i + 2] \in Digit
      /\ chars[i + 3 + g] \in Digit /\ chars[i + 4 + g] \in Digit
      /\ chars[i + 5 + g] \notin Digit
      /\ g = 1 => chars[i + 3] \notin Digit
      /\ i > 0 => chars[i] \notin Digit
    <2>1. 1 \in 1..2 /\ 2 \in 1..2 /\ i + 2 + g + 1 = i + 3 + g /\ i + 2 + g + 2 = i + 4 + g
        OBVIOUS
    <2>2. chars[i + 1] \in Digit /\ chars[i + 2] \in Digit
          /\ chars[i + 2 + g + 1] \in Digit /\ chars[i + 2 + g + 2] \in Digit
        BY <2>1 DEF AreDigits
    <2> QED
        BY <1>3, <2>1, <2>2
<1>8. chars[i + 6 + g] \in Digit
    <2>1. 1 \in 1..6 /\ i + 5 + g + 1 = i + 6 + g
        OBVIOUS
    <2>2. chars[i + 5 + g + 1] \in Digit
        BY <2>1 DEF AreDigits
    <2> QED
        BY <2>1, <2>2
<1>9. ~(i < l)
    <2> SUFFICES ASSUME i < l PROVE FALSE
        OBVIOUS
    <2>1. i + 1 \in j + 1..l
        BY <1>2, <1>3
    <2> QED
        BY <1>4, <1>7, <2>1
<1>10. i # r
    <2> SUFFICES ASSUME i = r PROVE FALSE
        OBVIOUS
    <2>1. 5 \in 1..6 /\ 3 \in 1..6
        OBVIOUS
    <2>2. chars[i + 5] \in Digit /\ chars[i + 3] \in Digit
        BY <1>6, <2>1
    <2>3. i + 5 + 0 = i + 5
        OBVIOUS
    <2> QED
        BY <1>7, <2>2, <2>3
<1>11. ~(i > r)
    <2> SUFFICES ASSUME i > r PROVE FALSE
        OBVIOUS
    <2>1. i - r \in 1..6 /\ r + (i - r) = i /\ i > 0
        BY <1>1, <1>2
    <2>2. chars[r + (i - r)] \in Digit
        BY <1>6, <2>1
    <2> QED
        BY <1>7, <2>1, <2>2
<1>12. ~(q <= i /\ i < r)
    <2> SUFFICES ASSUME q <= i, i < r PROVE FALSE
        OBVIOUS
    <2>1. i + 1 \in q + 1..r
        OBVIOUS
    <2> QED
        BY <1>4, <1>7, <2>1
<1>13. ~(l + 4 + h <= i /\ i < q)
    <2> SUFFICES ASSUME l + 4 + h <= i, i < q PROVE FALSE
        OBVIOUS
    <2>1. i + 1 \in l + 5 + h..q
        OBVIOUS
    <2> QED
        BY <1>5, <1>7, <2>1
<1>14. i # l + 3
    <2> SUFFICES ASSUME i = l + 3 PROVE FALSE
        OBVIOUS
    <2>1. i > 0
        OBVIOUS
    <2>2. h = 1
        <3> SUFFICES ASSUME h = 0 PROVE FALSE
            BY <1>1
        <3>1. l + 3 + h = i
            BY <1>1
        <3> QED
            BY <1>5, <1>7, <2>1, <3>1
    <2>3. i + 1 = l + 4 /\ i + 2 = l + 5 /\ l + 3 + h = l + 4 /\ l + 4 + h = l + 5 /\ l + 5 + h = l + 6
        BY <2>2
    <2>4. chars[l + 6] \in Digit \/ (chars[l + 6] = Space /\ chars[l + 7] \in Digit /\ chars[l + 9] \notin Digit)
        <3>1. CASE g = 0
            <4>1. i + 3 + g = l + 6
                BY <3>1
            <4> QED
                BY <1>7, <4>1
        <3>2. CASE g = 1
            <4>1. i + 3 = l + 6 /\ i + 3 + g = l + 7 /\ i + 5 + g = l + 9
                BY <3>2
            <4> QED
                BY <1>7, <3>2, <4>1
        <3> QED
            BY <3>1, <3>2
    <2>5. chars[l + 8] \notin Digit \/ chars[l + 9] \notin Digit
        <3>1. CASE g = 0
            <4>1. i + 5 + g = l + 8
                BY <3>1
            <4> QED
                BY <1>7, <4>1
        <3>2. CASE g = 1
            <4>1. i + 5 + g = l + 9
                BY <3>2
            <4> QED
                BY <1>7, <4>1
        <3> QED
            BY <3>1, <3>2
    <2>6. q >= l + 5
        BY <1>3, <2>2
    \* Six digits behind the series would take a blank of the document's.
    <2>7. ~(r \in l + 5..l + 6 /\ r = q)
        <3> SUFFICES ASSUME r \in l + 5..l + 6, r = q PROVE FALSE
            OBVIOUS
        <3>1. CASE r = l + 5
            <4>1. 1 \in 1..6 /\ 3 \in 1..6 /\ 4 \in 1..6
                  /\ r + 1 = l + 6 /\ r + 3 = l + 8 /\ r + 4 = l + 9
                BY <3>1
            <4>2. chars[r + 3] \in Digit /\ chars[r + 4] \in Digit
                BY <1>6, <4>1
            <4> QED
                BY <2>5, <4>1, <4>2
        <3>2. CASE r = l + 6
            <4>1. 2 \in 1..6 /\ 3 \in 1..6 /\ r + 2 = l + 8 /\ r + 3 = l + 9
                BY <3>2
            <4>2. chars[r + 2] \in Digit /\ chars[r + 3] \in Digit
                BY <1>6, <4>1
            <4> QED
                BY <2>5, <4>1, <4>2
        <3> QED
            BY <3>1, <3>2
    <2>8. CASE q = l + 5
        <3>1. q + 1 = l + 6
            BY <2>8
        <3>2. r = q
            <4> SUFFICES ASSUME r # q PROVE FALSE
                OBVIOUS
            <4>1. chars[q + 1] \in {Number, NumeroSign}
                BY <1>1 DEF Titled
            <4>2. chars[l + 6] \in {Number, NumeroSign}
                BY <3>1, <4>1
            <4>3. Space \notin {Number, NumeroSign}
                BY DEF Space, Number, NumeroSign
            <4> QED
                BY <1>3, <2>4, <4>2, <4>3
        <3> QED
            BY <2>7, <2>8, <3>2
    <2>9. CASE q > l + 5
        <3>1. l + 6 \in l + 5 + h..q
            BY <1>1, <2>3, <2>9
        <3>2. chars[l + 6] \notin Digit /\ chars[l + 7] \in Digit
            BY <1>5, <2>4, <3>1
        <3>3. q = l + 6
            <4> SUFFICES ASSUME q # l + 6 PROVE FALSE
                OBVIOUS
            <4>1. l + 7 \in l + 5 + h..q
                BY <1>1, <2>3, <2>9
            <4> QED
                BY <1>5, <3>2, <4>1
        <3>4. r = q
            <4> SUFFICES ASSUME r # q PROVE FALSE
                OBVIOUS
            <4>1. q + 1 \in q + 1..r
                BY <1>3
            <4>2. q + 1 = l + 7
                BY <3>3
            <4> QED
                BY <1>4, <3>2, <4>1, <4>2
        <3> QED
            BY <2>7, <3>3, <3>4
    <2> QED
        BY <2>6, <2>8, <2>9
<1>15. i \notin {l + 1, l + 2, l + 3 + h, l + 4 + h}
    <2> SUFFICES ASSUME i \in {l + 1, l + 2, l + 3 + h, l + 4 + h} PROVE FALSE
        OBVIOUS
    <2>1. i > 0
        BY <1>1
    <2>2. chars[i] \in Digit
        BY <1>5
    <2> QED
        BY <1>7, <2>1, <2>2
<1>16. i = l
    <2>1. \/ i < l \/ i = l \/ i = l + 1 \/ i = l + 2 \/ i = l + 3 \/ i = l + 3 + h \/ i = l + 4 + h
          \/ (l + 4 + h <= i /\ i < q) \/ (q <= i /\ i < r) \/ i = r \/ i > r
        BY <1>3
    <2> QED
        BY <1>9, <1>10, <1>11, <1>12, <1>13, <1>14, <1>15, <2>1
\* The document is read from its beginning: its blanks are the match's.
<1>17. h = g
    <2>1. g = 0 => h = 0
        <3> SUFFICES ASSUME g = 0, h = 1 PROVE FALSE
            BY <1>1
        <3>1. i + 3 + g = l + 3
            BY <1>16
        <3> QED
            BY <1>5, <1>7, <3>1
    <2>2. g = 1 => h = 1
        <3> SUFFICES ASSUME g = 1, h = 0 PROVE FALSE
            BY <1>1
        <3>1. i + 3 = l + 3 + h
            BY <1>16
        <3> QED
            BY <1>5, <1>7, <3>1
    <2> QED
        BY <1>1, <2>1, <2>2
<1>18. q = l + 5 + g
    <2>1. q # l + 4 + g
        <3> SUFFICES ASSUME q = l + 4 + g PROVE FALSE
            OBVIOUS
        <3>1. q + 1 = i + 5 + g
            BY <1>16
        <3>2. chars[q + 1] = Space
            BY <3>1
        <3>3. CASE q = r
            <4>1. r + 1 = i + 5 + g /\ 1 \in 1..6
                BY <3>1, <3>3
            <4>2. chars[r + 1] \in Digit
                BY <1>6, <4>1
            <4> QED
                BY <1>7, <4>1, <4>2
        <3>4. CASE q # r
            <4>1. chars[q + 1] \in {Number, NumeroSign}
                BY <1>1, <3>4 DEF Titled
            <4> QED
                BY <3>2, <4>1 DEF Space, Number, NumeroSign
        <3> QED
            BY <3>3, <3>4
    <2>2. ~(q > l + 5 + g)
        <3> SUFFICES ASSUME q > l + 5 + g PROVE FALSE
            OBVIOUS
        <3>1. i + 6 + g \in l + 5 + h..q
            BY <1>3, <1>16, <1>17
        <3> QED
            BY <1>5, <1>8, <3>1
    <2> QED
        BY <1>3, <1>17, <2>1, <2>2
<1>19. r = q
    <2> SUFFICES ASSUME r # q PROVE FALSE
        OBVIOUS
    <2>1. q + 1 \in q + 1..r /\ q + 1 = i + 6 + g
        BY <1>3, <1>16, <1>18
    <2> QED
        BY <1>4, <1>8, <2>1
<1>20. s = i + 11 + g
    BY <1>1, <1>16, <1>18, <1>19
<1> QED
    BY <1>4, <1>16, <1>20 DEF s

\* A match takes a passport's label as its first character, or not at all.
LEMMA PassportLabelOver ==
    ASSUME NEW chars \in Seq(Int), NEW j \in 0..Len(chars), NEW i \in Nat,
           MatchAt(chars, "passport", j) # NoMatch, j <= i, i < MatchAt(chars, "passport", j),
           chars[i + 1] \in {Passport, Series}
    PROVE  i = j
<1> DEFINE s == MatchAt(chars, "passport", j)
           c == chars[i + 1]
<1>1. PICK l \in Nat, q \in Nat, r \in Nat, h \in {0, 1} :
          /\ Titled(chars, j, l, {Passport, Series})
          /\ SeriesOf(chars, l, h, q)
          /\ Titled(chars, q, r, {Number, NumeroSign})
          /\ AreDigits(chars, r, 6)
          /\ s = r + 6
    BY PassportTaken
<1>2. i < s /\ j <= i
    OBVIOUS
<1>b. c \in {Passport, Series}
    OBVIOUS
<1> HIDE DEF s, c
<1>3. /\ j \in Nat /\ j <= l /\ q <= r /\ l + 4 + h <= q
      /\ c \notin Digit /\ c \notin {Space, Hyphen, Comma, Number, NumeroSign}
    <2>1. c \notin Digit /\ c \notin {Space, Hyphen, Comma, Number, NumeroSign}
        BY <1>b DEF Passport, Series, Number, NumeroSign, Space, Hyphen, Comma, Digit
    <2> QED
        BY <1>1, <2>1, LenProperties DEF Titled, SeriesOf
<1>4. ~(j < i /\ i < l)
    <2> SUFFICES ASSUME j < i, i < l PROVE FALSE
        OBVIOUS
    <2>1. i + 1 \in j + 2..l
        BY <1>3
    <2>2. chars[i + 1] = Space
        BY <1>1, <2>1 DEF Titled
    <2> QED
        BY <1>3, <2>2 DEF c
<1>5. ~(l <= i /\ i < q)
    <2> SUFFICES ASSUME l <= i, i < q PROVE FALSE
        OBVIOUS
    <2>1. /\ i + 1 = l + 1 \/ i + 1 = l + 2 => c \in Digit
          /\ i + 1 = l + 3 + h \/ i + 1 = l + 4 + h => c \in Digit
        <3>1. AreDigits(chars, l, 2) /\ AreDigits(chars, l + 2 + h, 2) /\ 1 \in 1..2 /\ 2 \in 1..2
            BY <1>1 DEF SeriesOf
        <3>2. l + 2 + h + 1 = l + 3 + h /\ l + 2 + h + 2 = l + 4 + h
            BY <1>1
        <3>3. chars[l + 1] \in Digit /\ chars[l + 2] \in Digit
              /\ chars[l + 2 + h + 1] \in Digit /\ chars[l + 2 + h + 2] \in Digit
            BY <3>1 DEF AreDigits
        <3> QED
            BY <3>2, <3>3 DEF c
    <2>2. h = 1 /\ i + 1 = l + 3 => c \in {Space, Hyphen}
        BY <1>1 DEF SeriesOf, IsGap, c
    <2>3. i + 1 \in l + 5 + h..q => c \in {Space, Hyphen, Comma}
        BY <1>1 DEF SeriesOf, c
    <2>4. \/ i + 1 = l + 1 \/ i + 1 = l + 2 \/ (h = 1 /\ i + 1 = l + 3)
          \/ i + 1 = l + 3 + h \/ i + 1 = l + 4 + h \/ i + 1 \in l + 5 + h..q
        BY <1>1
    <2> QED
        BY <1>3, <2>1, <2>2, <2>3, <2>4
<1>6. ~(q <= i /\ i < r)
    <2> SUFFICES ASSUME q <= i, i < r PROVE FALSE
        OBVIOUS
    <2>1. CASE i = q
        <3>1. chars[i + 1] \in {Number, NumeroSign}
            BY <1>1, <2>1 DEF Titled
        <3> QED
            BY <1>3, <3>1 DEF c
    <2>2. CASE i # q
        <3>1. i + 1 \in q + 2..r
            BY <2>2
        <3>2. chars[i + 1] = Space
            BY <1>1, <3>1 DEF Titled
        <3> QED
            BY <1>3, <3>2 DEF c
    <2> QED
        BY <2>1, <2>2
<1>7. ~(r <= i)
    <2> SUFFICES ASSUME r <= i PROVE FALSE
        OBVIOUS
    <2>1. i + 1 - r \in 1..6 /\ r + (i + 1 - r) = i + 1
        BY <1>1, <1>2
    <2>2. chars[r + (i + 1 - r)] \in Digit
        BY <1>1, <2>1 DEF AreDigits
    <2> QED
        BY <1>3, <2>1, <2>2 DEF c
<1> QED
    BY <1>2, <1>3, <1>4, <1>5, <1>6, <1>7

-----------------------------------------------------------------------------
\* What takes no plus sign.
Plusless(chars, items) ==
    /\ items \in Seq(Items)
    /\ \A i, k : Covers(chars, items, i, k) => \A c \in i + 1..k : chars[c] # PlusSign

LEMMA PluslessBoth ==
    ASSUME NEW chars \in Seq(Int), NEW p, NEW q, Plusless(chars, p), Plusless(chars, q)
    PROVE  Plusless(chars, p \o q)
<1>1. p \in Seq(Items) /\ q \in Seq(Items)
    BY DEF Plusless
<1>2. p \o q \in Seq(Items)
    BY <1>1, ConcatProperties
<1> SUFFICES ASSUME NEW i, NEW k, Covers(chars, p \o q, i, k), NEW c \in i + 1..k
             PROVE  chars[c] # PlusSign
    BY <1>2 DEF Plusless
<1>3. PICK j \in i..k : Covers(chars, p, i, j) /\ Covers(chars, q, j, k)
    BY <1>1, BothTaken
<1>4. i \in Nat /\ j \in Nat /\ k \in Nat
    BY <1>3, LenProperties DEF Covers
<1>5. c \in i + 1..j \/ c \in j + 1..k
    BY <1>3, <1>4
<1> QED
    BY <1>3, <1>5 DEF Plusless

LEMMA PluslessItem ==
    ASSUME NEW chars \in Seq(Int), NEW class \in SUBSET Known, NEW least \in Nat, NEW most \in Nat,
           PlusSign \notin class
    PROVE  Plusless(chars, <<Times(class, least, most)>>)
<1>1. <<Times(class, least, most)>> \in Seq(Items)
    BY Repetitions
<1>2. ASSUME NEW i, NEW k, Covers(chars, <<Times(class, least, most)>>, i, k)
      PROVE  \A c \in i + 1..k : chars[c] \in class
    BY <1>2, ItemTaken
<1> QED
    BY <1>1, <1>2 DEF Plusless

\* A match takes a plus sign as its first character, or not at all.
LEMMA PhoneOver ==
    ASSUME NEW chars \in Seq(Int), NEW j \in 0..Len(chars), NEW i \in Nat,
           MatchAt(chars, "phone", j) # NoMatch, j <= i, i < MatchAt(chars, "phone", j),
           chars[i + 1] = PlusSign
    PROVE  i = j
<1> DEFINE gap == <<Star({Space, Hyphen})>>
           open == <<Star({Space, Hyphen, OpenParen})>>
           close == <<Star({Space, Hyphen, CloseParen})>>
           sign == <<Times({PlusSign}, 1, 1)>>
           seven == <<Times({7}, 1, 1)>>
           eight == <<Times({8}, 1, 1)>>
           d2 == Digits(2)
           d3 == Digits(3)
           r1 == open \o d3
           r2 == r1 \o close
           r3 == r2 \o d3
           r4 == r3 \o gap
           r5 == r4 \o d2
           r6 == r5 \o gap
           r7 == r6 \o d2
           plus == sign \o seven
           p == Pattern("phone")
           s == MatchAt(chars, "phone", j)
<1>1. /\ {Space, Hyphen} \in SUBSET Known /\ {Space, Hyphen, OpenParen} \in SUBSET Known
      /\ {Space, Hyphen, CloseParen} \in SUBSET Known /\ {PlusSign} \in SUBSET Known
      /\ {7} \in SUBSET Known /\ {8} \in SUBSET Known /\ Digit \in SUBSET Known
      /\ Many \in Nat /\ 0 \in Nat /\ 1 \in Nat /\ 2 \in Nat /\ 3 \in Nat
    BY Chars
<1>2. /\ PlusSign \notin {Space, Hyphen} /\ PlusSign \notin {Space, Hyphen, OpenParen}
      /\ PlusSign \notin {Space, Hyphen, CloseParen} /\ PlusSign \notin {7} /\ PlusSign \notin {8}
      /\ PlusSign \notin Digit
    BY DEF PlusSign, Space, Hyphen, OpenParen, CloseParen, Digit
<1>3. Plusless(chars, gap) /\ Plusless(chars, open) /\ Plusless(chars, close)
    BY <1>1, <1>2, PluslessItem DEF Star
<1>4. Plusless(chars, seven) /\ Plusless(chars, eight) /\ Plusless(chars, d2) /\ Plusless(chars, d3)
    BY <1>1, <1>2, PluslessItem DEF Digits
<1>5. sign \in Seq(Items)
    BY <1>1, Repetitions
<1>6. p = Then(<<plus, eight>>, <<r7>>)
    <2>1. <<One(PlusSign), One(7)>> = plus /\ <<One(8)>> = eight
        BY DEF One
    <2> QED
        BY <2>1 DEF Pattern, PhonePattern
<1>7. ASSUME NEW i0, NEW k, Covers(chars, sign, i0, k)
      PROVE  i0 + 1 <= k /\ k <= i0 + 1
    BY <1>1, <1>7, ItemTaken
<1>8. PICK a \in DOMAIN p : Covers(chars, p[a], j, s)
    <2>1. "phone" \in Regexes
        BY DEF Regexes
    <2> QED
        BY <2>1, MatchCovers
<1>9. j <= i /\ i < s
    OBVIOUS
<1> HIDE DEF gap, open, close, sign, seven, eight, d2, d3, p, s
<1>10. Plusless(chars, r7)
    <2>1. Plusless(chars, r1)
        BY <1>3, <1>4, PluslessBoth
    <2> HIDE DEF r1
    <2>2. Plusless(chars, r2)
        BY <1>3, <2>1, PluslessBoth
    <2> HIDE DEF r2
    <2>3. Plusless(chars, r3)
        BY <1>4, <2>2, PluslessBoth
    <2> HIDE DEF r3
    <2>4. Plusless(chars, r4)
        BY <1>3, <2>3, PluslessBoth
    <2> HIDE DEF r4
    <2>5. Plusless(chars, r5)
        BY <1>4, <2>4, PluslessBoth
    <2> HIDE DEF r5
    <2>6. Plusless(chars, r6)
        BY <1>3, <2>5, PluslessBoth
    <2> HIDE DEF r6
    <2> QED
        BY <1>4, <2>6, PluslessBoth
<1> HIDE DEF r7
<1>11. r7 \in Seq(Items) /\ eight \in Seq(Items) /\ seven \in Seq(Items)
    BY <1>4, <1>10 DEF Plusless
<1>12. plus \in Seq(Items)
    BY <1>5, <1>11, ConcatProperties
<1> DEFINE ps == <<plus, eight>>
           qs == <<r7>>
<1>13. p[a] = plus \o r7 \/ p[a] = eight \o r7
    <2> HIDE DEF plus
    <2>1. ps \in Patterns /\ Len(ps) = 2 /\ qs \in Patterns /\ Len(qs) = 1
          /\ ps[1] = plus /\ ps[2] = eight /\ qs[1] = r7
        BY <1>11, <1>12, Alternatives
    <2>2. p = Then(ps, qs)
        BY <1>6 DEF plus
    <2> HIDE DEF ps, qs
    <2>3. DOMAIN ps = 1..2 /\ DOMAIN qs = 1..1
        BY <2>1, LenProperties DEF Patterns
    <2>4. Len(qs) \in {1, 2, 3}
        BY <2>1
    <2>5. PICK b \in DOMAIN ps, d \in DOMAIN qs : p[a] = ps[b] \o qs[d]
        <3>1. a \in DOMAIN Then(ps, qs)
            BY <1>8, <2>2
        <3>2. \A k \in DOMAIN Then(ps, qs) : \E b \in DOMAIN ps, d \in DOMAIN qs : Then(ps, qs)[k] = ps[b] \o qs[d]
            BY <2>1, <2>4, ThenIs
        <3>3. \E b \in DOMAIN ps, d \in DOMAIN qs : Then(ps, qs)[a] = ps[b] \o qs[d]
            BY <3>1, <3>2
        <3> QED
            BY <2>2, <3>3
    <2>6. (b = 1 \/ b = 2) /\ d = 1
        BY <2>3, <2>5
    <2> QED
        BY <2>1, <2>5, <2>6
<1>14. j \in Nat /\ s \in Nat
    BY <1>8, LenProperties DEF Covers
<1>15. CASE p[a] = eight \o r7
    <2>1. Plusless(chars, p[a])
        BY <1>4, <1>10, <1>15, PluslessBoth
    <2>2. i + 1 \in j + 1..s
        BY <1>9, <1>14
    <2> QED
        BY <1>8, <2>1, <2>2 DEF Plusless
<1>16. CASE p[a] = plus \o r7
    <2>1. PICK v \in j..s : Covers(chars, plus, j, v) /\ Covers(chars, r7, v, s)
        BY <1>8, <1>11, <1>12, <1>16, BothTaken
    <2>2. PICK w \in j..v : Covers(chars, sign, j, w) /\ Covers(chars, seven, w, v)
        BY <1>5, <1>11, <2>1, BothTaken
    <2>3. w = j + 1
        BY <1>7, <1>14, <2>1, <2>2
    <2>4. ~(w <= i /\ i < v)
        <3> SUFFICES ASSUME w <= i, i < v PROVE FALSE
            OBVIOUS
        <3>1. i + 1 \in w + 1..v
            BY <1>14, <2>1, <2>3
        <3> QED
            BY <1>4, <2>2, <3>1 DEF Plusless
    <2>5. ~(v <= i)
        <3> SUFFICES ASSUME v <= i PROVE FALSE
            OBVIOUS
        <3>1. i + 1 \in v + 1..s
            BY <1>9, <1>14, <2>1
        <3> QED
            BY <1>10, <2>1, <3>1 DEF Plusless
    <2> QED
        BY <1>9, <1>14, <2>1, <2>3, <2>4, <2>5
<1> QED
    BY <1>13, <1>15, <1>16

=============================================================================
