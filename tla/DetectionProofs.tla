-------------------------- MODULE DetectionProofs --------------------------
(***************************************************************************)
(* What holds of a request to the engine for any texts, whatever Natasha   *)
(* finds in them, any profiles and definitions, any number of changes to   *)
(* the store while it is served and any versions of the engine.            *)
(*                                                                         *)
(* First the pipeline by itself, on any entities (Masking's Spec): what    *)
(* _resolve_overlaps keeps and what anonymize makes of the text.  Then     *)
(* what the extractors, the sort and the deduplication hand to it, then    *)
(* the service: which definition answers a request, with what findings and *)
(* what text, and when it fails.  Last that every documented form is found *)
(* and that EntityExtractor, which the registry replaced, agrees with it.  *)
(***************************************************************************)
EXTENDS Detection, ExtractorsProofs

-----------------------------------------------------------------------------
\* What an entity's ends are.
LEMMA Ends ==
    ASSUME found \in Seq(Entities), NEW i \in DOMAIN found
    PROVE  /\ found[i].start \in 0..Length /\ found[i].stop \in 0..Length
           /\ found[i].start \in Nat /\ found[i].stop \in Nat
           /\ found[i].start < found[i].stop
           /\ found[i].confidence \in Nat
<1>1. found[i] \in Entities
    OBVIOUS
<1>2. /\ found[i] \in [start : 0..Length, stop : 0..Length, confidence : Confidences,
                       label : [source : Sources, normal : Normals, details : AllDetails]]
      /\ found[i].start < found[i].stop
    BY <1>1 DEF Entities
<1>3. /\ found[i].start \in 0..Length /\ found[i].stop \in 0..Length
      /\ found[i].confidence \in Confidences
    BY <1>2
<1>4. found[i].confidence \in Nat
    BY <1>3, MaskingAssumption
<1>5. found[i].start \in Nat /\ found[i].stop \in Nat
    BY <1>3, MaskingAssumption
<1> QED
    BY <1>2, <1>3, <1>4, <1>5

-----------------------------------------------------------------------------
\* Of S the characters up to k are all outside, as long as no entity of S
\* starts before k.
LEMMA Untouched ==
    ASSUME found \in Seq(Entities), NEW S \in SUBSET DOMAIN found, NEW k \in 0..Length,
           \A j \in S : k <= found[j].start
    PROVE  /\ 1..k \subseteq Outside(S)
           /\ k # 0 => Place(S, k) = k
<1>0. Length \in Nat /\ k \in Nat
    BY MaskingAssumption
<1>1. \A c \in 1..k : c \in Outside(S)
    <2> SUFFICES ASSUME NEW c \in 1..k, NEW j \in S PROVE c \in 1..Length /\ c \notin Span(j)
        BY <1>0 DEF Outside
    <2>1. found[j].start \in Nat /\ found[j].stop \in Nat /\ k <= found[j].start
        BY Ends
    <2> QED
        BY <1>0, <2>1 DEF Span
<1>2. {c \in Outside(S) : c <= k} = 1..k
    BY <1>0, <1>1 DEF Outside
<1>3. {j \in S : found[j].start < k} = {}
    BY <1>0, Ends
<1>4. Cardinality(1..k) = k
    BY <1>0, FS_Interval
<1>5. Cardinality({}) = 0
    BY FS_EmptySet
<1>6. Place(S, k) = k
    <2>1. Place(S, k) = k + Placeholder * 0
        BY <1>2, <1>3, <1>4, <1>5 DEF Place
    <2> QED
        BY <1>0, <2>1, MaskingAssumption
<1> QED
    BY <1>1, <1>6

\* Before anonymize starts nothing is replaced.
LEMMA NothingMasked ==
    ASSUME found \in Seq(Entities), text = [k \in 1..Length |-> k]
    PROVE  Masked({})
<1>1. Outside({}) = 1..Length /\ Length \in Nat
    BY MaskingAssumption DEF Outside
<1>2. Len(text) = Length /\ \A k \in 1..Length : text[k] = k
    BY <1>1
<1>3. Cardinality(1..Length) = Length /\ Cardinality({}) = 0
    BY <1>1, FS_Interval, FS_EmptySet
<1>4. Len(text) = Cardinality(Outside({})) + Placeholder * Cardinality({})
    BY <1>1, <1>2, <1>3, MaskingAssumption
<1>5. ASSUME NEW k \in 1..Length
      PROVE  Positions(k) = {Place({}, k)} /\ k \in Outside({})
    <2>1. Place({}, k) = k
        BY <1>1, Untouched
    <2> QED
        BY <1>1, <1>2, <2>1 DEF Positions
<1> QED
    BY <1>4, <1>5 DEF Masked

\* The least of two numbers.
LEMMA LesserOf ==
    ASSUME NEW a \in Int, NEW b \in Int
    PROVE  Min({a, b}) = IF a <= b THEN a ELSE b
<1>1. \E x \in {a, b} : \A y \in {a, b} : x <= y
    OBVIOUS
<1>2. Min({a, b}) \in {a, b} /\ \A y \in {a, b} : Min({a, b}) <= y
    BY <1>1 DEF Min
<1> QED
    BY <1>2

Cells == 1..Length \cup {Filler}

\* What a replacement makes of the text, character by character.
LEMMA ReplacedParts ==
    ASSUME text \in Seq(Cells), NEW s \in Nat, NEW e \in Nat, s < e
    PROVE  /\ Replaced(s, e) \in Seq(Cells)
           /\ e <= Len(text) =>
                /\ Len(Replaced(s, e)) = s + Placeholder + (Len(text) - e)
                /\ \A p \in 1..Len(Replaced(s, e)) :
                      Replaced(s, e)[p] = IF p <= s THEN text[p]
                                          ELSE IF p <= s + Placeholder THEN Filler
                                          ELSE text[p - (s + Placeholder) + e]
<1> DEFINE m == IF s <= Len(text) THEN s ELSE Len(text)
           b == SubSeq(text, e + 1, Len(text))
<1>0. Len(text) \in Nat /\ \A p \in 1..Len(text) : text[p] \in Cells
    BY LenProperties
<1>1. Upto(s) = SubSeq(text, 1, m)
    BY <1>0, LesserOf DEF Upto
<1>2. m \in Int /\ m <= Len(text)
    BY <1>0
<1> HIDE DEF m
<1>3. \A p \in 1..m : text[p] \in Cells
    BY <1>0, <1>2
<1>4. /\ Upto(s) \in Seq(Cells)
      /\ Len(Upto(s)) = IF 1 <= m THEN m - 1 + 1 ELSE 0
      /\ \A p \in 1..(m - 1 + 1) : Upto(s)[p] = text[1 + p - 1]
    BY <1>1, <1>2, <1>3, SubSeqProperties
<1>5. Placeholder \in Nat /\ Filler \in Cells
    BY MaskingAssumption DEF Cells
<1>6. Mark \in Seq(Cells) /\ Len(Mark) = Placeholder /\ \A p \in 1..Placeholder : Mark[p] = Filler
    BY <1>5 DEF Mark
<1>7. \A p \in e + 1..Len(text) : text[p] \in Cells
    BY <1>0
<1>8. /\ b \in Seq(Cells)
      /\ Len(b) = IF e + 1 <= Len(text) THEN Len(text) - (e + 1) + 1 ELSE 0
      /\ \A p \in 1..(Len(text) - (e + 1) + 1) : b[p] = text[(e + 1) + p - 1]
    BY <1>0, <1>7, SubSeqProperties
<1> DEFINE u == Upto(s)
           um == u \o Mark
<1>9. Replaced(s, e) = um \o b
    BY DEF Replaced
<1> HIDE DEF b, u
<1>10. /\ um \in Seq(Cells)
       /\ Len(um) = Len(u) + Len(Mark)
       /\ \A p \in 1..Len(u) + Len(Mark) : um[p] = IF p <= Len(u) THEN u[p] ELSE Mark[p - Len(u)]
    BY <1>4, <1>6, ConcatProperties DEF u
<1> HIDE DEF um
<1>11. /\ um \o b \in Seq(Cells)
       /\ Len(um \o b) = Len(um) + Len(b)
       /\ \A p \in 1..Len(um) + Len(b) : (um \o b)[p] = IF p <= Len(um) THEN um[p] ELSE b[p - Len(um)]
    <2>1. um \in Seq(Cells) /\ b \in Seq(Cells)
        BY <1>8, <1>10
    <2> QED
        BY <2>1, ConcatProperties
<1>12. ASSUME e <= Len(text)
       PROVE  /\ Len(um \o b) = s + Placeholder + (Len(text) - e)
              /\ \A p \in 1..Len(um \o b) :
                    (um \o b)[p] = IF p <= s THEN text[p]
                                   ELSE IF p <= s + Placeholder THEN Filler
                                   ELSE text[p - (s + Placeholder) + e]
    <2>1. m = s
        BY <1>0, <1>12 DEF m
    <2>2. Len(u) = s /\ \A p \in 1..s : u[p] = text[p]
        BY <1>4, <2>1 DEF u
    <2>3. Len(b) = Len(text) - e /\ \A p \in 1..Len(text) - e : b[p] = text[e + p]
        BY <1>0, <1>8, <1>12
    <2>4. Len(um) = s + Placeholder
        BY <1>6, <1>10, <2>2
    <2>5. \A p \in 1..s + Placeholder : um[p] = IF p <= s THEN text[p] ELSE Filler
        BY <1>5, <1>6, <1>10, <2>2
    <2>6. Len(um \o b) = s + Placeholder + (Len(text) - e)
        BY <1>11, <2>3, <2>4
    <2>7. ASSUME NEW p \in 1..Len(um \o b)
          PROVE  (um \o b)[p] = IF p <= s THEN text[p]
                                ELSE IF p <= s + Placeholder THEN Filler
                                ELSE text[p - (s + Placeholder) + e]
        <3>1. CASE p <= s + Placeholder
            BY SMTT(30), <1>5, <1>11, <2>4, <2>5, <2>6, <2>7, <3>1
        <3>2. CASE ~(p <= s + Placeholder)
            <4>1. p - (s + Placeholder) \in 1..Len(text) - e
                BY <1>0, <1>5, <1>12, <2>6, <3>2
            <4>2. (um \o b)[p] = b[p - (s + Placeholder)]
                BY <1>11, <2>4, <3>2
            <4>3. (um \o b)[p] = text[e + (p - (s + Placeholder))]
                BY <2>3, <4>1, <4>2
            <4> QED
                BY <1>5, <3>2, <4>3
        <3> QED
            BY <3>1, <3>2
    <2> QED
        BY <2>6, <2>7
<1> QED
    BY <1>9, <1>11, <1>12

\* What is left of the text when one more entity is replaced.
LEMMA OneMoreOutside ==
    ASSUME found \in Seq(Entities), NEW S \in SUBSET DOMAIN found, NEW i \in DOMAIN found \ S,
           \A j \in S : found[i].stop <= found[j].start
    PROVE  /\ Span(i) \subseteq Outside(S)
           /\ Outside(S \cup {i}) = Outside(S) \ Span(i)
           /\ IsFiniteSet(Outside(S)) /\ IsFiniteSet(S)
           /\ Cardinality(Outside(S \cup {i}))
                = Cardinality(Outside(S)) - (found[i].stop - found[i].start)
           /\ Cardinality(S \cup {i}) = Cardinality(S) + 1
           /\ Cardinality(Outside(S)) \in Nat /\ Cardinality(S) \in Nat
<1>0. /\ found[i].start \in Nat /\ found[i].stop \in Nat /\ found[i].stop \in 0..Length
      /\ found[i].start < found[i].stop
    BY Ends
<1>1. 1..found[i].stop \subseteq Outside(S)
    BY <1>0, Untouched
<1>2. Span(i) \subseteq Outside(S)
    BY <1>0, <1>1 DEF Span
<1>3. Outside(S \cup {i}) = Outside(S) \ Span(i)
    BY DEF Outside
<1>4. IsFiniteSet(1..Length) /\ Outside(S) \in SUBSET (1..Length)
    <2>1. 1 \in Int /\ Length \in Int
        BY MaskingAssumption
    <2> QED
        BY <2>1, FS_Interval DEF Outside
<1>5. IsFiniteSet(Outside(S)) /\ Cardinality(Outside(S)) \in Nat
    BY <1>4, FS_Subset, FS_CardinalityType
<1>6. IsFiniteSet(S) /\ Cardinality(S) \in Nat
    <2>1. DOMAIN found = 1..Len(found) /\ Len(found) \in Nat
        BY LenProperties
    <2>2. IsFiniteSet(DOMAIN found)
        BY <2>1, FS_Interval
    <2> QED
        BY <2>2, FS_Subset, FS_CardinalityType
<1>7. Cardinality(S \cup {i}) = Cardinality(S) + 1
    BY <1>6, FS_AddElement
<1>8. Cardinality(Span(i)) = found[i].stop - found[i].start
    <2>1. found[i].start + 1 \in Int /\ found[i].stop \in Int
        BY <1>0
    <2>2. Cardinality(Span(i)) =
              IF found[i].start + 1 > found[i].stop THEN 0 ELSE found[i].stop - (found[i].start + 1) + 1
        BY <2>1, FS_Interval DEF Span
    <2> QED
        BY <1>0, <2>2
<1>9. Outside(S) \cap Span(i) = Span(i)
    BY <1>2
<1>10. Cardinality(Outside(S) \ Span(i)) = Cardinality(Outside(S)) - Cardinality(Span(i))
    BY <1>5, <1>9, FS_Difference
<1> QED
    BY <1>2, <1>3, <1>5, <1>6, <1>7, <1>8, <1>10

\* Where a character behind that entity stands then.
LEMMA OneMorePlace ==
    ASSUME found \in Seq(Entities), NEW S \in SUBSET DOMAIN found, NEW i \in DOMAIN found \ S,
           \A j \in S : found[i].stop <= found[j].start,
           NEW k \in 1..Length, found[i].stop < k
    PROVE  /\ Place(S, k) \in Nat
           /\ Place(S \cup {i}, k) = Place(S, k) - (found[i].stop - found[i].start) + Placeholder
<1> DEFINE C(R) == {c \in Outside(R) : c <= k}
           D(R) == {j \in R : found[j].start < k}
<1>0. /\ found[i].start \in Nat /\ found[i].stop \in Nat /\ k \in Nat
      /\ found[i].start < found[i].stop
    BY Ends, MaskingAssumption
<1>1. /\ Span(i) \subseteq Outside(S)
      /\ Outside(S \cup {i}) = Outside(S) \ Span(i)
      /\ IsFiniteSet(Outside(S)) /\ IsFiniteSet(S)
    BY OneMoreOutside
<1>2. C(S \cup {i}) = C(S) \ Span(i) /\ C(S) \cap Span(i) = Span(i)
    <2>1. \A c \in Span(i) : c <= k
        BY <1>0 DEF Span
    <2> QED
        BY <1>1, <2>1
<1>3. D(S \cup {i}) = D(S) \cup {i} /\ i \notin D(S)
    <2>1. found[i].start < k
        BY <1>0
    <2> QED
        BY <2>1
<1>4. C(S) \in SUBSET Outside(S) /\ D(S) \in SUBSET S
    OBVIOUS
<1> HIDE DEF C, D
<1>5. IsFiniteSet(C(S)) /\ IsFiniteSet(D(S)) /\ Cardinality(C(S)) \in Nat /\ Cardinality(D(S)) \in Nat
    BY <1>1, <1>4, FS_Subset, FS_CardinalityType
<1>6. Cardinality(C(S) \ Span(i)) = Cardinality(C(S)) - Cardinality(Span(i))
    BY <1>2, <1>5, FS_Difference
<1>7. Cardinality(Span(i)) = found[i].stop - found[i].start
    <2>1. found[i].start + 1 \in Int /\ found[i].stop \in Int
        BY <1>0
    <2>2. Cardinality(Span(i)) =
              IF found[i].start + 1 > found[i].stop THEN 0 ELSE found[i].stop - (found[i].start + 1) + 1
        BY <2>1, FS_Interval DEF Span
    <2> QED
        BY <1>0, <2>2
<1>8. Cardinality(D(S) \cup {i}) = Cardinality(D(S)) + 1
    BY <1>3, <1>5, FS_AddElement
<1>9. Place(S, k) = Cardinality(C(S)) + Placeholder * Cardinality(D(S))
    BY DEF Place, C, D
<1>10. Place(S \cup {i}, k) = Cardinality(C(S \cup {i})) + Placeholder * Cardinality(D(S \cup {i}))
    BY DEF Place, C, D
<1>11. Place(S \cup {i}, k) = (Cardinality(C(S)) - (found[i].stop - found[i].start))
                                + Placeholder * (Cardinality(D(S)) + 1)
    BY <1>2, <1>3, <1>6, <1>7, <1>8, <1>10
<1> DEFINE x == Cardinality(C(S))
           y == Cardinality(D(S))
           z == Placeholder * y
<1>12. Placeholder \in Nat /\ x \in Nat /\ y \in Nat
    BY <1>5, MaskingAssumption
<1>13. z \in Nat /\ Placeholder * (y + 1) = z + Placeholder
    BY <1>12
<1> HIDE DEF x, y, z
<1>14. Place(S, k) = x + z /\ Place(S \cup {i}, k) = (x - (found[i].stop - found[i].start)) + (z + Placeholder)
    BY <1>9, <1>11, <1>13 DEF x, y, z
<1> QED
    BY <1>0, <1>12, <1>13, <1>14

\* anonymize's replacement of an entity that ends before those already
\* replaced start: it moves what is behind it, and nothing else.
LEMMA MaskOne ==
    ASSUME found \in Seq(Entities), text \in Seq(Cells),
           NEW S \in SUBSET DOMAIN found, NEW i \in DOMAIN found \ S,
           \A j \in S : found[i].stop <= found[j].start,
           Masked(S), found' = found, text' = Replaced(found[i].start, found[i].stop)
    PROVE  Masked(S \cup {i})'
<1> DEFINE s == found[i].start
           e == found[i].stop
           S2 == S \cup {i}
<1>0. s \in Nat /\ e \in Nat /\ Length \in Nat /\ e <= Length /\ s < e /\ Placeholder \in Nat
    BY Ends, MaskingAssumption
<1>a. \A j \in S2 : found[j].start \in Nat /\ s <= found[j].start /\ (j \in S => e <= found[j].start)
    BY Ends
<1>b. Span(i) = s + 1..e
    BY DEF Span, s, e
<1>c. text' = Replaced(s, e)
    BY DEF s, e
<1> HIDE DEF s, e
<1>1. \A k \in 1..e : k \in Outside(S) /\ Place(S, k) = k
    <2> SUFFICES ASSUME NEW k \in 1..e PROVE k \in Outside(S) /\ Place(S, k) = k
        OBVIOUS
    <2>1. k \in 0..Length /\ k # 0 /\ \A j \in S : k <= found[j].start
        BY <1>0, <1>a
    <2>2. k \in 1..k
        BY <2>1
    <2> QED
        BY <2>1, <2>2, Untouched
<1>2. Len(text) \in Nat /\ \A p \in 1..Len(text) : text[p] \in Cells
    BY LenProperties
<1>3. \A k \in 1..e : k \in 1..Len(text) /\ text[k] = k
    <2> SUFFICES ASSUME NEW k \in 1..e PROVE k \in 1..Len(text) /\ text[k] = k
        OBVIOUS
    <2>1. Positions(k) = {k}
        <3>1. k \in 1..Length
            BY <1>0
        <3> QED
            BY <1>1, <3>1 DEF Masked
    <2> QED
        BY <2>1 DEF Positions
<1>4. e <= Len(text)
    BY <1>0, <1>2, <1>3
<1>5. /\ Len(text') = s + Placeholder + (Len(text) - e)
      /\ \A p \in 1..Len(text') :
            text'[p] = IF p <= s THEN text[p]
                       ELSE IF p <= s + Placeholder THEN Filler
                       ELSE text[p - (s + Placeholder) + e]
    <2>1. /\ Len(Replaced(s, e)) = s + Placeholder + (Len(text) - e)
          /\ \A p \in 1..Len(Replaced(s, e)) :
                Replaced(s, e)[p] = IF p <= s THEN text[p]
                                    ELSE IF p <= s + Placeholder THEN Filler
                                    ELSE text[p - (s + Placeholder) + e]
        BY <1>0, <1>4, ReplacedParts
    <2> QED
        BY <1>c, <2>1
<1>6. \A R, k : Outside(R)' = Outside(R) /\ Place(R, k)' = Place(R, k)
    BY DEF Outside, Place, Span
<1>7. Len(text') = Cardinality(Outside(S2)) + Placeholder * Cardinality(S2)
    <2>1. /\ Cardinality(Outside(S2)) = Cardinality(Outside(S)) - (e - s)
          /\ Cardinality(S2) = Cardinality(S) + 1
          /\ Cardinality(Outside(S)) \in Nat /\ Cardinality(S) \in Nat
        BY OneMoreOutside DEF s, e
    <2>2. Len(text) = Cardinality(Outside(S)) + Placeholder * Cardinality(S)
        BY DEF Masked
    <2> DEFINE x == Cardinality(Outside(S))
               y == Cardinality(S)
    <2>3. x \in Nat /\ y \in Nat
        BY <2>1
    <2> HIDE DEF x, y
    <2>4. Placeholder * (y + 1) = Placeholder * y + Placeholder /\ Placeholder * y \in Nat
        BY <1>0, <2>3
    <2>5. Len(text) = x + Placeholder * y
        BY <2>2 DEF x, y
    <2>6. Cardinality(Outside(S2)) = x - (e - s) /\ Cardinality(S2) = y + 1
        BY <2>1 DEF x, y
    <2> HIDE DEF S2
    <2>7. s + Placeholder + (Len(text) - e) = (x - (e - s)) + (Placeholder * y + Placeholder)
        BY SMTT(30), <1>0, <2>3, <2>4, <2>5
    <2> QED
        BY <1>5, <2>4, <2>6, <2>7
<1>8. Outside(S2) = Outside(S) \ Span(i)
    BY OneMoreOutside
<1>9. ASSUME NEW k \in 1..Length
      PROVE  Positions(k)' = IF k \in Outside(S2) THEN {Place(S2, k)} ELSE {}
    <2>1. /\ Positions(k) = IF k \in Outside(S) THEN {Place(S, k)} ELSE {}
          /\ Positions(k)' = {p \in 1..Len(text') : text'[p] = k}
          /\ k # Filler /\ k \in Nat
        BY MaskingAssumption DEF Masked, Positions
    <2>2. CASE k <= s
        <3>1. k \in 1..e /\ k \notin Span(i)
            BY <1>0, <1>b, <2>2
        <3>2. k \in Outside(S2)
            BY <1>1, <1>8, <3>1
        <3>3. Place(S2, k) = k
            <4>1. k \in 0..Length /\ k # 0 /\ S2 \in SUBSET DOMAIN found
                OBVIOUS
            <4>2. \A j \in S2 : k <= found[j].start
                BY <1>0, <1>a, <2>2
            <4> HIDE DEF S2
            <4> QED
                BY <4>1, <4>2, Untouched
        <3>4. ASSUME NEW p \in 1..Len(text')
              PROVE  text'[p] = k <=> p = k
            <4>1. CASE p <= s
                <5>1. p \in 1..e
                    BY <1>0, <4>1
                <5> QED
                    BY <1>3, <1>5, <4>1, <5>1
            <4>2. CASE ~(p <= s) /\ p <= s + Placeholder
                BY <1>0, <1>5, <2>1, <2>2, <4>2
            <4>3. CASE ~(p <= s + Placeholder)
                <5> DEFINE q == p - (s + Placeholder) + e
                <5>1. q \in 1..Len(text) /\ q > e
                    BY <1>0, <1>2, <1>5, <4>3
                <5>2. text'[p] = text[q]
                    <6>1. ~(p <= s)
                        BY <1>0, <4>3
                    <6> QED
                        BY <1>5, <4>3, <6>1
                <5>3. Positions(k) = {k} /\ q # k
                    BY <1>0, <1>1, <2>1, <2>2, <3>1, <5>1
                <5> HIDE DEF q
                <5>4. text[q] # k
                    BY <5>1, <5>3 DEF Positions
                <5> QED
                    BY <1>0, <2>2, <4>3, <5>2, <5>4
            <4> QED
                BY <1>0, <4>1, <4>2, <4>3
        <3>5. k \in 1..Len(text')
            BY <1>0, <1>4, <1>2, <1>5, <2>2
        <3> QED
            BY <2>1, <3>2, <3>3, <3>4, <3>5
    <2>3. CASE ~(k <= s) /\ k <= e
        <3>1. k \in Span(i)
            BY <1>0, <1>b, <2>3
        <3>2. k \notin Outside(S2)
            BY <1>8, <3>1
        <3>3. Positions(k) = {k}
            BY <1>0, <1>1, <2>1, <2>3
        <3>4. ASSUME NEW p \in 1..Len(text')
              PROVE  text'[p] # k
            <4>1. CASE p <= s
                <5>1. p \in 1..e
                    BY <1>0, <4>1
                <5>2. text'[p] = p
                    BY <1>3, <1>5, <4>1, <5>1
                <5> QED
                    BY <1>0, <2>3, <4>1, <5>2
            <4>2. CASE ~(p <= s) /\ p <= s + Placeholder
                BY <1>0, <1>5, <2>1, <4>2
            <4>3. CASE ~(p <= s + Placeholder)
                <5> DEFINE q == p - (s + Placeholder) + e
                <5>1. q \in 1..Len(text) /\ q > e
                    BY <1>0, <1>2, <1>5, <4>3
                <5>2. text'[p] = text[q]
                    <6>1. ~(p <= s)
                        BY <1>0, <4>3
                    <6> QED
                        BY <1>5, <4>3, <6>1
                <5>3. q # k
                    BY <1>0, <2>3, <5>1
                <5> HIDE DEF q
                <5> QED
                    BY <3>3, <5>1, <5>2, <5>3 DEF Positions
            <4> QED
                BY <1>0, <4>1, <4>2, <4>3
        <3> QED
            BY <2>1, <3>2, <3>4
    <2>4. CASE e < k
        <3>1. Place(S, k) \in Nat /\ Place(S2, k) = Place(S, k) - (e - s) + Placeholder
            BY <2>4, OneMorePlace DEF s, e
        <3>2. k \in Outside(S2) <=> k \in Outside(S)
            <4>1. k \notin s + 1..e
                BY <1>0, <2>4
            <4> QED
                BY <1>b, <1>8, <4>1
        <3>3. ASSUME NEW p \in 1..Len(text')
              PROVE  text'[p] = k <=> (p > s + Placeholder /\ p - (s + Placeholder) + e \in Positions(k))
            <4>1. CASE p <= s
                <5>1. p \in 1..e
                    BY <1>0, <4>1
                <5>2. text'[p] = p
                    BY <1>3, <1>5, <4>1, <5>1
                <5> QED
                    BY <1>0, <2>4, <4>1, <5>2
            <4>2. CASE ~(p <= s) /\ p <= s + Placeholder
                BY <1>0, <1>5, <2>1, <4>2
            <4>3. CASE ~(p <= s + Placeholder)
                <5> DEFINE q == p - (s + Placeholder) + e
                <5>1. q \in 1..Len(text)
                    BY <1>0, <1>2, <1>5, <4>3
                <5>2. text'[p] = text[q]
                    <6>1. ~(p <= s)
                        BY <1>0, <4>3
                    <6> QED
                        BY <1>5, <4>3, <6>1
                <5> HIDE DEF q
                <5>3. text'[p] = k <=> q \in Positions(k)
                    BY <5>1, <5>2 DEF Positions
                <5> QED
                    BY <1>0, <4>3, <5>3 DEF q
            <4> QED
                BY <1>0, <4>1, <4>2, <4>3
        <3>4. CASE k \notin Outside(S)
            BY <2>1, <3>2, <3>3, <3>4
        <3>5. CASE k \in Outside(S)
            <4>1. Positions(k) = {Place(S, k)}
                BY <2>1, <3>5
            <4>2. Place(S, k) \in 1..Len(text) /\ text[Place(S, k)] = k
                BY <4>1 DEF Positions
            <4>3. Place(S, k) > e
                <5>1. CASE Place(S, k) \in 1..e
                    BY <1>0, <1>3, <2>4, <4>2, <5>1
                <5> QED
                    BY <1>0, <1>2, <4>2, <5>1
            <4> HIDE DEF S2
            <4>4. Place(S2, k) \in 1..Len(text') /\ Place(S2, k) > s + Placeholder
                BY SMTT(30), <1>0, <1>2, <1>5, <3>1, <4>2, <4>3
            <4>5. \A p \in 1..Len(text') : text'[p] = k <=> p = Place(S2, k)
                <5> SUFFICES ASSUME NEW p \in 1..Len(text') PROVE text'[p] = k <=> p = Place(S2, k)
                    OBVIOUS
                <5>1. text'[p] = k <=> (p > s + Placeholder /\ p - (s + Placeholder) + e = Place(S, k))
                    BY <3>3, <4>1
                <5>2. PICK a \in Int, b \in Int, c \in Int :
                          a = Place(S, k) /\ b = Place(S2, k) /\ c = s + Placeholder
                    BY <1>0, <3>1, <4>4
                <5>3. b = a - e + c /\ b > c /\ p \in Int /\ e \in Int
                    BY <1>0, <3>1, <4>4, <5>2
                <5>4. text'[p] = k <=> (p > c /\ p - c + e = a)
                    BY <5>1, <5>2
                <5> HIDE DEF e
                <5>5. (p > c /\ p - c + e = a) <=> p = b
                    BY <5>3
                <5> QED
                    BY <5>2, <5>4, <5>5
            <4> QED
                BY <2>1, <3>2, <3>5, <4>4, <4>5
        <3> QED
            BY <3>4, <3>5
    <2>5. k <= s \/ (~(k <= s) /\ k <= e) \/ e < k
        BY <1>0
    <2> QED
        BY <2>2, <2>3, <2>4, <2>5
<1> QED
    <2>1. Outside(S2)' = Outside(S2) /\ \A k : Place(S2, k)' = Place(S2, k)
        BY <1>6
    <2> QED
        BY <1>7, <1>9, <2>1 DEF Masked

-----------------------------------------------------------------------------
\* Without remove_overlaps kept is not read before it is set.
Chosen == removeOverlaps => kept \subseteq Considered

\* Before anonymize the text is the client's; then what it has replaced is
\* behind what it has yet to replace.
Replacing ==
    /\ stage = "resolve" => todo = {} /\ text = [k \in 1..Length |-> k]
    /\ stage = "done" => todo = {}
    /\ stage # "resolve" /\ Disjoint(kept) =>
          /\ Masked(kept \ todo)
          /\ \A i \in todo, j \in kept \ todo : found[i].stop <= found[j].start

IInv == TypeOK /\ Chosen /\ Replacing /\ KeptDisjoint /\ DroppedForReason

\* What run starts from, whatever the extractors found.
Fresh ==
    /\ found \in Seq(Entities)
    /\ removeOverlaps \in BOOLEAN
    /\ next = 1
    /\ kept = {}
    /\ todo = {}
    /\ text = [k \in 1..Length |-> k]
    /\ stage \in {"resolve", "done"}

-----------------------------------------------------------------------------

\* Span.overlaps, which compares the ends, is right: two entities overlap
\* exactly when they share a character.
LEMMA OverlapsIsShared ==
    ASSUME found \in Seq(Entities), NEW i \in DOMAIN found, NEW j \in DOMAIN found
    PROVE  Overlaps(i, j) <=> Shared(i, j)
<1>1. /\ found[i] \in Entities
      /\ found[j] \in Entities
    OBVIOUS
<1>2. /\ found[i].start \in Nat /\ found[i].stop \in Nat /\ found[i].start < found[i].stop
      /\ found[j].start \in Nat /\ found[j].stop \in Nat /\ found[j].start < found[j].stop
    BY <1>1, MaskingAssumption DEF Entities
<1>3. Shared(i, j) => Overlaps(i, j)
    BY <1>2 DEF Shared, Span, Overlaps
<1>4. ASSUME Overlaps(i, j)  PROVE Shared(i, j)
    <2>1. CASE found[i].start <= found[j].start
        <3>1. /\ found[j].start + 1 \in Span(i)
              /\ found[j].start + 1 \in Span(j)
            BY <1>2, <1>4, <2>1 DEF Overlaps, Span
        <3>2. QED  BY <3>1 DEF Shared
    <2>2. CASE found[j].start <= found[i].start
        <3>1. /\ found[i].start + 1 \in Span(i)
              /\ found[i].start + 1 \in Span(j)
            BY SMTT(30), <1>2, <1>4, <2>2 DEF Overlaps, Span
        <3>2. QED  BY <3>1 DEF Shared
    <2>3. QED  BY <1>2, <2>1, <2>2
<1>5. QED  BY <1>3, <1>4

LEMMA SharedIsSymmetric ==
    ASSUME NEW i, NEW j, Shared(i, j)
    PROVE  Shared(j, i)
BY DEF Shared

LEMMA FreshIInv == Fresh => IInv
<1> SUFFICES ASSUME Fresh PROVE IInv
    OBVIOUS
<1>1. Considered = {} /\ Length \in Nat
    BY MaskingAssumption DEF Fresh, Considered
<1>2. text \in Seq(1..Length \cup {Filler})
    <2>1. \A k \in 1..Length : k \in 1..Length \cup {Filler}
        OBVIOUS
    <2>2. [k \in 1..Length |-> k] \in [1..Length -> 1..Length \cup {Filler}]
        BY <2>1
    <2> QED
        BY <1>1, <2>2 DEF Fresh
<1>3. TypeOK
    BY <1>2, LenProperties DEF Fresh, TypeOK
<1>4. Replacing
    BY NothingMasked DEF Fresh, Replacing
<1>5. Chosen /\ KeptDisjoint /\ DroppedForReason
    BY <1>1 DEF Fresh, Chosen, KeptDisjoint, Disjoint, DroppedForReason
<1> QED
    BY <1>3, <1>4, <1>5 DEF IInv

LEMMA InitIInv == Init => IInv
<1> SUFFICES ASSUME Init PROVE IInv
    OBVIOUS
<1>1. PICK n \in 0..MaxFound : found \in [1..n -> Entities]
    BY DEF Init
<1>2. found \in Seq(Entities)
    BY <1>1, MaskingAssumption
<1>3. Fresh
    BY <1>2 DEF Init, Fresh
<1> QED
    BY <1>3, FreshIInv

-----------------------------------------------------------------------------
\* A step that leaves the entities and the result of _resolve_overlaps alone.
LEMMA SameResult ==
    ASSUME IInv, UNCHANGED <<found, removeOverlaps, next, kept>>
    PROVE  Chosen' /\ KeptDisjoint' /\ DroppedForReason'
<1>1. Chosen'
    BY DEF IInv, Chosen, Considered
<1>2. KeptDisjoint'
    BY DEF IInv, KeptDisjoint, Disjoint, Shared, Span
<1>3. DroppedForReason'
    BY DEF IInv, DroppedForReason, Considered, Shared, Span
<1> QED
    BY <1>1, <1>2, <1>3

\* What is masked depends on the entities and the text only.
LEMMA SameMasked ==
    ASSUME UNCHANGED <<found, text>>, NEW S
    PROVE  Masked(S)' <=> Masked(S)
BY DEF Masked, Outside, Place, Positions, Span

LEMMA ConsiderStep == IInv /\ Consider => IInv'
<1> SUFFICES ASSUME IInv, Consider PROVE IInv'
    OBVIOUS
<1>1. /\ found' = found /\ removeOverlaps' = removeOverlaps /\ removeOverlaps
      /\ next' = next + 1 /\ stage' = stage
      /\ next \in Nat \ {0}
      /\ next \in DOMAIN found
      /\ stage = "resolve" /\ UNCHANGED <<todo, text>>
      /\ found \in Seq(Entities)
      /\ kept \subseteq DOMAIN found
      /\ kept \subseteq Considered
      /\ Considered \subseteq DOMAIN found
      /\ next \notin Considered
    BY LenProperties DEF IInv, TypeOK, Chosen, Consider, More, Considered
<1>2. Considered' = Considered \cup {next}
    BY <1>1 DEF Considered
<1>3. kept' \subseteq Considered \cup {next}
    BY <1>1 DEF Consider, Overlapping
<1>4. \A i, j : Shared(i, j)' <=> Shared(i, j)
    BY <1>1 DEF Shared, Span
<1>5. \A i \in kept : Overlaps(i, next) <=> Shared(i, next)
    BY <1>1, OverlapsIsShared
<1>6. TypeOK' /\ Chosen' /\ Replacing'
    <2>1. next' \in 1..Len(found) + 1
        BY <1>1, LenProperties
    <2>2. TypeOK'
        BY <1>1, <1>3, <2>1 DEF IInv, TypeOK, Replacing
    <2>3. Chosen'
        BY <1>2, <1>3 DEF Chosen
    <2>4. Replacing'
        BY <1>1 DEF IInv, Replacing
    <2> QED
        BY <2>2, <2>3, <2>4
<1>7. KeptDisjoint'
    <2>1. SUFFICES ASSUME NEW i \in kept', NEW j \in kept', i # j
                   PROVE  ~Shared(i, j)
        BY <1>1, <1>4 DEF KeptDisjoint, Disjoint
    <2>2. CASE i \in kept /\ j \in kept
        BY <1>1, <2>1, <2>2 DEF IInv, KeptDisjoint, Disjoint
    <2>3. ASSUME NEW k \in kept \cap kept', next \in kept'  PROVE ~Shared(k, next)
        <3>1. k # next /\ next \notin kept
            BY <1>1
        <3>2. k \notin Overlapping
            BY <2>3, <3>1 DEF Consider
        <3>3. QED  BY <1>5, <3>2 DEF Overlapping
    <2>4. CASE i = next
        BY <2>1, <2>3, <2>4, SharedIsSymmetric DEF Consider
    <2>5. CASE j = next
        BY <2>1, <2>3, <2>5 DEF Consider
    <2>6. QED  BY <2>2, <2>4, <2>5 DEF Consider
<1>8. DroppedForReason'
    <2>1. SUFFICES ASSUME NEW i \in (Considered \cup {next}) \ kept'
                   PROVE  \E j \in (Considered \cup {next}) \ {i} :
                            /\ Shared(i, j)
                            /\ found[i].confidence <= found[j].confidence
        BY <1>1, <1>2, <1>4 DEF DroppedForReason
    <2>2. \A k \in DOMAIN found : found[k].confidence \in Nat
        <3>1. \A k \in DOMAIN found : found[k] \in Entities
            BY <1>1
        <3>2. QED  BY <3>1, MaskingAssumption DEF Entities
    <2>3. CASE i \in Considered \ kept
        BY <1>1, <2>3 DEF IInv, DroppedForReason
    <2>4. CASE i = next
        <3>1. ~Stronger(next, Overlapping)
            BY <2>1, <2>4 DEF Consider
        <3>2. PICK j \in Overlapping : ~(found[next].confidence > found[j].confidence)
            BY <3>1 DEF Stronger
        <3>3. j \in kept /\ Shared(j, next)
            BY <1>5, <3>2 DEF Overlapping
        <3>4. j \in Considered \ {next} /\ j \in DOMAIN found
            BY <1>1, <3>3
        <3>5. found[next].confidence <= found[j].confidence
            BY <1>1, <2>2, <3>2, <3>4
        <3>6. QED  BY <2>4, <3>3, <3>4, <3>5, SharedIsSymmetric
    <2>5. CASE i \in kept
        <3>1. Stronger(next, Overlapping) /\ i \in Overlapping
            BY <2>1, <2>5 DEF Consider
        <3>2. Shared(i, next) /\ i # next
            BY <1>1, <1>5, <2>5, <3>1 DEF Overlapping
        <3>3. found[i].confidence <= found[next].confidence
            BY <1>1, <2>2, <2>5, <3>1 DEF Stronger
        <3>4. QED  BY <3>2, <3>3
    <2>6. QED  BY <2>1, <2>3, <2>4, <2>5
<1>9. QED  BY <1>6, <1>7, <1>8 DEF IInv

LEMMA ResolvedStep == IInv /\ Resolved => IInv'
<1> SUFFICES ASSUME IInv, Resolved PROVE IInv'
    OBVIOUS
<1>1. /\ UNCHANGED <<found, removeOverlaps, next, text>>
      /\ kept' = IF removeOverlaps THEN kept ELSE DOMAIN found
      /\ todo' = kept' /\ stage' = "mask"
      /\ text = [k \in 1..Length |-> k] /\ found \in Seq(Entities)
    BY DEF Resolved, IInv, Replacing, TypeOK
<1>2. TypeOK'
    BY <1>1 DEF IInv, TypeOK
<1>3. Replacing'
    <2>1. kept' \ todo' = {}
        BY <1>1
    <2>2. Masked({})'
        BY <1>1, NothingMasked, SameMasked
    <2> QED
        BY <1>1, <2>1, <2>2 DEF Replacing
<1>4. Chosen' /\ KeptDisjoint' /\ DroppedForReason'
    <2>1. CASE removeOverlaps
        BY <1>1, <2>1, SameResult
    <2>2. CASE ~removeOverlaps
        BY <1>1, <2>2 DEF Chosen, KeptDisjoint, DroppedForReason
    <2> QED
        BY <2>1, <2>2
<1> QED
    BY <1>2, <1>3, <1>4 DEF IInv

\* The entity that starts last ends before no other that is disjoint of it.
LEMMA LastEndsFirst ==
    ASSUME found \in Seq(Entities), NEW i \in DOMAIN found, NEW j \in DOMAIN found,
           Before(i, j), ~Shared(j, i)
    PROVE  found[j].stop <= found[i].start
<1>1. /\ found[i].start \in Nat /\ found[i].stop \in Nat /\ found[i].start < found[i].stop
      /\ found[j].start \in Nat /\ found[j].stop \in Nat /\ found[j].start < found[j].stop
    BY Ends
<1>2. found[j].start <= found[i].start
    BY <1>1 DEF Before
<1>3. SUFFICES ASSUME found[i].start < found[j].stop PROVE FALSE
    BY <1>1
<1>4. found[i].start + 1 \in Span(i) /\ found[i].start + 1 \in Span(j)
    BY SMTT(30), <1>1, <1>2, <1>3 DEF Span
<1> QED
    BY <1>4 DEF Shared

LEMMA MaskStep == IInv /\ Mask => IInv'
<1> SUFFICES ASSUME IInv, Mask PROVE IInv'
    OBVIOUS
<1>1. PICK i \in todo :
          /\ \A j \in todo : Before(i, j)
          /\ text' = Replaced(found[i].start, found[i].stop)
          /\ todo' = todo \ {i}
    BY DEF Mask
<1>2. /\ stage = "mask" /\ UNCHANGED <<found, removeOverlaps, next, kept, stage>>
      /\ found \in Seq(Entities) /\ kept \subseteq DOMAIN found /\ todo \subseteq kept
      /\ i \in DOMAIN found
      /\ text \in Seq(Cells)
    BY DEF Mask, IInv, TypeOK, Cells
<1>3. TypeOK'
    <2>1. Replaced(found[i].start, found[i].stop) \in Seq(Cells)
        BY <1>2, Ends, ReplacedParts
    <2> QED
        BY <1>1, <1>2, <2>1 DEF IInv, TypeOK, Cells
<1>4. Replacing'
    <2>1. SUFFICES ASSUME Disjoint(kept)
                   PROVE  /\ Masked(kept \ todo)'
                          /\ \A k \in todo', j \in kept' \ todo' : found[k].stop <= found[j].start
        BY <1>2 DEF Replacing, Disjoint, Shared, Span
    <2>2. /\ Masked(kept \ todo)
          /\ \A k \in todo, j \in kept \ todo : found[k].stop <= found[j].start
        BY <1>2, <2>1 DEF IInv, Replacing
    <2>3. kept' \ todo' = (kept \ todo) \cup {i}
        BY <1>1, <1>2
    <2>4. Masked(kept \ todo)'
        <3>1. PICK S : S = kept \ todo
            OBVIOUS
        <3>2. S \in SUBSET DOMAIN found /\ i \in DOMAIN found \ S
            BY <1>1, <1>2, <3>1
        <3>3. \A j \in S : found[i].stop <= found[j].start
            BY <2>2, <3>1
        <3>4. Masked(S)
            BY <2>2, <3>1
        <3>5. Masked(S \cup {i})'
            BY <1>1, <1>2, <3>2, <3>3, <3>4, MaskOne
        <3> QED
            BY <2>3, <3>1, <3>5
    <2>5. ASSUME NEW k \in todo', NEW j \in kept' \ todo'
          PROVE  found[k].stop <= found[j].start
        <3>1. CASE j = i
            <4>1. k # i /\ k \in kept /\ ~Shared(k, i)
                BY <1>1, <1>2, <2>1 DEF Disjoint
            <4> QED
                BY <1>1, <1>2, <3>1, <4>1, LastEndsFirst
        <3>2. CASE j # i
            BY <1>1, <1>2, <2>2, <2>3, <3>2
        <3> QED
            BY <3>1, <3>2
    <2> QED
        BY <2>3, <2>4, <2>5
<1>5. Chosen' /\ KeptDisjoint' /\ DroppedForReason'
    BY <1>2, SameResult
<1> QED
    BY <1>3, <1>4, <1>5 DEF IInv

LEMMA ReturnStep == IInv /\ Return => IInv'
<1> SUFFICES ASSUME IInv, Return PROVE IInv'
    OBVIOUS
<1>1. TypeOK'
    BY DEF IInv, TypeOK, Return
<1>2. Replacing'
    <2>1. Masked(kept \ todo)' <=> Masked(kept \ todo)
        BY SameMasked DEF Return, Masked, Outside, Place, Positions, Span
    <2> QED
        BY <2>1 DEF IInv, Replacing, Return, Disjoint, Shared, Span
<1>3. Chosen' /\ KeptDisjoint' /\ DroppedForReason'
    BY SameResult DEF Return
<1> QED
    BY <1>1, <1>2, <1>3 DEF IInv

LEMMA StutterStep == IInv /\ UNCHANGED vars => IInv'
<1> SUFFICES ASSUME IInv, UNCHANGED vars PROVE IInv'
    OBVIOUS
<1>1. TypeOK'
    BY DEF vars, IInv, TypeOK
<1>2. Replacing'
    <2>1. Masked(kept \ todo)' <=> Masked(kept \ todo)
        BY DEF vars, Masked, Outside, Place, Positions, Span
    <2> QED
        BY <2>1 DEF IInv, Replacing, vars, Disjoint, Shared, Span
<1>3. Chosen' /\ KeptDisjoint' /\ DroppedForReason'
    BY SameResult DEF vars
<1> QED
    BY <1>1, <1>2, <1>3 DEF IInv

LEMMA NextIInv == IInv /\ [Next]_vars => IInv'
BY ConsiderStep, ResolvedStep, MaskStep, ReturnStep, StutterStep DEF Next

\* Once nothing is left to replace, all that was kept is replaced.
LEMMA MaskedWhenDone == IInv => MasksExactly
<1> SUFFICES ASSUME IInv, stage = "done", Disjoint(kept) PROVE Masked(kept)
    BY DEF MasksExactly
<1>1. todo = {} /\ Masked(kept \ todo)
    BY DEF IInv, Replacing
<1>2. kept \ todo = kept
    BY <1>1
<1> QED
    BY <1>1, <1>2

-----------------------------------------------------------------------------

\* With remove_overlaps the entities run returns are pairwise disjoint,
\* however many of them overlapped each other.
THEOREM ResultIsDisjoint == Spec => []KeptDisjoint
<1>1. IInv => KeptDisjoint
    BY DEF IInv
<1>2. QED  BY <1>1, InitIInv, NextIInv, PTL DEF Spec

\* _resolve_overlaps leaves an entity out only for one that it overlaps and
\* is not stronger than, also when that one is pushed out again later.
THEOREM NothingDroppedInVain == Spec => []DroppedForReason
<1>1. IInv => DroppedForReason
    BY DEF IInv
<1>2. QED  BY <1>1, InitIInv, NextIInv, PTL DEF Spec

\* The type of the pipeline's state, whatever the extractors find.
THEOREM TypeCorrect == Spec => []TypeOK
<1>1. IInv => TypeOK
    BY DEF IInv
<1>2. QED  BY <1>1, InitIInv, NextIInv, PTL DEF Spec

\* anonymize replaces disjoint entities, all of them and nothing else: it
\* never takes a slice of text that was replaced already.
THEOREM ExactlyMasked == Spec => []MasksExactly
BY MaskedWhenDone, InitIInv, NextIInv, PTL DEF Spec

-----------------------------------------------------------------------------
LEMMA CharsAreInts == Char \subseteq Int
BY DEF Char

\* The digits of a match, and its normal form.
LEMMA DigitsOfIs ==
    ASSUME NEW chars \in Seq(Int), NEW m, m.start \in 0..Len(chars), m.stop \in 0..Len(chars)
    PROVE  DigitsOf(chars, m) \in Seq(Int)
<1> DEFINE cut == SubSeq(chars, m.start + 1, m.stop)
<1>1. Len(chars) \in Nat /\ \A k \in 1..Len(chars) : chars[k] \in Int
    BY LenProperties
<1>2. m.start + 1 \in Int /\ m.stop \in Int /\ \A k \in m.start + 1..m.stop : chars[k] \in Int
    BY <1>1
<1>3. cut \in Seq(Int)
    BY <1>2, SubSeqProperties
<1>4. DigitsOf(chars, m) = Among(cut, Digit)
    BY DEF DigitsOf
<1> HIDE DEF cut
<1> QED
    BY <1>3, <1>4, AmongKeeps

LEMMA NormalizedIs ==
    ASSUME NEW chars \in Seq(Int), NEW x \in Regexes,
           NEW m, m.start \in 0..Len(chars), m.stop \in 0..Len(chars)
    PROVE  Normalized(chars, x, m) \in Seq(Int)
<1> DEFINE d == DigitsOf(chars, m)
<1>1. d \in Seq(Int)
    BY DigitsOfIs
<1>2. Len(d) \in Nat /\ \A k \in 1..Len(d) : d[k] \in Int
    BY <1>1, LenProperties
<1>3. Len(chars) \in Nat /\ \A k \in 1..Len(chars) : chars[k] \in Int
    BY LenProperties
<1>4. CASE x = "email"
    <2>1. m.start + 1 \in Int /\ m.stop \in Int /\ \A k \in m.start + 1..m.stop : chars[k] \in Int
        BY <1>3
    <2>2. SubSeq(chars, m.start + 1, m.stop) \in Seq(Int)
        BY <2>1, SubSeqProperties
    <2> QED
        BY <1>4, <2>2 DEF Normalized
<1> HIDE DEF d
<1>5. CASE x = "phone"
    <2>1. SubSeq(d, 2, Len(d)) \in Seq(Int)
        <3>1. 2 \in Int /\ Len(d) \in Int /\ \A k \in 2..Len(d) : d[k] \in Int
            BY <1>2
        <3> QED
            BY <3>1, SubSeqProperties
    <2>2. <<7>> \in Seq(Int)
        OBVIOUS
    <2>3. <<7>> \o SubSeq(d, 2, Len(d)) \in Seq(Int)
        BY <2>1, <2>2, ConcatProperties
    <2> QED
        BY <1>5, <2>3 DEF Normalized, d
<1>6. CASE x \notin {"email", "phone"}
    <2>1. Normalized(chars, x, m) = d
        BY <1>6 DEF Normalized, d
    <2> QED
        BY <1>1, <2>1
<1> QED
    BY <1>4, <1>5, <1>6

\* The values of a fact's attributes that are there.
LEMMA JoinedIs ==
    ASSUME NEW fact, \A a \in DOMAIN fact : fact[a] \in Int, NEW Q, NEW order \in Seq(Q), NEW x
    PROVE  Joined(x, Details(fact, ToSet(order)), order) \in Seq(Int)
<1> DEFINE d == Details(fact, ToSet(order))
           there == Among(order, DOMAIN d)
           n == Len(there)
           J == Joined(x, d, order)
<1>1. \A a \in DOMAIN d : d[a] \in Int
    BY DEF Details
<1> HIDE DEF d
<1>2. there \in Seq(Q \cap DOMAIN d)
    BY AmongIs
<1>3. n \in Nat /\ DOMAIN there = 1..n /\ \A k \in 1..n : there[k] \in DOMAIN d
    BY <1>2, LenProperties
<1>4. J = [k \in DOMAIN there |-> IF x = "location" THEN d[there[k]] ELSE Str(d[there[k]])]
    BY DEF Joined
<1>5. \A v \in Int : Str(v) \in Int
    BY DEF Str
<1> HIDE DEF there, n, J
<1>6. J \in [1..n -> Int]
    BY <1>1, <1>3, <1>4, <1>5
<1>7. J \in Seq(Int)
    BY <1>3, <1>6, SeqDef
<1> QED
    BY <1>7 DEF d, J

\* A dictionary of numbers, as an entity's details.
LEMMA ValuesAre ==
    ASSUME NEW dict, \A a \in DOMAIN dict : dict[a] \in Int
    PROVE  Values(dict) \in AllDetails
BY DetectionAssumption DEF Values

LEMMA NoDetails == Values(Empty) \in AllDetails
<1>1. \A a \in DOMAIN Empty : Empty[a] \in Int
    BY DEF Empty
<1> QED
    BY <1>1, ValuesAre

-----------------------------------------------------------------------------
\* The matches m of ms lie in the text.
Placed(ms) ==
    \A k \in DOMAIN ms : /\ ms[k].start \in 0..Length /\ ms[k].stop \in 0..Length
                         /\ ms[k].start < ms[k].stop

\* q are entities the extractor x makes of the matches ms: no two are the same.
Made(q, x, ms) ==
    /\ q \in Seq(Entities)
    /\ Distinct(q)
    /\ \A e \in ToSet(q) :
          /\ e.label.source = x
          /\ \E k \in DOMAIN ms : e.start = ms[k].start /\ e.stop = ms[k].stop

LEMMA MadeOf ==
    ASSUME NEW x \in Names, NEW S, NEW ms \in Seq(S), Placed(ms), Apart(ms),
           NEW f, \A k \in DOMAIN ms : f[k] \in Seq(Int),
           NEW g, \A k \in DOMAIN ms : Values(g[k]) \in AllDetails,
           NEW q, q = [k \in DOMAIN ms |-> Entity(x, ms[k], f[k], g[k])]
    PROVE  Made(q, x, ms)
<1>1. Len(ms) \in Nat /\ DOMAIN ms = 1..Len(ms)
    BY LenProperties
<1>2. ASSUME NEW k \in DOMAIN ms
      PROVE  q[k] \in Entities /\ q[k].start = ms[k].start /\ q[k].stop = ms[k].stop /\ q[k].label.source = x
    <2>1. q[k] = [start |-> ms[k].start, stop |-> ms[k].stop, confidence |-> 1,
                  label |-> [source |-> x, normal |-> f[k], details |-> Values(g[k])]]
        BY DEF Entity
    <2>2. /\ ms[k].start \in 0..Length /\ ms[k].stop \in 0..Length /\ ms[k].start < ms[k].stop
          /\ 1 \in Confidences /\ x \in Sources /\ f[k] \in Normals /\ Values(g[k]) \in AllDetails
        BY DetectionAssumption DEF Placed
    <2>3. q[k] \in Entities
        BY <2>1, <2>2 DEF Entities
    <2> QED
        BY <2>1, <2>3
<1>3. q \in Seq(Entities)
    <2>1. q \in [1..Len(ms) -> Entities]
        BY <1>1, <1>2
    <2> QED
        BY <1>1, <2>1, SeqDef
<1>4. DOMAIN q = DOMAIN ms
    OBVIOUS
<1>5. Distinct(q)
    <2> SUFFICES ASSUME NEW j \in DOMAIN ms, NEW k \in DOMAIN ms, j # k PROVE q[j] # q[k]
        BY <1>4 DEF Distinct
    <2>1. ms[j].start # ms[k].start
        BY DEF Apart
    <2> QED
        BY <1>2, <2>1
<1>6. ASSUME NEW e \in ToSet(q)
      PROVE  /\ e.label.source = x
             /\ \E k \in DOMAIN ms : e.start = ms[k].start /\ e.stop = ms[k].stop
    <2>1. PICK k \in DOMAIN ms : e = q[k]
        BY <1>4 DEF ToSet
    <2> QED
        BY <1>2, <2>1
<1> QED
    BY <1>3, <1>5, <1>6 DEF Made

\* Whether it is a regex ...
LEMMA ByRegex ==
    ASSUME NEW i \in Inputs, NEW x \in Regexes, x \in Names
    PROVE  \E ms : Made(FoundByRegex(i.chars, x), x, ms)
<1> DEFINE chars == i.chars
           matches == Finditer(chars, x)
           good == Among(matches, {m \in ToSet(matches) : Valid(x, DigitsOf(chars, m))})
           f == [k \in DOMAIN good |-> Normalized(chars, x, good[k])]
           g == [k \in DOMAIN good |-> Empty]
           q == FoundByRegex(chars, x)
<1>1. chars \in Seq(Int) /\ Len(chars) = Length
    <2>1. chars \in Seq(Char) /\ Len(chars) = Length
        BY DetectionAssumption
    <2> QED
        BY <2>1, CharsAreInts, SeqMonotonic
<1>2. q = [k \in DOMAIN good |-> Entity(x, good[k], Normalized(chars, x, good[k]), Empty)]
    BY DEF FoundByRegex
<1> HIDE DEF chars, q
<1>3. Yields(matches, chars, x, 0)
    BY <1>1, FinditerIs
<1> HIDE DEF matches
<1>4. /\ matches \in Seq(Spans(chars))
      /\ \A k \in 1..Len(matches) : matches[k].start < matches[k].stop
      /\ \A j, k \in 1..Len(matches) : j < k => matches[j].stop <= matches[k].start
    BY <1>3 DEF Yields
<1>5. DOMAIN matches = 1..Len(matches) /\ Len(matches) \in Nat
      /\ \A k \in 1..Len(matches) : matches[k] \in Spans(chars)
    BY <1>4, LenProperties
<1>6. Length \in Nat
    BY MaskingAssumption
<1>7. \A k \in 1..Len(matches) : matches[k].start \in 0..Length /\ matches[k].stop \in 0..Length
    BY <1>1, <1>5 DEF Spans
<1>8. Apart(matches)
    <2> SUFFICES ASSUME NEW j \in 1..Len(matches), NEW k \in 1..Len(matches), j # k
                 PROVE  matches[j].start # matches[k].start
        BY <1>5 DEF Apart
    <2>1. j < k \/ k < j
        BY <1>5
    <2>2. matches[j].stop <= matches[k].start \/ matches[k].stop <= matches[j].start
        BY <1>4, <2>1
    <2>3. matches[j].start < matches[j].stop /\ matches[k].start < matches[k].stop
        BY <1>4
    <2> QED
        BY <1>6, <1>7, <2>2, <2>3
<1>9. good \in Seq(Spans(chars)) /\ Apart(good) /\ ToSet(good) \subseteq ToSet(matches)
    BY <1>4, <1>8, AmongKeeps
<1> HIDE DEF good
<1>10. ASSUME NEW k \in DOMAIN good
       PROVE  /\ good[k].start \in 0..Length /\ good[k].stop \in 0..Length
              /\ good[k].start < good[k].stop
    <2>1. good[k] \in ToSet(matches)
        BY <1>9 DEF ToSet
    <2>2. PICK j \in 1..Len(matches) : good[k] = matches[j]
        BY <1>5, <2>1 DEF ToSet
    <2> QED
        BY <1>4, <1>7, <2>2
<1>11. Placed(good)
    BY <1>10 DEF Placed
<1>12. \A k \in DOMAIN good : f[k] \in Seq(Int)
    BY <1>1, <1>10, NormalizedIs
<1>13. q = [k \in DOMAIN good |-> Entity(x, good[k], f[k], g[k])]
    BY <1>2
<1>15. \A k \in DOMAIN good : Values(g[k]) \in AllDetails
    BY NoDetails
<1> HIDE DEF f, g
<1>14. Made(q, x, good)
    BY <1>9, <1>11, <1>12, <1>13, <1>15, MadeOf
<1> QED
    BY <1>14 DEF q, chars

\* ... or facts ...
LEMMA ByFacts ==
    ASSUME NEW x \in Names, NEW S, NEW ms \in Seq(S), Placed(ms), Apart(ms),
           \A k \in DOMAIN ms : \A a \in DOMAIN ms[k].fact : ms[k].fact[a] \in Int,
           NEW Q, NEW order \in Seq(Q)
    PROVE  Made(FromFacts(x, ms, order), x, ms)
<1> DEFINE g == [k \in DOMAIN ms |-> Details(ms[k].fact, ToSet(order))]
           f == [k \in DOMAIN ms |-> Joined(x, g[k], order)]
           q == FromFacts(x, ms, order)
<1>1. \A k \in DOMAIN ms : f[k] \in Seq(Int)
    BY JoinedIs
<1>4. \A k \in DOMAIN ms : Values(g[k]) \in AllDetails
    <2> SUFFICES ASSUME NEW k \in DOMAIN ms PROVE Values(g[k]) \in AllDetails
        OBVIOUS
    <2> DEFINE d == Details(ms[k].fact, ToSet(order))
    <2>1. \A a \in DOMAIN d : d[a] \in Int
        BY DEF Details
    <2> HIDE DEF d
    <2>2. Values(d) \in AllDetails
        BY <2>1, ValuesAre
    <2> QED
        BY <2>2 DEF d
<1>2. q = [k \in DOMAIN ms |-> Entity(x, ms[k], f[k], g[k])]
    BY DEF FromFacts
<1> HIDE DEF f, g, q
<1>3. Made(q, x, ms)
    BY <1>1, <1>2, <1>4, MadeOf
<1> QED
    BY <1>3 DEF q

\* ... or spans of the tagger.
LEMMA BySpans ==
    ASSUME NEW x \in Names, NEW S, NEW ner \in Seq(S), Placed(ner), Apart(ner),
           \A k \in DOMAIN ner : ner[k].normal \in Int, NEW type
    PROVE  \E ms : /\ Made(FromSpans(x, ner, type), x, ms)
                   /\ \A k \in DOMAIN ms : ms[k] \in ToSet(ner) /\ ms[k].type = type
<1> DEFINE T == {s \in ToSet(ner) : s.type = type}
           ms == Among(ner, T)
           f == [k \in DOMAIN ms |-> <<ms[k].normal>>]
           g == [k \in DOMAIN ms |-> Empty]
           q == FromSpans(x, ner, type)
<1>1. ms \in Seq(S) /\ ToSet(ms) = ToSet(ner) \cap T /\ Apart(ms)
    BY AmongKeeps
<1>2. q = [k \in DOMAIN ms |-> Entity(x, ms[k], f[k], g[k])]
    BY DEF FromSpans
<1> HIDE DEF ms, q
<1>3. ASSUME NEW k \in DOMAIN ms
      PROVE  ms[k] \in T /\ \E j \in DOMAIN ner : ms[k] = ner[j]
    <2>1. ms[k] \in ToSet(ms)
        BY DEF ToSet
    <2> QED
        BY <1>1, <2>1 DEF ToSet
<1>4. Placed(ms)
    BY <1>3 DEF Placed
<1>5. \A k \in DOMAIN ms : f[k] \in Seq(Int)
    <2> SUFFICES ASSUME NEW k \in DOMAIN ms PROVE f[k] \in Seq(Int)
        OBVIOUS
    <2> DEFINE v == ms[k].normal
    <2>1. v \in Int
        BY <1>3
    <2> HIDE DEF v
    <2>2. <<v>> \in Seq(Int)
        BY <2>1
    <2> QED
        BY <2>2 DEF v
<1>7. \A k \in DOMAIN ms : Values(g[k]) \in AllDetails
    BY NoDetails
<1> HIDE DEF f, g
<1>6. Made(q, x, ms)
    BY <1>1, <1>2, <1>4, <1>5, <1>7, MadeOf
<1> QED
    BY <1>3, <1>6 DEF q

\* What Natasha finds, for these lemmas.
LEMMA WellPlacedIs ==
    ASSUME NEW ms, WellPlaced(ms)
    PROVE  ms \in Seq(ToSet(ms)) /\ Placed(ms) /\ Apart(ms)
<1>1. \A k \in DOMAIN ms : ms[k] \in ToSet(ms)
    BY DEF ToSet
<1> QED
    BY <1>1 DEF WellPlaced, Placed, Apart

LEMMA NamesAre ==
    Names = {"date", "location", "money", "person", "email", "inn", "passport", "phone", "snils"}
<1>1. DOMAIN Registered = 1..9
    BY DEF Registered
<1>2. \A k \in 1..9 : k \in {1, 2, 3, 4, 5, 6, 7, 8, 9}
    OBVIOUS
<1>3. {Registered[k] : k \in 1..9} =
          {"date", "location", "money", "person", "email", "inn", "passport", "phone", "snils"}
    BY <1>2 DEF Registered
<1> QED
    BY <1>1, <1>3 DEF Names, ToSet

\* The attributes of a fact.
LEMMA PartsAre ==
    /\ \E Q : DateParts \in Seq(Q)
    /\ \E Q : MoneyParts \in Seq(Q)
    /\ \E Q : AddressParts \in Seq(Q)
<1>1. DateParts \in Seq({"day", "month", "year"})
    BY DEF DateParts
<1>2. MoneyParts \in Seq({"amount", "currency"})
    BY DEF MoneyParts
<1>3. AddressParts \in Seq({"country", "region", "city", "street", "house"})
    BY DEF AddressParts
<1> QED
    BY <1>1, <1>2, <1>3

\* What an extractor finds: entities of its own, no two the same.
LEMMA FoundIs ==
    ASSUME NEW i \in Inputs, NEW x \in Names
    PROVE  /\ Found(i, x) \in Seq(Entities)
           /\ Distinct(Found(i, x))
           /\ \A e \in ToSet(Found(i, x)) : e.label.source = x
<1>1. /\ i.ner \in Seq(ToSet(i.ner)) /\ Placed(i.ner) /\ Apart(i.ner)
      /\ i.dates \in Seq(ToSet(i.dates)) /\ Placed(i.dates) /\ Apart(i.dates)
      /\ i.money \in Seq(ToSet(i.money)) /\ Placed(i.money) /\ Apart(i.money)
      /\ i.addresses \in Seq(ToSet(i.addresses)) /\ Placed(i.addresses) /\ Apart(i.addresses)
    <2>1. WellPlaced(i.ner) /\ WellPlaced(i.dates) /\ WellPlaced(i.money) /\ WellPlaced(i.addresses)
        BY DetectionAssumption
    <2> QED
        BY <2>1, WellPlacedIs
<1>2. \A k \in DOMAIN i.ner : i.ner[k].normal \in Int
    <2>1. \A k \in DOMAIN i.ner : i.ner[k] \in ToSet(i.ner)
        BY DEF ToSet
    <2> QED
        BY <2>1, DetectionAssumption
<1>3. ASSUME NEW ms \in {i.addresses, i.dates, i.money}, NEW k \in DOMAIN ms
      PROVE  \A a \in DOMAIN ms[k].fact : ms[k].fact[a] \in Int
    <2>1. ms[k] \in ToSet(ms)
        BY DEF ToSet
    <2> QED
        BY <2>1, DetectionAssumption
<1>4. PICK D, M, A : DateParts \in Seq(D) /\ MoneyParts \in Seq(M) /\ AddressParts \in Seq(A)
    BY PartsAre
<1>5. CASE x = "date"
    <2>1. Made(FromFacts(x, i.dates, DateParts), x, i.dates)
        BY <1>1, <1>3, <1>4, ByFacts
    <2> QED
        BY <1>5, <2>1 DEF Found, Made
<1>6. CASE x = "money"
    <2>1. Made(FromFacts(x, i.money, MoneyParts), x, i.money)
        BY <1>1, <1>3, <1>4, ByFacts
    <2> QED
        BY <1>6, <2>1 DEF Found, Made
<1>7. CASE x = "person"
    <2>1. \E ms : Made(FromSpans(x, i.ner, "PER"), x, ms)
        BY <1>1, <1>2, BySpans
    <2> QED
        BY <1>7, <2>1 DEF Found, Made
<1>8. CASE x = "location"
    <2> DEFINE new == NewAddresses(i)
               p == FromSpans(x, i.ner, "LOC")
               q == FromFacts(x, new, AddressParts)
               T == {m \in ToSet(i.addresses) : <<m.start, m.stop>> \notin Located(i)}
    <2>1. new = Among(i.addresses, T)
        BY DEF NewAddresses
    <2> HIDE DEF new
    <2>2. new \in Seq(ToSet(i.addresses)) /\ ToSet(new) = ToSet(i.addresses) \cap T /\ Apart(new)
        BY <1>1, <2>1, AmongKeeps
    <2>3. ASSUME NEW k \in DOMAIN new
          PROVE  new[k] \in T /\ \E j \in DOMAIN i.addresses : new[k] = i.addresses[j]
        <3>1. new[k] \in ToSet(new)
            BY DEF ToSet
        <3> QED
            BY <2>2, <3>1 DEF ToSet
    <2>4. Placed(new) /\ \A k \in DOMAIN new : \A a \in DOMAIN new[k].fact : new[k].fact[a] \in Int
        <3>1. \A k \in DOMAIN i.addresses : \A a \in DOMAIN i.addresses[k].fact : i.addresses[k].fact[a] \in Int
            BY <1>3
        <3> HIDE DEF T
        <3> QED
            BY <1>1, <2>3, <3>1 DEF Placed
    <2>5. Made(q, x, new)
        BY <1>4, <2>2, <2>4, ByFacts
    <2>6. PICK ms : /\ Made(p, x, ms)
                    /\ \A k \in DOMAIN ms : ms[k] \in ToSet(i.ner) /\ ms[k].type = "LOC"
        BY <1>1, <1>2, BySpans
    <2>7. ASSUME NEW e \in ToSet(p), e \in ToSet(q)
          PROVE  FALSE
        <3>1. PICK k \in DOMAIN ms : e.start = ms[k].start /\ e.stop = ms[k].stop
            BY <2>6, <2>7 DEF Made
        <3>2. PICK j \in DOMAIN new : e.start = new[j].start /\ e.stop = new[j].stop
            BY <2>5, <2>7 DEF Made
        <3>3. <<ms[k].start, ms[k].stop>> \in Located(i)
            BY <2>6 DEF Located
        <3>4. <<new[j].start, new[j].stop>> \notin Located(i)
            BY <2>3
        <3> QED
            BY <3>1, <3>2, <3>3, <3>4
    <2>8. Found(i, x) = p \o q
        BY <1>8, <2>1 DEF Found, new
    <2> HIDE DEF p, q
    <2>9. ToSet(p) \cap ToSet(q) = {}
        BY <2>7
    <2>10. /\ p \in Seq(Entities) /\ Distinct(p) /\ \A e \in ToSet(p) : e.label.source = x
           /\ q \in Seq(Entities) /\ Distinct(q) /\ \A e \in ToSet(q) : e.label.source = x
        BY <2>5, <2>6 DEF Made
    <2>11. p \o q \in Seq(Entities) /\ Distinct(p \o q) /\ ToSet(p \o q) = ToSet(p) \cup ToSet(q)
        BY <2>9, <2>10, Behind
    <2> QED
        BY <2>8, <2>10, <2>11
<1>9. CASE x \notin {"date", "location", "money", "person"}
    <2>1. x \in Regexes
        BY <1>9, NamesAre DEF Regexes
    <2>2. \E ms : Made(FoundByRegex(i.chars, x), x, ms)
        BY <2>1, ByRegex
    <2>3. Found(i, x) = FoundByRegex(i.chars, x)
        BY <1>9 DEF Found
    <2> QED
        BY <2>2, <2>3 DEF Made
<1> QED
    BY <1>5, <1>6, <1>7, <1>8, <1>9

-----------------------------------------------------------------------------
\* j stands before i once the entities are sorted, or is it.
Leads(s, j, i) == s[j].start < s[i].start \/ (s[j].start = s[i].start /\ Stays(j, i))

Leaders(s, i) == {j \in DOMAIN s : Leads(s, j, i)}

\* Those among the first n.
LeadersTo(s, n, i) == {j \in 1..n : Leads(s, j, i)}

LEMMA FirstN ==
    ASSUME NEW n \in Nat
    PROVE  IsFiniteSet(1..n) /\ Cardinality(1..n) = n
BY FS_Interval

\* The place of i once they are sorted.
LEMMA PlaceIs ==
    ASSUME NEW n \in Nat, NEW s, \A k \in 1..n : s[k].start \in Int, NEW i \in 1..n
    PROVE  /\ Cardinality(LeadersTo(s, n, i)) \in 1..n
           /\ IsFiniteSet(LeadersTo(s, n, i)) /\ i \in LeadersTo(s, n, i)
           /\ \A j \in 1..n : i # j =>
                 \/ Cardinality(LeadersTo(s, n, i)) < Cardinality(LeadersTo(s, n, j)) /\ Leads(s, i, j)
                 \/ Cardinality(LeadersTo(s, n, j)) < Cardinality(LeadersTo(s, n, i)) /\ Leads(s, j, i)
<1> DEFINE C(k) == Cardinality(LeadersTo(s, n, k))
<1>3. IsFiniteSet(1..n) /\ Cardinality(1..n) = n
    BY FirstN
<1>4. ASSUME NEW k \in 1..n
      PROVE  IsFiniteSet(LeadersTo(s, n, k)) /\ C(k) \in 1..n /\ k \in LeadersTo(s, n, k)
    <2>1. LeadersTo(s, n, k) \in SUBSET (1..n)
        BY DEF LeadersTo
    <2>2. IsFiniteSet(LeadersTo(s, n, k)) /\ C(k) <= n
        BY <1>3, <2>1, FS_Subset
    <2>3. k \in LeadersTo(s, n, k)
        BY DEF LeadersTo, Leads, Stays
    <2>4. C(k) \in Nat /\ C(k) # 0
        BY <2>2, <2>3, FS_CardinalityType, FS_EmptySet
    <2> HIDE DEF C
    <2> QED
        BY <2>2, <2>3, <2>4
<1>5. ASSUME NEW k \in 1..n, NEW l \in 1..n, k # l, Leads(s, k, l)
      PROVE  C(k) < C(l)
    <2>1. l \notin LeadersTo(s, n, k)
        BY <1>5 DEF LeadersTo, Leads, Stays
    <2>2. LeadersTo(s, n, k) \subseteq LeadersTo(s, n, l)
        <3> SUFFICES ASSUME NEW j \in 1..n, Leads(s, j, k)
                     PROVE  Leads(s, j, l)
            BY DEF LeadersTo
        <3> QED
            BY <1>5 DEF Leads, Stays
    <2> DEFINE U == LeadersTo(s, n, l) \ {l}
    <2>3. LeadersTo(s, n, k) \in SUBSET U
        BY <2>1, <2>2
    <2>4. IsFiniteSet(U) /\ Cardinality(U) = C(l) - 1
        BY <1>4, FS_RemoveElement
    <2>5. C(k) <= Cardinality(U)
        <3> HIDE DEF U
        <3> QED
            BY <2>3, <2>4, FS_Subset
    <2>6. C(k) \in 1..n /\ C(l) \in 1..n
        BY <1>4
    <2> HIDE DEF C
    <2> QED
        BY <2>4, <2>5, <2>6
<1>6. ASSUME NEW k \in 1..n, NEW l \in 1..n
      PROVE  Leads(s, k, l) \/ Leads(s, l, k)
    BY DEF Leads, Stays
<1> QED
    BY <1>4, <1>5, <1>6

\* Every place is someone's.
LEMMA PlacesTaken ==
    ASSUME NEW n \in Nat, NEW s, \A k \in 1..n : s[k].start \in Int
    PROVE  /\ \A k \in 1..n : \E i \in 1..n : Cardinality(LeadersTo(s, n, i)) = k
           /\ \A i, j \in 1..n : i # j => Cardinality(LeadersTo(s, n, i)) # Cardinality(LeadersTo(s, n, j))
<1> DEFINE r == [i \in 1..n |-> Cardinality(LeadersTo(s, n, i))]
<1>1. \A i \in 1..n : Cardinality(LeadersTo(s, n, i)) \in 1..n
    BY PlaceIs
<1>2. \A i, j \in 1..n : i # j =>
          \/ Cardinality(LeadersTo(s, n, i)) < Cardinality(LeadersTo(s, n, j))
          \/ Cardinality(LeadersTo(s, n, j)) < Cardinality(LeadersTo(s, n, i))
    BY PlaceIs
<1>3. /\ r \in [1..n -> 1..n]
      /\ \A i \in 1..n : r[i] = Cardinality(LeadersTo(s, n, i))
    BY <1>1
<1> HIDE DEF r
<1>4. \A i, j \in 1..n : i # j => r[i] # r[j]
    <2> SUFFICES ASSUME NEW i \in 1..n, NEW j \in 1..n, i # j PROVE r[i] # r[j]
        OBVIOUS
    <2>1. r[i] \in 1..n /\ r[j] \in 1..n /\ (r[i] < r[j] \/ r[j] < r[i])
        BY <1>2, <1>3
    <2> QED
        BY <2>1
<1>5. r \in Injection(1..n, 1..n)
    BY <1>3, <1>4 DEF Injection, IsInjective
<1>6. IsFiniteSet(1..n) /\ Cardinality(1..n) = n
    BY FirstN
<1>7. r \in Surjection(1..n, 1..n)
    BY <1>5, <1>6, FS_Injection
<1>8. \A k \in 1..n : \E i \in 1..n : r[i] = k
    BY <1>7 DEF Surjection
<1> QED
    BY <1>3, <1>4, <1>8

LEMMA RankIs ==
    ASSUME NEW s \in Seq(Entities)
    PROVE  /\ \A i \in DOMAIN s : Cardinality(Leaders(s, i)) \in DOMAIN s
           /\ \A i, j \in DOMAIN s : i # j =>
                 \/ Cardinality(Leaders(s, i)) < Cardinality(Leaders(s, j)) /\ Leads(s, i, j)
                 \/ Cardinality(Leaders(s, j)) < Cardinality(Leaders(s, i)) /\ Leads(s, j, i)
           /\ \A k \in DOMAIN s : \E i \in DOMAIN s : Cardinality(Leaders(s, i)) = k
<1> DEFINE n == Len(s)
<1>1. n \in Nat /\ DOMAIN s = 1..n /\ \A k \in 1..n : s[k] \in Entities
    BY LenProperties
<1>2. \A k \in 1..n : s[k].start \in Int
    <2>1. \A k \in 1..n : s[k].start \in 0..Length
        BY <1>1 DEF Entities
    <2> QED
        BY <2>1, MaskingAssumption
<1>3. \A i : Leaders(s, i) = LeadersTo(s, n, i)
    BY <1>1 DEF Leaders, LeadersTo
<1> HIDE DEF n
<1>4. /\ \A i \in 1..n : Cardinality(LeadersTo(s, n, i)) \in 1..n
      /\ \A i, j \in 1..n : i # j =>
            \/ Cardinality(LeadersTo(s, n, i)) < Cardinality(LeadersTo(s, n, j)) /\ Leads(s, i, j)
            \/ Cardinality(LeadersTo(s, n, j)) < Cardinality(LeadersTo(s, n, i)) /\ Leads(s, j, i)
    BY ZenonT(40), <1>1, <1>2, PlaceIs
<1>5. \A k \in 1..n : \E i \in 1..n : Cardinality(LeadersTo(s, n, i)) = k
    BY ZenonT(40), <1>1, <1>2, PlacesTaken
<1> QED
    BY <1>1, <1>3, <1>4, <1>5

\* Sorting is a permutation: at[k] is where the k-th entity stood before.
Permutes(at, q, s) ==
    /\ at \in [DOMAIN s -> DOMAIN s]
    /\ \A k, l \in DOMAIN s : k # l => at[k] # at[l]
    /\ \A i \in DOMAIN s : \E k \in DOMAIN s : at[k] = i
    /\ q = [k \in DOMAIN s |-> s[at[k]]]
    /\ \A k, l \in DOMAIN s : k < l => Leads(s, at[k], at[l])

LEMMA SortedPermutes ==
    ASSUME NEW s \in Seq(Entities)
    PROVE  \E at : Permutes(at, Sorted(s), s)
<1> DEFINE n == Len(s)
           at == [k \in 1..n |-> CHOOSE i \in 1..n : Cardinality(Leaders(s, i)) = k]
<1>1. n \in Nat /\ DOMAIN s = 1..n
    BY LenProperties
<1> HIDE DEF n
<1>2. \A i \in 1..n : Cardinality(Leaders(s, i)) \in 1..n
    BY <1>1, RankIs
<1>3. \A i, j \in 1..n : i # j =>
          \/ Cardinality(Leaders(s, i)) < Cardinality(Leaders(s, j)) /\ Leads(s, i, j)
          \/ Cardinality(Leaders(s, j)) < Cardinality(Leaders(s, i)) /\ Leads(s, j, i)
    BY <1>1, RankIs
<1>4. \A k \in 1..n : \E i \in 1..n : Cardinality(Leaders(s, i)) = k
    BY <1>1, RankIs
<1>5. ASSUME NEW k \in 1..n
      PROVE  at[k] \in 1..n /\ Cardinality(Leaders(s, at[k])) = k
    BY <1>4
<1>6. Sorted(s) = [k \in 1..n |-> s[at[k]]]
    BY <1>1 DEF Sorted, Leaders, Leads
<1> HIDE DEF at
<1>7. at \in [1..n -> 1..n]
    <2>1. at = [k \in 1..n |-> at[k]]
        BY DEF at
    <2> QED
        BY <1>5, <2>1
<1>8. \A k, l \in 1..n : k # l => at[k] # at[l]
    BY <1>5
<1>9. \A i \in 1..n : \E k \in 1..n : at[k] = i
    <2> SUFFICES ASSUME NEW i \in 1..n PROVE \E k \in 1..n : at[k] = i
        OBVIOUS
    <2> DEFINE k == Cardinality(Leaders(s, i))
    <2>1. k \in 1..n
        BY <1>2
    <2>2. at[k] \in 1..n /\ Cardinality(Leaders(s, at[k])) = Cardinality(Leaders(s, i))
        BY <1>5, <2>1
    <2>3. at[k] = i
        <3>1. SUFFICES ASSUME at[k] # i PROVE FALSE
            OBVIOUS
        <3>2. \/ Cardinality(Leaders(s, at[k])) < k
              \/ k < Cardinality(Leaders(s, at[k]))
            BY <1>3, <2>2, <3>1
        <3> HIDE DEF k
        <3> QED
            BY <1>1, <2>1, <2>2, <3>2 DEF k
    <2> QED
        BY <2>1, <2>3
<1>10. \A k, l \in 1..n : k < l => Leads(s, at[k], at[l])
    <2> SUFFICES ASSUME NEW k \in 1..n, NEW l \in 1..n, k < l
                 PROVE  Leads(s, at[k], at[l])
        OBVIOUS
    <2>1. k # l /\ ~(l < k)
        BY <1>1
    <2>2. at[k] # at[l] /\ at[k] \in 1..n /\ at[l] \in 1..n
        BY <1>5, <1>8, <2>1
    <2> QED
        BY <1>3, <1>5, <2>1, <2>2
<1> QED
    BY <1>1, <1>6, <1>7, <1>8, <1>9, <1>10 DEF Permutes

\* What sorting keeps.
LEMMA SortedIs ==
    ASSUME NEW s \in Seq(Entities)
    PROVE  /\ Sorted(s) \in Seq(Entities)
           /\ ToSet(Sorted(s)) = ToSet(s)
           /\ Distinct(s) => Distinct(Sorted(s))
<1> DEFINE n == Len(s)
           q == Sorted(s)
<1>1. n \in Nat /\ DOMAIN s = 1..n /\ \A k \in 1..n : s[k] \in Entities
    BY LenProperties
<1>2. PICK at : Permutes(at, q, s)
    BY SortedPermutes
<1> HIDE DEF q, n
<1>3. /\ at \in [1..n -> 1..n]
      /\ \A k, l \in 1..n : k # l => at[k] # at[l]
      /\ \A i \in 1..n : \E k \in 1..n : at[k] = i
      /\ q = [k \in 1..n |-> s[at[k]]]
    BY <1>1, <1>2 DEF Permutes
<1>4. DOMAIN q = 1..n /\ \A k \in 1..n : q[k] = s[at[k]] /\ at[k] \in 1..n
    BY <1>3
<1>5. q \in Seq(Entities)
    <2>1. q \in [1..n -> Entities]
        BY <1>1, <1>3, <1>4
    <2> QED
        BY <1>1, <2>1, SeqDef
<1>6. ToSet(q) = ToSet(s)
    BY <1>1, <1>3, <1>4 DEF ToSet
<1>7. Distinct(s) => Distinct(q)
    <2> SUFFICES ASSUME Distinct(s), NEW k \in 1..n, NEW l \in 1..n, k # l PROVE q[k] # q[l]
        BY <1>4 DEF Distinct
    <2>1. at[k] \in 1..n /\ at[l] \in 1..n /\ at[k] # at[l]
        BY <1>3, <1>4
    <2>2. s[at[k]] # s[at[l]]
        BY <1>1, <2>1 DEF Distinct
    <2> QED
        BY <1>4, <2>2
<1> QED
    BY <1>5, <1>6, <1>7 DEF q

\* A sequence that names nothing twice is as long as what it names is large.
LEMMA CountedOnce ==
    ASSUME NEW E, NEW q \in Seq(E), Distinct(q)
    PROVE  Len(q) = Cardinality(ToSet(q))
<1>1. Len(q) \in Nat /\ DOMAIN q = 1..Len(q) /\ q \in [1..Len(q) -> E]
    BY LenProperties
<1>2. q \in Bijection(1..Len(q), ToSet(q))
    BY <1>1 DEF Bijection, Injection, IsInjective, Surjection, ToSet, Distinct
<1>3. ExistsBijection(1..Len(q), ToSet(q))
    BY <1>2 DEF ExistsBijection
<1> QED
    BY <1>1, <1>3, FS_CountingElements

\* What run makes of the names of a definition: what their extractors find,
\* each finding once.
LEMMA FindingsAre ==
    ASSUME NEW names \in Seq(Names), Distinct(names), input \in Inputs
    PROVE  /\ Findings(names) \in Seq(Entities)
           /\ ToSet(Findings(names)) = UNION {ToSet(Found(input, x)) : x \in ToSet(names)}
           /\ Len(Findings(names)) = Cardinality(ToSet(Findings(names)))
<1> DEFINE n == Len(names)
           f == [k \in DOMAIN names |-> Found(input, names[k])]
           all == FlattenSeq(f)
<1>1. n \in Nat /\ DOMAIN names = 1..n /\ \A k \in 1..n : names[k] \in Names
    BY LenProperties
<1> HIDE DEF n
<1>4. \A k \in 1..n : f[k] = Found(input, names[k])
    BY <1>1
<1>2. \A k \in 1..n : /\ f[k] \in Seq(Entities) /\ Distinct(f[k])
                      /\ \A e \in ToSet(f[k]) : e.label.source = names[k]
    <2>1. \A k \in 1..n : f[k] = Found(input, names[k])
        BY <1>1, <1>4
    <2> QED
        BY <1>1, <2>1, FoundIs
<1>3. f \in [1..n -> Seq(Entities)]
    BY <1>1, <1>2
<1>5. Findings(names) = Sorted(all)
    BY DEF Findings
<1> HIDE DEF f
<1>6. \A j, k \in 1..n : j # k => ToSet(f[j]) \cap ToSet(f[k]) = {}
    <2> SUFFICES ASSUME NEW j \in 1..n, NEW k \in 1..n, j # k,
                        NEW e, e \in ToSet(f[j]), e \in ToSet(f[k])
                 PROVE  FALSE
        OBVIOUS
    <2>1. names[j] # names[k]
        BY <1>1 DEF Distinct
    <2>2. e.label.source = names[j] /\ e.label.source = names[k]
        BY <1>2
    <2> QED
        BY <2>1, <2>2
<1>7. all \in Seq(Entities) /\ ToSet(all) = UNION {ToSet(f[k]) : k \in 1..n} /\ Distinct(all)
    BY ZenonT(40), <1>1, <1>2, <1>3, <1>6, FlattenIs
<1> HIDE DEF all
<1>8. Sorted(all) \in Seq(Entities) /\ ToSet(Sorted(all)) = ToSet(all) /\ Distinct(Sorted(all))
    BY <1>7, SortedIs
<1>9. UNION {ToSet(f[k]) : k \in 1..n} = UNION {ToSet(Found(input, x)) : x \in ToSet(names)}
    <2>1. ToSet(names) = {names[k] : k \in 1..n}
        BY <1>1 DEF ToSet
    <2> QED
        BY <1>4, <2>1
<1> QED
    BY <1>5, <1>7, <1>8, <1>9, CountedOnce

-----------------------------------------------------------------------------
\* _dedupe_preserve_order: the same names, each of them once.
LEMMA DedupedIs ==
    ASSUME NEW N, NEW names \in Seq(N)
    PROVE  /\ Deduped(names) \in Seq(N)
           /\ ToSet(Deduped(names)) = ToSet(names)
           /\ Distinct(Deduped(names))
<1> DEFINE n == Len(names)
           first == {k \in DOMAIN names : \A j \in 1..k - 1 : names[j] # names[k]}
           ids == [k \in DOMAIN names |-> k]
           places == Among(ids, first)
           q == Deduped(names)
<1>1. n \in Nat /\ DOMAIN names = 1..n /\ \A k \in 1..n : names[k] \in N
    BY LenProperties
<1> HIDE DEF n
<1>2. q = [k \in DOMAIN places |-> names[places[k]]]
    BY DEF Deduped
<1>3. ids \in Seq(1..n) /\ ToSet(ids) = 1..n /\ Distinct(ids)
    <2>1. ids \in [1..n -> 1..n]
        BY <1>1
    <2>2. ids \in Seq(1..n)
        BY <1>1, <2>1, SeqDef
    <2>3. DOMAIN ids = 1..n /\ \A k \in 1..n : ids[k] = k
        BY <1>1
    <2> HIDE DEF ids
    <2> QED
        BY <2>2, <2>3 DEF ToSet, Distinct
<1> HIDE DEF ids, q, first
<1>4. places \in Seq(1..n) /\ ToSet(places) = (1..n) \cap first /\ Distinct(places)
    <2> DEFINE X == 1..n
    <2>1. ids \in Seq(X) /\ ToSet(ids) = X /\ Distinct(ids)
        BY <1>3
    <2> HIDE DEF X
    <2>2. places \in Seq(X)
        BY <2>1, AmongKeeps
    <2>3. ToSet(places) = X \cap first
        BY <2>1, AmongKeeps
    <2>4. Distinct(places)
        BY <2>1, AmongKeeps
    <2> QED
        BY <2>2, <2>3, <2>4 DEF X
<1> HIDE DEF places
<1>5. Len(places) \in Nat /\ DOMAIN places = 1..Len(places) /\ \A k \in 1..Len(places) : places[k] \in 1..n
    BY <1>4, LenProperties
<1>6. DOMAIN q = DOMAIN places /\ \A k \in DOMAIN q : q[k] = names[places[k]] /\ places[k] \in first
    <2>1. \A k \in DOMAIN places : places[k] \in ToSet(places)
        BY DEF ToSet
    <2> QED
        BY <1>2, <1>4, <2>1
<1>7. q \in Seq(N)
    <2>1. q \in [1..Len(places) -> N]
        BY <1>1, <1>2, <1>5
    <2> QED
        BY <1>5, <2>1, SeqDef
<1>8. ASSUME NEW i \in first, NEW j \in first, i # j
      PROVE  names[i] # names[j]
    <2>1. i \in 1..n /\ j \in 1..n
        BY <1>1 DEF first
    <2>2. i \in 1..j - 1 \/ j \in 1..i - 1
        BY <1>1, <1>8, <2>1
    <2> QED
        BY <2>2 DEF first
<1>9. Distinct(q)
    BY <1>4, <1>5, <1>6, <1>8 DEF Distinct
<1>10. ASSUME NEW i \in 1..n
       PROVE  \E k \in first : names[k] = names[i]
    <2> DEFINE same == {k \in 1..n : names[k] = names[i]}
    <2>1. same \in SUBSET Nat /\ same # {}
        BY <1>1, <1>10
    <2>2. PICK k \in same : \A j \in same : k <= j
        BY <2>1, Least
    <2>3. \A j \in 1..k - 1 : j \in 1..n /\ ~(k <= j)
        BY <1>1, <2>2
    <2>4. \A j \in 1..k - 1 : names[j] # names[k]
        BY <2>2, <2>3
    <2> QED
        BY <1>1, <2>2, <2>4 DEF first
<1>11. ToSet(q) = ToSet(names)
    <2>1. ASSUME NEW e \in ToSet(q) PROVE e \in ToSet(names)
        BY <1>1, <1>5, <1>6 DEF ToSet
    <2>2. ASSUME NEW e \in ToSet(names) PROVE e \in ToSet(q)
        <3>1. PICK i \in 1..n : e = names[i]
            BY <1>1 DEF ToSet
        <3>2. PICK k \in first : names[k] = e
            BY <1>10, <3>1
        <3>3. k \in 1..n
            BY <1>1 DEF first
        <3>4. PICK j \in DOMAIN places : k = places[j]
            BY <1>4, <3>3 DEF ToSet
        <3> QED
            BY <1>6, <3>2, <3>4 DEF ToSet
    <2> QED
        BY <2>1, <2>2
<1> QED
    BY <1>7, <1>9, <1>11 DEF q

\* What the service's own lists of names are.
LEMMA RegisteredIs == Registered \in Seq(Names) /\ Distinct(Registered)
<1>1. DOMAIN Registered = 1..9
    BY DEF Registered
<1>2. Registered \in Seq(Names)
    <2>1. \A k \in 1..9 : Registered[k] \in Names
        BY <1>1 DEF Names, ToSet
    <2>2. Registered = [k \in 1..9 |-> Registered[k]]
        BY DEF Registered
    <2>3. Registered \in [1..9 -> Names]
        BY <2>1, <2>2
    <2>4. 9 \in Nat
        OBVIOUS
    <2> QED
        BY <2>3, <2>4, SeqDef
<1>3. Distinct(Registered)
    <2>1. \A j \in 1..9 : j \in {1, 2, 3, 4, 5, 6, 7, 8, 9}
        OBVIOUS
    <2> QED
        BY <1>1, <2>1 DEF Distinct, Registered
<1> QED
    BY <1>2, <1>3

LEMMA DefaultIs == DefaultExtractors \in Seq(Names) /\ Distinct(DefaultExtractors)
<1>1. {"passport", "inn", "phone"} \subseteq Names
    BY NamesAre
<1>2. DefaultExtractors \in Seq({"passport", "inn", "phone"})
    BY DEF DefaultExtractors
<1>3. DefaultExtractors \in Seq(Names)
    BY <1>1, <1>2, SeqMonotonic
<1>4. Distinct(DefaultExtractors)
    BY DEF Distinct, DefaultExtractors
<1> QED
    BY <1>3, <1>4

-----------------------------------------------------------------------------
\* The store, and the versions of the engine.
StoreTyped ==
    /\ current \subseteq live /\ live \subseteq Profiles /\ retired \subseteq Profiles
    /\ build \subseteq Names /\ lost \subseteq Names
    /\ changes \in 0..MaxChanges

\* Definitions name no extractor twice.
DefinitionsTyped ==
    /\ definition \in [Profiles -> Definitions]
    /\ \A p \in Profiles : Distinct(definition[p].extractors)
    /\ using \in Definitions /\ Distinct(using.extractors)
    /\ offered \subseteq Definitions

RequestTyped ==
    /\ phase \in {"idle", "read", "run", "pipeline", "answered", "failed"}
    /\ route \in Routes
    /\ input \in IF phase = "idle" THEN {Nothing} ELSE Inputs

\* The pipeline starts on what the extractors found, and not before.
Started ==
    /\ phase \in {"pipeline", "answered"} => found = Findings(using.extractors)
    /\ phase \notin {"pipeline", "answered"} => Fresh

PInv == StoreTyped /\ DefinitionsTyped /\ RequestTyped /\ Started /\ IInv

-----------------------------------------------------------------------------
LEMMA DefinitionIs ==
    ASSUME NEW names \in Seq(Names), NEW m \in Placeholders, NEW b \in BOOLEAN
    PROVE  Definition(names, m, b) \in Definitions /\ Definition(names, m, b).extractors = names
BY DEF Definition, Definitions

\* The active definition of a store.
ActiveOf(c, d) ==
    IF c = {} THEN Definition(DefaultExtractors, "hidden", TRUE) ELSE d[CHOOSE p \in c : TRUE]

LEMMA ActiveIs ==
    ASSUME NEW c \in SUBSET Profiles, NEW d \in [Profiles -> Definitions],
           \A p \in Profiles : Distinct(d[p].extractors)
    PROVE  ActiveOf(c, d) \in Definitions /\ Distinct(ActiveOf(c, d).extractors)
<1>1. CASE c = {}
    <2>1. "hidden" \in Placeholders
        BY DetectionAssumption
    <2>2. Definition(DefaultExtractors, "hidden", TRUE) \in Definitions
          /\ Definition(DefaultExtractors, "hidden", TRUE).extractors = DefaultExtractors
        BY <2>1, DefaultIs, DefinitionIs
    <2> QED
        BY <1>1, <2>2, DefaultIs DEF ActiveOf
<1>2. CASE c # {}
    <2>1. PICK p \in Profiles : ActiveOf(c, d) = d[p]
        BY <1>2 DEF ActiveOf
    <2> QED
        BY <2>1
<1> QED
    BY <1>1, <1>2

\* What parse_profile_yaml accepts is a definition that names nothing twice.
LEMMA ParsedIs ==
    ASSUME NEW yaml \in Yamls, Accepted(Parsed(yaml)), build \subseteq Names
    PROVE  Parsed(yaml) \in Definitions /\ Distinct(Parsed(yaml).extractors)
<1>1. yaml \in Unchecked
    BY DetectionAssumption
<1> DEFINE names == Deduped(yaml.extractors)
<1>2. yaml.extractors \in Seq(STRING)
    BY <1>1 DEF Unchecked
<1>3. names \in Seq(STRING) /\ Distinct(names)
    BY <1>2, DedupedIs
<1>4. Parsed(yaml) = [yaml EXCEPT !.extractors = names]
    BY DEF Parsed
<1> HIDE DEF names
<1>5. Parsed(yaml).extractors = names
    BY <1>1, <1>4 DEF Unchecked
<1>6. names \in Seq(Names)
    <2>1. Len(names) \in Nat /\ DOMAIN names = 1..Len(names) /\ names \in [1..Len(names) -> STRING]
        BY <1>3, LenProperties
    <2>2. \A k \in 1..Len(names) : names[k] \in ToSet(names)
        BY <2>1 DEF ToSet
    <2>3. ToSet(names) \subseteq Names
        BY <1>5 DEF Accepted
    <2>4. names \in [1..Len(names) -> Names]
        BY <2>1, <2>2, <2>3
    <2> QED
        BY <2>1, <2>4, SeqDef
<1>7. Parsed(yaml) \in Definitions
    BY <1>1, <1>4, <1>6 DEF Unchecked, Definitions
<1> QED
    BY <1>3, <1>5, <1>7

\* The definition of the /all routes.
LEMMA EverythingIs ==
    ASSUME build \subseteq Names
    PROVE  /\ Definition(Among(Registered, build), "hidden", TRUE) \in Definitions
           /\ Distinct(Definition(Among(Registered, build), "hidden", TRUE).extractors)
<1> DEFINE names == Among(Registered, build)
<1>1. names \in Seq(Names) /\ Distinct(names)
    BY RegisteredIs, AmongKeeps
<1>2. "hidden" \in Placeholders
    BY DetectionAssumption
<1> HIDE DEF names
<1>3. Definition(names, "hidden", TRUE) \in Definitions
      /\ Definition(names, "hidden", TRUE).extractors = names
    BY <1>1, <1>2, DefinitionIs
<1> QED
    BY <1>1, <1>3 DEF names

LEMMA InitPInv == ServiceInit => PInv
<1> SUFFICES ASSUME ServiceInit PROVE PInv
    OBVIOUS
<1>1. StoreTyped
    BY DetectionAssumption DEF ServiceInit, StoreTyped
<1>2. DefinitionsTyped
    <2> DEFINE d == Definition(DefaultExtractors, "hidden", TRUE)
    <2>1. "hidden" \in Placeholders
        BY DetectionAssumption
    <2>2. d \in Definitions /\ Distinct(d.extractors)
        BY <2>1, DefaultIs, DefinitionIs
    <2>3. definition = [p \in Profiles |-> d] /\ using = d /\ offered = {}
        BY DEF ServiceInit
    <2> HIDE DEF d
    <2> QED
        BY <2>2, <2>3 DEF DefinitionsTyped
<1>3. RequestTyped
    BY DEF ServiceInit, RequestTyped, Routes
<1>4. Fresh /\ Started
    <2>1. Fresh
        <3>1. <<>> \in Seq(Entities)
            BY EmptySeq
        <3> QED
            BY <3>1 DEF ServiceInit, Fresh
    <2> QED
        BY <2>1 DEF ServiceInit, Started
<1> QED
    BY <1>1, <1>2, <1>3, <1>4, FreshIInv DEF PInv

-----------------------------------------------------------------------------
\* The pipeline's part, for a step that leaves it and what it rests on alone.
LEMMA PipelineSame ==
    ASSUME PInv, UNCHANGED <<vars, input, using, phase>>
    PROVE  Started' /\ IInv'
<1>1. IInv'
    BY StutterStep DEF PInv
<1>2. Started'
    BY DEF PInv, Started, Findings, Fresh, vars
<1> QED
    BY <1>1, <1>2

\* The store commits: only its definitions change.
LEMMA CommitStep ==
    ASSUME PInv, Commit
    PROVE  PInv'
<1>1. UNCHANGED <<build, lost, phase, route, input, using, shown, vars>>
    BY DEF Commit, engine, request
<1>2. PICK p \in Profiles : Save(p) \/ Turn(p)
    BY DEF Commit
<1>3. /\ StoreTyped /\ DefinitionsTyped /\ RequestTyped
      /\ changes' = changes + 1 /\ changes < MaxChanges
      /\ offered' = IF phase = "idle" THEN {} ELSE offered \cup {ActiveDefinition'}
    BY DEF PInv, Commit
<1>4. /\ definition' \in [Profiles -> Definitions]
      /\ \A q \in Profiles : Distinct(definition'[q].extractors)
    <2>1. CASE Save(p)
        <3>1. PICK yaml \in Yamls :
                  Accepted(Parsed(yaml)) /\ definition' = [definition EXCEPT ![p] = Parsed(yaml)]
            BY <2>1 DEF Save
        <3>2. PICK d : d = Parsed(yaml)
            OBVIOUS
        <3>3. d \in Definitions /\ Distinct(d.extractors)
            BY <1>3, <3>1, <3>2, ParsedIs DEF StoreTyped
        <3>4. definition' = [definition EXCEPT ![p] = d]
            BY <3>1, <3>2
        <3> QED
            BY <1>3, <3>3, <3>4 DEF DefinitionsTyped
    <2>2. CASE Turn(p)
        BY <1>3, <2>2 DEF Turn, DefinitionsTyped
    <2> QED
        BY <1>2, <2>1, <2>2
<1>5. StoreTyped'
    <2>1. current' \subseteq live' /\ live' \subseteq Profiles /\ retired' \subseteq Profiles
        BY <1>2, <1>3 DEF StoreTyped, Save, Turn, Store!Add, Store!Switch, Store!Retire, Store!Lose
    <2>2. changes' \in 0..MaxChanges
        BY <1>3, DetectionAssumption DEF StoreTyped
    <2> QED
        BY <1>1, <1>3, <2>1, <2>2 DEF StoreTyped
<1>6. DefinitionsTyped'
    <2>1. current' \in SUBSET Profiles
        BY <1>5 DEF StoreTyped
    <2>2. ActiveOf(current', definition') \in Definitions
        BY <1>4, <2>1, ActiveIs
    <2>3. ActiveDefinition' \in Definitions
        BY <2>2 DEF ActiveOf, ActiveDefinition
    <2>4. offered' \subseteq Definitions
        BY <1>3, <2>3 DEF DefinitionsTyped
    <2> QED
        BY <1>1, <1>3, <1>4, <2>4 DEF DefinitionsTyped
<1>7. RequestTyped'
    BY <1>1, <1>3 DEF RequestTyped
<1> QED
    BY <1>1, <1>5, <1>6, <1>7, PipelineSame DEF PInv

LEMMA RedeployStep ==
    ASSUME PInv, Redeploy
    PROVE  PInv'
<1>1. /\ UNCHANGED <<live, current, retired, definition, changes>>
      /\ UNCHANGED <<phase, route, input, using, shown, offered, vars>>
    BY DEF Redeploy, store, request
<1>2. build' \in Builds /\ lost' = lost \cup (build \ build')
    BY DEF Redeploy
<1>3. StoreTyped'
    BY <1>1, <1>2, DetectionAssumption DEF PInv, StoreTyped
<1>4. DefinitionsTyped' /\ RequestTyped'
    BY <1>1 DEF PInv, DefinitionsTyped, RequestTyped
<1> QED
    BY <1>1, <1>3, <1>4, PipelineSame DEF PInv

\* The request's steps up to the pipeline.
LEMMA ReceiveStep ==
    ASSUME PInv, Receive
    PROVE  PInv'
<1>1. /\ UNCHANGED <<live, current, retired, definition, build, lost, changes, shown, vars>>
      /\ input' \in Inputs /\ route' \in Routes /\ phase' \in {"run", "read"} /\ phase = "idle"
    BY DEF Receive, store, engine
<1>2. StoreTyped'
    BY <1>1 DEF PInv, StoreTyped
<1>3. RequestTyped'
    BY <1>1 DEF RequestTyped
<1>4. Started' /\ IInv'
    <2>1. Fresh
        BY <1>1 DEF PInv, Started
    <2>2. Fresh'
        BY <1>1, <2>1 DEF Fresh, vars
    <2>3. IInv'
        BY <1>1, StutterStep DEF PInv
    <2> QED
        BY <1>1, <2>2, <2>3 DEF Started
<1>5. DefinitionsTyped'
    <2>1. ActiveDefinition \in Definitions
        <3>1. ActiveOf(current, definition) \in Definitions
            BY ActiveIs DEF PInv, StoreTyped, DefinitionsTyped
        <3> QED
            BY <3>1 DEF ActiveOf, ActiveDefinition
    <2>2. PICK everything : everything = Definition(Among(Registered, build), "hidden", TRUE)
        OBVIOUS
    <2>3. everything \in Definitions /\ Distinct(everything.extractors)
        BY <2>2, EverythingIs DEF PInv, StoreTyped
    <2>4. \/ using' = everything /\ offered' = {using'}
          \/ using' = using /\ offered' = {ActiveDefinition}
        BY <2>2 DEF Receive
    <2> QED
        BY <1>1, <2>1, <2>3, <2>4 DEF PInv, DefinitionsTyped
<1> QED
    BY <1>2, <1>3, <1>4, <1>5 DEF PInv

LEMMA ReadStep ==
    ASSUME PInv, ReadActive
    PROVE  PInv'
<1>1. /\ UNCHANGED <<live, current, retired, definition, build, lost, changes>>
      /\ UNCHANGED <<route, input, offered, shown, vars>>
      /\ using' = ActiveDefinition /\ phase' \in {"run", "failed"} /\ phase = "read"
    BY DEF ReadActive, store, engine
<1>2. StoreTyped' /\ RequestTyped'
    BY <1>1 DEF PInv, StoreTyped, RequestTyped
<1>3. Started' /\ IInv'
    <2>1. Fresh
        BY <1>1 DEF PInv, Started
    <2>2. Fresh'
        BY <1>1, <2>1 DEF Fresh, vars
    <2>3. IInv'
        BY <1>1, StutterStep DEF PInv
    <2> QED
        BY <1>1, <2>2, <2>3 DEF Started
<1>4. DefinitionsTyped'
    <2>1. ActiveDefinition \in Definitions /\ Distinct(ActiveDefinition.extractors)
        <3>1. ActiveOf(current, definition) \in Definitions /\ Distinct(ActiveOf(current, definition).extractors)
            BY ActiveIs DEF PInv, StoreTyped, DefinitionsTyped
        <3> QED
            BY <3>1 DEF ActiveOf, ActiveDefinition
    <2> QED
        BY <1>1, <2>1 DEF PInv, DefinitionsTyped
<1> QED
    BY <1>2, <1>3, <1>4 DEF PInv

\* run starts with what the extractors found.
LEMMA RunStep ==
    ASSUME PInv, Run
    PROVE  PInv'
<1>1. /\ UNCHANGED <<live, current, retired, definition, build, lost, changes>>
      /\ UNCHANGED <<route, input, using, offered, shown, kept, todo, text>>
      /\ found' = Findings(using.extractors) /\ removeOverlaps' = using.removeOverlaps
      /\ next' = 1 /\ stage' = "resolve" /\ phase' = "pipeline" /\ phase = "run"
    BY DEF Run, store, engine
<1>2. StoreTyped' /\ DefinitionsTyped' /\ RequestTyped'
    BY <1>1 DEF PInv, StoreTyped, DefinitionsTyped, RequestTyped
<1>3. Started'
    BY <1>1 DEF Started, Findings
<1>4. IInv'
    <2>1. Fresh
        BY <1>1 DEF PInv, Started
    <2>2. found' \in Seq(Entities)
        <3>1. input \in Inputs /\ using.extractors \in Seq(Names) /\ Distinct(using.extractors)
            BY <1>1 DEF PInv, RequestTyped, DefinitionsTyped, Definitions
        <3> QED
            BY <1>1, <3>1, FindingsAre
    <2>3. removeOverlaps' \in BOOLEAN
        BY <1>1 DEF PInv, DefinitionsTyped, Definitions
    <2>4. Fresh'
        BY <1>1, <2>1, <2>2, <2>3 DEF Fresh
    <2> QED
        BY <2>4, FreshIInv, PTL
<1> QED
    BY <1>2, <1>3, <1>4 DEF PInv

LEMMA PipelineStep ==
    ASSUME PInv, Pipeline
    PROVE  PInv'
<1>1. UNCHANGED service /\ phase = "pipeline"
    BY DEF Pipeline
<1>2. /\ UNCHANGED <<live, current, retired, definition, build, lost, changes>>
      /\ UNCHANGED <<phase, route, input, using, shown, offered>>
    BY <1>1 DEF service, store, engine, request
<1>3. StoreTyped' /\ DefinitionsTyped' /\ RequestTyped'
    BY <1>2 DEF PInv, StoreTyped, DefinitionsTyped, RequestTyped
<1>4. IInv'
    BY ConsiderStep, ResolvedStep, MaskStep, ReturnStep DEF PInv, Pipeline
<1>5. Started'
    <2>1. UNCHANGED found
        BY DEF Pipeline, Consider, Resolved, Mask, Return
    <2> QED
        BY <1>1, <1>2, <2>1 DEF PInv, Started, Findings
<1> QED
    BY <1>3, <1>4, <1>5 DEF PInv

LEMMA RespondStep ==
    ASSUME PInv, Respond
    PROVE  PInv'
<1>1. /\ UNCHANGED <<live, current, retired, definition, build, lost, changes>>
      /\ UNCHANGED <<route, input, using, offered, vars>>
      /\ phase' = "answered" /\ phase = "pipeline"
    BY DEF Respond, store, engine
<1>2. StoreTyped' /\ DefinitionsTyped' /\ RequestTyped'
    BY <1>1 DEF PInv, StoreTyped, DefinitionsTyped, RequestTyped
<1>3. IInv'
    BY <1>1, StutterStep DEF PInv
<1>4. Started'
    BY <1>1 DEF PInv, Started, Findings, vars
<1> QED
    BY <1>2, <1>3, <1>4 DEF PInv

LEMMA IdleStep ==
    ASSUME PInv, UNCHANGED allVars
    PROVE  PInv'
<1>1. /\ UNCHANGED <<live, current, retired, definition, build, lost, changes>>
      /\ UNCHANGED <<phase, route, input, using, shown, offered, vars>>
    BY DEF allVars, service, store, engine, request
<1>2. StoreTyped' /\ DefinitionsTyped' /\ RequestTyped'
    BY <1>1 DEF PInv, StoreTyped, DefinitionsTyped, RequestTyped
<1> QED
    BY <1>1, <1>2, PipelineSame DEF PInv

LEMMA NextPInv == PInv /\ [ServiceNext]_allVars => PInv'
BY CommitStep, RedeployStep, ReceiveStep, ReadStep, RunStep, PipelineStep, RespondStep, IdleStep
   DEF ServiceNext

-----------------------------------------------------------------------------
\* What is active now is among what was active since the request arrived, and
\* so is what it works with.
Offered ==
    /\ phase = "read" => ActiveDefinition \in offered
    /\ phase \in {"run", "pipeline", "answered", "failed"} => using \in offered

\* The pipeline and the answer follow what the request works with.
Followed ==
    /\ phase \in {"pipeline", "answered"} => removeOverlaps = using.removeOverlaps
    /\ phase = "answered" => shown = IF route[1] = "anonimization" THEN using.placeholder ELSE "none"

\* A name comes from a version that had it: it is registered or was lost.
Accounted(d) == \A i \in DOMAIN d.extractors : d.extractors[i] \in build \cup lost

NamesAccounted ==
    /\ current \subseteq live /\ live \subseteq Profiles
    /\ DOMAIN definition = Profiles
    /\ \A p \in Profiles : Accounted(definition[p])
    /\ Names = build \cup lost

SInv == Offered /\ Followed /\ NamesAccounted /\ FailsOnlyIfLost

-----------------------------------------------------------------------------
LEMMA DefaultNames == \A i \in DOMAIN DefaultExtractors : DefaultExtractors[i] \in Names
<1>1. {"passport", "inn", "phone"} \subseteq Names
    <2>1. /\ Registered[7] = "passport" /\ Registered[6] = "inn" /\ Registered[8] = "phone"
          /\ 6 \in DOMAIN Registered /\ 7 \in DOMAIN Registered /\ 8 \in DOMAIN Registered
        BY DEF Registered
    <2>2. QED  BY <2>1 DEF Names, ToSet
<1>2. \A i \in DOMAIN DefaultExtractors : DefaultExtractors[i] \in {"passport", "inn", "phone"}
    BY DEF DefaultExtractors
<1>3. QED  BY <1>1, <1>2

\* Whichever profile is current, its names are accounted for.
LEMMA ActiveAccounted == ASSUME NamesAccounted PROVE Accounted(ActiveDefinition)
<1> DEFINE p == CHOOSE q \in current : TRUE
<1>1. CASE current = {}
    <2>1. ActiveDefinition.extractors = DefaultExtractors
        BY <1>1 DEF ActiveDefinition, Definition
    <2>2. QED  BY <2>1, DefaultNames DEF Accounted, NamesAccounted
<1>2. CASE current # {}
    <2>1. p \in Profiles
        BY <1>2 DEF NamesAccounted
    <2>2. ActiveDefinition = definition[p]
        BY <1>2 DEF ActiveDefinition
    <2> HIDE DEF p
    <2>3. QED  BY <2>1, <2>2 DEF NamesAccounted
<1>3. QED  BY <1>1, <1>2

LEMMA InitSInv == ServiceInit => SInv
<1> SUFFICES ASSUME ServiceInit PROVE SInv
    OBVIOUS
<1>1. Offered /\ Followed /\ FailsOnlyIfLost
    BY DEF ServiceInit, Offered, Followed, FailsOnlyIfLost
<1>2. \A p \in Profiles : Accounted(definition[p])
    <2> SUFFICES ASSUME NEW p \in Profiles PROVE Accounted(definition[p])
        OBVIOUS
    <2>1. definition[p].extractors = DefaultExtractors /\ build = Names
        BY DEF ServiceInit, Definition
    <2>2. QED  BY <2>1, DefaultNames DEF Accounted
<1>3. QED  BY <1>1, <1>2 DEF SInv, NamesAccounted, ServiceInit

-----------------------------------------------------------------------------
\* The pipeline leaves remove_overlaps alone.
LEMMA PipelineKeeps ==
    ASSUME Pipeline
    PROVE  UNCHANGED <<service, removeOverlaps>> /\ phase = "pipeline"
BY DEF Pipeline, Consider, Resolved, Mask, Return

\* Names stay accounted for: a profile is saved with registered ones, a
\* version that drops some loses them.
LEMMA NamesStep ==
    ASSUME NamesAccounted, [ServiceNext]_allVars
    PROVE  NamesAccounted'
<1>1. ASSUME NEW p \in Profiles, Save(p), UNCHANGED engine  PROVE NamesAccounted'
    <2>1. PICK yaml \in Yamls :
              /\ Accepted(Parsed(yaml))
              /\ definition' = [definition EXCEPT ![p] = Parsed(yaml)]
              /\ \/ Store!Add(p) \/ Store!Switch(p) \/ UNCHANGED <<live, current, retired>>
        BY <1>1 DEF Save
    <2>2. UNCHANGED <<build, lost>>
        BY <1>1 DEF engine
    <2>3. \A i \in DOMAIN Parsed(yaml).extractors : Parsed(yaml).extractors[i] \in build
        BY <2>1 DEF Accepted, ToSet
    <2>4. current' \subseteq live' /\ live' \subseteq Profiles
        BY <2>1 DEF NamesAccounted, Store!Add, Store!Switch
    <2> DEFINE new == Parsed(yaml)
    <2>5. definition' = [definition EXCEPT ![p] = new] /\ \A i \in DOMAIN new.extractors : new.extractors[i] \in build
        BY <2>1, <2>3
    <2> HIDE DEF new
    <2>6. ASSUME NEW q \in Profiles  PROVE Accounted(definition[q])'
        <3>1. definition'[q] = IF q = p THEN new ELSE definition[q]
            BY <2>5 DEF NamesAccounted
        <3>2. Accounted(definition[q])
            BY DEF NamesAccounted
        <3>3. QED  BY <2>2, <2>5, <3>1, <3>2 DEF Accounted
    <2>7. DOMAIN definition' = Profiles
        BY <2>5 DEF NamesAccounted
    <2>8. QED  BY <2>2, <2>4, <2>6, <2>7 DEF NamesAccounted
<1>2. ASSUME NEW p \in Profiles, Turn(p), UNCHANGED engine  PROVE NamesAccounted'
    <2>1. UNCHANGED <<definition, build, lost>>
        BY <1>2 DEF Turn, engine
    <2>2. current' \subseteq live' /\ live' \subseteq Profiles
        BY <1>2 DEF Turn, NamesAccounted, Store!Switch, Store!Retire, Store!Lose
    <2>3. QED  BY <2>1, <2>2 DEF NamesAccounted, Accounted
<1>3. CASE Commit
    BY <1>1, <1>2, <1>3 DEF Commit
<1>4. CASE Redeploy
    <2>1. UNCHANGED <<live, current, definition>> /\ lost' = lost \cup (build \ build') /\ build' \in Builds
        BY <1>4 DEF Redeploy, store
    <2>2. build' \subseteq Names
        BY <2>1, DetectionAssumption
    <2>3. Names = build' \cup lost' /\ build \cup lost \subseteq build' \cup lost'
        BY <2>1, <2>2 DEF NamesAccounted
    <2>4. QED  BY <2>1, <2>3 DEF NamesAccounted, Accounted
<1>5. CASE Receive \/ ReadActive \/ Run \/ Pipeline \/ Respond \/ UNCHANGED allVars
    <2>1. UNCHANGED <<live, current, definition, build, lost>>
        BY <1>5, PipelineKeeps DEF Receive, ReadActive, Run, Respond, allVars, service, store, engine
    <2>2. QED  BY <2>1 DEF NamesAccounted, Accounted
<1>6. QED  BY <1>3, <1>4, <1>5 DEF ServiceNext

\* What the request works with was active meanwhile, and it follows that.
LEMMA OfferedStep ==
    ASSUME Offered, Followed, [ServiceNext]_allVars
    PROVE  Offered' /\ Followed'
<1>1. CASE Commit
    <2>1. /\ UNCHANGED <<phase, using, shown, route, removeOverlaps>>
          /\ phase # "idle" => offered' = offered \cup {ActiveDefinition'}
        BY <1>1 DEF Commit, request, vars
    <2>2. QED  BY <2>1 DEF Offered, Followed
<1>2. CASE Redeploy
    BY <1>2 DEF Redeploy, Offered, Followed, request
<1>3. CASE Receive
    <2>1. UNCHANGED ActiveDefinition
        BY <1>3 DEF Receive, store, ActiveDefinition
    <2>2. QED  BY <1>3, <2>1 DEF Receive, Offered, Followed
<1>4. CASE ReadActive
    BY <1>4 DEF ReadActive, Offered, Followed
<1>5. CASE Run
    BY <1>5 DEF Run, Offered, Followed
<1>6. CASE Respond
    BY <1>6 DEF Respond, PlaceholderOf, Offered, Followed, vars
<1>7. CASE Pipeline
    BY <1>7, PipelineKeeps DEF service, request, Offered, Followed
<1>8. CASE UNCHANGED allVars
    <2>1. UNCHANGED <<phase, using, shown, route, offered, removeOverlaps, definition, current>>
        BY <1>8 DEF allVars, service, store, request, vars
    <2>2. UNCHANGED ActiveDefinition
        BY <2>1 DEF ActiveDefinition
    <2>3. QED  BY <2>1, <2>2 DEF Offered, Followed
<1>9. QED  BY <1>1, <1>2, <1>3, <1>4, <1>5, <1>6, <1>7, <1>8 DEF ServiceNext

\* A request fails where it reads a definition with a name that is not
\* registered, hence lost.
LEMMA FailureStep ==
    ASSUME NamesAccounted, FailsOnlyIfLost, [ServiceNext]_allVars
    PROVE  FailsOnlyIfLost'
<1>1. CASE ReadActive
    <2>1. using' = ActiveDefinition /\ lost' = lost
        BY <1>1 DEF ReadActive, engine
    <2>2. phase' = "failed" => \E i \in DOMAIN using'.extractors : using'.extractors[i] \notin build
        BY <1>1 DEF ReadActive, ToSet
    <2>3. Accounted(using')
        BY <2>1, ActiveAccounted
    <2>4. QED  BY <2>1, <2>2, <2>3 DEF FailsOnlyIfLost, Accounted, ToSet
<1>2. CASE Commit \/ Pipeline \/ UNCHANGED allVars
    <2>1. UNCHANGED <<phase, using, lost>>
        BY <1>2, PipelineKeeps DEF Commit, request, engine, allVars, service
    <2>2. QED  BY <2>1 DEF FailsOnlyIfLost
<1>3. CASE Redeploy \/ Receive \/ Run \/ Respond
    <2>1. phase' # "failed"
        BY <1>3 DEF Redeploy, Receive, Run, Respond, request
    <2>2. QED  BY <2>1 DEF FailsOnlyIfLost
<1>4. QED  BY <1>1, <1>2, <1>3 DEF ServiceNext

-----------------------------------------------------------------------------
\* The inductive invariant of the service.
DInv == SInv /\ PInv

LEMMA Invariance == Service => []DInv
<1>1. SInv /\ [ServiceNext]_allVars => SInv'
    BY NamesStep, OfferedStep, FailureStep DEF SInv
<1>2. ServiceInit => DInv
    BY InitSInv, InitPInv DEF DInv
<1>3. DInv /\ [ServiceNext]_allVars => DInv'
    BY <1>1, NextPInv DEF DInv
<1>4. QED  BY <1>2, <1>3, PTL DEF Service

\* routes/v1: whatever the store commits meanwhile, overlaps and placeholder of
\* an answer are those of one definition that was active since the request
\* arrived, the one whose extractors ran.
THEOREM OneDefinition == Service => []OneSnapshot
<1>1. DInv => OneSnapshot
    BY DEF DInv, SInv, Offered, Followed, OneSnapshot
<1>2. QED  BY Invariance, <1>1, PTL

\* registry.get fails a request only for an extractor that a version of the
\* engine has dropped: what parse_profile_yaml accepts is never unknown.
THEOREM FailsOnlyForLost == Service => []FailsOnlyIfLost
<1>1. DInv => FailsOnlyIfLost
    BY DEF DInv, SInv
<1>2. QED  BY Invariance, <1>1, PTL

\* ExtractionPipeline.run: the entities an answer rests on are what the
\* extractors of its definition find in the text, each of them once, although
\* a profile may be saved with a name twice, two extractors may find the same
\* span and the location extractor has two sources.
THEOREM FoundOnce == Service => []EachOnce
<1>1. DInv => EachOnce
    <2> SUFFICES ASSUME DInv, phase = "answered"
                 PROVE  ToSet(found) = FoundAs(using) /\ Len(found) = Cardinality(ToSet(found))
        BY DEF EachOnce
    <2>1. /\ found = Findings(using.extractors) /\ input \in Inputs
          /\ using.extractors \in Seq(Names) /\ Distinct(using.extractors)
        BY DEF DInv, PInv, Started, RequestTyped, DefinitionsTyped, Definitions
    <2>2. /\ ToSet(found) = UNION {ToSet(Found(input, x)) : x \in ToSet(using.extractors)}
          /\ Len(found) = Cardinality(ToSet(found))
        BY <2>1, FindingsAre
    <2> QED
        BY <2>2 DEF FoundAs
<1>2. QED  BY Invariance, <1>1, PTL

\* routes/v1 with ExtractionPipeline: an answer is that of one definition that
\* was active since the request arrived, with every finding of its extractors
\* once, and a request fails only for an extractor that was dropped.
THEOREM AnsweredByOne == Service => []AnsweredAsConfigured
BY OneDefinition, FoundOnce, FailsOnlyForLost, PTL DEF AnsweredAsConfigured

\* The type of the service's state and of the pipeline's, for any texts,
\* findings, profiles and versions of the engine: what the extractors, the sort
\* and the deduplication of names compute is of the type the next step expects.
THEOREM ServiceTyped == Service => []DetectionTypeOK
<1>1. DInv => DetectionTypeOK
    <2> SUFFICES ASSUME DInv PROVE DetectionTypeOK
        OBVIOUS
    <2>1. StoreTyped /\ DefinitionsTyped /\ RequestTyped /\ TypeOK
        BY DEF DInv, PInv, IInv
    <2>2. input \in Inputs \cup {Nothing}
        BY <2>1 DEF RequestTyped
    <2> QED
        BY <2>1, <2>2 DEF StoreTyped, DefinitionsTyped, RequestTyped, DetectionTypeOK
<1>2. QED  BY Invariance, <1>1, PTL

\* _resolve_overlaps and anonymize on what the extractors really find, whatever
\* profile the request runs with: the entities of an answer are disjoint, ...
THEOREM AnswerIsDisjoint == Service => []KeptDisjoint
<1>1. DInv => KeptDisjoint
    BY DEF DInv, PInv, IInv
<1>2. QED  BY Invariance, <1>1, PTL

\* ... one is missing only for another that it overlaps and is not stronger
\* than, ...
THEOREM AnswerDropsForReason == Service => []DroppedForReason
<1>1. DInv => DroppedForReason
    BY DEF DInv, PInv, IInv
<1>2. QED  BY Invariance, <1>1, PTL

\* ... and the text that is returned is the client's with those entities
\* replaced, all of them and nothing else.
THEOREM AnswerMasksExactly == Service => []MasksExactly
<1>1. DInv => MasksExactly
    BY MaskedWhenDone DEF DInv, PInv
<1>2. QED  BY Invariance, <1>1, PTL

-----------------------------------------------------------------------------
\* A pattern's entities are its matches that validate accepts.
LEMMA RegexFinds ==
    ASSUME NEW chars \in Seq(Int), NEW x \in Regexes
    PROVE  /\ \A e \in ToSet(FoundByRegex(chars, x)) :
                 \E m \in ToSet(Finditer(chars, x)) :
                    Valid(x, DigitsOf(chars, m)) /\ e = Entity(x, m, Normalized(chars, x, m), Empty)
           /\ \A m \in ToSet(Finditer(chars, x)) :
                 Valid(x, DigitsOf(chars, m)) =>
                    Entity(x, m, Normalized(chars, x, m), Empty) \in ToSet(FoundByRegex(chars, x))
<1> DEFINE matches == Finditer(chars, x)
           T == {m \in ToSet(matches) : Valid(x, DigitsOf(chars, m))}
           good == Among(matches, T)
           q == FoundByRegex(chars, x)
           E(m) == Entity(x, m, Normalized(chars, x, m), Empty)
<1>1. q = [k \in DOMAIN good |-> E(good[k])]
    BY DEF FoundByRegex
<1>2. matches \in Seq(Spans(chars))
    BY FinditerIs DEF Yields
<1> HIDE DEF matches, q
<1>3. ToSet(good) = ToSet(matches) \cap T
    BY <1>2, AmongKeeps
<1> HIDE DEF good, E
<1>4. ASSUME NEW e \in ToSet(q)
      PROVE  \E m \in ToSet(matches) : Valid(x, DigitsOf(chars, m)) /\ e = E(m)
    <2>1. PICK k \in DOMAIN good : e = E(good[k])
        BY <1>1 DEF ToSet
    <2>2. good[k] \in ToSet(good)
        BY DEF ToSet
    <2> QED
        BY <1>3, <2>1, <2>2
<1>5. ASSUME NEW m \in ToSet(matches), Valid(x, DigitsOf(chars, m))
      PROVE  E(m) \in ToSet(q)
    <2>1. m \in ToSet(good)
        BY <1>3, <1>5
    <2>2. PICK k \in DOMAIN good : good[k] = m
        BY <2>1 DEF ToSet
    <2> QED
        BY <1>1, <2>2 DEF ToSet
<1> QED
    BY <1>4, <1>5 DEF q, matches, E

\* validate follows the official rules: of an INN's ten digits ...
LEMMA InnIsGenuine ==
    ASSUME NEW d \in Seq(Digit), Len(d) = 10
    PROVE  Valid("inn", d) <=> Genuine("inn", d)
<1> DEFINE c == <<2, 4, 10, 3, 5, 9, 4, 6, 8>>
           s == [i \in 1..9 |-> d[i] * c[i]]
           t == Total(s)
<1>1. DOMAIN c = 1..9 /\ \A i \in 1..9 : c[i] \in Int
    OBVIOUS
<1>2. \A i \in 1..10 : d[i] \in 0..9
    BY LenProperties DEF Digit
<1> HIDE DEF c
<1>3. s \in Seq(Int)
    <2>1. \A i \in 1..9 : d[i] * c[i] \in Int
        <3>1. \A v, w \in Int : v * w \in Int
            OBVIOUS
        <3>2. \A i \in 1..9 : d[i] \in Int
            BY <1>2
        <3>3. \A i \in 1..9 : c[i] \in Int
            BY <1>1
        <3> QED
            BY <3>1, <3>2, <3>3, Zenon
    <2>2. s \in [1..9 -> Int] /\ 9 \in Nat
        BY <2>1
    <2> HIDE DEF s
    <2>3. \E n \in Nat : s \in [1..n -> Int]
        BY <2>2
    <2> QED
        BY <2>3, SeqDef
<1>4. t \in Int
    BY <1>3, TotalIs
<1>5. Valid("inn", d) <=> (Total([i \in DOMAIN c |-> d[i] * c[i]]) % 11) % 10 = d[10]
    BY DEF Valid, Check10, ControlDigit, c
<1>6. Genuine("inn", d) <=> d[10] = IF t % 11 = 10 THEN 0 ELSE t % 11
    BY DEF Genuine, c
<1>7. Valid("inn", d) <=> (t % 11) % 10 = d[10]
    BY <1>1, <1>5
<1> HIDE DEF s, t
<1>8. t % 11 \in 0..10
    BY <1>4
<1> DEFINE u == t % 11
<1> HIDE DEF u
<1>9. u % 10 = IF u = 10 THEN 0 ELSE u
    BY <1>8 DEF u
<1> QED
    BY <1>6, <1>7, <1>9 DEF u

\* ... and of a SNILS's eleven.
LEMMA SnilsIsGenuine ==
    ASSUME NEW d \in Seq(Digit), Len(d) = 11
    PROVE  Valid("snils", d) <=> Genuine("snils", d)
<1> DEFINE s == [i \in 1..9 |-> d[i] * (10 - i)]
           t == Total(s)
           early == IntOf(d, 1, 9) <= 1001998
<1>1. \A i \in 1..11 : d[i] \in 0..9
    BY LenProperties DEF Digit
<1>2. s \in Seq(Int)
    <2>1. \A i \in 1..9 : d[i] * (10 - i) \in Int
        <3>1. \A v, w \in Int : v * w \in Int
            OBVIOUS
        <3>2. \A i \in 1..9 : d[i] \in Int /\ 10 - i \in Int
            BY <1>1
        <3> QED
            BY <3>1, <3>2, Zenon
    <2>2. s \in [1..9 -> Int] /\ 9 \in Nat
        BY <2>1
    <2> HIDE DEF s
    <2>3. \E n \in Nat : s \in [1..n -> Int]
        BY <2>2
    <2> QED
        BY <2>3, SeqDef
<1>3. t \in Int
    BY <1>2, TotalIs
<1>4. IntOf(d, 10, 11) = 10 * d[10] + d[11]
    <2>1. d[10] \in Int /\ d[11] \in Int
        BY <1>1
    <2> QED
        BY <2>1, TwoDigits
<1> HIDE DEF early
<1>5. Valid("snils", d) <=> early \/ IntOf(d, 10, 11) = IF t % 101 \in {100, 101} THEN 0 ELSE t % 101
    BY DEF Valid, ValidSnils, CheckSnils, early
<1>6. Genuine("snils", d) <=> early \/ 10 * d[10] + d[11] = IF t % 101 = 100 THEN 0 ELSE t % 101
    BY DEF Genuine, early
<1> HIDE DEF s, t
<1>7. t % 101 # 101
    BY <1>3
<1> DEFINE u == t % 101
<1> HIDE DEF u
<1>8. (IF u \in {100, 101} THEN 0 ELSE u) = IF u = 100 THEN 0 ELSE u
    <2>1. u # 101
        BY <1>7 DEF u
    <2> QED
        BY <2>1
<1> QED
    BY <1>4, <1>5, <1>6, <1>8 DEF u

\* So it does of every match.
LEMMA MatchIsGenuine ==
    ASSUME NEW chars \in Seq(Int), NEW x \in Regexes, NEW m \in ToSet(Finditer(chars, x))
    PROVE  /\ Valid(x, DigitsOf(chars, m)) <=> Genuine(x, DigitsOf(chars, m))
           /\ m = [start |-> m.start, stop |-> m.stop]
<1> DEFINE r == Finditer(chars, x)
           d == DigitsOf(chars, m)
<1>1. Yields(r, chars, x, 0)
    BY FinditerIs
<1> HIDE DEF r
<1>2. PICK k \in DOMAIN r : m = r[k]
    BY DEF ToSet, r
<1>3. DOMAIN r = 1..Len(r) /\ r[k] \in Spans(chars) /\ k \in 1..Len(r)
    BY <1>1, <1>2, LenProperties DEF Yields
<1>4. /\ m \in Spans(chars) /\ m.start < m.stop /\ m.stop = MatchAt(chars, x, m.start)
    BY <1>1, <1>2, <1>3 DEF Yields
<1>5. m.start \in 0..Len(chars) /\ m.stop \in 0..Len(chars)
    BY <1>4 DEF Spans
<1>6. d \in Seq(Digit) /\ Len(d) = Cardinality(DigitsIn(chars, m.start, m.stop))
    BY <1>4, <1>5, DigitsCounted
<1> HIDE DEF d
<1>7. MatchAt(chars, x, m.start) # NoMatch
    BY <1>4, <1>5, LenProperties DEF NoMatch
<1>8. CASE x = "inn"
    <2>1. Len(d) = 10
        BY <1>4, <1>5, <1>6, <1>7, <1>8, InnHasTen
    <2> QED
        BY <1>4, <1>6, <1>8, <2>1, InnIsGenuine DEF d, Spans
<1>9. CASE x = "snils"
    <2>1. Len(d) = 11
        BY <1>4, <1>5, <1>6, <1>7, <1>9, SnilsHasEleven
    <2> QED
        BY <1>4, <1>6, <1>9, <2>1, SnilsIsGenuine DEF d, Spans
<1>10. CASE x \in {"email", "passport", "phone"}
    <2>1. Valid(x, d) /\ Genuine(x, d)
        BY <1>10 DEF Valid, Genuine
    <2> QED
        BY <1>4, <2>1 DEF d, Spans
<1> QED
    BY <1>8, <1>9, <1>10 DEF Regexes

-----------------------------------------------------------------------------
\* A form of n characters, or a part of one, ...
Shape(form, n) == form \in Seq(SUBSET Int) /\ Len(form) = n

\* ... and where it stands.
Stands(chars, form, i) == \A k \in DOMAIN form : chars[i + k] \in form[k]

LEMMA NumeralIs ==
    ASSUME NEW n \in Nat
    PROVE  /\ Shape(Numeral(n), n)
           /\ \A chars, i : Stands(chars, Numeral(n), i) => \A k \in 1..n : chars[i + k] \in Digit
<1> DEFINE form == Numeral(n)
<1>1. Digit \in SUBSET Int
    BY DEF Digit
<1>2. form = [k \in 1..n |-> Digit]
    BY DEF Numeral
<1>3. form \in [1..n -> SUBSET Int]
    BY <1>1, <1>2
<1>4. DOMAIN form = 1..n /\ \A k \in 1..n : form[k] = Digit
    BY <1>2
<1> HIDE DEF form
<1>5. form \in Seq(SUBSET Int)
    <2>1. \E m \in Nat : form \in [1..m -> SUBSET Int]
        BY <1>3
    <2> QED
        BY <2>1, SeqDef
<1>6. Len(form) = n
    BY <1>4, <1>5, LenProperties
<1>7. ASSUME NEW chars, NEW i, Stands(chars, form, i), NEW k \in 1..n
      PROVE  chars[i + k] \in Digit
    BY <1>4, <1>7 DEF Stands
<1> QED
    BY <1>5, <1>6, <1>7 DEF Shape, form

LEMMA ThisIs ==
    ASSUME NEW s \in Seq(Int), NEW n, Len(s) = n
    PROVE  /\ Shape(This(s), n)
           /\ \A chars, i : Stands(chars, This(s), i) => \A k \in 1..n : chars[i + k] = s[k]
<1> DEFINE form == This(s)
<1>1. n \in Nat /\ DOMAIN s = 1..n /\ \A k \in 1..n : s[k] \in Int
    BY LenProperties
<1>2. form = [k \in DOMAIN s |-> {s[k]}]
    BY DEF This
<1>3. form \in [1..n -> SUBSET Int]
    <2>1. \A k \in 1..n : {s[k]} \in SUBSET Int
        BY <1>1
    <2> QED
        BY <1>1, <1>2, <2>1
<1>4. DOMAIN form = 1..n /\ \A k \in 1..n : form[k] = {s[k]}
    BY <1>1, <1>2
<1> HIDE DEF form
<1>5. form \in Seq(SUBSET Int)
    <2>1. \E m \in Nat : form \in [1..m -> SUBSET Int]
        BY <1>1, <1>3
    <2> QED
        BY <2>1, SeqDef
<1>6. Len(form) = n
    BY <1>1, <1>4, <1>5, LenProperties
<1>7. ASSUME NEW chars, NEW i, Stands(chars, form, i), NEW k \in 1..n
      PROVE  chars[i + k] = s[k]
    BY <1>4, <1>7 DEF Stands
<1> QED
    BY <1>5, <1>6, <1>7 DEF Shape, form

\* Two parts, one behind the other.
LEMMA Parted ==
    ASSUME NEW p, NEW q, NEW m \in Nat, NEW n \in Nat, NEW l, l = m + n, Shape(p, m), Shape(q, n),
           NEW chars, NEW i \in Nat
    PROVE  /\ Shape(p \o q, l)
           /\ Stands(chars, p \o q, i) => Stands(chars, p, i) /\ Stands(chars, q, i + m)
<1> DEFINE r == p \o q
<1>1. /\ p \in Seq(SUBSET Int) /\ q \in Seq(SUBSET Int)
      /\ Len(p) = m /\ Len(q) = n /\ DOMAIN p = 1..m /\ DOMAIN q = 1..n
    BY LenProperties DEF Shape
<1>2. /\ r \in Seq(SUBSET Int) /\ Len(r) = m + n
      /\ \A k \in 1..m + n : r[k] = IF k <= m THEN p[k] ELSE q[k - m]
    BY ZenonT(40), <1>1, ConcatProperties
<1> HIDE DEF r
<1>3. DOMAIN r = 1..m + n
    BY <1>2, LenProperties
<1>4. ASSUME Stands(chars, r, i)
      PROVE  Stands(chars, p, i) /\ Stands(chars, q, i + m)
    <2>1. ASSUME NEW k \in 1..m
          PROVE  chars[i + k] \in p[k]
        <3>1. k \in 1..m + n /\ r[k] = p[k]
            BY <1>2
        <3> QED
            BY <1>3, <1>4, <3>1 DEF Stands
    <2>2. ASSUME NEW k \in 1..n
          PROVE  chars[i + m + k] \in q[k]
        <3>1. m + k \in 1..m + n /\ ~(m + k <= m) /\ m + k - m = k /\ i + (m + k) = i + m + k
            OBVIOUS
        <3>2. r[m + k] = q[k]
            BY <1>2, <3>1
        <3>3. chars[i + (m + k)] \in r[m + k]
            BY <1>3, <1>4, <3>1 DEF Stands
        <3> QED
            BY <3>1, <3>2, <3>3
    <2> QED
        BY <1>1, <2>1, <2>2 DEF Stands
<1> QED
    BY <1>2, <1>4 DEF Shape, r

\* Digits of a text in which a numeral stands.
LEMMA NumeralStands ==
    ASSUME NEW chars, NEW i, NEW n \in Nat, Stands(chars, Numeral(n), i), i + n <= Len(chars)
    PROVE  AreDigits(chars, i, n)
BY NumeralIs DEF AreDigits

\* So do one to four characters.
LEMMA CharStands ==
    ASSUME NEW a \in Int
    PROVE  /\ Shape(This(<<a>>), 1)
           /\ \A chars, i : Stands(chars, This(<<a>>), i) =>
                 chars[i + 1] = a
<1> DEFINE s == <<a>>
           n == 1
<1>1. s \in Seq(Int) /\ Len(s) = n /\ s[1] = a
    OBVIOUS
<1>2. 1 \in 1..n
    OBVIOUS
<1> HIDE DEF s, n
<1>3. /\ Shape(This(s), n)
      /\ \A chars, i : Stands(chars, This(s), i) => \A k \in 1..n : chars[i + k] = s[k]
    BY <1>1, ThisIs
<1>4. \A chars, i : Stands(chars, This(s), i) =>
          chars[i + 1] = s[1]
    BY <1>2, <1>3
<1> QED
    BY <1>1, <1>3, <1>4 DEF s, n

LEMMA TwoStand ==
    ASSUME NEW a \in Int, NEW b \in Int
    PROVE  /\ Shape(This(<<a, b>>), 2)
           /\ \A chars, i : Stands(chars, This(<<a, b>>), i) =>
                 chars[i + 1] = a /\ chars[i + 2] = b
<1> DEFINE s == <<a, b>>
           n == 2
<1>1. s \in Seq(Int) /\ Len(s) = n /\ s[1] = a /\ s[2] = b
    OBVIOUS
<1>2. 1 \in 1..n /\ 2 \in 1..n
    OBVIOUS
<1> HIDE DEF s, n
<1>3. /\ Shape(This(s), n)
      /\ \A chars, i : Stands(chars, This(s), i) => \A k \in 1..n : chars[i + k] = s[k]
    BY <1>1, ThisIs
<1>4. \A chars, i : Stands(chars, This(s), i) =>
          chars[i + 1] = s[1] /\ chars[i + 2] = s[2]
    BY <1>2, <1>3
<1> QED
    BY <1>1, <1>3, <1>4 DEF s, n

LEMMA ThreeStand ==
    ASSUME NEW a \in Int, NEW b \in Int, NEW c \in Int
    PROVE  /\ Shape(This(<<a, b, c>>), 3)
           /\ \A chars, i : Stands(chars, This(<<a, b, c>>), i) =>
                 chars[i + 1] = a /\ chars[i + 2] = b /\ chars[i + 3] = c
<1> DEFINE s == <<a, b, c>>
           n == 3
<1>1. s \in Seq(Int) /\ Len(s) = n /\ s[1] = a /\ s[2] = b /\ s[3] = c
    OBVIOUS
<1>2. 1 \in 1..n /\ 2 \in 1..n /\ 3 \in 1..n
    OBVIOUS
<1> HIDE DEF s, n
<1>3. /\ Shape(This(s), n)
      /\ \A chars, i : Stands(chars, This(s), i) => \A k \in 1..n : chars[i + k] = s[k]
    BY <1>1, ThisIs
<1>4. \A chars, i : Stands(chars, This(s), i) =>
          chars[i + 1] = s[1] /\ chars[i + 2] = s[2] /\ chars[i + 3] = s[3]
    BY <1>2, <1>3
<1> QED
    BY <1>1, <1>3, <1>4 DEF s, n

LEMMA FourStand ==
    ASSUME NEW a \in Int, NEW b \in Int, NEW c \in Int, NEW d \in Int
    PROVE  /\ Shape(This(<<a, b, c, d>>), 4)
           /\ \A chars, i : Stands(chars, This(<<a, b, c, d>>), i) =>
                 chars[i + 1] = a /\ chars[i + 2] = b /\ chars[i + 3] = c /\ chars[i + 4] = d
<1> DEFINE s == <<a, b, c, d>>
           n == 4
<1>1. s \in Seq(Int) /\ Len(s) = n /\ s[1] = a /\ s[2] = b /\ s[3] = c /\ s[4] = d
    OBVIOUS
<1>2. 1 \in 1..n /\ 2 \in 1..n /\ 3 \in 1..n /\ 4 \in 1..n
    OBVIOUS
<1> HIDE DEF s, n
<1>3. /\ Shape(This(s), n)
      /\ \A chars, i : Stands(chars, This(s), i) => \A k \in 1..n : chars[i + k] = s[k]
    BY <1>1, ThisIs
<1>4. \A chars, i : Stands(chars, This(s), i) =>
          chars[i + 1] = s[1] /\ chars[i + 2] = s[2] /\ chars[i + 3] = s[3] /\ chars[i + 4] = s[4]
    BY <1>2, <1>3
<1> QED
    BY <1>1, <1>3, <1>4 DEF s, n

LEMMA ThreeSaid ==
    ASSUME NEW a \in Int, NEW b \in Int, NEW c \in Int, NEW chars, NEW i, Stands(chars, This(<<a, b, c>>), i)
    PROVE  chars[i + 1] = a /\ chars[i + 2] = b /\ chars[i + 3] = c
BY ThreeStand

LEMMA FourSaid ==
    ASSUME NEW a \in Int, NEW b \in Int, NEW c \in Int, NEW d \in Int, NEW chars, NEW i, Stands(chars, This(<<a, b, c, d>>), i)
    PROVE  chars[i + 1] = a /\ chars[i + 2] = b /\ chars[i + 3] = c /\ chars[i + 4] = d
BY FourStand

-----------------------------------------------------------------------------
\* What begins at i is not a part of what stands before it ...
Ahead(chars, x, i) ==
    /\ i > 0 => chars[i] \notin Digit
    /\ x = "snils" /\ i > 1 /\ IsGap(chars, i) => chars[i - 1] \notin Digit

\* ... and is not taken apart: a match over its first character ends where its
\* n characters do, and takes no digit before them.
NotApart(chars, x, i, n) ==
    Ahead(chars, x, i) =>
        \A j \in 0..Len(chars) :
            MatchAt(chars, x, j) # NoMatch /\ j <= i /\ i < MatchAt(chars, x, j) =>
                MatchAt(chars, x, j) = i + n /\ \A c \in j + 1..i : chars[c] \notin Digit

\* The forms of the documentation: the INN, ...
InnText == Numeral(10)

LEMMA InnForm ==
    ASSUME NEW chars \in Seq(Int), NEW i \in 0..Len(chars), NEW form,
           form = InnText,
           Stands(chars, form, i), i + Len(form) <= Len(chars)
    PROVE  /\ Len(form) \in Nat /\ MatchAt(chars, "inn", i) = i + Len(form)
           /\ NotApart(chars, "inn", i, Len(form))
<1> DEFINE p1 == Numeral(10)
<1>1. form = p1
    BY DEF InnText
<1>2. Len(chars) \in Nat /\ i \in Nat
    BY LenProperties
<1>3. Shape(p1, 10)
    BY NumeralIs
<1> HIDE DEF p1
<1>4. Len(form) = 10 /\ i + 10 <= Len(chars)
    BY <1>1, <1>3 DEF Shape
<1>5. /\ Stands(chars, p1, i)
    BY <1>1
<1>6. /\ AreDigits(chars, i, 10)
    <2>1. i + 10 <= Len(chars)
        BY <1>2, <1>4
    <2> QED
        BY <1>5, <2>1, NumeralStands DEF p1
<1>7. MatchAt(chars, "inn", i) = i + 10
    BY <1>2, <1>4, <1>6, InnFound
<1>50. NotApart(chars, "inn", i, 10)
    BY <1>2, <1>6, InnOver DEF NotApart, Ahead
<1> QED
    BY <1>4, <1>7, <1>50

\* ... the SNILS, together ...
SnilsText == Numeral(11)

LEMMA SnilsForm ==
    ASSUME NEW chars \in Seq(Int), NEW i \in 0..Len(chars), NEW form,
           form = SnilsText,
           Stands(chars, form, i), i + Len(form) <= Len(chars)
    PROVE  /\ Len(form) \in Nat /\ MatchAt(chars, "snils", i) = i + Len(form)
           /\ NotApart(chars, "snils", i, Len(form))
<1> DEFINE p1 == Numeral(11)
<1>1. form = p1
    BY DEF SnilsText
<1>2. Len(chars) \in Nat /\ i \in Nat
    BY LenProperties
<1>3. Shape(p1, 11)
    BY NumeralIs
<1> HIDE DEF p1
<1>4. Len(form) = 11 /\ i + 11 <= Len(chars)
    BY <1>1, <1>3 DEF Shape
<1>5. /\ Stands(chars, p1, i)
    BY <1>1
<1>6. /\ AreDigits(chars, i, 11)
    <2>1. i + 11 <= Len(chars)
        BY <1>2, <1>4
    <2> QED
        BY <1>5, <2>1, NumeralStands DEF p1
<1>7. MatchAt(chars, "snils", i) = i + 11
    BY <1>2, <1>4, <1>6, SnilsFound
<1>50. NotApart(chars, "snils", i, 11)
    BY <1>2, <1>6, SnilsOver DEF NotApart, Ahead
<1> QED
    BY <1>4, <1>7, <1>50

\* ... or in groups, ...
GroupedSnilsText == Numeral(3) \o This(<<Hyphen>>) \o Numeral(3) \o This(<<Hyphen>>)
                    \o Numeral(3) \o This(<<Space>>) \o Numeral(2)

LEMMA GroupedSnilsForm ==
    ASSUME NEW chars \in Seq(Int), NEW i \in 0..Len(chars), NEW form,
           form = GroupedSnilsText,
           Stands(chars, form, i), i + Len(form) <= Len(chars)
    PROVE  /\ Len(form) \in Nat /\ MatchAt(chars, "snils", i) = i + Len(form)
           /\ NotApart(chars, "snils", i, Len(form))
<1> DEFINE p1 == Numeral(3)
           p2 == This(<<Hyphen>>)
           p3 == Numeral(3)
           p4 == This(<<Hyphen>>)
           p5 == Numeral(3)
           p6 == This(<<Space>>)
           p7 == Numeral(2)
           q2 == p1 \o p2
           q3 == q2 \o p3
           q4 == q3 \o p4
           q5 == q4 \o p5
           q6 == q5 \o p6
           q7 == q6 \o p7
<1>1. form = q7
    BY DEF GroupedSnilsText
<1>2. Len(chars) \in Nat /\ i \in Nat
    BY LenProperties
<1>3. Hyphen \in Int /\ Space \in Int
    BY DEF Hyphen, Space
<1>4. Shape(p1, 3)
    BY NumeralIs
<1>5. Shape(p2, 1)
    BY <1>3, CharStands
<1>6. ASSUME NEW j, Stands(chars, p2, j)
      PROVE  chars[j + 1] = Hyphen
    BY <1>3, <1>6, CharStands
<1>7. Shape(p3, 3)
    BY NumeralIs
<1>8. Shape(p4, 1)
    BY <1>3, CharStands
<1>9. ASSUME NEW j, Stands(chars, p4, j)
      PROVE  chars[j + 1] = Hyphen
    BY <1>3, <1>9, CharStands
<1>10. Shape(p5, 3)
    BY NumeralIs
<1>11. Shape(p6, 1)
    BY <1>3, CharStands
<1>12. ASSUME NEW j, Stands(chars, p6, j)
       PROVE  chars[j + 1] = Space
    BY <1>3, <1>12, CharStands
<1>13. Shape(p7, 2)
    BY NumeralIs
<1> HIDE DEF p1, p2, p3, p4, p5, p6, p7
<1>14. /\ Shape(q2, 4)
       /\ Stands(chars, q2, i) => Stands(chars, p1, i) /\ Stands(chars, p2, i + 3)
    BY <1>2, <1>4, <1>5, 4 = 3 + 1, Parted
<1> HIDE DEF q2
<1>15. /\ Shape(q3, 7)
       /\ Stands(chars, q3, i) => Stands(chars, q2, i) /\ Stands(chars, p3, i + 4)
    BY <1>2, <1>14, <1>7, 7 = 4 + 3, Parted
<1> HIDE DEF q3
<1>16. /\ Shape(q4, 8)
       /\ Stands(chars, q4, i) => Stands(chars, q3, i) /\ Stands(chars, p4, i + 7)
    BY <1>2, <1>15, <1>8, 8 = 7 + 1, Parted
<1> HIDE DEF q4
<1>17. /\ Shape(q5, 11)
       /\ Stands(chars, q5, i) => Stands(chars, q4, i) /\ Stands(chars, p5, i + 8)
    BY <1>2, <1>16, <1>10, 11 = 8 + 3, Parted
<1> HIDE DEF q5
<1>18. /\ Shape(q6, 12)
       /\ Stands(chars, q6, i) => Stands(chars, q5, i) /\ Stands(chars, p6, i + 11)
    BY <1>2, <1>17, <1>11, 12 = 11 + 1, Parted
<1> HIDE DEF q6
<1>19. /\ Shape(q7, 14)
       /\ Stands(chars, q7, i) => Stands(chars, q6, i) /\ Stands(chars, p7, i + 12)
    BY <1>2, <1>18, <1>13, 14 = 12 + 2, Parted
<1> HIDE DEF q7
<1>20. Len(form) = 14 /\ i + 14 <= Len(chars)
    BY <1>1, <1>19 DEF Shape
<1>21. /\ Stands(chars, p1, i)
       /\ Stands(chars, p2, i + 3)
       /\ Stands(chars, p3, i + 4)
       /\ Stands(chars, p4, i + 7)
       /\ Stands(chars, p5, i + 8)
       /\ Stands(chars, p6, i + 11)
       /\ Stands(chars, p7, i + 12)
    BY <1>1, <1>14, <1>15, <1>16, <1>17, <1>18, <1>19
<1>22. /\ AreDigits(chars, i, 3)
       /\ AreDigits(chars, i + 4, 3)
       /\ AreDigits(chars, i + 8, 3)
       /\ AreDigits(chars, i + 12, 2)
    <2>1. i + 3 <= Len(chars)
        BY <1>2, <1>20
    <2>2. i + 4 + 3 <= Len(chars)
        BY <1>2, <1>20
    <2>3. i + 8 + 3 <= Len(chars)
        BY <1>2, <1>20
    <2>4. i + 12 + 2 <= Len(chars)
        BY <1>2, <1>20
    <2> QED
        BY <1>21, <2>1, <2>2, <2>3, <2>4, NumeralStands DEF p1, p3, p5, p7
<1>23. /\ i + 3 + 1 = i + 4
       /\ i + 7 + 1 = i + 8
       /\ i + 11 + 1 = i + 12
    BY <1>2
<1>24. /\ chars[i + 4] = Hyphen
       /\ chars[i + 8] = Hyphen
       /\ chars[i + 12] = Space
    BY <1>21, <1>23, <1>6, <1>9, <1>12
<1>25. MatchAt(chars, "snils", i) = i + 14
    BY <1>2, <1>20, <1>22, <1>24, GroupedSnilsFound
<1>50. NotApart(chars, "snils", i, 14)
    <2>1. Grouped(chars, i)
        BY <1>22, <1>24 DEF Grouped, IsGap
    <2> QED
        BY <1>2, <2>1, SnilsOver DEF NotApart, Ahead
<1> QED
    BY <1>20, <1>25, <1>50

\* ... the passport with two labels, ...
SeriesNumberText == This(<<Series, Space>>) \o Numeral(4) \o This(<<Space, Number, Space>>)
                    \o Numeral(6)

LEMMA SeriesNumberForm ==
    ASSUME NEW chars \in Seq(Int), NEW i \in 0..Len(chars), NEW form,
           form = SeriesNumberText,
           Stands(chars, form, i), i + Len(form) <= Len(chars)
    PROVE  /\ Len(form) \in Nat /\ MatchAt(chars, "passport", i) = i + Len(form)
           /\ NotApart(chars, "passport", i, Len(form))
<1> DEFINE p1 == This(<<Series, Space>>)
           p2 == Numeral(4)
           p3 == This(<<Space, Number, Space>>)
           p4 == Numeral(6)
           q2 == p1 \o p2
           q3 == q2 \o p3
           q4 == q3 \o p4
<1>1. form = q4
    BY DEF SeriesNumberText
<1>2. Len(chars) \in Nat /\ i \in Nat
    BY LenProperties
<1>3. Number \in Int /\ Series \in Int /\ Space \in Int
    BY DEF Number, Series, Space
<1>4. Shape(p1, 2)
    BY <1>3, TwoStand
<1>5. ASSUME NEW j, Stands(chars, p1, j)
      PROVE  chars[j + 1] = Series /\ chars[j + 2] = Space
    BY <1>3, <1>5, TwoStand
<1>6. Shape(p2, 4)
    BY NumeralIs
<1>7. Shape(p3, 3)
    BY <1>3, ThreeStand
<1>8. ASSUME NEW j, Stands(chars, p3, j)
      PROVE  chars[j + 1] = Space /\ chars[j + 2] = Number /\ chars[j + 3] = Space
    BY <1>3, <1>8, ThreeSaid
<1>9. Shape(p4, 6)
    BY NumeralIs
<1> HIDE DEF p1, p2, p3, p4
<1>10. /\ Shape(q2, 6)
       /\ Stands(chars, q2, i) => Stands(chars, p1, i) /\ Stands(chars, p2, i + 2)
    <2>1. 2 \in Nat /\ 4 \in Nat /\ 6 = 2 + 4
        OBVIOUS
    <2> QED
        BY ZenonT(60), <1>2, <1>4, <1>6, <2>1, Parted
<1> HIDE DEF q2
<1>11. /\ Shape(q3, 9)
       /\ Stands(chars, q3, i) => Stands(chars, q2, i) /\ Stands(chars, p3, i + 6)
    BY <1>2, <1>10, <1>7, 9 = 6 + 3, Parted
<1> HIDE DEF q3
<1>12. /\ Shape(q4, 15)
       /\ Stands(chars, q4, i) => Stands(chars, q3, i) /\ Stands(chars, p4, i + 9)
    BY <1>2, <1>11, <1>9, 15 = 9 + 6, Parted
<1> HIDE DEF q4
<1>13. Len(form) = 15 /\ i + 15 <= Len(chars)
    BY <1>1, <1>12 DEF Shape
<1>14. /\ Stands(chars, p1, i)
       /\ Stands(chars, p2, i + 2)
       /\ Stands(chars, p3, i + 6)
       /\ Stands(chars, p4, i + 9)
    BY <1>1, <1>10, <1>11, <1>12
<1>15. /\ AreDigits(chars, i + 2, 4)
       /\ AreDigits(chars, i + 9, 6)
    <2>1. i + 2 + 4 <= Len(chars)
        BY <1>2, <1>13
    <2>2. i + 9 + 6 <= Len(chars)
        BY <1>2, <1>13
    <2> QED
        BY <1>14, <2>1, <2>2, NumeralStands DEF p2, p4
<1>16. /\ i + 6 + 1 = i + 7
       /\ i + 6 + 2 = i + 8
       /\ i + 6 + 3 = i + 9
    BY <1>2
<1>17. /\ chars[i + 1] = Series /\ chars[i + 2] = Space
       /\ chars[i + 7] = Space /\ chars[i + 8] = Number /\ chars[i + 9] = Space
    BY <1>14, <1>16, <1>5, <1>8
<1>18. MatchAt(chars, "passport", i) = i + 15
    BY <1>2, <1>13, <1>15, <1>17, SeriesNumberFound
<1>50. NotApart(chars, "passport", i, 15)
    <2> SUFFICES ASSUME NEW j \in 0..Len(chars), MatchAt(chars, "passport", j) # NoMatch,
                        j <= i, i < MatchAt(chars, "passport", j)
                 PROVE  MatchAt(chars, "passport", j) = i + 15 /\ \A c \in j + 1..i : chars[c] \notin Digit
        BY DEF NotApart
    <2>1. i = j
        BY <1>2, <1>17, PassportLabelOver
    <2>2. \A c \in j + 1..i : FALSE
        BY <1>2, <2>1
    <2> QED
        BY <1>18, <2>1, <2>2
<1> QED
    BY <1>13, <1>18, <1>50

\* ... with one, ...
LabelledText == This(<<Passport, Space>>) \o Numeral(2) \o This(<<Space>>) \o Numeral(2)
                \o This(<<Space>>) \o Numeral(6)

LEMMA LabelledForm ==
    ASSUME NEW chars \in Seq(Int), NEW i \in 0..Len(chars), NEW form,
           form = LabelledText,
           Stands(chars, form, i), i + Len(form) <= Len(chars)
    PROVE  /\ Len(form) \in Nat /\ MatchAt(chars, "passport", i) = i + Len(form)
           /\ NotApart(chars, "passport", i, Len(form))
<1> DEFINE p1 == This(<<Passport, Space>>)
           p2 == Numeral(2)
           p3 == This(<<Space>>)
           p4 == Numeral(2)
           p5 == This(<<Space>>)
           p6 == Numeral(6)
           q2 == p1 \o p2
           q3 == q2 \o p3
           q4 == q3 \o p4
           q5 == q4 \o p5
           q6 == q5 \o p6
<1>1. form = q6
    BY DEF LabelledText
<1>2. Len(chars) \in Nat /\ i \in Nat
    BY LenProperties
<1>3. Passport \in Int /\ Space \in Int
    BY DEF Passport, Space
<1>4. Shape(p1, 2)
    BY <1>3, TwoStand
<1>5. ASSUME NEW j, Stands(chars, p1, j)
      PROVE  chars[j + 1] = Passport /\ chars[j + 2] = Space
    BY <1>3, <1>5, TwoStand
<1>6. Shape(p2, 2)
    BY NumeralIs
<1>7. Shape(p3, 1)
    BY <1>3, CharStands
<1>8. ASSUME NEW j, Stands(chars, p3, j)
      PROVE  chars[j + 1] = Space
    BY <1>3, <1>8, CharStands
<1>9. Shape(p4, 2)
    BY NumeralIs
<1>10. Shape(p5, 1)
    BY <1>3, CharStands
<1>11. ASSUME NEW j, Stands(chars, p5, j)
       PROVE  chars[j + 1] = Space
    BY <1>3, <1>11, CharStands
<1>12. Shape(p6, 6)
    BY NumeralIs
<1> HIDE DEF p1, p2, p3, p4, p5, p6
<1>13. /\ Shape(q2, 4)
       /\ Stands(chars, q2, i) => Stands(chars, p1, i) /\ Stands(chars, p2, i + 2)
    BY <1>2, <1>4, <1>6, 4 = 2 + 2, Parted
<1> HIDE DEF q2
<1>14. /\ Shape(q3, 5)
       /\ Stands(chars, q3, i) => Stands(chars, q2, i) /\ Stands(chars, p3, i + 4)
    BY <1>2, <1>13, <1>7, 5 = 4 + 1, Parted
<1> HIDE DEF q3
<1>15. /\ Shape(q4, 7)
       /\ Stands(chars, q4, i) => Stands(chars, q3, i) /\ Stands(chars, p4, i + 5)
    BY <1>2, <1>14, <1>9, 7 = 5 + 2, Parted
<1> HIDE DEF q4
<1>16. /\ Shape(q5, 8)
       /\ Stands(chars, q5, i) => Stands(chars, q4, i) /\ Stands(chars, p5, i + 7)
    BY <1>2, <1>15, <1>10, 8 = 7 + 1, Parted
<1> HIDE DEF q5
<1>17. /\ Shape(q6, 14)
       /\ Stands(chars, q6, i) => Stands(chars, q5, i) /\ Stands(chars, p6, i + 8)
    BY <1>2, <1>16, <1>12, 14 = 8 + 6, Parted
<1> HIDE DEF q6
<1>18. Len(form) = 14 /\ i + 14 <= Len(chars)
    BY <1>1, <1>17 DEF Shape
<1>19. /\ Stands(chars, p1, i)
       /\ Stands(chars, p2, i + 2)
       /\ Stands(chars, p3, i + 4)
       /\ Stands(chars, p4, i + 5)
       /\ Stands(chars, p5, i + 7)
       /\ Stands(chars, p6, i + 8)
    BY <1>1, <1>13, <1>14, <1>15, <1>16, <1>17
<1>20. /\ AreDigits(chars, i + 2, 2)
       /\ AreDigits(chars, i + 5, 2)
       /\ AreDigits(chars, i + 8, 6)
    <2>1. i + 2 + 2 <= Len(chars)
        BY <1>2, <1>18
    <2>2. i + 5 + 2 <= Len(chars)
        BY <1>2, <1>18
    <2>3. i + 8 + 6 <= Len(chars)
        BY <1>2, <1>18
    <2> QED
        BY <1>19, <2>1, <2>2, <2>3, NumeralStands DEF p2, p4, p6
<1>21. /\ i + 4 + 1 = i + 5
       /\ i + 7 + 1 = i + 8
    BY <1>2
<1>22. /\ chars[i + 1] = Passport /\ chars[i + 2] = Space
       /\ chars[i + 5] = Space
       /\ chars[i + 8] = Space
    BY <1>19, <1>21, <1>5, <1>8, <1>11
<1>23. MatchAt(chars, "passport", i) = i + 14
    BY <1>2, <1>18, <1>20, <1>22, LabelledPassportFound
<1>50. NotApart(chars, "passport", i, 14)
    <2> SUFFICES ASSUME NEW j \in 0..Len(chars), MatchAt(chars, "passport", j) # NoMatch,
                        j <= i, i < MatchAt(chars, "passport", j)
                 PROVE  MatchAt(chars, "passport", j) = i + 14 /\ \A c \in j + 1..i : chars[c] \notin Digit
        BY DEF NotApart
    <2>1. i = j
        BY <1>2, <1>22, PassportLabelOver
    <2>2. \A c \in j + 1..i : FALSE
        BY <1>2, <2>1
    <2> QED
        BY <1>23, <2>1, <2>2
<1> QED
    BY <1>18, <1>23, <1>50

\* ... and without, its series in two parts ...
SpacedText == Numeral(2) \o This(<<Space>>) \o Numeral(2) \o This(<<Space>>) \o Numeral(6)

LEMMA SpacedForm ==
    ASSUME NEW chars \in Seq(Int), NEW i \in 0..Len(chars), NEW form,
           form = SpacedText,
           Stands(chars, form, i), i + Len(form) <= Len(chars)
    PROVE  /\ Len(form) \in Nat /\ MatchAt(chars, "passport", i) = i + Len(form)
           /\ NotApart(chars, "passport", i, Len(form))
<1> DEFINE p1 == Numeral(2)
           p2 == This(<<Space>>)
           p3 == Numeral(2)
           p4 == This(<<Space>>)
           p5 == Numeral(6)
           q2 == p1 \o p2
           q3 == q2 \o p3
           q4 == q3 \o p4
           q5 == q4 \o p5
<1>1. form = q5
    BY DEF SpacedText
<1>2. Len(chars) \in Nat /\ i \in Nat
    BY LenProperties
<1>3. Space \in Int
    BY DEF Space
<1>4. Shape(p1, 2)
    BY NumeralIs
<1>5. Shape(p2, 1)
    BY <1>3, CharStands
<1>6. ASSUME NEW j, Stands(chars, p2, j)
      PROVE  chars[j + 1] = Space
    BY <1>3, <1>6, CharStands
<1>7. Shape(p3, 2)
    BY NumeralIs
<1>8. Shape(p4, 1)
    BY <1>3, CharStands
<1>9. ASSUME NEW j, Stands(chars, p4, j)
      PROVE  chars[j + 1] = Space
    BY <1>3, <1>9, CharStands
<1>10. Shape(p5, 6)
    BY NumeralIs
<1> HIDE DEF p1, p2, p3, p4, p5
<1>11. /\ Shape(q2, 3)
       /\ Stands(chars, q2, i) => Stands(chars, p1, i) /\ Stands(chars, p2, i + 2)
    BY <1>2, <1>4, <1>5, 3 = 2 + 1, Parted
<1> HIDE DEF q2
<1>12. /\ Shape(q3, 5)
       /\ Stands(chars, q3, i) => Stands(chars, q2, i) /\ Stands(chars, p3, i + 3)
    BY <1>2, <1>11, <1>7, 5 = 3 + 2, Parted
<1> HIDE DEF q3
<1>13. /\ Shape(q4, 6)
       /\ Stands(chars, q4, i) => Stands(chars, q3, i) /\ Stands(chars, p4, i + 5)
    BY <1>2, <1>12, <1>8, 6 = 5 + 1, Parted
<1> HIDE DEF q4
<1>14. /\ Shape(q5, 12)
       /\ Stands(chars, q5, i) => Stands(chars, q4, i) /\ Stands(chars, p5, i + 6)
    BY <1>2, <1>13, <1>10, 12 = 6 + 6, Parted
<1> HIDE DEF q5
<1>15. Len(form) = 12 /\ i + 12 <= Len(chars)
    BY <1>1, <1>14 DEF Shape
<1>16. /\ Stands(chars, p1, i)
       /\ Stands(chars, p2, i + 2)
       /\ Stands(chars, p3, i + 3)
       /\ Stands(chars, p4, i + 5)
       /\ Stands(chars, p5, i + 6)
    BY <1>1, <1>11, <1>12, <1>13, <1>14
<1>17. /\ AreDigits(chars, i, 2)
       /\ AreDigits(chars, i + 3, 2)
       /\ AreDigits(chars, i + 6, 6)
    <2>1. i + 2 <= Len(chars)
        BY <1>2, <1>15
    <2>2. i + 3 + 2 <= Len(chars)
        BY <1>2, <1>15
    <2>3. i + 6 + 6 <= Len(chars)
        BY <1>2, <1>15
    <2> QED
        BY <1>16, <2>1, <2>2, <2>3, NumeralStands DEF p1, p3, p5
<1>18. /\ i + 2 + 1 = i + 3
       /\ i + 5 + 1 = i + 6
    BY <1>2
<1>19. /\ chars[i + 3] = Space
       /\ chars[i + 6] = Space
    BY <1>16, <1>18, <1>6, <1>9
<1>20. MatchAt(chars, "passport", i) = i + 12
    BY <1>2, <1>15, <1>17, <1>19, SpacedPassportFound
<1>50. NotApart(chars, "passport", i, 12)
    <2> SUFFICES ASSUME Ahead(chars, "passport", i),
                        NEW j \in 0..Len(chars), MatchAt(chars, "passport", j) # NoMatch,
                        j <= i, i < MatchAt(chars, "passport", j)
                 PROVE  MatchAt(chars, "passport", j) = i + 12 /\ \A c \in j + 1..i : chars[c] \notin Digit
        BY DEF NotApart
    <2>1. i > 0 => chars[i] \notin Digit
        BY DEF Ahead
    <2>2. /\ 1 \in {0, 1}
          /\ AreDigits(chars, i, 2) /\ AreDigits(chars, i + 2 + 1, 2) /\ AreDigits(chars, i + 5 + 1, 6)
          /\ 1 = 1 => chars[i + 3] = Space
          /\ chars[i + 5 + 1] = Space
        BY <1>17, <1>18, <1>19
    <2>3. MatchAt(chars, "passport", j) = i + 11 + 1 /\ \A c \in j + 1..i : chars[c] \notin Digit
        BY <1>2, <2>1, <2>2, PassportOver
    <2> QED
        BY <1>2, <2>3
<1> QED
    BY <1>15, <1>20, <1>50

\* Four digits are twice two.
LEMMA HalvesAre ==
    ASSUME NEW chars \in Seq(Int), NEW i \in Nat, AreDigits(chars, i, 4)
    PROVE  AreDigits(chars, i, 2) /\ AreDigits(chars, i + 2, 2)
<1>1. \A n \in 1..2 : n \in 1..4 /\ n + 2 \in 1..4 /\ i + 2 + n = i + (n + 2)
    OBVIOUS
<1>2. Len(chars) \in Nat /\ i + 4 <= Len(chars) /\ \A n \in 1..4 : chars[i + n] \in Digit
    BY LenProperties DEF AreDigits
<1>3. \A n \in 1..2 : chars[i + n] \in Digit /\ chars[i + 2 + n] \in Digit
    BY <1>1, <1>2
<1>4. i + 2 <= Len(chars) /\ i + 2 + 2 <= Len(chars)
    BY <1>2
<1> QED
    BY <1>3, <1>4 DEF AreDigits

\* ... or in one, ...
BareText == Numeral(4) \o This(<<Space>>) \o Numeral(6)

LEMMA BareForm ==
    ASSUME NEW chars \in Seq(Int), NEW i \in 0..Len(chars), NEW form,
           form = BareText,
           Stands(chars, form, i), i + Len(form) <= Len(chars)
    PROVE  /\ Len(form) \in Nat /\ MatchAt(chars, "passport", i) = i + Len(form)
           /\ NotApart(chars, "passport", i, Len(form))
<1> DEFINE p1 == Numeral(4)
           p2 == This(<<Space>>)
           p3 == Numeral(6)
           q2 == p1 \o p2
           q3 == q2 \o p3
<1>1. form = q3
    BY DEF BareText
<1>2. Len(chars) \in Nat /\ i \in Nat
    BY LenProperties
<1>3. Space \in Int
    BY DEF Space
<1>4. Shape(p1, 4)
    BY NumeralIs
<1>5. Shape(p2, 1)
    BY <1>3, CharStands
<1>6. ASSUME NEW j, Stands(chars, p2, j)
      PROVE  chars[j + 1] = Space
    BY <1>3, <1>6, CharStands
<1>7. Shape(p3, 6)
    BY NumeralIs
<1> HIDE DEF p1, p2, p3
<1>8. /\ Shape(q2, 5)
      /\ Stands(chars, q2, i) => Stands(chars, p1, i) /\ Stands(chars, p2, i + 4)
    BY <1>2, <1>4, <1>5, 5 = 4 + 1, Parted
<1> HIDE DEF q2
<1>9. /\ Shape(q3, 11)
      /\ Stands(chars, q3, i) => Stands(chars, q2, i) /\ Stands(chars, p3, i + 5)
    BY <1>2, <1>8, <1>7, 11 = 5 + 6, Parted
<1> HIDE DEF q3
<1>10. Len(form) = 11 /\ i + 11 <= Len(chars)
    BY <1>1, <1>9 DEF Shape
<1>11. /\ Stands(chars, p1, i)
       /\ Stands(chars, p2, i + 4)
       /\ Stands(chars, p3, i + 5)
    BY <1>1, <1>8, <1>9
<1>12. /\ AreDigits(chars, i, 4)
       /\ AreDigits(chars, i + 5, 6)
    <2>1. i + 4 <= Len(chars)
        BY <1>2, <1>10
    <2>2. i + 5 + 6 <= Len(chars)
        BY <1>2, <1>10
    <2> QED
        BY <1>11, <2>1, <2>2, NumeralStands DEF p1, p3
<1>13. /\ i + 4 + 1 = i + 5
    BY <1>2
<1>14. /\ chars[i + 5] = Space
    BY <1>11, <1>13, <1>6
<1>15. MatchAt(chars, "passport", i) = i + 11
    BY <1>2, <1>10, <1>12, <1>14, BarePassportFound
<1>50. NotApart(chars, "passport", i, 11)
    <2> SUFFICES ASSUME Ahead(chars, "passport", i),
                        NEW j \in 0..Len(chars), MatchAt(chars, "passport", j) # NoMatch,
                        j <= i, i < MatchAt(chars, "passport", j)
                 PROVE  MatchAt(chars, "passport", j) = i + 11 /\ \A c \in j + 1..i : chars[c] \notin Digit
        BY DEF NotApart
    <2>1. i > 0 => chars[i] \notin Digit
        BY DEF Ahead
    <2>2. /\ 0 \in {0, 1}
          /\ AreDigits(chars, i, 2) /\ AreDigits(chars, i + 2 + 0, 2) /\ AreDigits(chars, i + 5 + 0, 6)
          /\ 0 = 1 => chars[i + 3] = Space
          /\ chars[i + 5 + 0] = Space
        <3>1. i + 2 + 0 = i + 2 /\ i + 5 + 0 = i + 5
            BY <1>2
        <3>2. AreDigits(chars, i, 2) /\ AreDigits(chars, i + 2, 2)
            BY <1>2, <1>12, HalvesAre
        <3> QED
            BY <1>12, <1>14, <3>1, <3>2
    <2>3. MatchAt(chars, "passport", j) = i + 11 + 0 /\ \A c \in j + 1..i : chars[c] \notin Digit
        BY <1>2, <2>1, <2>2, PassportOver
    <2> QED
        BY <1>2, <2>3
<1> QED
    BY <1>10, <1>15, <1>50

\* ... and the phone number.
PhoneText == This(<<PlusSign, 7, Space, OpenParen>>) \o Numeral(3)
             \o This(<<CloseParen, Space>>) \o Numeral(3) \o This(<<Hyphen>>) \o Numeral(2)
             \o This(<<Hyphen>>) \o Numeral(2)

LEMMA PhoneForm ==
    ASSUME NEW chars \in Seq(Int), NEW i \in 0..Len(chars), NEW form,
           form = PhoneText,
           Stands(chars, form, i), i + Len(form) <= Len(chars)
    PROVE  /\ Len(form) \in Nat /\ MatchAt(chars, "phone", i) = i + Len(form)
           /\ NotApart(chars, "phone", i, Len(form))
<1> DEFINE p1 == This(<<PlusSign, 7, Space, OpenParen>>)
           p2 == Numeral(3)
           p3 == This(<<CloseParen, Space>>)
           p4 == Numeral(3)
           p5 == This(<<Hyphen>>)
           p6 == Numeral(2)
           p7 == This(<<Hyphen>>)
           p8 == Numeral(2)
           q2 == p1 \o p2
           q3 == q2 \o p3
           q4 == q3 \o p4
           q5 == q4 \o p5
           q6 == q5 \o p6
           q7 == q6 \o p7
           q8 == q7 \o p8
<1>1. form = q8
    BY DEF PhoneText
<1>2. Len(chars) \in Nat /\ i \in Nat
    BY LenProperties
<1>3. CloseParen \in Int /\ Hyphen \in Int /\ OpenParen \in Int /\ PlusSign \in Int /\ Space \in Int /\ 7 \in Int
    BY DEF CloseParen, Hyphen, OpenParen, PlusSign, Space
<1>4. Shape(p1, 4)
    BY <1>3, FourStand
<1>5. ASSUME NEW j, Stands(chars, p1, j)
      PROVE  chars[j + 1] = PlusSign /\ chars[j + 2] = 7 /\ chars[j + 3] = Space /\ chars[j + 4] = OpenParen
    BY <1>3, <1>5, FourSaid
<1>6. Shape(p2, 3)
    BY NumeralIs
<1>7. Shape(p3, 2)
    BY <1>3, TwoStand
<1>8. ASSUME NEW j, Stands(chars, p3, j)
      PROVE  chars[j + 1] = CloseParen /\ chars[j + 2] = Space
    BY <1>3, <1>8, TwoStand
<1>9. Shape(p4, 3)
    BY NumeralIs
<1>10. Shape(p5, 1)
    BY <1>3, CharStands
<1>11. ASSUME NEW j, Stands(chars, p5, j)
       PROVE  chars[j + 1] = Hyphen
    BY <1>3, <1>11, CharStands
<1>12. Shape(p6, 2)
    BY NumeralIs
<1>13. Shape(p7, 1)
    BY <1>3, CharStands
<1>14. ASSUME NEW j, Stands(chars, p7, j)
       PROVE  chars[j + 1] = Hyphen
    BY <1>3, <1>14, CharStands
<1>15. Shape(p8, 2)
    BY NumeralIs
<1> HIDE DEF p1, p2, p3, p4, p5, p6, p7, p8
<1>16. /\ Shape(q2, 7)
       /\ Stands(chars, q2, i) => Stands(chars, p1, i) /\ Stands(chars, p2, i + 4)
    <2>1. 4 \in Nat /\ 3 \in Nat /\ 7 = 4 + 3
        OBVIOUS
    <2> QED
        BY ZenonT(60), <1>2, <1>4, <1>6, <2>1, Parted
<1> HIDE DEF q2
<1>17. /\ Shape(q3, 9)
       /\ Stands(chars, q3, i) => Stands(chars, q2, i) /\ Stands(chars, p3, i + 7)
    BY <1>2, <1>16, <1>7, 9 = 7 + 2, Parted
<1> HIDE DEF q3
<1>18. /\ Shape(q4, 12)
       /\ Stands(chars, q4, i) => Stands(chars, q3, i) /\ Stands(chars, p4, i + 9)
    BY <1>2, <1>17, <1>9, 12 = 9 + 3, Parted
<1> HIDE DEF q4
<1>19. /\ Shape(q5, 13)
       /\ Stands(chars, q5, i) => Stands(chars, q4, i) /\ Stands(chars, p5, i + 12)
    BY <1>2, <1>18, <1>10, 13 = 12 + 1, Parted
<1> HIDE DEF q5
<1>20. /\ Shape(q6, 15)
       /\ Stands(chars, q6, i) => Stands(chars, q5, i) /\ Stands(chars, p6, i + 13)
    BY <1>2, <1>19, <1>12, 15 = 13 + 2, Parted
<1> HIDE DEF q6
<1>21. /\ Shape(q7, 16)
       /\ Stands(chars, q7, i) => Stands(chars, q6, i) /\ Stands(chars, p7, i + 15)
    BY <1>2, <1>20, <1>13, 16 = 15 + 1, Parted
<1> HIDE DEF q7
<1>22. /\ Shape(q8, 18)
       /\ Stands(chars, q8, i) => Stands(chars, q7, i) /\ Stands(chars, p8, i + 16)
    BY <1>2, <1>21, <1>15, 18 = 16 + 2, Parted
<1> HIDE DEF q8
<1>23. Len(form) = 18 /\ i + 18 <= Len(chars)
    BY <1>1, <1>22 DEF Shape
<1>24. /\ Stands(chars, p1, i)
       /\ Stands(chars, p2, i + 4)
       /\ Stands(chars, p3, i + 7)
       /\ Stands(chars, p4, i + 9)
       /\ Stands(chars, p5, i + 12)
       /\ Stands(chars, p6, i + 13)
       /\ Stands(chars, p7, i + 15)
       /\ Stands(chars, p8, i + 16)
    BY <1>1, <1>16, <1>17, <1>18, <1>19, <1>20, <1>21, <1>22
<1>25. /\ AreDigits(chars, i + 4, 3)
       /\ AreDigits(chars, i + 9, 3)
       /\ AreDigits(chars, i + 13, 2)
       /\ AreDigits(chars, i + 16, 2)
    <2>1. i + 4 + 3 <= Len(chars)
        BY <1>2, <1>23
    <2>2. i + 9 + 3 <= Len(chars)
        BY <1>2, <1>23
    <2>3. i + 13 + 2 <= Len(chars)
        BY <1>2, <1>23
    <2>4. i + 16 + 2 <= Len(chars)
        BY <1>2, <1>23
    <2> QED
        BY <1>24, <2>1, <2>2, <2>3, <2>4, NumeralStands DEF p2, p4, p6, p8
<1>26. /\ i + 7 + 1 = i + 8
       /\ i + 7 + 2 = i + 9
       /\ i + 12 + 1 = i + 13
       /\ i + 15 + 1 = i + 16
    BY <1>2
<1>27. /\ chars[i + 1] = PlusSign /\ chars[i + 2] = 7 /\ chars[i + 3] = Space /\ chars[i + 4] = OpenParen
       /\ chars[i + 8] = CloseParen /\ chars[i + 9] = Space
       /\ chars[i + 13] = Hyphen
       /\ chars[i + 16] = Hyphen
    BY ZenonT(40), <1>24, <1>26, <1>5, <1>8, <1>11, <1>14
<1>28. MatchAt(chars, "phone", i) = i + 18
    BY <1>2, <1>23, <1>25, <1>27, PhoneFound
<1>50. NotApart(chars, "phone", i, 18)
    <2> SUFFICES ASSUME NEW j \in 0..Len(chars), MatchAt(chars, "phone", j) # NoMatch,
                        j <= i, i < MatchAt(chars, "phone", j)
                 PROVE  MatchAt(chars, "phone", j) = i + 18 /\ \A c \in j + 1..i : chars[c] \notin Digit
        BY DEF NotApart
    <2>1. i = j
        BY <1>2, <1>27, PhoneOver
    <2>2. \A c \in j + 1..i : FALSE
        BY <1>2, <2>1
    <2> QED
        BY <1>28, <2>1, <2>2
<1> QED
    BY <1>23, <1>28, <1>50

-----------------------------------------------------------------------------
\* Where a form stands its extractor matches, up to its last character, whatever
\* stands before it.
LEMMA FormFound ==
    ASSUME NEW chars \in Seq(Int), NEW x, NEW form \in Forms(x), NEW i \in 0..Len(chars),
           ~Personal(x, form), Stands(chars, form, i), i + Len(form) <= Len(chars)
    PROVE  /\ x \in Regexes
           /\ Len(form) \in Nat
           /\ MatchAt(chars, x, i) = i + Len(form)
           /\ NotApart(chars, x, i, Len(form))
<1>1. CASE x = "inn"
    <2>1. form = InnText
        BY <1>1 DEF Forms, Personal, InnText
    <2> QED
        BY <1>1, <2>1, InnForm DEF Regexes
<1>2. CASE x = "snils"
    <2>1. form \in {SnilsText, GroupedSnilsText}
        BY <1>2 DEF Forms, SnilsText, GroupedSnilsText
    <2> QED
        BY <1>2, <2>1, SnilsForm, GroupedSnilsForm DEF Regexes
<1>3. CASE x = "passport"
    <2>1. form \in {SeriesNumberText, LabelledText, SpacedText, BareText}
        BY <1>3 DEF Forms, SeriesNumberText, LabelledText, SpacedText, BareText
    <2>2. CASE form = SeriesNumberText
        BY <1>3, <2>2, SeriesNumberForm DEF Regexes
    <2>3. CASE form = LabelledText
        BY <1>3, <2>3, LabelledForm DEF Regexes
    <2>4. CASE form = SpacedText
        BY <1>3, <2>4, SpacedForm DEF Regexes
    <2>5. CASE form = BareText
        BY <1>3, <2>5, BareForm DEF Regexes
    <2> QED
        BY <2>1, <2>2, <2>3, <2>4, <2>5
<1>4. CASE x = "phone"
    <2>1. form = PhoneText
        BY <1>4 DEF Forms, PhoneText
    <2> QED
        BY <1>4, <2>1, PhoneForm DEF Regexes
<1>5. CASE x \notin {"inn", "snils", "passport", "phone"}
    <2>1. Forms(x) = {}
        BY <1>5 DEF Forms
    <2> QED
        BY <2>1
<1> QED
    BY <1>1, <1>2, <1>3, <1>4, <1>5

\* What DigitsOf and Genuine say of a match they say of its entity.
LEMMA SameDigits ==
    ASSUME NEW chars, NEW m, NEW e, e.start = m.start, e.stop = m.stop
    PROVE  DigitsOf(chars, e) = DigitsOf(chars, m)
BY DEF DigitsOf

\* An INN of twelve digits ends where no match does.
LEMMA NeverWhole ==
    ASSUME NEW chars \in Seq(Int), NEW i \in 0..Len(chars), NEW m \in ToSet(Finditer(chars, "inn")),
           i + Len(Numeral(12)) <= Len(chars), Stands(chars, Numeral(12), i),
           m.start <= i, m.stop = i + Len(Numeral(12))
    PROVE  FALSE
<1> DEFINE r == Finditer(chars, "inn")
           twelve == Numeral(12)
<1>1. Shape(twelve, 12)
    BY NumeralIs
<1>2. Len(chars) \in Nat /\ i \in Nat /\ Len(twelve) = 12
    BY <1>1, LenProperties DEF Shape
<1>3. AreDigits(chars, i, 12)
    BY <1>2, NumeralStands
<1>4. Yields(r, chars, "inn", 0)
    BY FinditerIs DEF Regexes
<1>5. PICK k \in DOMAIN r : m = r[k]
    BY DEF ToSet
<1> HIDE DEF r, twelve
<1>6. k \in 1..Len(r) /\ r[k] \in Spans(chars)
    BY <1>4, <1>5, LenProperties DEF Yields
<1>7. m.start \in 0..Len(chars) /\ m.start < m.stop /\ m.stop = MatchAt(chars, "inn", m.start)
    BY <1>4, <1>5, <1>6 DEF Yields, Spans
<1>8. m.stop = i + 12
    BY <1>2 DEF twelve
<1>9. MatchAt(chars, "inn", m.start) # NoMatch
    BY <1>2, <1>7, <1>8 DEF NoMatch
<1> QED
    BY <1>2, <1>3, <1>7, <1>8, <1>9, InnNeverTwelve

\* The patterns, validate and the sort: a document in a form the documentation
\* gives and with the right check digits, wherever it begins and ends between
\* other characters, is among the findings an answer rests on, whole and
\* whatever candidates stand before it; no number with wrong check digits is.
\* The exception is stated with it: of the forms in inn.py:9-10 the INN of
\* twelve digits is never found whole.
THEOREM DocumentsFound == Service => []FindsDocuments
<1>1. DInv => FindsDocuments
    <2> SUFFICES ASSUME DInv, phase = "answered", NEW x \in ToSet(using.extractors)
                 PROVE  /\ \A form \in Forms(x), i \in 0..Length :
                              IsDocument(x, form, i) => (FoundWhole(x, form, i) <=> ~Personal(x, form))
                        /\ \A k \in DOMAIN found :
                              found[k].label.source = x /\ x \in {"inn", "snils"} =>
                                  Genuine(x, DigitsOf(input.chars, found[k]))
        BY DEF FindsDocuments
    <2> DEFINE chars == input.chars
    <2>1. /\ found = Findings(using.extractors) /\ input \in Inputs
          /\ using.extractors \in Seq(Names) /\ Distinct(using.extractors)
        BY DEF DInv, PInv, Started, RequestTyped, DefinitionsTyped, Definitions
    <2>2. ToSet(found) = UNION {ToSet(Found(input, y)) : y \in ToSet(using.extractors)}
        BY <2>1, FindingsAre
    <2>3. ToSet(using.extractors) \subseteq Names
        BY <2>1, LenProperties DEF ToSet
    <2>4. chars \in Seq(Int) /\ Len(chars) = Length
        <3>1. chars \in Seq(Char) /\ Len(chars) = Length
            BY <2>1, DetectionAssumption
        <3> QED
            BY <3>1, CharsAreInts, SeqMonotonic
    <2>5. \A y \in Regexes : Found(input, y) = FoundByRegex(chars, y)
        BY DEF Found, Regexes
    <2>8. ASSUME NEW form, NEW i
          PROVE  FoundWhole(x, form, i) <=>
                     \E k \in DOMAIN found :
                         /\ found[k].label.source = x
                         /\ found[k].start <= i
                         /\ found[k].stop = i + Len(form)
                         /\ \A c \in found[k].start + 1..i : chars[c] \notin Digit
        BY DEF FoundWhole
    <2>9. ASSUME NEW form, NEW i, IsDocument(x, form, i)
          PROVE  /\ i + Len(form) <= Len(chars)
                 /\ Stands(chars, form, i)
                 /\ Ahead(chars, x, i)
                 /\ Genuine(x, DigitsOf(chars, [start |-> i, stop |-> i + Len(form)]))
        BY <2>4, <2>9 DEF IsDocument, Stands, Ahead, Begins, IsGap
    <2> HIDE DEF chars
    \* Every finding of a pattern is one of its matches.
    <2>10. ASSUME NEW k \in DOMAIN found, found[k].label.source = x, x \in Regexes
           PROVE  \E m \in ToSet(Finditer(chars, x)) :
                      Valid(x, DigitsOf(chars, m)) /\ found[k].start = m.start /\ found[k].stop = m.stop
        <3> DEFINE e == found[k]
        <3>1. e \in ToSet(found)
            BY DEF ToSet
        <3>2. PICK y \in ToSet(using.extractors) : e \in ToSet(Found(input, y))
            BY <2>2, <3>1
        <3>3. e.label.source = y
            BY <2>1, <2>3, <3>2, FoundIs
        <3>4. e \in ToSet(FoundByRegex(chars, x))
            <4>1. x = y
                BY <2>10, <3>3
            <4> QED
                BY <2>5, <2>10, <3>2, <4>1
        <3>5. PICK m \in ToSet(Finditer(chars, x)) :
                  Valid(x, DigitsOf(chars, m)) /\ e = Entity(x, m, Normalized(chars, x, m), Empty)
            BY <2>4, <2>10, <3>4, RegexFinds
        <3>6. e.start = m.start /\ e.stop = m.stop
            BY <3>5 DEF Entity
        <3> QED
            BY <3>5, <3>6
    <2>6. ASSUME NEW form \in Forms(x), NEW i \in 0..Length, IsDocument(x, form, i), ~Personal(x, form)
          PROVE  FoundWhole(x, form, i)
        <3> DEFINE n == Len(form)
                   r == Finditer(chars, x)
        <3>1. i + n <= Len(chars) /\ Stands(chars, form, i) /\ Ahead(chars, x, i)
              /\ Genuine(x, DigitsOf(chars, [start |-> i, stop |-> i + n]))
            BY <2>6, <2>9
        <3>2. x \in Regexes /\ n \in Nat /\ MatchAt(chars, x, i) = i + n /\ NotApart(chars, x, i, n)
            BY <2>4, <2>6, <3>1, FormFound
        <3>3. Length \in Nat /\ MatchAt(chars, x, i) # NoMatch
            BY <3>2, MaskingAssumption DEF NoMatch
        <3> HIDE DEF n
        <3>4. PICK k \in 1..Len(r) : r[k].start <= i /\ i < r[k].stop
            BY <2>4, <3>2, <3>3, FoundOver
        <3>5. Yields(r, chars, x, 0)
            BY <2>4, <3>2, FinditerIs
        <3> HIDE DEF r
        <3> DEFINE m == r[k]
        <3>6. m \in ToSet(r) /\ m \in Spans(chars)
            BY <3>5, LenProperties DEF Yields, ToSet
        <3>7. /\ m.start \in 0..Len(chars) /\ m.stop \in 0..Len(chars)
              /\ m.stop = MatchAt(chars, x, m.start)
              /\ m.start <= i /\ i < m.stop
            BY <3>4, <3>5, <3>6 DEF Yields, Spans
        <3> HIDE DEF m
        <3>8. MatchAt(chars, x, m.start) # NoMatch
            BY <2>4, <3>3, <3>7 DEF NoMatch
        <3>9. m.stop = i + n /\ \A c \in m.start + 1..i : chars[c] \notin Digit
            BY <3>1, <3>2, <3>7, <3>8 DEF NotApart
        <3>10. DigitsOf(chars, m) = DigitsOf(chars, [start |-> i, stop |-> m.stop])
            <4>1. i \in m.start..m.stop
                BY <2>4, <3>3, <3>7
            <4> QED
                BY ZenonT(40), <2>4, <3>7, <3>9, <4>1, DigitsBehind
        <3>11. Valid(x, DigitsOf(chars, m))
            BY <2>4, <3>1, <3>2, <3>6, <3>9, <3>10, MatchIsGenuine DEF r
        <3> DEFINE e == Entity(x, m, Normalized(chars, x, m), Empty)
        <3>12. e \in ToSet(FoundByRegex(chars, x))
            BY <2>4, <3>2, <3>6, <3>11, RegexFinds DEF r
        <3>13. e \in ToSet(found)
            BY <2>2, <2>5, <3>2, <3>12
        <3>14. e.label.source = x /\ e.start = m.start /\ e.stop = m.stop
            BY DEF Entity
        <3> HIDE DEF e
        <3>15. PICK l \in DOMAIN found : found[l] = e
            BY <3>13 DEF ToSet
        <3>16. /\ found[l].label.source = x
               /\ found[l].start <= i
               /\ found[l].stop = i + Len(form)
               /\ \A c \in found[l].start + 1..i : chars[c] \notin Digit
            BY <3>7, <3>9, <3>14, <3>15 DEF n
        <3> QED
            BY <2>8, <3>16
    <2>11. ASSUME NEW form \in Forms(x), NEW i \in 0..Length, IsDocument(x, form, i), Personal(x, form),
                  FoundWhole(x, form, i)
           PROVE  FALSE
        <3>1. x = "inn" /\ form = Numeral(12) /\ x \in Regexes
            BY <2>11 DEF Personal, Regexes
        <3>2. PICK k \in DOMAIN found : /\ found[k].label.source = x
                                         /\ found[k].start <= i
                                         /\ found[k].stop = i + Len(form)
            BY <2>8, <2>11
        <3>3. PICK m \in ToSet(Finditer(chars, x)) : found[k].start = m.start /\ found[k].stop = m.stop
            BY <2>10, <3>1, <3>2
        <3>4. i + Len(form) <= Len(chars) /\ Stands(chars, form, i)
            BY <2>9, <2>11
        <3>5. m.start <= i /\ m.stop = i + Len(form)
            BY <3>2, <3>3
        <3> QED
            BY <2>4, <3>1, <3>3, <3>4, <3>5, NeverWhole
    <2>7. ASSUME NEW k \in DOMAIN found, found[k].label.source = x, x \in {"inn", "snils"}
          PROVE  Genuine(x, DigitsOf(chars, found[k]))
        <3>1. x \in Regexes
            BY <2>7 DEF Regexes
        <3>2. PICK m \in ToSet(Finditer(chars, x)) :
                  Valid(x, DigitsOf(chars, m)) /\ found[k].start = m.start /\ found[k].stop = m.stop
            BY <2>7, <2>10, <3>1
        <3>3. Genuine(x, DigitsOf(chars, m))
            BY <2>4, <3>1, <3>2, MatchIsGenuine
        <3> QED
            BY <3>2, <3>3, SameDigits
    <2> QED
        BY <2>6, <2>7, <2>11 DEF chars
<1>2. QED  BY Invariance, <1>1, PTL

-----------------------------------------------------------------------------
\* EntityExtractor's entities are those of the four extractors, and so is its
\* text.  A condition that every element meets keeps them all.
LEMMA AmongAll ==
    ASSUME NEW X, NEW s \in Seq(X), NEW S, \A k \in DOMAIN s : s[k] \in S
    PROVE  Among(s, S) = s
<1> DEFINE n == Len(s)
<1>1. n \in Nat /\ DOMAIN s = 1..n /\ \A k \in 1..n : s[k] \in X /\ s[k] \in S
    BY LenProperties
<1>2. PICK g : Takes(g, X, s, S) /\ Among(s, S) = g[n]
    BY AmongSteps
<1>3. /\ g \in [0..n -> Seq(X)] /\ g[0] = <<>>
      /\ \A k \in 1..n : g[k] = Append(g[k - 1], s[k])
    BY <1>1, <1>2 DEF Takes
<1> HIDE DEF n
<1> DEFINE T == {k \in 0..n : Len(g[k]) = k /\ \A j \in 1..k : g[k][j] = s[j]}
<1>4. 0 \in T
    BY <1>1, <1>3
<1>5. ASSUME NEW k \in 1..n, k - 1 \in T
      PROVE  k \in T
    <2> DEFINE v == g[k - 1]
    <2>1. /\ v \in Seq(X) /\ Len(v) = k - 1
          /\ \A j \in 1..k - 1 : v[j] = s[j]
        BY <1>1, <1>3, <1>5
    <2>2. g[k] = Append(v, s[k]) /\ s[k] \in X
        BY <1>1, <1>3
    <2> HIDE DEF v
    <2>3. /\ Len(g[k]) = k
          /\ \A j \in 1..k - 1 : g[k][j] = v[j]
          /\ g[k][k] = s[k]
        <3>1. /\ Len(g[k]) = Len(v) + 1
              /\ \A j \in 1..Len(v) : g[k][j] = v[j]
              /\ g[k][Len(v) + 1] = s[k]
            BY <2>1, <2>2, AppendProperties
        <3>2. Len(v) + 1 = k
            BY <2>1
        <3> QED
            BY <2>1, <3>1, <3>2
    <2>4. \A j \in 1..k : j \in 1..k - 1 \/ j = k
        OBVIOUS
    <2>5. \A j \in 1..k : g[k][j] = s[j]
        BY <2>1, <2>3, <2>4
    <2> QED
        BY <2>3, <2>5
<1> HIDE DEF T
<1>6. 0..n \subseteq T
    BY <1>1, <1>4, <1>5, Induct
<1>7. n \in T
    BY <1>1, <1>6
<1>8. g[n] \in Seq(X) /\ Len(g[n]) = n /\ \A j \in 1..n : g[n][j] = s[j]
    BY <1>1, <1>3, <1>7 DEF T
<1>9. Len(s) = n
    BY DEF n
<1> QED
    BY <1>1, <1>2, <1>8, <1>9, SeqEqual

LEMMA LegacyAmong ==
    ASSUME NEW s, NEW S
    PROVE  L!Among(s, S) = Among(s, S)
BY DEF L!Among, Among

\* Its normal forms are the extractors', which leave out of details what it
\* leaves out of parts; what only one of them puts through str() is a text.
LEMMA LegacyParts ==
    ASSUME NEW A, NEW order \in Seq(A), NEW x, NEW fact, \A a \in DOMAIN fact : fact[a] \in Int,
           \A a \in ToSet(order) \cap DOMAIN fact : x = "location" \/ a = "currency" => fact[a] <= 0
    PROVE  L!Parts(fact, order) = Joined(x, Details(fact, ToSet(order)), order)
<1> DEFINE n == Len(order)
           D == Details(fact, ToSet(order))
           there == Among(order, DOMAIN D)
           val(a) == L!Part(a, fact[a])
           J == Joined(x, D, order)
<1>1. n \in Nat /\ DOMAIN order = 1..n /\ \A k \in 1..n : order[k] \in A
    BY LenProperties
<1>2. /\ DOMAIN D = {a \in ToSet(order) \cap DOMAIN fact : fact[a] # 0}
      /\ \A a \in DOMAIN D : D[a] = fact[a]
    BY DEF Details, Falsy
<1>3. \A k \in 1..n : order[k] \in DOMAIN D <=> L!Attribute(fact, order[k]) # 0
    <2>1. \A k \in 1..n : order[k] \in ToSet(order)
        BY <1>1 DEF ToSet
    <2> QED
        BY <1>2, <2>1 DEF L!Attribute
<1>4. J = [k \in DOMAIN there |-> IF x = "location" THEN D[there[k]] ELSE Str(D[there[k]])]
    BY DEF Joined
<1>16. \A a \in DOMAIN D : (IF x = "location" THEN D[a] ELSE Str(D[a])) = val(a)
    <2> SUFFICES ASSUME NEW a \in DOMAIN D
                 PROVE  (IF x = "location" THEN D[a] ELSE Str(D[a])) = val(a)
        OBVIOUS
    <2> DEFINE w == fact[a]
    <2>1. w \in Int /\ D[a] = w /\ (x = "location" \/ a = "currency" => w <= 0)
        BY <1>2
    <2>2. val(a) = IF a = "currency" THEN w ELSE IF w > 0 THEN -w ELSE w
        BY DEF L!Part, L!Str
    <2>3. Str(D[a]) = IF w > 0 THEN -w ELSE w
        BY <2>1 DEF Str
    <2> HIDE DEF w, val, D
    <2> QED
        BY <2>1, <2>2, <2>3
<1> HIDE DEF n, D, val, J
<1>5. PICK g : Takes(g, A, order, DOMAIN D) /\ there = g[n]
    BY AmongSteps DEF n
<1>6. /\ g \in [0..n -> Seq(A)] /\ g[0] = <<>>
      /\ \A k \in 1..n : g[k] = IF order[k] \in DOMAIN D THEN Append(g[k - 1], order[k]) ELSE g[k - 1]
    BY <1>5 DEF Takes, n
<1> DEFINE f == [k \in 0..n |-> [j \in DOMAIN g[k] |-> val(g[k][j])]]
           Rule(u) == u = [k \in 0..Len(order) |->
                              IF k = 0 THEN <<>>
                              ELSE IF L!Attribute(fact, order[k]) = 0 THEN u[k - 1]
                              ELSE Append(u[k - 1], val(order[k]))]
           chosen == CHOOSE u : Rule(u)
<1>7. f[0] = <<>>
    <2>1. g[0] = <<>> /\ DOMAIN g[0] = {} /\ 0 \in 0..n
        BY <1>1, <1>6
    <2> QED
        BY <2>1
<1>8. ASSUME NEW k \in 1..n
      PROVE  f[k] = IF L!Attribute(fact, order[k]) = 0 THEN f[k - 1] ELSE Append(f[k - 1], val(order[k]))
    <2>1. /\ k \in 0..n /\ k - 1 \in 0..n
          /\ g[k - 1] \in Seq(A) /\ order[k] \in A
        BY <1>1, <1>6
    <2>2. CASE L!Attribute(fact, order[k]) = 0
        BY <1>3, <1>6, <2>1, <2>2
    <2>3. CASE L!Attribute(fact, order[k]) # 0
        <3> DEFINE v == g[k - 1]
                   m == Len(v)
                   W == {val(v[j]) : j \in 1..m} \cup {val(order[k])}
                   old == [j \in DOMAIN v |-> val(v[j])]
                   new == Append(old, val(order[k]))
        <3>1. g[k] = Append(v, order[k])
            BY <1>3, <1>6, <2>3
        <3>2. v \in Seq(A) /\ m \in Nat /\ DOMAIN v = 1..m
            BY <2>1, LenProperties
        <3>3. /\ Append(v, order[k]) \in Seq(A)
              /\ Len(Append(v, order[k])) = m + 1
              /\ \A j \in 1..m : Append(v, order[k])[j] = v[j]
              /\ Append(v, order[k])[m + 1] = order[k]
            BY <2>1, AppendProperties
        <3> HIDE DEF v, m
        <3>4. DOMAIN g[k] = 1..m + 1 /\ \A j \in 1..m : g[k][j] = v[j] /\ g[k][m + 1] = order[k]
            BY <3>1, <3>3, LenProperties
        <3>5. g[k][m + 1] = order[k]
            BY <3>1, <3>3
        <3>6. f[k] = [j \in 1..m + 1 |-> val(g[k][j])]
            BY <2>1, <3>4
        <3>7. f[k - 1] = old
            BY <2>1 DEF v
        <3>8. old \in Seq(W) /\ Len(old) = m
            <4>1. old \in [1..m -> W]
                BY <3>2
            <4> HIDE DEF W
            <4>2. old \in Seq(W)
                BY <3>2, <4>1, SeqDef
            <4> HIDE DEF old
            <4> QED
                BY <3>2, <4>1, <4>2, LenProperties
        <3>9. val(order[k]) \in W
            OBVIOUS
        <3>10. \A j \in 1..m : old[j] = val(v[j])
            BY <3>2
        <3> HIDE DEF W, old
        <3>11. /\ new \in Seq(W) /\ Len(new) = m + 1
               /\ \A j \in 1..m : new[j] = old[j]
               /\ new[m + 1] = val(order[k])
            BY <3>8, <3>9, AppendProperties
        <3> HIDE DEF new
        <3>12. new = [j \in 1..m + 1 |-> val(g[k][j])]
            <4>1. DOMAIN new = 1..m + 1 /\ new \in [1..m + 1 -> W]
                BY <3>2, <3>11, LenProperties
            <4>2. \A j \in 1..m + 1 : j \in 1..m \/ j = m + 1
                BY <3>2
            <4>3. \A j \in 1..m + 1 : new[j] = val(g[k][j])
                BY <3>4, <3>5, <3>10, <3>11, <4>2
            <4> QED
                BY <4>1, <4>3
        <3>13. f[k] = new
            BY <3>6, <3>12
        <3> HIDE DEF f
        <3> QED
            BY <2>3, <3>7, <3>13 DEF new
    <2> QED
        BY <2>2, <2>3
<1> HIDE DEF f
<1>9. Rule(f)
    <2>1. f = [k \in 0..n |-> f[k]]
        BY DEF f
    <2>2. \A k \in 0..n : f[k] = IF k = 0 THEN <<>>
                                 ELSE IF L!Attribute(fact, order[k]) = 0 THEN f[k - 1]
                                 ELSE Append(f[k - 1], val(order[k]))
        <3>1. \A k \in 0..n : k = 0 \/ k \in 1..n
            BY <1>1
        <3>2. \A k \in 1..n : k # 0
            BY <1>1
        <3> QED
            BY <1>7, <1>8, <3>1, <3>2
    <2> QED
        BY <2>1, <2>2 DEF n
<1>10. Rule(chosen)
    <2> HIDE DEF Rule
    <2> QED
        BY <1>9
<1>11. L!Parts(fact, order) = chosen[n]
    BY DEF L!Parts, n, val
<1> HIDE DEF chosen
<1>12. \A k \in 0..n : chosen[k] = f[k]
    <2> DEFINE T == {k \in 0..n : chosen[k] = f[k]}
    <2>0. \A k \in 0..n : chosen[k] = IF k = 0 THEN <<>>
                                 ELSE IF L!Attribute(fact, order[k]) = 0 THEN chosen[k - 1]
                                 ELSE Append(chosen[k - 1], val(order[k]))
        BY <1>10 DEF n
    <2>1. 0 \in T
        BY <1>1, <1>7, <2>0
    <2>2. \A k \in 1..n : k - 1 \in T => k \in T
        <3>1. \A k \in 1..n : k # 0 /\ k \in 0..n
            BY <1>1
        <3> QED
            BY <1>8, <2>0, <3>1
    <2> HIDE DEF T
    <2>3. 0..n \subseteq T
        BY <1>1, <2>1, <2>2, Induct
    <2> QED
        BY <2>3 DEF T
<1>13. L!Parts(fact, order) = f[n]
    BY <1>1, <1>11, <1>12
<1>14. f[n] = [j \in DOMAIN there |-> val(there[j])]
    BY <1>1, <1>5 DEF f
<1>15. \A j \in DOMAIN there : there[j] \in DOMAIN D
    <2>1. ToSet(there) = ToSet(order) \cap DOMAIN D
        BY AmongKeeps
    <2> QED
        BY <2>1 DEF ToSet
<1> HIDE DEF there
<1> QED
    BY <1>4, <1>13, <1>14, <1>15, <1>16 DEF D, J

\* Its details are the extractors', too.
LEMMA LegacyDetails ==
    ASSUME NEW fact, NEW attributes
    PROVE  L!Present(fact, attributes) = Details(fact, attributes)
<1>1. {b \in attributes : L!Attribute(fact, b) # 0} = {b \in attributes \cap DOMAIN fact : fact[b] # Falsy}
    BY DEF L!Attribute, Falsy
<1> QED
    BY <1>1 DEF L!Present, Details

LEMMA LegacyValues ==
    /\ \A d : L!Values(d) = Values(d)
    /\ L!Empty = Empty
BY DEF L!Values, Values, L!Attributes, Attributes, L!Empty, Empty

\* The parts of a name are those of its ends.
LEMMA SameName ==
    ASSUME NEW i, NEW e, NEW m, e.start = m.start, e.stop = m.stop
    PROVE  L!NameDetails(i, e) = L!NameDetails(i, m)
BY DEF L!NameDetails

\* Entities as EntityExtractor returns them.
OldOf(q) == [k \in DOMAIN q |-> AsLegacy(q[k])]

LEMMA OldIs ==
    ASSUME NEW x, NEW m, NEW normal, NEW details, x # "person"
    PROVE  AsLegacy(Entity(x, m, normal, details)) = L!ExtractedEntity(x, m, normal, details)
BY LegacyValues DEF AsLegacy, Entity, L!ExtractedEntity

LEMMA OldPerson ==
    ASSUME NEW m, NEW normal, NEW details
    PROVE  AsLegacy(Entity("person", m, normal, details)) =
               L!ExtractedEntity("person", m, normal, L!NameDetails(input, m))
<1> DEFINE e == Entity("person", m, normal, details)
<1>1. e.start = m.start /\ e.stop = m.stop /\ e.label.source = "person" /\ e.label.normal = normal
    BY DEF Entity
<1> HIDE DEF e
<1>2. L!NameDetails(input, e) = L!NameDetails(input, m)
    BY <1>1, SameName
<1> QED
    BY <1>1, <1>2, LegacyValues DEF AsLegacy, L!ExtractedEntity, e

LEMMA OldConcat ==
    ASSUME NEW E, NEW p \in Seq(E), NEW q \in Seq(E)
    PROVE  OldOf(p \o q) = OldOf(p) \o OldOf(q)
<1> DEFINE m == Len(p)
           n == Len(q)
           F == {AsLegacy(e) : e \in E}
           r == p \o q
           u == OldOf(p)
           v == OldOf(q)
<1>1. /\ m \in Nat /\ n \in Nat /\ DOMAIN p = 1..m /\ DOMAIN q = 1..n
      /\ \A k \in 1..m : p[k] \in E
      /\ \A k \in 1..n : q[k] \in E
    BY LenProperties
<1>2. /\ r \in Seq(E) /\ Len(r) = m + n
      /\ \A k \in 1..m + n : r[k] = IF k <= m THEN p[k] ELSE q[k - m]
    BY ConcatProperties
<1> HIDE DEF m, n, r
<1>3. DOMAIN r = 1..m + n
    BY <1>2, LenProperties
<1>4. /\ \A k \in 1..m : u[k] = AsLegacy(p[k])
      /\ \A k \in 1..n : v[k] = AsLegacy(q[k])
    BY <1>1 DEF OldOf
<1>5. u \in [1..m -> F] /\ v \in [1..n -> F]
    BY <1>1 DEF OldOf
<1>6. OldOf(r) = [k \in 1..m + n |-> AsLegacy(r[k])]
    BY <1>3 DEF OldOf
<1> HIDE DEF u, v, F
<1>7. u \in Seq(F) /\ v \in Seq(F) /\ Len(u) = m /\ Len(v) = n
    <2>1. u \in Seq(F) /\ v \in Seq(F)
        BY <1>1, <1>5, SeqDef
    <2> QED
        BY <1>1, <1>5, <2>1, LenProperties
<1>8. /\ u \o v \in Seq(F) /\ Len(u \o v) = m + n
      /\ \A k \in 1..m + n : (u \o v)[k] = IF k <= m THEN u[k] ELSE v[k - m]
    BY <1>7, ConcatProperties
<1>9. u \o v = [k \in 1..m + n |-> AsLegacy(r[k])]
    <2> DEFINE w == u \o v
    <2>1. DOMAIN w = 1..m + n /\ w \in [1..m + n -> F]
        BY <1>8, LenProperties
    <2>2. ASSUME NEW k \in 1..m + n
          PROVE  w[k] = AsLegacy(r[k])
        <3>1. CASE k <= m
            <4>1. k \in 1..m
                BY <1>1, <3>1
            <4> QED
                BY <1>2, <1>4, <1>8, <3>1, <4>1
        <3>2. CASE ~(k <= m)
            <4>1. k - m \in 1..n
                BY <1>1, <3>2
            <4> QED
                BY <1>2, <1>4, <1>8, <3>2, <4>1
        <3> QED
            BY <3>1, <3>2
    <2> HIDE DEF w
    <2>3. w = [k \in 1..m + n |-> AsLegacy(r[k])]
        BY <2>1, <2>2
    <2> QED
        BY <2>3 DEF w
<1> QED
    BY <1>6, <1>9 DEF r, u, v

\* Dates, addresses and money.
LEMMA LegacyMatches ==
    ASSUME NEW A, NEW order \in Seq(A), NEW ms, NEW x, x # "person",
           \A k \in DOMAIN ms : \A a \in DOMAIN ms[k].fact : ms[k].fact[a] \in Int,
           \A k \in DOMAIN ms : \A a \in ToSet(order) \cap DOMAIN ms[k].fact :
               x = "location" \/ a = "currency" => ms[k].fact[a] <= 0
    PROVE  L!FromMatches(x, ms, order) = OldOf(FromFacts(x, ms, order))
<1> DEFINE D(k) == Details(ms[k].fact, ToSet(order))
           N(k) == Joined(x, D(k), order)
           q == [k \in DOMAIN ms |-> Entity(x, ms[k], N(k), D(k))]
<1>1. FromFacts(x, ms, order) = q
    BY DEF FromFacts
<1>2. \A k \in DOMAIN ms : L!Parts(ms[k].fact, order) = N(k)
    BY LegacyParts
<1>7. \A k \in DOMAIN ms : L!Present(ms[k].fact, L!ToSet(order)) = D(k)
    BY LegacyDetails DEF L!ToSet, ToSet
<1>3. L!FromMatches(x, ms, order) =
          [k \in DOMAIN ms |-> L!ExtractedEntity(x, ms[k], L!Parts(ms[k].fact, order),
                                                 L!Present(ms[k].fact, L!ToSet(order)))]
    BY DEF L!FromMatches
<1> HIDE DEF N, D
<1>4. DOMAIN q = DOMAIN ms /\ \A k \in DOMAIN ms : q[k] = Entity(x, ms[k], N(k), D(k))
    OBVIOUS
<1> HIDE DEF q
<1>5. OldOf(q) = [k \in DOMAIN ms |-> AsLegacy(q[k])]
    BY <1>4 DEF OldOf
<1>6. \A k \in DOMAIN ms : AsLegacy(q[k]) = L!ExtractedEntity(x, ms[k], L!Parts(ms[k].fact, order),
                                                              L!Present(ms[k].fact, L!ToSet(order)))
    BY <1>2, <1>4, <1>7, OldIs
<1> QED
    BY <1>1, <1>3, <1>5, <1>6

\* Its dictionary of persons keeps all of them: no two start together.
LEMMA LegacySpans ==
    ASSUME NEW X, NEW spans \in Seq(X), Apart(spans)
    PROVE  L!LastWithEnds(spans) = spans
<1> DEFINE n == Len(spans)
           same(i) == {j \in DOMAIN spans : spans[j].start = spans[i].start /\ spans[j].stop = spans[i].stop}
           all == [i \in DOMAIN spans |-> i]
           S == {i \in DOMAIN spans : \A j \in same(i) : i <= j}
           firsts == L!Among(all, S)
<1>1. n \in Nat /\ DOMAIN spans = 1..n /\ \A k \in 1..n : spans[k] \in X
    BY LenProperties
<1>2. \A i \in 1..n : same(i) = {i}
    BY <1>1 DEF Apart
<1>3. L!LastWithEnds(spans) = [k \in DOMAIN firsts |->
          spans[CHOOSE j \in same(firsts[k]) : \A l \in same(firsts[k]) : l <= j]]
    BY DEF L!LastWithEnds
<1> HIDE DEF same, n
<1>4. \A i \in 1..n : i \in S
    <2>1. \A i \in 1..n : \A j \in same(i) : i <= j
        BY <1>1, <1>2
    <2> QED
        BY <1>1, <2>1
<1> HIDE DEF S
<1>5. all \in Seq(1..n) /\ DOMAIN all = 1..n /\ \A k \in 1..n : all[k] = k
    <2>1. all \in [1..n -> 1..n]
        BY <1>1
    <2>2. DOMAIN all = 1..n /\ \A k \in 1..n : all[k] = k
        BY <1>1
    <2> HIDE DEF all
    <2> QED
        BY <1>1, <2>1, <2>2, SeqDef
<1> HIDE DEF all
<1>6. firsts = all
    <2>1. \A k \in DOMAIN all : all[k] \in S
        BY <1>4, <1>5
    <2>2. Among(all, S) = all
        BY <1>5, <2>1, AmongAll
    <2> QED
        BY <2>2, LegacyAmong
<1> HIDE DEF firsts
<1>7. \A k \in 1..n : (CHOOSE j \in same(firsts[k]) : \A l \in same(firsts[k]) : l <= j) = k
    <2> SUFFICES ASSUME NEW k \in 1..n
                 PROVE  (CHOOSE j \in same(firsts[k]) : \A l \in same(firsts[k]) : l <= j) = k
        OBVIOUS
    <2>1. same(firsts[k]) = {k}
        BY <1>2, <1>5, <1>6
    <2>2. (CHOOSE j \in {k} : \A l \in {k} : l <= j) = k
        <3>1. k <= k
            BY <1>1
        <3> QED
            BY <3>1
    <2> QED
        BY <2>1, <2>2
<1>8. L!LastWithEnds(spans) = [k \in 1..n |-> spans[k]]
    <2>1. DOMAIN firsts = 1..n
        BY <1>5, <1>6
    <2> DEFINE c(k) == CHOOSE j \in same(firsts[k]) : \A l \in same(firsts[k]) : l <= j
    <2>2. L!LastWithEnds(spans) = [k \in 1..n |-> spans[c(k)]]
        BY <1>3, <2>1
    <2>3. \A k \in 1..n : c(k) = k
        BY <1>7
    <2> HIDE DEF c
    <2> QED
        BY <2>2, <2>3
<1> QED
    BY <1>1, <1>8, LenProperties

LEMMA LegacySet ==
    ASSUME NEW s
    PROVE  L!ToSet(s) = ToSet(s)
BY DEF L!ToSet, ToSet

LEMMA LegacyPersons ==
    ASSUME NEW X, input.ner \in Seq(X), Apart(input.ner)
    PROVE  L!ExtractPersons(input) = OldOf(FromSpans("person", input.ner, "PER"))
<1> DEFINE ner == input.ner
           T == {s \in ToSet(ner) : s.type = "PER"}
           ms == L!Among(ner, T)
           ps == L!LastWithEnds(ms)
<1>1. ms = Among(ner, T) /\ [k \in DOMAIN ms |-> L!ExtractedEntity("person", ms[k], <<ms[k].normal>>,
                                                             L!NameDetails(input, ms[k]))]
                                = OldOf(FromSpans("person", ner, "PER"))
    <2>1. ms = Among(ner, T)
        BY LegacyAmong
    <2> HIDE DEF ms
    <2> DEFINE q == [k \in DOMAIN ms |-> Entity("person", ms[k], <<ms[k].normal>>, Empty)]
               o == OldOf(q)
    <2>2. FromSpans("person", ner, "PER") = q
        BY <2>1 DEF FromSpans
    <2>3. DOMAIN q = DOMAIN ms /\ \A k \in DOMAIN ms : q[k] = Entity("person", ms[k], <<ms[k].normal>>, Empty)
        OBVIOUS
    <2> HIDE DEF q
    <2>4. o = [k \in DOMAIN ms |-> AsLegacy(q[k])]
        BY <2>3 DEF OldOf
    <2>5. \A k \in DOMAIN ms : AsLegacy(Entity("person", ms[k], <<ms[k].normal>>, Empty))
                                  = L!ExtractedEntity("person", ms[k], <<ms[k].normal>>, L!NameDetails(input, ms[k]))
        BY OldPerson
    <2>6. \A k \in DOMAIN ms : AsLegacy(q[k]) = L!ExtractedEntity("person", ms[k], <<ms[k].normal>>, L!NameDetails(input, ms[k]))
        BY <2>3, <2>5
    <2> QED
        BY <2>1, <2>2, <2>4, <2>6
<1>2. L!ToSet(ner) = ToSet(ner)
    BY LegacySet
<1>3. L!ExtractPersons(input) = [k \in DOMAIN ps |-> L!ExtractedEntity("person", ps[k], <<ps[k].normal>>,
                                                             L!NameDetails(input, ps[k]))]
    BY <1>2 DEF L!ExtractPersons
<1> HIDE DEF T, ms
<1>4. ms \in Seq(X) /\ Apart(ms)
    BY <1>1, AmongKeeps
<1>5. ps = ms
    BY SMTT(30), <1>4, LegacySpans
<1> QED
    BY <1>1, <1>3, <1>5

\* The ends it has seen are those the location extractor has.
LEMMA LegacyLocations ==
    ASSUME NEW X, NEW Y, NEW i, i.ner \in Seq(X), i.addresses \in Seq(Y),
           \A m \in ToSet(i.addresses) : /\ \A a \in DOMAIN m.fact : m.fact[a] \in Int
                                         /\ OnlyTexts(m.fact, ToSet(AddressParts))
    PROVE  L!ExtractLocations(i) = OldOf(FromSpans("location", i.ner, "LOC"))
                                      \o OldOf(FromFacts("location", NewAddresses(i), AddressParts))
<1> DEFINE ner == i.ner
           T == {s \in ToSet(ner) : s.type = "LOC"}
           ms == L!Among(ner, T)
           seen == {<<ms[k].start, ms[k].stop>> : k \in DOMAIN ms}
           S == {m \in ToSet(i.addresses) : <<m.start, m.stop>> \notin seen}
           new == L!Among(i.addresses, S)
<1>1. ms = Among(ner, T) /\ [k \in DOMAIN ms |-> L!ExtractedEntity("location", ms[k], <<ms[k].normal>>, L!Empty)]
                                = OldOf(FromSpans("location", ner, "LOC"))
    <2>1. ms = Among(ner, T)
        BY LegacyAmong
    <2> HIDE DEF ms
    <2> DEFINE q == [k \in DOMAIN ms |-> Entity("location", ms[k], <<ms[k].normal>>, Empty)]
               o == OldOf(q)
    <2>2. FromSpans("location", ner, "LOC") = q
        BY <2>1 DEF FromSpans
    <2>3. DOMAIN q = DOMAIN ms /\ \A k \in DOMAIN ms : q[k] = Entity("location", ms[k], <<ms[k].normal>>, Empty)
        OBVIOUS
    <2> HIDE DEF q
    <2>4. o = [k \in DOMAIN ms |-> AsLegacy(q[k])]
        BY <2>3 DEF OldOf
    <2>5. \A k \in DOMAIN ms : AsLegacy(Entity("location", ms[k], <<ms[k].normal>>, Empty))
                                  = L!ExtractedEntity("location", ms[k], <<ms[k].normal>>, L!Empty)
        <3>1. "location" # "person"
            OBVIOUS
        <3> QED
            BY <3>1, OldIs, LegacyValues
    <2>6. \A k \in DOMAIN ms : AsLegacy(q[k]) = L!ExtractedEntity("location", ms[k], <<ms[k].normal>>, L!Empty)
        BY <2>3, <2>5
    <2> QED
        BY <2>1, <2>2, <2>4, <2>6
<1>2. L!ToSet(ner) = ToSet(ner) /\ L!ToSet(i.addresses) = ToSet(i.addresses)
    BY LegacySet
<1>3. L!ExtractLocations(i) =
          [k \in DOMAIN ms |-> L!ExtractedEntity("location", ms[k], <<ms[k].normal>>, L!Empty)]
             \o L!FromMatches("location", new, AddressParts)
    BY <1>2 DEF L!ExtractLocations, AddressParts
<1>4. ToSet(ms) = T
    <2>1. ToSet(Among(ner, T)) = ToSet(ner) \cap T
        BY AmongKeeps
    <2> HIDE DEF ms
    <2> QED
        BY <1>1, <2>1
<1> HIDE DEF ms
<1>5. seen = Located(i)
    <2>1. seen = {<<s.start, s.stop>> : s \in ToSet(ms)}
        BY DEF ToSet
    <2> QED
        BY <1>4, <2>1 DEF Located
<1> HIDE DEF seen
<1>6. new = NewAddresses(i)
    BY <1>5, LegacyAmong DEF NewAddresses
<1> HIDE DEF new
<1>8. /\ \A k \in DOMAIN new : \A a \in DOMAIN new[k].fact : new[k].fact[a] \in Int
      /\ \A k \in DOMAIN new : \A a \in ToSet(AddressParts) \cap DOMAIN new[k].fact : new[k].fact[a] <= 0
    <2>1. ToSet(NewAddresses(i)) \subseteq ToSet(i.addresses)
        BY AmongKeeps DEF NewAddresses
    <2>2. \A k \in DOMAIN new : new[k] \in ToSet(new)
        BY DEF ToSet
    <2>3. \A k \in DOMAIN new : new[k] \in ToSet(i.addresses)
        BY <1>6, <2>1, <2>2
    <2> QED
        BY <2>3 DEF OnlyTexts
<1>7. L!FromMatches("location", new, AddressParts) = OldOf(FromFacts("location", new, AddressParts))
    <2>1. PICK Q : AddressParts \in Seq(Q)
        BY PartsAre
    <2>2. "location" # "person"
        OBVIOUS
    <2> QED
        BY <1>8, <2>1, <2>2, LegacyMatches
<1> QED
    BY <1>1, <1>3, <1>6, <1>7

\* A function with the domain of a sequence is one.
LEMMA SameLength ==
    ASSUME NEW X, NEW s \in Seq(X), NEW u, DOMAIN u = DOMAIN s, u = [k \in DOMAIN u |-> u[k]],
           NEW E, \A k \in DOMAIN u : u[k] \in E
    PROVE  u \in Seq(E)
<1>1. Len(s) \in Nat /\ DOMAIN u = 1..Len(s)
    BY LenProperties
<1>2. u \in [1..Len(s) -> E]
    BY <1>1
<1> QED
    BY <1>1, <1>2, SeqDef

\* What EntityExtractor collects is what the four extractors find, in its order.
LEMMA LegacyCollects ==
    ASSUME input \in Inputs
    PROVE  LET all == FlattenSeq([k \in 1..4 |-> Found(input, <<"person", "date", "location", "money">>[k])])
           IN  /\ all \in Seq(Entities)
               /\ L!Extract(input) = L!SortedByStart(OldOf(all))
<1> DEFINE names == <<"person", "date", "location", "money">>
           f == [k \in 1..4 |-> Found(input, names[k])]
           all == FlattenSeq(f)
           p == Found(input, "person")
           d == Found(input, "date")
           l == Found(input, "location")
           m == Found(input, "money")
<1>1. {"person", "date", "location", "money"} \subseteq Names
    BY NamesAre
<1>2. p \in Seq(Entities) /\ d \in Seq(Entities) /\ l \in Seq(Entities) /\ m \in Seq(Entities)
    BY <1>1, FoundIs
<1>3. f[1] = p /\ f[2] = d /\ f[3] = l /\ f[4] = m
    OBVIOUS
<1>4. f \in [1..4 -> Seq(Entities)]
    <2>1. \A k \in 1..4 : k \in {1, 2, 3, 4}
        OBVIOUS
    <2>2. \A k \in 1..4 : f[k] \in Seq(Entities)
        BY <1>2, <1>3, <2>1
    <2>3. f = [k \in 1..4 |-> f[k]]
        OBVIOUS
    <2> HIDE DEF f
    <2> QED
        BY <2>2, <2>3
<1>5. /\ input.ner \in Seq(ToSet(input.ner)) /\ Apart(input.ner)
      /\ input.addresses \in Seq(ToSet(input.addresses))
    <2>1. WellPlaced(input.ner) /\ WellPlaced(input.addresses)
        BY DetectionAssumption
    <2> QED
        BY <2>1, WellPlacedIs
<1>15. \A ms \in {input.addresses, input.dates, input.money} :
          \A m1 \in ToSet(ms) : \A a \in DOMAIN m1.fact : m1.fact[a] \in Int
    BY DetectionAssumption
<1>16. /\ \A m1 \in ToSet(input.addresses) : OnlyTexts(m1.fact, ToSet(AddressParts))
       /\ \A m1 \in ToSet(input.money) : OnlyTexts(m1.fact, {"currency"})
    BY DetectionAssumption
<1>6. p = FromSpans("person", input.ner, "PER") /\ L!ExtractPersons(input) = OldOf(p)
    BY <1>5, LegacyPersons DEF Found
<1>7. d = FromFacts("date", input.dates, DateParts) /\ L!ExtractDates(input) = OldOf(d)
    <2>1. L!ExtractDates(input) = L!FromMatches("date", input.dates, DateParts)
        BY DEF L!ExtractDates, DateParts
    <2>2. d = FromFacts("date", input.dates, DateParts)
        BY DEF Found
    <2>3. \A k \in DOMAIN input.dates : \A a \in DOMAIN input.dates[k].fact : input.dates[k].fact[a] \in Int
        BY <1>15 DEF ToSet
    <2>4. "date" # "person" /\ "date" # "location" /\ "currency" \notin ToSet(DateParts)
        BY DEF ToSet, DateParts
    <2>5. PICK Q : DateParts \in Seq(Q)
        BY PartsAre
    <2> QED
        BY <2>1, <2>2, <2>3, <2>4, <2>5, LegacyMatches
<1>8. m = FromFacts("money", input.money, MoneyParts) /\ L!ExtractMoney(input) = OldOf(m)
    <2>1. L!ExtractMoney(input) = L!FromMatches("money", input.money, MoneyParts)
        BY DEF L!ExtractMoney, MoneyParts
    <2>2. m = FromFacts("money", input.money, MoneyParts)
        BY DEF Found
    <2>3. \A k \in DOMAIN input.money : \A a \in DOMAIN input.money[k].fact : input.money[k].fact[a] \in Int
        BY <1>15 DEF ToSet
    <2>4. "money" # "person" /\ "money" # "location"
        OBVIOUS
    <2>5. PICK Q : MoneyParts \in Seq(Q)
        BY PartsAre
    <2>6. \A k \in DOMAIN input.money : "currency" \in DOMAIN input.money[k].fact => input.money[k].fact["currency"] <= 0
        BY <1>16 DEF ToSet, OnlyTexts
    <2> QED
        BY <2>1, <2>2, <2>3, <2>4, <2>5, <2>6, LegacyMatches
<1>9. L!ExtractLocations(input) = OldOf(l)
    <2> DEFINE u == FromSpans("location", input.ner, "LOC")
               v == FromFacts("location", NewAddresses(input), AddressParts)
    <2>1. l = u \o v
        BY DEF Found
    <2>2. L!ExtractLocations(input) = OldOf(u) \o OldOf(v)
        BY <1>5, <1>15, <1>16, LegacyLocations
    <2>3. \E E : u \in Seq(E) /\ v \in Seq(E)
        <3> DEFINE E == {u[k] : k \in DOMAIN u} \cup {v[k] : k \in DOMAIN v}
                   T == {s \in ToSet(input.ner) : s.type = "LOC"}
                   W == {m1 \in ToSet(input.addresses) : <<m1.start, m1.stop>> \notin Located(input)}
        <3>1. /\ Among(input.ner, T) \in Seq(ToSet(input.ner))
              /\ Among(input.addresses, W) \in Seq(ToSet(input.addresses))
            BY <1>5, AmongKeeps
        <3>2. DOMAIN u = DOMAIN Among(input.ner, T) /\ u = [k \in DOMAIN u |-> u[k]]
            BY DEF FromSpans
        <3>3. DOMAIN v = DOMAIN Among(input.addresses, W) /\ v = [k \in DOMAIN v |-> v[k]]
            BY DEF FromFacts, NewAddresses
        <3> HIDE DEF u, v, T, W
        <3>4. (\A k \in DOMAIN u : u[k] \in E) /\ (\A k \in DOMAIN v : v[k] \in E)
            OBVIOUS
        <3> HIDE DEF E
        <3>5. u \in Seq(E)
            BY <3>1, <3>2, <3>4, SameLength
        <3>6. v \in Seq(E)
            BY <3>1, <3>3, <3>4, SameLength
        <3> QED
            BY <3>5, <3>6
    <2> HIDE DEF u, v
    <2>4. OldOf(u \o v) = OldOf(u) \o OldOf(v)
        BY <2>3, OldConcat
    <2> QED
        BY <2>1, <2>2, <2>4
<1> HIDE DEF p, d, l, m, f
<1>10. PICK g : Joins(g, Entities, 4, f) /\ FlattenSeq(f) = g[4]
    <2>1. 4 \in Nat
        OBVIOUS
    <2> QED
        BY <1>4, <2>1, FlattenSteps
<1>11. all = ((p \o d) \o l) \o m
    <2>1. g[0] = <<>> /\ g[1] = g[0] \o f[1] /\ g[2] = g[1] \o f[2] /\ g[3] = g[2] \o f[3] /\ g[4] = g[3] \o f[4]
        <3>1. \A k \in 1..4 : g[k] = g[k - 1] \o f[k]
            BY <1>10 DEF Joins
        <3>2. /\ 1 \in 1..4 /\ 1 - 1 = 0 /\ 2 \in 1..4 /\ 2 - 1 = 1
              /\ 3 \in 1..4 /\ 3 - 1 = 2 /\ 4 \in 1..4 /\ 4 - 1 = 3
            OBVIOUS
        <3>3. g[1] = g[0] \o f[1]
            BY <3>1, <3>2
        <3>4. g[2] = g[1] \o f[2]
            BY <3>1, <3>2
        <3>5. g[3] = g[2] \o f[3]
            BY <3>1, <3>2
        <3>6. g[4] = g[3] \o f[4]
            BY <3>1, <3>2
        <3>7. g[0] = <<>>
            BY <1>10 DEF Joins
        <3> QED
            BY <3>3, <3>4, <3>5, <3>6, <3>7
    <2>2. g[1] = p
        BY <1>2, <1>3, <2>1, ConcatEmptySeq
    <2> QED
        BY <1>3, <1>10, <2>1, <2>2
<1>12. /\ p \o d \in Seq(Entities) /\ (p \o d) \o l \in Seq(Entities)
       /\ all \in Seq(Entities)
    <2>1. p \o d \in Seq(Entities)
        BY <1>2, ConcatProperties
    <2>2. (p \o d) \o l \in Seq(Entities)
        BY <1>2, <2>1, ConcatProperties
    <2>3. ((p \o d) \o l) \o m \in Seq(Entities)
        BY <1>2, <2>2, ConcatProperties
    <2> QED
        BY <1>11, <2>1, <2>2, <2>3
<1>13. OldOf(all) = ((OldOf(p) \o OldOf(d)) \o OldOf(l)) \o OldOf(m)
    <2>1. OldOf(p \o d) = OldOf(p) \o OldOf(d)
        BY <1>2, OldConcat
    <2>2. OldOf((p \o d) \o l) = OldOf(p \o d) \o OldOf(l)
        BY <1>2, <1>12, OldConcat
    <2>3. OldOf(((p \o d) \o l) \o m) = OldOf((p \o d) \o l) \o OldOf(m)
        BY <1>2, <1>12, OldConcat
    <2> QED
        BY <1>11, <2>1, <2>2, <2>3
<1>14. L!Extract(input) = L!SortedByStart(((OldOf(p) \o OldOf(d)) \o OldOf(l)) \o OldOf(m))
    BY <1>6, <1>7, <1>8, <1>9 DEF L!Extract
<1> QED
    BY <1>12, <1>13, <1>14 DEF f

-----------------------------------------------------------------------------
\* The legacy sort's Cardinality and InsertAt are those of this module.
LEMMA LegacyCounts ==
    ASSUME NEW S
    PROVE  L!Cardinality(S) = Cardinality(S)
BY DEF L!Cardinality, Cardinality

LEMMA LegacyInserts ==
    ASSUME NEW v, NEW b, NEW e
    PROVE  L!InsertAt(v, b, e) = SubSeq(v, 1, b - 1) \o <<e>> \o SubSeq(v, b, Len(v))
BY DEF L!InsertAt

\* Those of the first n that do not start after x.
NotAfter(s, n, x) == {j \in 1..n : s[j].start <= x}

\* r is v with e behind the first a.
Put(v, e, a, r) ==
    /\ Len(r) = Len(v) + 1
    /\ \A j \in 1..a : r[j] = v[j]
    /\ r[a + 1] = e
    /\ \A j \in a + 1..Len(v) : r[j + 1] = v[j]

LEMMA PutIs ==
    ASSUME NEW E, NEW v \in Seq(E), NEW e \in E, NEW before \in 0..Len(v)
    PROVE  /\ L!InsertAt(v, before + 1, e) \in Seq(E)
           /\ Put(v, e, before, L!InsertAt(v, before + 1, e))
<1> DEFINE n == Len(v)
           head == SubSeq(v, 1, before)
           tail == SubSeq(v, before + 1, n)
           b == before + 1
           r == L!InsertAt(v, b, e)
<1>1. n \in Nat /\ DOMAIN v = 1..n /\ \A k \in 1..n : v[k] \in E
    BY LenProperties
<1>2. before \in 0..n
    OBVIOUS
<1>4. r = head \o <<e>> \o tail
    <2>1. b - 1 = before
        BY <1>2
    <2>2. tail = SubSeq(v, b, Len(v))
        OBVIOUS
    <2> HIDE DEF b, n, tail
    <2>3. r = SubSeq(v, 1, b - 1) \o <<e>> \o SubSeq(v, b, Len(v))
        BY LegacyInserts
    <2> HIDE DEF r
    <2>4. head = SubSeq(v, 1, b - 1)
        BY <2>1
    <2> HIDE DEF head
    <2> QED
        BY <2>2, <2>3, <2>4
<1> HIDE DEF n, r
<1>5. head \in Seq(E) /\ Len(head) = before /\ \A j \in 1..before : head[j] = v[j]
    <2>1. /\ head \in Seq(E)
          /\ Len(head) = IF 1 <= before THEN before - 1 + 1 ELSE 0
          /\ \A j \in 1..before - 1 + 1 : head[j] = v[1 + j - 1]
        <3>1. \A j \in 1..before : v[j] \in E
            BY <1>1, <1>2
        <3> QED
            BY <1>1, <1>2, <3>1, SubSeqProperties
    <2>2. before - 1 + 1 = before /\ \A j \in 1..before : 1 + j - 1 = j
        BY <1>1, <1>2
    <2> HIDE DEF head
    <2> QED
        BY <1>1, <1>2, <2>1, <2>2
<1>6. /\ tail \in Seq(E) /\ Len(tail) = n - before
      /\ \A j \in 1..n - before : tail[j] = v[before + j]
    <2>1. /\ tail \in Seq(E)
          /\ Len(tail) = IF before + 1 <= n THEN n - (before + 1) + 1 ELSE 0
          /\ \A j \in 1..n - (before + 1) + 1 : tail[j] = v[before + 1 + j - 1]
        <3>1. \A j \in before + 1..n : v[j] \in E
            BY <1>1, <1>2
        <3>2. before + 1 \in Int /\ n \in Int
            BY <1>1, <1>2
        <3> QED
            BY <3>1, <3>2, SubSeqProperties
    <2>2. n - (before + 1) + 1 = n - before /\ \A j \in 1..n - before : before + 1 + j - 1 = before + j
        BY <1>1, <1>2
    <2> HIDE DEF tail
    <2> QED
        BY <1>1, <1>2, <2>1, <2>2
<1> DEFINE one == <<e>>
           front == head \o one
<1>7. one \in Seq(E) /\ Len(one) = 1 /\ one[1] = e
    OBVIOUS
<1> HIDE DEF head, tail, one
<1>8. /\ front \in Seq(E) /\ Len(front) = before + 1
      /\ \A j \in 1..before + 1 : front[j] = IF j <= before THEN head[j] ELSE one[j - before]
    <2>1. /\ front \in Seq(E) /\ Len(front) = Len(head) + Len(one)
          /\ \A j \in 1..Len(head) + Len(one) : front[j] = IF j <= Len(head) THEN head[j] ELSE one[j - Len(head)]
        BY <1>5, <1>7, ConcatProperties
    <2> HIDE DEF front
    <2> QED
        BY <1>5, <1>7, <2>1
<1> HIDE DEF front
<1>9. /\ r \in Seq(E) /\ Len(r) = n + 1
      /\ \A j \in 1..n + 1 : r[j] = IF j <= before + 1 THEN front[j] ELSE tail[j - (before + 1)]
    <2>1. r = front \o tail
        BY <1>4 DEF front, one
    <2>2. /\ r \in Seq(E) /\ Len(r) = Len(front) + Len(tail)
          /\ \A j \in 1..Len(front) + Len(tail) : r[j] = IF j <= Len(front) THEN front[j] ELSE tail[j - Len(front)]
        BY <1>6, <1>8, <2>1, ConcatProperties
    <2>3. Len(front) = before + 1 /\ Len(front) + Len(tail) = n + 1
        BY <1>1, <1>2, <1>6, <1>8
    <2> QED
        BY <2>2, <2>3
<1>10. \A j \in 1..before : r[j] = v[j]
    <2> SUFFICES ASSUME NEW j \in 1..before PROVE r[j] = v[j]
        OBVIOUS
    <2>1. j \in 1..n + 1 /\ j <= before + 1 /\ j \in 1..before + 1 /\ j <= before
        BY <1>1, <1>2
    <2> QED
        BY <1>5, <1>8, <1>9, <2>1
<1>11. r[before + 1] = e
    <2> DEFINE p == before + 1
    <2>1. /\ p \in 1..n + 1 /\ p \in 1..before + 1
          /\ ~(p <= before) /\ p - before = 1 /\ p <= before + 1
        BY <1>1, <1>2
    <2> HIDE DEF p
    <2>2. r[p] = front[p]
        BY <1>9, <2>1
    <2>3. front[p] = one[p - before]
        BY <1>8, <2>1
    <2> QED
        BY <1>7, <2>1, <2>2, <2>3 DEF p
<1>12. \A j \in before + 1..n : r[j + 1] = v[j]
    <2> SUFFICES ASSUME NEW j \in before + 1..n PROVE r[j + 1] = v[j]
        OBVIOUS
    <2> DEFINE p == j + 1
               q == j - before
    <2>1. /\ p \in 1..n + 1 /\ ~(p <= before + 1)
          /\ p - (before + 1) = q /\ q \in 1..n - before /\ before + q = j
        BY <1>1, <1>2
    <2> HIDE DEF p, q
    <2>2. r[p] = tail[p - (before + 1)]
        BY <1>9, <2>1
    <2>3. tail[q] = v[before + q]
        BY <1>6, <2>1
    <2> QED
        BY <2>1, <2>2, <2>3 DEF p
<1> QED
    BY <1>9, <1>10, <1>11, <1>12 DEF n, r, b, Put

\* An entity is put behind those that do not start after it.
LEMMA InsertedIs ==
    ASSUME NEW E, NEW v \in Seq(E), NEW e \in E
    PROVE  \E before :
              /\ before = Cardinality(NotAfter(v, Len(v), e.start)) /\ before \in 0..Len(v)
              /\ L!Inserted(v, e) = L!InsertAt(v, before + 1, e)
<1> DEFINE n == Len(v)
           B == {k \in DOMAIN v : v[k].start <= e.start}
           before == Cardinality(NotAfter(v, Len(v), e.start))
<1>1. n \in Nat /\ DOMAIN v = 1..n /\ \A k \in 1..n : v[k] \in E
    BY LenProperties
<1>2. before \in 0..n
    <2> DEFINE b == NotAfter(v, Len(v), e.start)
    <2>1. b \in SUBSET (1..n)
        BY DEF NotAfter
    <2> HIDE DEF b, n
    <2>2. IsFiniteSet(1..n) /\ Cardinality(1..n) = n
        BY <1>1, FirstN
    <2>3. IsFiniteSet(b) /\ Cardinality(b) <= n
        BY <2>1, <2>2, FS_Subset
    <2>4. Cardinality(b) \in Nat
        BY <2>3, FS_CardinalityType
    <2> USE DEF b
    <2> QED
        BY <1>1, <2>3, <2>4
<1>3. L!Inserted(v, e) = L!InsertAt(v, before + 1, e)
    <2>1. L!Cardinality(B) = before
        BY <1>1, LegacyCounts DEF NotAfter
    <2>2. L!Inserted(v, e) = L!InsertAt(v, L!Cardinality(B) + 1, e)
        BY DEF L!Inserted
    <2> QED
        BY <2>1, <2>2
<1> QED
    BY <1>2, <1>3

\* g[k] is the first k of s, sorted.
Inserts(g, E, s) ==
    /\ g \in [0..Len(s) -> Seq(E)]
    /\ g[0] = <<>>
    /\ \A k \in 1..Len(s) : g[k] = L!Inserted(g[k - 1], s[k])

LEMMA InsertedSteps ==
    ASSUME NEW E, NEW s \in Seq(E)
    PROVE  \E g : Inserts(g, E, s) /\ L!SortedByStart(s) = g[Len(s)]
<1> DEFINE n == Len(s)
           V == Seq(E)
           h == [k \in 1..n |-> [v \in V |-> L!Inserted(v, s[k])]]
           Rule(g) == g = [k \in 0..Len(s) |->
                              IF k = 0 THEN <<>> ELSE L!Inserted(g[k - 1], s[k])]
           chosen == CHOOSE g : Rule(g)
<1>0. n \in Nat /\ \A k \in 1..n : s[k] \in E
    BY LenProperties
<1>1. \A k \in 1..n, v \in V : L!Inserted(v, s[k]) \in V
    <2> SUFFICES ASSUME NEW k \in 1..n, NEW v \in V PROVE L!Inserted(v, s[k]) \in V
        OBVIOUS
    <2>1. s[k] \in E
        BY <1>0
    <2>2. PICK a \in 0..Len(v) : L!Inserted(v, s[k]) = L!InsertAt(v, a + 1, s[k])
        BY <2>1, InsertedIs
    <2>3. L!InsertAt(v, a + 1, s[k]) \in V
        BY <2>1, PutIs
    <2> QED
        BY <2>2, <2>3
<1>2. h \in [1..n -> [V -> V]]
    BY <1>1
<1>3. \A k \in 1..n, v \in V : h[k][v] = L!Inserted(v, s[k])
    OBVIOUS
<1>4. <<>> \in V
    BY EmptySeq
<1> HIDE DEF V, h, n
<1>5. PICK w \in [0..n -> V] : w[0] = <<>> /\ \A k \in 1..n : w[k] = h[k][w[k - 1]]
    <2>1. n \in Nat
        BY <1>0
    <2>2. \E w : Follows(w, h, <<>>, n, V)
        BY <1>2, <1>4, <2>1, Recursion
    <2> QED
        BY <2>2 DEF Follows
<1>6. \A k \in 1..n : w[k] = L!Inserted(w[k - 1], s[k])
    <2>1. \A k \in 1..n : w[k - 1] \in V
        BY <1>0
    <2> QED
        BY <1>3, <1>5, <2>1
<1>7. Rule(w)
    <2>1. \A k \in 0..n : w[k] = IF k = 0 THEN <<>> ELSE L!Inserted(w[k - 1], s[k])
        <3> SUFFICES ASSUME NEW k \in 0..n
                     PROVE  w[k] = IF k = 0 THEN <<>> ELSE L!Inserted(w[k - 1], s[k])
            OBVIOUS
        <3>1. k = 0 \/ k \in 1..n
            BY <1>0
        <3> QED
            BY <1>0, <1>5, <1>6, <3>1
    <2> QED
        BY <2>1 DEF n
<1>8. Rule(chosen)
    <2> HIDE DEF Rule
    <2> QED
        BY <1>7
<1>9. L!SortedByStart(s) = chosen[n]
    BY DEF L!SortedByStart, n
<1> HIDE DEF chosen
<1>10. \A k \in 0..n : chosen[k] = w[k]
    <2> DEFINE T == {k \in 0..n : chosen[k] = w[k]}
    <2>0. \A k \in 0..n : chosen[k] = IF k = 0 THEN <<>> ELSE L!Inserted(chosen[k - 1], s[k])
        BY <1>8 DEF n
    <2>1. 0 \in T
        BY <1>0, <1>5, <2>0
    <2>2. \A k \in 1..n : k - 1 \in T => k \in T
        <3>1. \A k \in 1..n : k # 0 /\ k \in 0..n
            BY <1>0
        <3> QED
            BY <1>6, <2>0, <3>1
    <2> HIDE DEF T
    <2>3. 0..n \subseteq T
        BY <1>0, <2>1, <2>2, Induct
    <2> QED
        BY <2>3 DEF T
<1>11. L!SortedByStart(s) = w[n]
    BY <1>0, <1>9, <1>10
<1> QED
    BY <1>5, <1>6, <1>11 DEF n, V, Inserts

\* The next one among those before it.
LEMMA LeadersOfNext ==
    ASSUME NEW n \in Nat, NEW s, \A k \in 1..n + 1 : s[k].start \in Int
    PROVE  LET e == n + 1
               A == NotAfter(s, n, s[e].start)
               C(m, i) == Cardinality(LeadersTo(s, m, i))
           IN  /\ C(e, e) = Cardinality(A) + 1
               /\ \A i \in 1..n : \/ i \in A /\ C(e, i) = C(n, i) /\ C(n, i) <= Cardinality(A)
                                  \/ i \notin A /\ C(e, i) = C(n, i) + 1 /\ C(n, i) > Cardinality(A)
<1> DEFINE e == n + 1
           A == NotAfter(s, n, s[e].start)
           a == Cardinality(A)
           L0(i) == LeadersTo(s, n, i)
           L1(i) == LeadersTo(s, e, i)
<1>0. /\ e \in Nat /\ 1..e = 1..n \cup {e} /\ e \notin 1..n /\ e \in 1..e
      /\ \A k \in 1..n : s[k].start \in Int /\ k < e /\ k \in Int
      /\ s[e].start \in Int
    OBVIOUS
<1> HIDE DEF e
<1>1. IsFiniteSet(1..n)
    BY FirstN
<1>2. A \in SUBSET (1..n)
    BY DEF NotAfter
<1>3. IsFiniteSet(A) /\ a \in Nat
    <2> HIDE DEF A
    <2>1. IsFiniteSet(A)
        BY <1>1, <1>2, FS_Subset
    <2> QED
        BY <2>1, FS_CardinalityType
<1>4. \A i \in 1..n : IsFiniteSet(L0(i)) /\ Cardinality(L0(i)) \in Nat
    <2> SUFFICES ASSUME NEW i \in 1..n
                 PROVE  IsFiniteSet(L0(i)) /\ Cardinality(L0(i)) \in Nat
        OBVIOUS
    <2>1. L0(i) \in SUBSET (1..n)
        BY DEF LeadersTo
    <2> HIDE DEF L0
    <2>2. IsFiniteSet(L0(i))
        BY <1>1, <2>1, FS_Subset
    <2> QED
        BY <2>2, FS_CardinalityType
<1>5. Cardinality(L1(e)) = a + 1
    <2>1. L1(e) = A \cup {e}
        BY <1>0 DEF LeadersTo, Leads, Stays, NotAfter
    <2>2. e \notin A
        BY <1>0, <1>2
    <2> HIDE DEF A, L1
    <2>3. Cardinality(A \cup {e}) = IF e \in A THEN Cardinality(A) ELSE Cardinality(A) + 1
        BY <1>3, FS_AddElement
    <2> QED
        BY <2>1, <2>2, <2>3
<1>6. ASSUME NEW i \in 1..n, i \in A
      PROVE  Cardinality(L1(i)) = Cardinality(L0(i)) /\ Cardinality(L0(i)) <= a
    <2>1. s[i].start <= s[e].start
        BY <1>6 DEF NotAfter
    <2>2. L1(i) = L0(i)
        BY <1>0, <2>1 DEF LeadersTo, Leads, Stays
    <2>3. L0(i) \in SUBSET A
        BY <1>0, <2>1 DEF LeadersTo, Leads, Stays, NotAfter
    <2> HIDE DEF A, L0, L1
    <2>4. Cardinality(L0(i)) <= Cardinality(A)
        BY <1>3, <2>3, FS_Subset
    <2> QED
        BY <2>2, <2>4
<1>7. ASSUME NEW i \in 1..n, i \notin A
      PROVE  Cardinality(L1(i)) = Cardinality(L0(i)) + 1 /\ Cardinality(L0(i)) > a
    <2>1. s[e].start < s[i].start
        BY <1>0, <1>7 DEF NotAfter
    <2>2. L1(i) = L0(i) \cup {e}
        BY <1>0, <2>1 DEF LeadersTo, Leads
    <2>3. e \notin L0(i)
        BY <1>0 DEF LeadersTo
    <2>4. A \cup {i} \in SUBSET L0(i)
        BY <1>0, <2>1 DEF LeadersTo, Leads, Stays, NotAfter
    <2> HIDE DEF A, L0, L1
    <2>5. Cardinality(L0(i) \cup {e}) = IF e \in L0(i) THEN Cardinality(L0(i)) ELSE Cardinality(L0(i)) + 1
        BY <1>4, FS_AddElement
    <2>6. Cardinality(A \cup {i}) = IF i \in A THEN Cardinality(A) ELSE Cardinality(A) + 1
        BY <1>3, FS_AddElement
    <2>7. Cardinality(A \cup {i}) <= Cardinality(L0(i))
        BY <1>4, <2>4, FS_Subset
    <2>8. Cardinality(L0(i)) \in Nat
        BY <1>4
    <2> QED
        BY <1>3, <1>7, <2>2, <2>3, <2>5, <2>6, <2>7, <2>8
<1>8. \A i \in 1..n : \/ i \in A /\ Cardinality(L1(i)) = Cardinality(L0(i)) /\ Cardinality(L0(i)) <= a
                      \/ i \notin A /\ Cardinality(L1(i)) = Cardinality(L0(i)) + 1 /\ Cardinality(L0(i)) > a
    BY <1>6, <1>7
<1> QED
    BY <1>5, <1>8 DEF e

\* v holds the first n, everyone in its place: as many of them do not start
\* after e there as in s.
LEMMA PlacesCount ==
    ASSUME NEW n \in Nat, NEW s, \A k \in 1..n : s[k].start \in Int, NEW x \in Int, NEW v,
           \A i \in 1..n : v[Cardinality(LeadersTo(s, n, i))] = s[i]
    PROVE  Cardinality(NotAfter(v, n, x)) = Cardinality(NotAfter(s, n, x))
<1> DEFINE c == [j \in 1..n |-> Cardinality(LeadersTo(s, n, j))]
           A == {j \in 1..n : s[j].start <= x}
           B == {p \in 1..n : v[p].start <= x}
           f == [j \in A |-> c[j]]
<1>1. \A j \in 1..n : Cardinality(LeadersTo(s, n, j)) \in 1..n
    BY PlaceIs
<1>2. /\ \A k \in 1..n : \E i \in 1..n : Cardinality(LeadersTo(s, n, i)) = k
      /\ \A i, j \in 1..n : i # j => Cardinality(LeadersTo(s, n, i)) # Cardinality(LeadersTo(s, n, j))
    BY PlacesTaken
<1>3. /\ \A j \in 1..n : c[j] \in 1..n /\ v[c[j]] = s[j]
      /\ \A k \in 1..n : \E i \in 1..n : c[i] = k
      /\ \A i, j \in 1..n : i # j => c[i] # c[j]
    BY <1>1, <1>2
<1> HIDE DEF c
<1>4. f \in [A -> B]
    BY <1>3
<1>5. \A i, j \in A : f[i] = f[j] => i = j
    BY <1>3
<1>6. \A p \in B : \E j \in A : f[j] = p
    <2> SUFFICES ASSUME NEW p \in B PROVE \E j \in A : f[j] = p
        OBVIOUS
    <2>1. PICK j \in 1..n : c[j] = p
        BY <1>3
    <2>2. j \in A
        BY <1>3, <2>1
    <2> QED
        BY <2>1, <2>2
<1>7. IsFiniteSet(A)
    <2>1. IsFiniteSet(1..n)
        BY FirstN
    <2>2. A \in SUBSET (1..n)
        OBVIOUS
    <2> HIDE DEF A
    <2> QED
        BY <2>1, <2>2, FS_Subset
<1> HIDE DEF A, B, f
<1>8. f \in Bijection(A, B)
    BY <1>4, <1>5, <1>6 DEF Bijection, Injection, Surjection, IsInjective
<1>9. ExistsBijection(A, B)
    BY <1>8 DEF ExistsBijection
<1>10. Cardinality(B) = Cardinality(A)
    BY <1>7, <1>9, FS_Bijection
<1> QED
    BY <1>10 DEF A, B, NotAfter

\* Insertion sorts, and keeps the order of those that start together.
LEMMA InsertionIs ==
    ASSUME NEW E, \A e \in E : e.start \in Int, NEW s \in Seq(E), NEW g, Inserts(g, E, s)
    PROVE  \A k \in 0..Len(s) :
              /\ Len(g[k]) = k
              /\ \A i \in 1..k : g[k][Cardinality(LeadersTo(s, k, i))] = s[i]
<1> DEFINE N == Len(s)
           Right(k) == /\ Len(g[k]) = k
                       /\ \A i \in 1..k : g[k][Cardinality(LeadersTo(s, k, i))] = s[i]
           T == {k \in 0..N : Right(k)}
<1>0. N \in Nat /\ \A k \in 1..N : s[k] \in E /\ s[k].start \in Int
    BY LenProperties
<1>1. /\ g \in [0..N -> Seq(E)] /\ g[0] = <<>>
      /\ \A k \in 1..N : g[k] = L!Inserted(g[k - 1], s[k])
    BY DEF Inserts
<1> HIDE DEF N
<1>2. Right(0)
    BY <1>1
<1>3. ASSUME NEW k \in 1..N, Right(k - 1)
      PROVE  Right(k)
    <2> DEFINE n == k - 1
               v == g[n]
               e == s[k]
               r == L!Inserted(v, e)
               a == Cardinality(NotAfter(s, n, s[k].start))
               C(m, i) == Cardinality(LeadersTo(s, m, i))
    <2>1. n \in Nat /\ n \in 0..N /\ n + 1 = k /\ 1..k = 1..n \cup {k} /\ k \notin 1..n
        BY <1>0
    <2>2. \A i \in 1..k : s[i] \in E /\ s[i].start \in Int
        BY <1>0
    <2>3. v \in Seq(E) /\ Len(v) = n /\ DOMAIN v = 1..n /\ e \in E /\ e.start \in Int
        BY <1>0, <1>1, <1>3, <2>1, LenProperties
    <2>4. \A i \in 1..n : v[C(n, i)] = s[i]
        BY <1>3
    <2>5. g[k] = r
        BY <1>1
    <2> HIDE DEF n, v, r
    <2>6. Cardinality(NotAfter(v, n, e.start)) = a
        <3>1. \A i \in 1..n : s[i].start \in Int
            BY <2>1, <2>2
        <3>2. \A i \in 1..n : v[Cardinality(LeadersTo(s, n, i))] = s[i]
            BY <2>4
        <3> DEFINE x == e.start
        <3>3. x \in Int
            BY <2>3
        <3> HIDE DEF x
        <3>4. Cardinality(NotAfter(v, n, x)) = Cardinality(NotAfter(s, n, x))
            BY SMTT(30), <2>1, <3>1, <3>2, <3>3, PlacesCount
        <3> QED
            BY <3>4 DEF x
    <2>7. /\ a \in 0..n /\ Len(r) = n + 1
          /\ \A j \in 1..a : r[j] = v[j]
          /\ r[a + 1] = e
          /\ \A j \in a + 1..n : r[j + 1] = v[j]
        <3> HIDE DEF e, a
        <3>1. PICK b : /\ b = Cardinality(NotAfter(v, Len(v), e.start)) /\ b \in 0..Len(v)
                       /\ r = L!InsertAt(v, b + 1, e)
            BY <2>3, InsertedIs DEF r
        <3>2. b = a
            BY <2>3, <2>6, <3>1
        <3>3. a \in 0..Len(v) /\ r = L!InsertAt(v, a + 1, e)
            BY <3>1, <3>2
        <3>4. Put(v, e, a, r)
            BY <2>3, <3>3, PutIs
        <3> QED
            BY <2>3, <3>3, <3>4 DEF Put
    <2>8. /\ C(k, k) = a + 1
          /\ \A i \in 1..n : \/ C(k, i) = C(n, i) /\ C(n, i) <= a
                             \/ C(k, i) = C(n, i) + 1 /\ C(n, i) > a
        <3>1. /\ C(n + 1, n + 1) = Cardinality(NotAfter(s, n, s[n + 1].start)) + 1
              /\ \A i \in 1..n : \/ C(n + 1, i) = C(n, i) /\ C(n, i) <= Cardinality(NotAfter(s, n, s[n + 1].start))
                                 \/ C(n + 1, i) = C(n, i) + 1 /\ C(n, i) > Cardinality(NotAfter(s, n, s[n + 1].start))
            <4>1. \A i \in 1..n + 1 : s[i].start \in Int
                BY <2>1, <2>2
            <4> QED
                BY <2>1, <4>1, LeadersOfNext
        <3> QED
            BY <2>1, <3>1
    <2>9. \A i \in 1..n : C(n, i) \in 1..n
        <3>1. \A i \in 1..n : s[i].start \in Int
            BY <2>1, <2>2
        <3> QED
            BY <2>1, <3>1, PlaceIs
    <2>10. \A i \in 1..k : r[C(k, i)] = s[i]
        <3> SUFFICES ASSUME NEW i \in 1..k PROVE r[C(k, i)] = s[i]
            OBVIOUS
        <3> HIDE DEF a, C
        <3>1. CASE i = k
            BY <2>7, <2>8, <3>1
        <3>2. CASE i # k
            <4>1. i \in 1..n
                BY <2>1, <3>2
            <4>2. C(n, i) \in 1..n /\ v[C(n, i)] = s[i]
                BY <2>4, <2>9, <4>1 DEF C
            <4>3. CASE C(k, i) = C(n, i) /\ C(n, i) <= a
                <5>1. C(n, i) \in 1..a
                    BY <2>7, <4>2, <4>3
                <5> QED
                    BY <2>7, <4>2, <4>3, <5>1
            <4>4. CASE C(k, i) = C(n, i) + 1 /\ C(n, i) > a
                <5>1. C(n, i) \in a + 1..n
                    BY <2>7, <4>2, <4>4
                <5> QED
                    BY <2>7, <4>2, <4>4, <5>1
            <4> QED
                BY <2>8, <4>1, <4>3, <4>4
        <3> QED
            BY <3>1, <3>2
    <2> QED
        BY <2>1, <2>5, <2>7, <2>10
<1>4. 0 \in T
    BY <1>0, <1>2
<1>5. \A k \in 1..N : k - 1 \in T => k \in T
    <2>1. \A k \in 1..N : k \in 0..N
        BY <1>0
    <2> HIDE DEF Right
    <2> QED
        BY <1>3, <2>1
<1> HIDE DEF T
<1>6. 0..N \subseteq T
    BY <1>0, <1>4, <1>5, Induct
<1> QED
    BY <1>6 DEF T, N

\* The legacy sort: everyone in its place.
LEMMA LegacySorts ==
    ASSUME NEW E, \A e \in E : e.start \in Int, NEW s \in Seq(E)
    PROVE  /\ L!SortedByStart(s) \in Seq(E) /\ Len(L!SortedByStart(s)) = Len(s)
           /\ \A i \in 1..Len(s) : L!SortedByStart(s)[Cardinality(LeadersTo(s, Len(s), i))] = s[i]
<1>1. PICK g : Inserts(g, E, s) /\ L!SortedByStart(s) = g[Len(s)]
    BY InsertedSteps
<1>2. Len(s) \in Nat /\ Len(s) \in 0..Len(s)
    BY LenProperties
<1>3. /\ Len(g[Len(s)]) = Len(s)
      /\ \A i \in 1..Len(s) : g[Len(s)][Cardinality(LeadersTo(s, Len(s), i))] = s[i]
    BY <1>1, <1>2, InsertionIs
<1>4. g[Len(s)] \in Seq(E)
    BY <1>1, <1>2 DEF Inserts
<1> QED
    BY <1>1, <1>3, <1>4

\* Both sorts are stable.
LEMMA SortsAgree ==
    ASSUME NEW s \in Seq(Entities)
    PROVE  L!SortedByStart(OldOf(s)) = OldOf(Sorted(s))
<1> DEFINE n == Len(s)
           F == {AsLegacy(e) : e \in Entities}
           o == OldOf(s)
           q == L!SortedByStart(o)
           C(i) == Cardinality(LeadersTo(s, n, i))
           z == Sorted(s)
<1>1. n \in Nat /\ DOMAIN s = 1..n /\ \A k \in 1..n : s[k] \in Entities
    BY LenProperties
<1>2. \A e \in Entities : e.start \in Int /\ AsLegacy(e).start = e.start
    BY MaskingAssumption DEF Entities, AsLegacy
<1>3. \A f \in F : f.start \in Int
    BY <1>2
<1>4. o \in Seq(F) /\ Len(o) = n /\ DOMAIN o = 1..n /\ \A k \in 1..n : o[k] = AsLegacy(s[k]) /\ o[k].start = s[k].start
    <2>1. o = [k \in 1..n |-> AsLegacy(s[k])]
        BY <1>1 DEF OldOf
    <2>2. \A k \in 1..n : AsLegacy(s[k]) \in F
        BY <1>1
    <2> HIDE DEF n, o, F
    <2>3. o \in [1..n -> F]
        BY <2>1, <2>2
    <2>4. o \in Seq(F) /\ Len(o) = n
        BY <1>1, <2>3
    <2> QED
        BY <1>1, <1>2, <2>1, <2>4
<1> HIDE DEF n, F, o
<1>5. \A i \in 1..n : LeadersTo(o, n, i) = LeadersTo(s, n, i)
    BY <1>4 DEF LeadersTo, Leads
<1>6. /\ q \in Seq(F) /\ Len(q) = n /\ \A i \in 1..n : q[Cardinality(LeadersTo(o, n, i))] = o[i]
    BY <1>3, <1>4, LegacySorts
<1> HIDE DEF q
<1>7. DOMAIN q = 1..n /\ \A i \in 1..n : q[C(i)] = AsLegacy(s[i])
    BY <1>4, <1>5, <1>6, LenProperties
<1>8. z = [k \in 1..n |-> s[CHOOSE i \in 1..n : C(i) = k]]
    BY <1>1 DEF Sorted, LeadersTo, Leads
<1>9. \A k \in 1..n : s[k].start \in Int
    BY <1>1, <1>2
<1>10. \A k \in 1..n : \E i \in 1..n : C(i) = k
    BY ZenonT(40), <1>1, <1>9, PlacesTaken
<1> HIDE DEF C, z
<1>11. \A k \in 1..n : q[k] = AsLegacy(z[k])
    <2> SUFFICES ASSUME NEW k \in 1..n PROVE q[k] = AsLegacy(z[k])
        OBVIOUS
    <2> DEFINE c == CHOOSE i \in 1..n : C(i) = k
    <2>1. c \in 1..n /\ C(c) = k
        BY <1>10
    <2>2. z[k] = s[c]
        BY <1>8
    <2> HIDE DEF c
    <2> QED
        BY <1>7, <2>1, <2>2
<1>12. OldOf(z) = [k \in 1..n |-> AsLegacy(z[k])]
    BY <1>8 DEF OldOf
<1>13. q = [k \in 1..n |-> q[k]]
    BY <1>6, <1>7, SeqDef
<1> QED
    BY <1>11, <1>12, <1>13 DEF q, o, z

Four == <<"person", "date", "location", "money">>

LEMMA FourAre == Four \in Seq(Names) /\ Distinct(Four) /\ ToSet(Four) \subseteq Names
<1>1. DOMAIN Four = 1..4 /\ Four[1] = "person" /\ Four[2] = "date" /\ Four[3] = "location" /\ Four[4] = "money"
    BY DEF Four
<1>2. \A k \in 1..4 : k \in {1, 2, 3, 4}
    OBVIOUS
<1>3. \A k \in 1..4 : Four[k] \in Names
    BY <1>1, <1>2, NamesAre
<1>4. \A j, k \in 1..4 : j # k => Four[j] # Four[k]
    BY <1>1, <1>2
<1>5. Four \in Seq(Names)
    BY NamesAre DEF Four
<1> QED
    BY <1>1, <1>3, <1>4, <1>5 DEF Distinct, ToSet

\* EntityExtractor finds what the four extractors do.
LEMMA LegacyExtracts ==
    ASSUME input \in Inputs
    PROVE  L!Extract(input) = OldOf(Findings(Four))
<1> DEFINE all == FlattenSeq([k \in 1..4 |-> Found(input, Four[k])])
<1>1. all \in Seq(Entities) /\ L!Extract(input) = L!SortedByStart(OldOf(all))
    BY LegacyCollects DEF Four
<1>2. DOMAIN Four = 1..4
    BY DEF Four
<1>3. Findings(Four) = Sorted(all)
    BY <1>2 DEF Findings
<1> HIDE DEF all
<1> QED
    BY <1>1, <1>3, SortsAgree

-----------------------------------------------------------------------------
\* EntityExtractor.anonymize's slices are anonymize's.
LEMMA ReplacedIsHidden ==
    ASSUME text \in Seq(Cells), NEW i, found[i] \in Entities
    PROVE  Replaced(found[i].start, found[i].stop) = L!Hidden(text, AsLegacy(found[i]), Mark)
<1> DEFINE s == found[i].start
           e == found[i].stop
           m == IF s < Len(text) THEN s ELSE Len(text)
<1>1. s \in Int /\ Len(text) \in Int
    BY MaskingAssumption, LenProperties DEF Entities
<1>2. AsLegacy(found[i]).start = s /\ AsLegacy(found[i]).stop = e
    BY DEF AsLegacy
<1>3. L!Hidden(text, AsLegacy(found[i]), Mark) = SubSeq(text, 1, m) \o Mark \o SubSeq(text, e + 1, Len(text))
    BY <1>2 DEF L!Hidden
<1> HIDE DEF s, e
<1>4. Min({s, Len(text)}) = m
    BY <1>1, LesserOf
<1> HIDE DEF m
<1>5. Upto(s) = SubSeq(text, 1, m)
    BY <1>4 DEF Upto
<1>6. Replaced(s, e) = SubSeq(text, 1, m) \o Mark \o SubSeq(text, e + 1, Len(text))
    BY <1>5 DEF Replaced
<1> QED
    BY <1>3, <1>6 DEF s, e

\* A slice of a text is one.
LEMMA HiddenIs ==
    ASSUME NEW t \in Seq(Cells), NEW e \in Entities
    PROVE  L!Hidden(t, AsLegacy(e), Mark) \in Seq(Cells)
<1> DEFINE n == Len(t)
           a == e.start
           b == e.stop + 1
           m == IF a < n THEN a ELSE n
           head == SubSeq(t, 1, m)
           tail == SubSeq(t, b, n)
           front == head \o Mark
<1>1. a \in Nat /\ b \in Nat \ {0} /\ n \in Nat /\ \A k \in 1..n : t[k] \in Cells
    BY MaskingAssumption, LenProperties DEF Entities
<1>2. L!Hidden(t, AsLegacy(e), Mark) = front \o tail
    BY DEF L!Hidden, AsLegacy
<1> HIDE DEF n, a, b
<1>3. m \in Int /\ m <= n
    BY <1>1
<1> HIDE DEF m
<1>4. head \in Seq(Cells)
    <2>1. \A k \in 1..m : t[k] \in Cells
        BY <1>1, <1>3
    <2> QED
        BY <1>3, <2>1, SubSeqProperties
<1>5. tail \in Seq(Cells)
    <2>1. \A k \in b..n : t[k] \in Cells
        BY <1>1
    <2> QED
        BY <1>1, <2>1, SubSeqProperties
<1>6. Mark \in Seq(Cells)
    <2>1. Mark \in [1..Placeholder -> Cells]
        BY DEF Mark, Cells
    <2> QED
        BY <2>1, MaskingAssumption
<1> HIDE DEF head, tail
<1>7. front \in Seq(Cells)
    BY <1>4, <1>6, ConcatProperties
<1> HIDE DEF front
<1>8. front \o tail \in Seq(Cells)
    BY <1>5, <1>7, ConcatProperties
<1> QED
    BY <1>2, <1>8

-----------------------------------------------------------------------------
\* What EntityExtractor.anonymize sorts.
Later == [k \in DOMAIN found |-> [start |-> -found[k].start, entity |-> AsLegacy(found[k])]]

Reversed == L!SortedByStart(Later)

\* The text after each of its turns, and whose turn it is.
Texts ==
    LET upto[n \in 0..Len(Reversed)] ==
            IF n = 0 THEN [k \in 1..Length |-> k] ELSE L!Hidden(upto[n - 1], Reversed[n].entity, Mark)
    IN  upto

TurnOf(i) == Cardinality({j \in DOMAIN found : Before(j, i)})

\* In that sort one leads another exactly when anonymize takes it before.
LEMMA LaterIs ==
    ASSUME found \in Seq(Entities)
    PROVE  LET n == Len(found)
               E == {[start |-> -e.start, entity |-> AsLegacy(e)] : e \in Entities}
           IN  /\ n \in Nat /\ DOMAIN found = 1..n /\ Len(Later) = n /\ Later \in Seq(E)
               /\ \A x \in E : x.start \in Int
               /\ \A k \in 1..n : Later[k].start \in Int /\ Later[k].entity = AsLegacy(found[k])
               /\ \A i, j \in 1..n : Leads(Later, j, i) <=> Before(j, i)
               /\ \A i \in 1..n : Cardinality(LeadersTo(Later, n, i)) = TurnOf(i)
<1> DEFINE n == Len(found)
           E == {[start |-> -e.start, entity |-> AsLegacy(e)] : e \in Entities}
<1>1. n \in Nat /\ DOMAIN found = 1..n /\ \A k \in 1..n : found[k] \in Entities
    BY LenProperties
<1>2. \A e \in Entities : e.start \in Nat
    BY MaskingAssumption DEF Entities
<1>3. \A x \in E : x.start \in Int
    BY <1>2
<1> HIDE DEF n
<1>4. Later = [k \in 1..n |-> [start |-> -found[k].start, entity |-> AsLegacy(found[k])]]
    BY <1>1 DEF Later
<1>5. Later \in Seq(E) /\ Len(Later) = n
    <2>1. \A k \in 1..n : [start |-> -found[k].start, entity |-> AsLegacy(found[k])] \in E
        BY <1>1
    <2> HIDE DEF E
    <2>2. Later \in [1..n -> E]
        BY <1>4, <2>1
    <2> QED
        BY <1>1, <2>2
<1>6. \A k \in 1..n : Later[k].start = -found[k].start /\ Later[k].entity = AsLegacy(found[k]) /\ found[k].start \in Nat
    BY <1>1, <1>2, <1>4
<1>7. \A i, j \in 1..n : Leads(Later, j, i) <=> Before(j, i)
    <2> SUFFICES ASSUME NEW i \in 1..n, NEW j \in 1..n PROVE Leads(Later, j, i) <=> Before(j, i)
        OBVIOUS
    <2> DEFINE a == found[i].start
               b == found[j].start
    <2>1. Later[i].start = -a /\ Later[j].start = -b /\ a \in Nat /\ b \in Nat
        BY <1>6
    <2>2. Before(j, i) <=> b > a \/ (b = a /\ j <= i)
        BY DEF Before
    <2> HIDE DEF a, b
    <2>3. Leads(Later, j, i) <=> -b < -a \/ (-b = -a /\ j <= i)
        BY <2>1 DEF Leads, Stays
    <2> QED
        BY <2>1, <2>2, <2>3
<1>8. \A i \in 1..n : Cardinality(LeadersTo(Later, n, i)) = TurnOf(i)
    <2>1. \A i \in 1..n : LeadersTo(Later, n, i) = {j \in DOMAIN found : Before(j, i)}
        BY <1>1, <1>7 DEF LeadersTo
    <2> QED
        BY <2>1 DEF TurnOf
<1>9. \A k \in 1..n : Later[k].start \in Int
    BY <1>6
<1> QED
    BY <1>1, <1>3, <1>5, <1>6, <1>7, <1>8, <1>9 DEF n

\* Every turn is one entity's, in anonymize's order.
LEMMA TurnIs ==
    ASSUME found \in Seq(Entities)
    PROVE  LET n == Len(found)
           IN  /\ \A i \in 1..n : TurnOf(i) \in 1..n
               /\ \A i, j \in 1..n : i # j =>
                     \/ TurnOf(i) < TurnOf(j) /\ Before(i, j)
                     \/ TurnOf(j) < TurnOf(i) /\ Before(j, i)
               /\ \A k \in 1..n : \E i \in 1..n : TurnOf(i) = k
<1> DEFINE n == Len(found)
           C(i) == Cardinality(LeadersTo(Later, n, i))
<1>1. /\ n \in Nat /\ \A k \in 1..n : Later[k].start \in Int
      /\ \A i, j \in 1..n : Leads(Later, j, i) <=> Before(j, i)
      /\ \A i \in 1..n : C(i) = TurnOf(i)
    BY LaterIs
<1> HIDE DEF n
<1>2. \A i \in 1..n : C(i) \in 1..n
    BY <1>1, PlaceIs
<1>3. \A i, j \in 1..n : i # j =>
          \/ C(i) < C(j) /\ Leads(Later, i, j)
          \/ C(j) < C(i) /\ Leads(Later, j, i)
    BY <1>1, PlaceIs
<1>4. \A k \in 1..n : \E i \in 1..n : C(i) = k
    <2>1. n \in Nat /\ \A k \in 1..n : Later[k].start \in Int
        BY <1>1
    <2> QED
        BY <2>1, PlacesTaken
<1> HIDE DEF C
<1> QED
    BY <1>1, <1>2, <1>3, <1>4 DEF n

\* One turn after the other.
LEMMA TextsAre ==
    ASSUME found \in Seq(Entities)
    PROVE  LET n == Len(found)
           IN  /\ Len(Reversed) = n
               /\ Texts[0] = [k \in 1..Length |-> k]
               /\ \A k \in 0..n : Texts[k] \in Seq(Cells)
               /\ \A i \in 1..n : Texts[TurnOf(i)] = L!Hidden(Texts[TurnOf(i) - 1], AsLegacy(found[i]), Mark)
<1> DEFINE n == Len(found)
           E == {[start |-> -e.start, entity |-> AsLegacy(e)] : e \in Entities}
           V == Seq(Cells)
           chars == [k \in 1..Length |-> k]
           h == [k \in 1..n |-> [t \in V |-> L!Hidden(t, Reversed[k].entity, Mark)]]
           Rule(g) == g = [k \in 0..Len(Reversed) |->
                              IF k = 0 THEN chars ELSE L!Hidden(g[k - 1], Reversed[k].entity, Mark)]
<1>1. /\ n \in Nat /\ Len(Later) = n /\ Later \in Seq(E)
      /\ \A x \in E : x.start \in Int
      /\ \A k \in 1..n : Later[k].entity = AsLegacy(found[k])
      /\ \A i \in 1..n : Cardinality(LeadersTo(Later, n, i)) = TurnOf(i)
    BY LaterIs
<1> HIDE DEF n
<1>2. /\ Reversed \in Seq(E) /\ Len(Reversed) = n
      /\ \A i \in 1..n : Reversed[TurnOf(i)] = Later[i]
    <2> HIDE DEF E
    <2>1. /\ Reversed \in Seq(E) /\ Len(Reversed) = Len(Later)
          /\ \A i \in 1..Len(Later) : Reversed[Cardinality(LeadersTo(Later, Len(Later), i))] = Later[i]
        BY <1>1, LegacySorts DEF Reversed
    <2> QED
        BY <1>1, <2>1
<1>3. \A k \in 1..n : \E e \in Entities : Reversed[k].entity = AsLegacy(e)
    <2>1. \A k \in 1..n : Reversed[k] \in E
        BY <1>2, LenProperties
    <2> QED
        BY <2>1
<1>4. \A k \in 1..n, t \in V : L!Hidden(t, Reversed[k].entity, Mark) \in V
    BY <1>3, HiddenIs
<1>5. chars \in V
    <2>1. \A k \in 1..Length : k \in Cells
        BY DEF Cells
    <2>2. chars \in [1..Length -> Cells]
        BY <2>1
    <2> QED
        BY <2>2, MaskingAssumption
<1> HIDE DEF V, E, chars
<1>6. h \in [1..n -> [V -> V]] /\ \A k \in 1..n, t \in V : h[k][t] = L!Hidden(t, Reversed[k].entity, Mark)
    BY <1>4
<1> HIDE DEF h
<1>7. PICK w \in [0..n -> V] : w[0] = chars /\ \A k \in 1..n : w[k] = h[k][w[k - 1]]
    <2>1. \E w : Follows(w, h, chars, n, V)
        BY <1>1, <1>5, <1>6, Recursion
    <2> QED
        BY <2>1 DEF Follows
<1>8. \A k \in 1..n : w[k] = L!Hidden(w[k - 1], Reversed[k].entity, Mark)
    <2>1. \A k \in 1..n : w[k - 1] \in V
        BY <1>1
    <2> QED
        BY <1>6, <1>7, <2>1
<1>9. Rule(w)
    <2>1. \A k \in 0..n : w[k] = IF k = 0 THEN chars ELSE L!Hidden(w[k - 1], Reversed[k].entity, Mark)
        <3> SUFFICES ASSUME NEW k \in 0..n
                     PROVE  w[k] = IF k = 0 THEN chars ELSE L!Hidden(w[k - 1], Reversed[k].entity, Mark)
            OBVIOUS
        <3>1. k = 0 \/ k \in 1..n
            BY <1>1
        <3> QED
            BY <1>1, <1>7, <1>8, <3>1
    <2> QED
        BY <1>2, <2>1
<1>10. Texts = CHOOSE g : Rule(g)
    BY DEF Texts, chars
<1>11. Rule(Texts)
    <2> HIDE DEF Rule
    <2> QED
        BY <1>9, <1>10
<1>12. /\ Texts[0] = chars
       /\ \A k \in 1..n : Texts[k] = L!Hidden(Texts[k - 1], Reversed[k].entity, Mark)
    <2>1. \A k \in 0..n : Texts[k] = IF k = 0 THEN chars ELSE L!Hidden(Texts[k - 1], Reversed[k].entity, Mark)
        BY <1>2, <1>11
    <2>2. 0 \in 0..n /\ \A k \in 1..n : k \in 0..n /\ k # 0
        BY <1>1
    <2> QED
        BY <2>1, <2>2
<1>13. \A k \in 0..n : Texts[k] \in V
    <2> DEFINE T == {k \in 0..n : Texts[k] \in V}
    <2>1. 0 \in T
        BY <1>1, <1>5, <1>12
    <2>2. \A k \in 1..n : k - 1 \in T => k \in T
        <3>1. \A k \in 1..n : k \in 0..n
            BY <1>1
        <3> QED
            BY <1>4, <1>12, <3>1
    <2> HIDE DEF T
    <2>3. 0..n \subseteq T
        BY <1>1, <2>1, <2>2, Induct
    <2> QED
        BY <2>3 DEF T
<1>14. \A i \in 1..n : Texts[TurnOf(i)] = L!Hidden(Texts[TurnOf(i) - 1], AsLegacy(found[i]), Mark)
    <2> SUFFICES ASSUME NEW i \in 1..n
                 PROVE  Texts[TurnOf(i)] = L!Hidden(Texts[TurnOf(i) - 1], AsLegacy(found[i]), Mark)
        OBVIOUS
    <2>1. TurnOf(i) \in 1..n
        BY TurnIs DEF n
    <2>2. Reversed[TurnOf(i)].entity = AsLegacy(found[i])
        BY <1>1, <1>2
    <2> QED
        BY <1>12, <2>1, <2>2
<1> QED
    BY <1>2, <1>12, <1>13, <1>14 DEF n, V, chars

-----------------------------------------------------------------------------
\* With overlaps left in, the text is that of EntityExtractor after as many
\* turns, and those are left whose turn has not come.
Sliced ==
    phase \in {"pipeline", "answered"} /\ ~removeOverlaps /\ stage # "resolve" =>
        \E r \in 0..Len(found) :
            /\ todo = {i \in DOMAIN found : TurnOf(i) > r}
            /\ text = Texts[r]

\* Nothing is answered before anonymize returns.
Through == phase = "answered" /\ route[1] = "anonimization" => stage = "done"

SlicedInv == Sliced /\ Through

LEMMA SameSliced ==
    ASSUME Sliced, UNCHANGED <<found, removeOverlaps, todo, text, input>>, stage # "resolve",
           phase \in {"pipeline", "answered"}
    PROVE  Sliced'
<1>1. \A i : TurnOf(i)' = TurnOf(i)
    BY DEF TurnOf, Before
<1>2. Texts' = Texts
    BY DEF Texts, Reversed, Later, AsLegacy
<1> QED
    BY <1>1, <1>2 DEF Sliced

LEMMA ResolvedSliced ==
    ASSUME IInv, Resolved, UNCHANGED input
    PROVE  Sliced'
<1> SUFFICES ASSUME ~removeOverlaps PROVE Sliced'
    BY DEF Sliced, Resolved
<1>1. /\ UNCHANGED <<found, removeOverlaps, text>> /\ todo' = DOMAIN found
      /\ text = [k \in 1..Length |-> k] /\ found \in Seq(Entities)
    BY DEF Resolved, IInv, Replacing, TypeOK
<1>2. \A i : TurnOf(i)' = TurnOf(i)
    BY <1>1 DEF TurnOf, Before
<1>3. Texts' = Texts
    BY <1>1 DEF Texts, Reversed, Later, AsLegacy
<1>4. Texts[0] = text /\ \A i \in DOMAIN found : TurnOf(i) > 0
    <2>1. Texts[0] = text
        BY <1>1, TextsAre
    <2>2. \A i \in 1..Len(found) : TurnOf(i) \in 1..Len(found)
        BY <1>1, TurnIs
    <2>3. Len(found) \in Nat /\ DOMAIN found = 1..Len(found)
        BY <1>1, LenProperties
    <2> QED
        BY <2>1, <2>2, <2>3
<1>5. 0 \in 0..Len(found)'
    BY <1>1, LenProperties
<1> QED
    BY <1>1, <1>2, <1>3, <1>4, <1>5 DEF Sliced

LEMMA MaskSliced ==
    ASSUME IInv, Sliced, Mask, UNCHANGED input, phase \in {"pipeline", "answered"}
    PROVE  Sliced'
<1> SUFFICES ASSUME ~removeOverlaps PROVE Sliced'
    BY DEF Sliced, Mask
<1> DEFINE n == Len(found)
<1>1. PICK i \in todo :
          /\ \A j \in todo : Before(i, j)
          /\ text' = Replaced(found[i].start, found[i].stop)
          /\ todo' = todo \ {i}
    BY DEF Mask
<1>2. /\ stage = "mask" /\ UNCHANGED <<found, removeOverlaps, stage>>
      /\ found \in Seq(Entities) /\ text \in Seq(Cells)
    BY DEF Mask, IInv, TypeOK, Cells
<1>3. PICK r \in 0..n : todo = {j \in DOMAIN found : TurnOf(j) > r} /\ text = Texts[r]
    BY <1>2 DEF Sliced
<1>4. n \in Nat /\ DOMAIN found = 1..n /\ \A j \in 1..n : found[j] \in Entities
    BY <1>2, LenProperties
<1>5. /\ \A j \in 1..n : TurnOf(j) \in 1..n
      /\ \A j, k \in 1..n : j # k =>
            \/ TurnOf(j) < TurnOf(k) /\ Before(j, k)
            \/ TurnOf(k) < TurnOf(j) /\ Before(k, j)
      /\ \A k \in 1..n : \E j \in 1..n : TurnOf(j) = k
    BY <1>2, TurnIs
<1>6. \A j \in 1..n : Texts[TurnOf(j)] = L!Hidden(Texts[TurnOf(j) - 1], AsLegacy(found[j]), Mark)
    BY <1>2, TextsAre
<1>7. \A j, k \in 1..n : j # k => ~(Before(j, k) /\ Before(k, j))
    <2> SUFFICES ASSUME NEW j \in 1..n, NEW k \in 1..n, j # k, Before(j, k), Before(k, j) PROVE FALSE
        OBVIOUS
    <2>1. found[j].start \in Nat /\ found[k].start \in Nat
        BY <1>4, MaskingAssumption DEF Entities
    <2> QED
        BY <2>1 DEF Before
<1> HIDE DEF n
<1>8. i \in 1..n /\ TurnOf(i) > r /\ TurnOf(i) \in 1..n
    BY <1>3, <1>4, <1>5
<1>9. TurnOf(i) = r + 1
    <2>1. r + 1 \in 1..n
        BY <1>3, <1>4, <1>8
    <2>2. PICK j \in 1..n : TurnOf(j) = r + 1
        BY <1>5, <2>1
    <2>3. j \in todo
        BY <1>3, <1>4, <2>2
    <2>4. i = j \/ TurnOf(i) < TurnOf(j)
        BY <1>1, <1>5, <1>7, <1>8, <2>3
    <2> QED
        BY <1>3, <1>4, <1>8, <2>2, <2>4
<1>10. text' = Texts[r + 1]
    <2>1. text' = L!Hidden(text, AsLegacy(found[i]), Mark)
        BY <1>1, <1>2, <1>4, <1>8, ReplacedIsHidden
    <2>2. TurnOf(i) - 1 = r
        BY <1>3, <1>4, <1>9
    <2> QED
        BY <1>3, <1>6, <1>8, <1>9, <2>1, <2>2
<1>11. todo' = {j \in DOMAIN found : TurnOf(j) > r + 1}
    <2>1. \A j \in 1..n : TurnOf(j) > r /\ j # i <=> TurnOf(j) > r + 1
        <3> SUFFICES ASSUME NEW j \in 1..n PROVE TurnOf(j) > r /\ j # i <=> TurnOf(j) > r + 1
            OBVIOUS
        <3>1. TurnOf(j) \in 1..n /\ (j # i => TurnOf(j) # TurnOf(i))
            BY <1>5, <1>8
        <3> QED
            BY <1>3, <1>4, <1>9, <3>1
    <2> QED
        BY <1>1, <1>3, <1>4, <2>1
<1>12. \A j : TurnOf(j)' = TurnOf(j)
    BY <1>2 DEF TurnOf, Before
<1>13. Texts' = Texts
    BY <1>2 DEF Texts, Reversed, Later, AsLegacy
<1>14. r + 1 \in 0..Len(found)'
    <2>1. r + 1 \in 0..n
        BY <1>3, <1>4, <1>8
    <2> QED
        BY <1>2, <2>1 DEF n
<1> QED
    BY <1>2, <1>10, <1>11, <1>12, <1>13, <1>14 DEF Sliced

LEMMA SlicedStep == DInv /\ SlicedInv /\ [ServiceNext]_allVars => SlicedInv'
<1> SUFFICES ASSUME DInv, SlicedInv, [ServiceNext]_allVars PROVE SlicedInv'
    OBVIOUS
<1>1. ASSUME UNCHANGED <<vars, input>>, phase \in {"pipeline", "answered"} PROVE Sliced'
    <2>1. UNCHANGED <<found, removeOverlaps, todo, text, stage>>
        BY <1>1 DEF vars
    <2>2. CASE stage = "resolve"
        BY <2>1, <2>2 DEF Sliced
    <2>3. CASE stage # "resolve"
        BY <1>1, <2>1, <2>3, SameSliced DEF SlicedInv
    <2> QED
        BY <2>2, <2>3
<1>2. CASE Commit \/ Redeploy \/ Receive \/ ReadActive \/ UNCHANGED allVars
    <2>1. UNCHANGED vars
        BY <1>2 DEF Commit, Redeploy, Receive, ReadActive, allVars
    <2>2. phase' \in {"pipeline", "answered"} => UNCHANGED <<phase, route, input>>
        BY <1>2 DEF Commit, Redeploy, Receive, ReadActive, allVars, service, request
    <2>3. Through'
        <3>1. UNCHANGED stage
            BY <2>1 DEF vars
        <3> QED
            BY <2>2, <3>1 DEF SlicedInv, Through
    <2>4. Sliced'
        BY <1>1, <2>1, <2>2 DEF Sliced
    <2> QED
        BY <2>3, <2>4 DEF SlicedInv
<1>3. CASE Run
    BY <1>3 DEF Run, SlicedInv, Sliced, Through
<1>4. CASE Pipeline
    <2>1. phase = "pipeline" /\ phase' = "pipeline" /\ UNCHANGED input
        BY <1>4 DEF Pipeline, service, request
    <2>2. Consider \/ Resolved \/ Mask \/ Return
        BY <1>4 DEF Pipeline
    <2>3. IInv /\ Sliced
        BY DEF DInv, PInv, SlicedInv
    <2>4. ASSUME Consider PROVE Sliced'
        <3>1. removeOverlaps /\ removeOverlaps' = removeOverlaps
            BY <2>4 DEF Consider
        <3> QED
            BY <3>1 DEF Sliced
    <2>5. ASSUME Resolved PROVE Sliced'
        BY <2>1, <2>3, <2>5, ResolvedSliced
    <2>6. ASSUME Mask PROVE Sliced'
        BY <2>1, <2>3, <2>6, MaskSliced
    <2>7. ASSUME Return PROVE Sliced'
        <3>1. stage # "resolve" /\ UNCHANGED <<found, removeOverlaps, todo, text>>
            BY <2>7 DEF Return
        <3> QED
            BY <2>1, <2>3, <3>1, SameSliced
    <2>8. Sliced'
        BY <2>2, <2>4, <2>5, <2>6, <2>7
    <2> QED
        BY <2>1, <2>8 DEF SlicedInv, Through
<1>5. CASE Respond
    <2>1. UNCHANGED <<vars, route, input>> /\ phase = "pipeline"
        BY <1>5 DEF Respond
    <2>2. Through'
        BY <1>5, <2>1 DEF Respond, Through, vars
    <2> QED
        BY <1>1, <2>1, <2>2 DEF SlicedInv
<1> QED
    BY <1>2, <1>3, <1>4, <1>5 DEF ServiceNext

LEMMA SlicedInit == ServiceInit => SlicedInv
BY DEF ServiceInit, SlicedInv, Sliced, Through

\* Once every turn was taken the text is EntityExtractor's.
LEMMA LegacyAnonymizes ==
    ASSUME found \in Seq(Entities), L!Extract(input) = OldOf(found)
    PROVE  L!Anonymized(input, [k \in 1..Length |-> k], Mark) = Texts[Len(found)]
<1> DEFINE o == OldOf(found)
           reversed == L!SortedByStart([k \in DOMAIN o |-> [start |-> -o[k].start, entity |-> o[k]]])
           upto == CHOOSE g : g = [n \in 0..Len(reversed) |->
                        IF n = 0 THEN [k \in 1..Length |-> k] ELSE L!Hidden(g[n - 1], reversed[n].entity, Mark)]
<1>1. L!Anonymized(input, [k \in 1..Length |-> k], Mark) = upto[Len(reversed)]
    BY DEF L!Anonymized
<1>2. DOMAIN o = DOMAIN found /\ \A k \in DOMAIN found : o[k] = AsLegacy(found[k]) /\ o[k].start = found[k].start
    BY DEF OldOf, AsLegacy
<1> HIDE DEF o
<1>3. [k \in DOMAIN o |-> [start |-> -o[k].start, entity |-> o[k]]] = Later
    BY <1>2 DEF Later
<1>4. reversed = Reversed
    BY <1>3 DEF Reversed
<1>5. upto = Texts
    BY <1>4 DEF Texts
<1>6. Len(Reversed) = Len(found)
    BY TextsAre
<1> HIDE DEF upto, reversed
<1> QED
    BY <1>1, <1>4, <1>5, <1>6

\* EntityExtractor: the four extractors over Natasha that replaced it, in its
\* order and with overlaps left in, find its entities, with its details except
\* a person's, which it fills with the parts of the name (entity_extractor.py:
\* 96-117) and the new extractor leaves empty (persons.py:24); they sort them
\* as it does and make its text of the client's, for any texts and findings
\* in which the parts of an address and a currency are texts (locations.py
\* joins them as they are, entity_extractor.py through str).
THEOREM LegacyAgrees == Service => []SameAsLegacy
<1>1. DInv /\ SlicedInv => SameAsLegacy
    <2> SUFFICES ASSUME DInv, SlicedInv, phase = "answered", using.extractors = Four, ~removeOverlaps
                 PROVE  /\ L!Extract(input) = OldOf(found)
                        /\ \A k \in DOMAIN found :
                              found[k].label.source = "person" => found[k].label.details = Values(Empty)
                        /\ route[1] = "anonimization" =>
                              text = L!Anonymized(input, [k \in 1..Length |-> k], Mark)
        BY DEF SameAsLegacy, Four, OldOf
    <2>1. found = Findings(Four) /\ input \in Inputs /\ found \in Seq(Entities)
        BY DEF DInv, PInv, Started, RequestTyped, IInv, TypeOK
    <2>2. L!Extract(input) = OldOf(found)
        BY <2>1, LegacyExtracts
    <2>3. ASSUME route[1] = "anonimization"
          PROVE  text = L!Anonymized(input, [k \in 1..Length |-> k], Mark)
        <3>1. stage = "done" /\ todo = {}
            BY <2>3 DEF SlicedInv, Through, DInv, PInv, IInv, Replacing
        <3>2. PICK r \in 0..Len(found) : todo = {i \in DOMAIN found : TurnOf(i) > r} /\ text = Texts[r]
            BY <3>1 DEF SlicedInv, Sliced
        <3>3. Len(found) \in Nat /\ DOMAIN found = 1..Len(found)
            BY <2>1, LenProperties
        <3>4. r = Len(found)
            <4> DEFINE n == Len(found)
            <4>1. n \in Nat /\ r \in 0..n
                BY Zenon, <3>2, <3>3
            <4>2. ASSUME r < n PROVE FALSE
                <5>1. n \in 1..n
                    BY <4>1, <4>2
                <5>2. PICK i \in 1..n : TurnOf(i) = n
                    BY <2>1, <5>1, TurnIs
                <5>3. i \in todo
                    BY <3>2, <3>3, <4>2, <5>2
                <5> QED
                    BY <3>1, <5>3
            <4> HIDE DEF n
            <4>3. r = n
                BY <4>1, <4>2
            <4> QED
                BY <4>3 DEF n
        <3> QED
            BY <2>1, <2>2, <3>2, <3>4, LegacyAnonymizes
    <2>4. ASSUME NEW k \in DOMAIN found, found[k].label.source = "person"
          PROVE  found[k].label.details = Values(Empty)
        <3>1. found[k] \in ToSet(Found(input, "person"))
            <4>1. found[k] \in ToSet(found)
                BY DEF ToSet
            <4>2. PICK x \in ToSet(Four) : found[k] \in ToSet(Found(input, x))
                BY <2>1, <4>1, FourAre, FindingsAre
            <4>3. x = "person"
                BY <2>1, <2>4, <4>2, FourAre, FoundIs
            <4> QED
                BY <4>2, <4>3
        <3>2. \E m : found[k] = Entity("person", m, <<m.normal>>, Empty)
            BY <3>1 DEF Found, FromSpans, ToSet
        <3> QED
            BY <3>2 DEF Entity
    <2> QED
        BY <2>2, <2>3, <2>4
<1>2. Service => []SlicedInv
    BY SlicedInit, SlicedStep, Invariance, PTL DEF Service
<1> QED
    BY <1>1, <1>2, Invariance, PTL

=============================================================================
