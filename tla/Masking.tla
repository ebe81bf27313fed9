------------------------------ MODULE Masking ------------------------------
(***************************************************************************)
(* The engine's ExtractionPipeline (engine/src/extractors/pipeline.py):    *)
(* the entities the extractors found, sorted by their start, are reduced   *)
(* to disjoint ones by confidence, and each one left is replaced by the    *)
(* placeholder, from the right end of the text to the left.                *)
(*                                                                         *)
(* The extractors are abstracted to what they find: any entities over a    *)
(* text of `Length` characters (Detection has the real ones).  The text is *)
(* the sequence of its positions, the placeholder a sequence of `Filler`   *)
(* cells, so that where each character of the result comes from can be     *)
(* told.                                                                   *)
(***************************************************************************)
EXTENDS Naturals, Sequences, FiniteSetsExt

CONSTANTS
    Length,       \* characters of the text
    MaxFound,     \* bound: entities the extractors find
    Confidences,  \* what their confidence() returns
    Sources,      \* the extractors' names, which give an entity's type
    Normals,      \* normal forms
    AllDetails,   \* what else an extractor tells of an entity
    Placeholder,  \* length of the profile's placeholder
    Filler        \* a character of it

ASSUME MaskingAssumption ==
    /\ Length \in Nat
    /\ MaxFound \in Nat
    /\ Confidences \subseteq Nat
    /\ Placeholder \in Nat
    /\ Filler \notin Nat

\* Entities as Python slices: characters start+1 to stop of the text.
Entities ==
    {e \in [start : 0..Length, stop : 0..Length, confidence : Confidences,
            label : [source : Sources, normal : Normals, details : AllDetails]] : e.start < e.stop}

VARIABLES
    found,           \* the extractors' entities, sorted by start
    removeOverlaps,  \* the profile's remove_overlaps
    next,            \* the candidate _resolve_overlaps looks at
    kept,            \* `result`: indices of found, whose order is the list's
    todo,            \* entities anonymize has yet to replace
    text,            \* the text it returns
    stage

vars == <<found, removeOverlaps, next, kept, todo, text, stage>>

Considered == 1..(next - 1)

\* entities.sort(key=lambda e: e.span.start)
ByStart(s) == \A i, j \in DOMAIN s : i < j => s[i].start <= s[j].start

Init ==
    /\ \E n \in 0..MaxFound : found \in {s \in [1..n -> Entities] : ByStart(s)}
    /\ removeOverlaps \in BOOLEAN
    /\ next = 1
    /\ kept = {}
    /\ todo = {}
    /\ text = [k \in 1..Length |-> k]
    /\ stage = "resolve"

\* Slip: the stop of a span counts as part of it.
ClosedOverlaps(i, j) == found[i].start <= found[j].stop /\ found[j].start <= found[i].stop

\* Slip: a character shared at the end of one of them does not count.
TouchingOverlaps(i, j) ==
    found[i].start < found[j].stop /\ found[j].start + 1 < found[i].stop

\* Span.overlaps
Overlaps(i, j) == found[i].start < found[j].stop /\ found[j].start < found[i].stop

Overlapping == {i \in kept : Overlaps(i, next)}

\* candidate.confidence > max(e.confidence for e in overlapping)
Stronger(c, es) == \A i \in es : found[c].confidence > found[i].confidence

\* Slip: one turn too many.
OneMore == next <= Len(found) + 1

More == next <= Len(found)

\* One turn of _resolve_overlaps' loop: a candidate that overlaps nothing, or
\* is stronger than all it overlaps, takes their place; another one is left.
Consider ==
    /\ stage = "resolve"
    /\ removeOverlaps
    /\ More
    /\ kept' = IF Stronger(next, Overlapping)
               THEN (kept \ Overlapping) \cup {next}
               ELSE kept
    /\ next' = next + 1
    /\ UNCHANGED <<found, removeOverlaps, todo, text, stage>>

\* run returns; without remove_overlaps it returns everything.
Resolved ==
    /\ stage = "resolve"
    /\ removeOverlaps => ~More
    /\ kept' = IF removeOverlaps THEN kept ELSE DOMAIN found
    /\ todo' = kept'
    /\ stage' = "mask"
    /\ UNCHANGED <<found, removeOverlaps, next, text>>

\* Slip: from left to right.
InOrder(i, j) == i <= j

\* i comes before j in sorted(entities, key=start, reverse=True), which keeps
\* the order of entities with the same start.
Before(i, j) ==
    \/ found[i].start > found[j].start
    \/ found[i].start = found[j].start /\ i <= j

Mark == [k \in 1..Placeholder |-> Filler]

\* text[:s]
Upto(s) == SubSeq(text, 1, Min({s, Len(text)}))

\* text[:s] + placeholder + text[e:]
Replaced(s, e) == Upto(s) \o Mark \o SubSeq(text, e + 1, Len(text))

\* One turn of anonymize's loop.
Mask ==
    /\ stage = "mask"
    /\ \E i \in todo :
          /\ \A j \in todo : Before(i, j)
          /\ text' = Replaced(found[i].start, found[i].stop)
          /\ todo' = todo \ {i}
    /\ UNCHANGED <<found, removeOverlaps, next, kept, stage>>

Return ==
    /\ stage = "mask"
    /\ todo = {}
    /\ stage' = "done"
    /\ UNCHANGED <<found, removeOverlaps, next, kept, todo, text>>

Next == Consider \/ Resolved \/ Mask \/ Return

Spec == Init /\ [][Next]_vars

-----------------------------------------------------------------------------
\* The characters of entity i.
Span(i) == found[i].start + 1 .. found[i].stop

Shared(i, j) == \E k \in Span(i) : k \in Span(j)

Disjoint(S) == \A i, j \in S : i # j => ~Shared(i, j)

\* The characters that no entity of S has.
Outside(S) == {k \in 1..Length : \A i \in S : k \notin Span(i)}

\* Where a character stands once the entities of S are replaced: behind those
\* that are left before it, and a placeholder for each entity before it.
Place(S, k) ==
    Cardinality({c \in Outside(S) : c <= k})
        + Placeholder * Cardinality({i \in S : found[i].start < k})

Positions(c) == {k \in 1..Len(text) : text[k] = c}

\* The text with the entities of S replaced, and nothing else.
Masked(S) ==
    /\ Len(text) = Cardinality(Outside(S)) + Placeholder * Cardinality(S)
    /\ \A k \in 1..Length : Positions(k) = IF k \in Outside(S) THEN {Place(S, k)} ELSE {}

\* The type of the pipeline's state.
TypeOK ==
    /\ found \in Seq(Entities)
    /\ removeOverlaps \in BOOLEAN
    /\ next \in 1..Len(found) + 1
    /\ kept \subseteq DOMAIN found
    /\ todo \subseteq kept
    /\ text \in Seq(1..Length \cup {Filler})
    /\ stage \in {"resolve", "mask", "done"}

\* With remove_overlaps no two entities of the result overlap, so a slice is
\* never taken from text that was already replaced.
KeptDisjoint == removeOverlaps => Disjoint(kept)

\* An entity is left out only for one it shares a character with and is not
\* stronger than.
DroppedForReason ==
    removeOverlaps =>
        \A i \in Considered \ kept : \E j \in Considered \ {i} :
            /\ Shared(i, j)
            /\ found[i].confidence <= found[j].confidence

\* Disjoint entities are replaced, all of them and nothing else: the text that
\* remains is the characters outside them, in their order, with one
\* placeholder where each entity stood.
MasksExactly == stage = "done" /\ Disjoint(kept) => Masked(kept)

\* What anonymize's comment says: all the entities found are replaced.
EveryEntityMasked ==
    stage = "done" =>
        \A i \in DOMAIN found : \A k \in Span(i) : Positions(k) = {}

=============================================================================
