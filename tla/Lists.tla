-------------------------------- MODULE Lists --------------------------------
(***************************************************************************)
(* Python's list comprehension with a condition, and its dictionaries,     *)
(* which the extractors and the legacy extractor both use.                 *)
(***************************************************************************)
EXTENDS Integers, Sequences

\* [x for x in s if x in S]: SelectSeq with a set for its test.
Among(s, S) ==
    LET upto[k \in 0..Len(s)] ==
            IF k = 0 THEN <<>>
            ELSE IF s[k] \in S THEN Append(upto[k - 1], s[k]) ELSE upto[k - 1]
    IN  upto[Len(s)]

\* The keys of an entity's details.
Attributes ==
    {"day", "month", "year", "amount", "currency", "country", "region", "city", "street", "house",
     "first", "last", "middle"}

\* dict.get(a, 0): dictionaries that hold no 0 are equal when these are.
Values(dict) == [a \in Attributes |-> IF a \in DOMAIN dict THEN dict[a] ELSE 0]

Empty == [k \in {} |-> 0]

=============================================================================
