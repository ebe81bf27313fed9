-------------------------------- MODULE Legacy --------------------------------
(***************************************************************************)
(* EntityExtractor (engine/src/extractors/entity_extractor.py), which the  *)
(* extractors of the registry replaced: no route uses it.  It finds        *)
(* persons, dates, locations and money in one pass, over the same Natasha  *)
(* library, and is what the registry's four can be compared with.  Inputs  *)
(* are those of Extractors.                                                *)
(***************************************************************************)
EXTENDS Lists, SequencesExt

Attribute(fact, a) == IF a \in DOMAIN fact THEN fact[a] ELSE 0

\* str(v)
Str(v) == IF v > 0 THEN -v ELSE v

\* The part a value gives: a currency is taken as it is.
Part(a, v) == IF a = "currency" THEN v ELSE Str(v)

\* if fact.a: parts.append(str(fact.a)), for one attribute after the other.
Parts(fact, attributes) ==
    LET upto[k \in 0..Len(attributes)] ==
            IF k = 0 THEN <<>>
            ELSE IF Attribute(fact, attributes[k]) = 0 THEN upto[k - 1]
            ELSE Append(upto[k - 1], Part(attributes[k], fact[attributes[k]]))
    IN  upto[Len(attributes)]

\* if fact.a: details["a"] = fact.a
Present(fact, attributes) ==
    [a \in {b \in attributes : Attribute(fact, b) # 0} |-> fact[a]]

ExtractedEntity(type, m, normal, details) ==
    [type |-> type, start |-> m.start, stop |-> m.stop, normal |-> normal, details |-> Values(details)]

FromMatches(type, matches, attributes) ==
    [k \in DOMAIN matches |->
        ExtractedEntity(type, matches[k], Parts(matches[k].fact, attributes),
                        Present(matches[k].fact, ToSet(attributes)))]

\* {(span.start, span.stop): span ...}: the last of the spans with the same
\* ends, at the place of the first.
LastWithEnds(spans) ==
    LET same(i) == {j \in DOMAIN spans : spans[j].start = spans[i].start /\ spans[j].stop = spans[i].stop}
        firsts == Among([i \in DOMAIN spans |-> i], {i \in DOMAIN spans : \A j \in same(i) : i <= j})
    IN  [k \in DOMAIN firsts |-> spans[CHOOSE j \in same(firsts[k]) : \A l \in same(firsts[k]) : l <= j]]

\* name_details.get((start, stop), {}): the parts of the name NamesExtractor
\* found last with these ends.
NameDetails(input, s) ==
    LET same == {k \in DOMAIN input.names :
                    input.names[k].start = s.start /\ input.names[k].stop = s.stop}
    IN  IF same = {} THEN Empty
        ELSE Present(input.names[CHOOSE k \in same : \A j \in same : j <= k].fact,
                     {"first", "last", "middle"})

ExtractPersons(input) ==
    LET persons == LastWithEnds(Among(input.ner, {s \in ToSet(input.ner) : s.type = "PER"}))
    IN  [k \in DOMAIN persons |-> ExtractedEntity("person", persons[k], <<persons[k].normal>>,
                                                NameDetails(input, persons[k]))]

ExtractDates(input) == FromMatches("date", input.dates, <<"day", "month", "year">>)

ExtractMoney(input) == FromMatches("money", input.money, <<"amount", "currency">>)

\* Locations of the tagger, then addresses whose ends were not seen yet.
ExtractLocations(input) ==
    LET tagged == Among(input.ner, {s \in ToSet(input.ner) : s.type = "LOC"})
        seen   == {<<tagged[k].start, tagged[k].stop>> : k \in DOMAIN tagged}
        new    == Among(input.addresses, {m \in ToSet(input.addresses) : <<m.start, m.stop>> \notin seen})
    IN  [k \in DOMAIN tagged |-> ExtractedEntity("location", tagged[k], <<tagged[k].normal>>, Empty)]
            \o FromMatches("location", new, <<"country", "region", "city", "street", "house">>)

\* An entity is put behind those that do not start after it.
Inserted(sorted, e) ==
    LET before == Cardinality({k \in DOMAIN sorted : sorted[k].start <= e.start})
    IN  InsertAt(sorted, before + 1, e)

\* entities.sort(key=lambda e: e.start), a stable sort.
SortedByStart(entities) ==
    LET upto[n \in 0..Len(entities)] ==
            IF n = 0 THEN <<>> ELSE Inserted(upto[n - 1], entities[n])
    IN  upto[Len(entities)]

\* EntityExtractor.extract.  The library finds nothing in a blank text.
Extract(input) ==
    SortedByStart(ExtractPersons(input) \o ExtractDates(input)
                    \o ExtractLocations(input) \o ExtractMoney(input))

\* text[:entity.start] + placeholder + text[entity.stop:]
Hidden(chars, e, placeholder) ==
    SubSeq(chars, 1, IF e.start < Len(chars) THEN e.start ELSE Len(chars))
        \o placeholder \o SubSeq(chars, e.stop + 1, Len(chars))

\* EntityExtractor.anonymize: every entity is replaced, the one that starts
\* last first; of those that start together the first one first.
Anonymized(input, chars, placeholder) ==
    LET extracted == Extract(input)
        entities == SortedByStart([k \in DOMAIN extracted |->
                        [start |-> -extracted[k].start, entity |-> extracted[k]]])
        upto[n \in 0..Len(entities)] ==
            IF n = 0 THEN chars ELSE Hidden(upto[n - 1], entities[n].entity, placeholder)
    IN  upto[Len(entities)]

=============================================================================
