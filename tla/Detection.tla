------------------------------ MODULE Detection ------------------------------
(***************************************************************************)
(* The engine's /processing and /anonimization routes (engine/src/routes/  *)
(* v1): one request, from its arrival to its answer, while profiles are    *)
(* saved, switched and deleted.  It composes what a request depends on:    *)
(* the profile store, as ActiveProfile promises it (ProfileStore           *)
(* implements that), the registry and the extractors (Extractors), and the *)
(* pipeline (Masking).                                                     *)
(*                                                                         *)
(* A request awaits once, when it reads the active profile; the store may  *)
(* commit at any time.  Requests share nothing but store and registry.     *)
(***************************************************************************)
EXTENDS Masking, Extractors

CONSTANTS
    Inputs,        \* the texts of requests, with what Natasha finds in them
    Yamls,         \* profiles clients save
    Profiles,      \* their ids
    Placeholders,  \* what they show in place of an entity
    Builds,        \* extractors that versions of the engine register
    MaxChanges     \* bound: changes to the store

Names == ToSet(Registered)
Routes == {"processing", "anonimization"} \X {"all", "base"}
Definitions == [extractors : Seq(Names), placeholder : Placeholders, removeOverlaps : BOOLEAN]

\* A profile may list anything before it is checked.
Unchecked == [extractors : Seq(STRING), placeholder : Placeholders, removeOverlaps : BOOLEAN]

DefaultExtractors == <<"passport", "inn", "phone">>

Definition(names, placeholder, overlaps) ==
    [extractors |-> names, placeholder |-> placeholder, removeOverlaps |-> overlaps]

\* What Natasha finds lies in the text, and no two findings of a kind start at
\* the same character.
WellPlaced(ms) ==
    /\ ms \in Seq(ToSet(ms))
    /\ \A m \in ToSet(ms) : m.start \in 0..Length /\ m.stop \in 0..Length /\ m.start < m.stop
    /\ \A j, k \in DOMAIN ms : j # k => ms[j].start # ms[k].start

\* What is joined without str() must be: join raises TypeError for a number.
OnlyTexts(fact, attributes) == \A a \in attributes \cap DOMAIN fact : fact[a] <= 0

ASSUME DetectionAssumption ==
    /\ \A i \in Inputs :
          /\ i.chars \in Seq(Char) /\ Len(i.chars) = Length
          /\ WellPlaced(i.ner)
          /\ \A s \in ToSet(i.ner) : s.normal \in Int
          /\ \A ms \in {i.addresses, i.dates, i.money} :
                /\ WellPlaced(ms)
                /\ \A m \in ToSet(ms) : \A a \in DOMAIN m.fact : m.fact[a] \in Int
          /\ \A m \in ToSet(i.addresses) : OnlyTexts(m.fact, ToSet(AddressParts))
          /\ \A m \in ToSet(i.money) : OnlyTexts(m.fact, {"currency"})
    /\ 1 \in Confidences
    /\ Sources = Names
    /\ Normals = Seq(Int)
    /\ AllDetails = [Attributes -> Int]
    /\ "hidden" \in Placeholders
    /\ Yamls \subseteq Unchecked
    /\ Builds \subseteq SUBSET Names
    /\ MaxChanges \in Nat

VARIABLES
    live, current, retired,  \* the profile store
    definition,  \* the definition of each of its profiles
    build,       \* extractors the running version registers
    lost,        \* history: those a version no longer registered
    changes,     \* changes so far
    phase,       \* where the request's handler stands
    route,       \* the route it belongs to
    input,       \* its text
    using,       \* the definition it works with
    offered,     \* history: those that were active since the request arrived
    shown        \* the placeholder in its answer

store == <<live, current, retired, definition>>
engine == <<build, lost>>
request == <<phase, route, input, using, shown>>
service == <<store, engine, changes, request, offered>>
allVars == <<service, vars>>

Store == INSTANCE ActiveProfile

-----------------------------------------------------------------------------
Nothing ==
    [chars |-> <<>>, ner |-> <<>>, addresses |-> <<>>, dates |-> <<>>, money |-> <<>>, names |-> <<>>]

\* The engine starts on an empty database: ensure_seed_profile creates and
\* activates a profile before the first request.
ServiceInit ==
    /\ \E seed \in Profiles : live = {seed} /\ current = {seed}
    /\ retired = {}
    /\ definition = [p \in Profiles |-> Definition(DefaultExtractors, "hidden", TRUE)]
    /\ build = Names
    /\ lost = {}
    /\ changes = 0
    /\ phase = "idle"
    /\ route = <<"processing", "all">>
    /\ input = Nothing
    /\ using = Definition(DefaultExtractors, "hidden", TRUE)
    /\ offered = {}
    /\ shown = "none"
    /\ found = <<>>
    /\ removeOverlaps = TRUE
    /\ next = 1
    /\ kept = {}
    /\ todo = {}
    /\ text = [k \in 1..Length |-> k]
    /\ stage = "done"

\* The active profile's definition, or the routes' defaults.
ActiveDefinition ==
    IF current = {} THEN Definition(DefaultExtractors, "hidden", TRUE)
    ELSE definition[CHOOSE p \in current : TRUE]

\* Slip: a name listed twice runs twice.
AsListed(names) == names

\* _dedupe_preserve_order: the names where they stand first.
Deduped(names) ==
    LET first == {k \in DOMAIN names : \A j \in 1..k - 1 : names[j] # names[k]}
        places == Among([k \in DOMAIN names |-> k], first)
    IN  [k \in DOMAIN places |-> names[places[k]]]

Parsed(yaml) == [yaml EXCEPT !.extractors = Deduped(@)]

\* parse_profile_yaml raises ProfileYamlError for an empty list and for names
\* the registry does not have.
Accepted(d) == d.extractors # <<>> /\ ToSet(d.extractors) \subseteq build

\* A profile is created or replaced, ...
Save(p) ==
    \E yaml \in Yamls :
        /\ Accepted(Parsed(yaml))
        /\ definition' = [definition EXCEPT ![p] = Parsed(yaml)]
        /\ \/ Store!Add(p)
           \/ Store!Switch(p)
           \/ p \in live /\ UNCHANGED <<live, current, retired>>

\* ... made active or deleted, or the store is left without an active one.
Turn(p) ==
    /\ Store!Switch(p) \/ Store!Retire(p) \/ Store!Lose
    /\ UNCHANGED definition

\* Bound: a behaviour ends with the answer.
UnderWay == phase \notin {"answered", "failed"}

\* The store commits, at any time.
Commit ==
    /\ UnderWay
    /\ changes < MaxChanges
    /\ \E p \in Profiles : Save(p) \/ Turn(p)
    /\ changes' = changes + 1
    /\ offered' = IF phase = "idle" THEN {} ELSE offered \cup {ActiveDefinition'}
    /\ UNCHANGED <<engine, request, vars>>

\* Another version of the engine is started; it keeps the profiles.
Redeploy ==
    /\ phase = "idle"
    /\ build' \in Builds \ {build}
    /\ lost' = lost \cup (build \ build')
    /\ UNCHANGED <<store, changes, request, offered, vars>>

-----------------------------------------------------------------------------
\* A request arrives.  The /all routes take everything the registry has.
Receive ==
    /\ phase = "idle"
    /\ input' \in Inputs
    /\ route' \in Routes
    /\ \/ /\ route'[2] = "all"
          /\ using' = Definition(Among(Registered, build), "hidden", TRUE)
          /\ offered' = {using'}
          /\ phase' = "run"
       \/ /\ route'[2] = "base"
          /\ offered' = {ActiveDefinition}
          /\ phase' = "read"
          /\ UNCHANGED using
    /\ UNCHANGED <<store, engine, changes, shown, vars>>

\* store.get_active(), then from_registry: registry.get raises KeyError for a
\* name this version does not have.
ReadActive ==
    /\ phase = "read"
    /\ using' = ActiveDefinition
    /\ phase' = IF ToSet(using'.extractors) \subseteq build THEN "run" ELSE "failed"
    /\ UNCHANGED <<store, engine, changes, route, input, offered, shown, vars>>

\* Slip: later extractors come first among entities with the same start.
LaterFirst(i, j) == j <= i

\* entities.sort is stable.
Stays(i, j) == i <= j

\* entities.sort(key=lambda e: e.span.start)
Sorted(entities) ==
    LET rank(i) == Cardinality({j \in DOMAIN entities :
                        \/ entities[j].start < entities[i].start
                        \/ entities[j].start = entities[i].start /\ Stays(j, i)})
    IN  [k \in DOMAIN entities |-> entities[CHOOSE i \in DOMAIN entities : rank(i) = k]]

\* The extractors, one after the other, then the sort.
Findings(names) == Sorted(FlattenSeq([k \in DOMAIN names |-> Found(input, names[k])]))

\* ExtractionPipeline.run up to the sort.
Run ==
    /\ phase = "run"
    /\ found' = Findings(using.extractors)
    /\ removeOverlaps' = using.removeOverlaps
    /\ next' = 1
    /\ stage' = "resolve"
    /\ phase' = "pipeline"
    /\ UNCHANGED <<store, engine, changes, route, input, using, offered, shown, kept, todo, text>>

\* The rest of run and, for /anonimization, anonymize.
Pipeline ==
    /\ phase = "pipeline"
    /\ Consider \/ Resolved \/ (route[1] = "anonimization" /\ (Mask \/ Return))
    /\ UNCHANGED service

\* Slip: the placeholder is read again.
ReadAgain == IF route[2] = "base" THEN ActiveDefinition.placeholder ELSE using.placeholder

\* placeholder=placeholder
PlaceholderOf == using.placeholder

\* The answer: the entities kept, or the text.
Respond ==
    /\ phase = "pipeline"
    /\ stage = IF route[1] = "anonimization" THEN "done" ELSE "mask"
    /\ phase' = "answered"
    /\ shown' = IF route[1] = "anonimization" THEN PlaceholderOf ELSE "none"
    /\ UNCHANGED <<store, engine, changes, route, input, using, offered, vars>>

ServiceNext == Commit \/ Redeploy \/ Receive \/ ReadActive \/ Run \/ Pipeline \/ Respond

Service == ServiceInit /\ [][ServiceNext]_allVars

-----------------------------------------------------------------------------
\* The type of the service's state, and of the pipeline's.
DetectionTypeOK ==
    /\ current \subseteq live /\ live \subseteq Profiles /\ retired \subseteq Profiles
    /\ definition \in [Profiles -> Definitions]
    /\ build \subseteq Names /\ lost \subseteq Names
    /\ changes \in 0..MaxChanges
    /\ phase \in {"idle", "read", "run", "pipeline", "answered", "failed"}
    /\ route \in Routes
    /\ input \in Inputs \cup {Nothing}
    /\ using \in Definitions /\ offered \subseteq Definitions
    /\ TypeOK

\* What the extractors of a definition find, each applied once.
FoundAs(d) == UNION {ToSet(Found(input, x)) : x \in ToSet(d.extractors)}

\* The answer is that of one definition that was active since the request
\* arrived.
OneSnapshot ==
    phase = "answered" =>
        \E d \in offered :
            /\ d = using
            /\ removeOverlaps = d.removeOverlaps
            /\ shown = IF route[1] = "anonimization" THEN d.placeholder ELSE "none"

EachOnce ==
    phase = "answered" => ToSet(found) = FoundAs(using) /\ Len(found) = Cardinality(ToSet(found))

FailsOnlyIfLost == phase = "failed" => ToSet(using.extractors) \cap lost # {}

\* Whatever is committed while a request is under way, it is answered by one
\* definition that was active since it arrived: its extractors, each of them
\* once, its treatment of overlaps and its placeholder.  It fails only for an
\* extractor that was there when its profile was saved and is no more.
AnsweredAsConfigured == OneSnapshot /\ EachOnce /\ FailsOnlyIfLost

L == INSTANCE Legacy

\* An entity of the pipeline, as EntityExtractor has it: the same, but for the
\* details of a person, which it fills with the parts of the name.
AsLegacy(e) ==
    [type |-> e.label.source, start |-> e.start, stop |-> e.stop, normal |-> e.label.normal,
     details |-> IF e.label.source = "person" THEN Values(L!NameDetails(input, e)) ELSE e.label.details]

\* The four extractors over Natasha that replaced EntityExtractor, in its
\* order and with overlaps, give its text and its entities, in its order and
\* with the same types, spans and normal forms; their details, too, except
\* that persons no longer have the parts of their names, which the new
\* extractor does not ask NamesExtractor for.
SameAsLegacy ==
    phase = "answered" /\ using.extractors = <<"person", "date", "location", "money">> /\ ~removeOverlaps =>
        /\ L!Extract(input) = [k \in DOMAIN found |-> AsLegacy(found[k])]
        /\ \A k \in DOMAIN found : found[k].label.source = "person" => found[k].label.details = Values(Empty)
        /\ route[1] = "anonimization" =>
                text = L!Anonymized(input, [k \in 1..Length |-> k], Mark)

-----------------------------------------------------------------------------
\* The forms the extractors' documentation gives, character by character.
Numeral(n) == [k \in 1..n |-> Digit]
This(chars) == [k \in DOMAIN chars |-> {chars[k]}]

Forms(x) ==
    LET gap == This(<<Space>>)
        hyphen == This(<<Hyphen>>)
    IN  CASE x = "inn" -> {Numeral(10), Numeral(12)}
          [] x = "snils" ->
                {Numeral(11), Numeral(3) \o hyphen \o Numeral(3) \o hyphen \o Numeral(3) \o gap \o Numeral(2)}
          [] x = "passport" ->
                {This(<<Series, Space>>) \o Numeral(4) \o This(<<Space, Number, Space>>) \o Numeral(6),
                 This(<<Passport, Space>>) \o Numeral(2) \o gap \o Numeral(2) \o gap \o Numeral(6),
                 Numeral(2) \o gap \o Numeral(2) \o gap \o Numeral(6),
                 Numeral(4) \o gap \o Numeral(6)}
          [] x = "phone" ->
                {This(<<PlusSign, 7, Space, OpenParen>>) \o Numeral(3) \o This(<<CloseParen, Space>>)
                    \o Numeral(3) \o hyphen \o Numeral(2) \o hyphen \o Numeral(2)}
          [] OTHER -> {}

\* The one that is never found whole, though the documentation gives it: the
\* pattern tries ten digits before twelve.
Personal(x, form) == x = "inn" /\ form = Numeral(12)

\* The official rules for check digits.
Genuine(x, d) ==
    LET inn(weights) == Total([i \in DOMAIN weights |-> d[i] * weights[i]]) % 11
        digit(rest)  == IF rest = 10 THEN 0 ELSE rest
        snils == Total([i \in 1..9 |-> d[i] * (10 - i)]) % 101
    IN  CASE x = "inn" ->
                IF Len(d) = 12
                THEN /\ d[11] = digit(inn(<<7, 2, 4, 10, 3, 5, 9, 4, 6, 8>>))
                     /\ d[12] = digit(inn(<<3, 7, 2, 4, 10, 3, 5, 9, 4, 6, 8>>))
                ELSE d[10] = digit(inn(<<2, 4, 10, 3, 5, 9, 4, 6, 8>>))
          [] x = "snils" -> \/ IntOf(d, 1, 9) <= 1001998
                            \/ 10 * d[10] + d[11] = IF snils = 100 THEN 0 ELSE snils
          [] OTHER       -> TRUE

\* What begins at position i does not go on with what stands before it: no
\* digit does, nor, for a SNILS, a digit and one of the gaps it may have.
Begins(x, i) ==
    /\ i > 0 => input.chars[i] \notin Digit
    /\ x = "snils" /\ i > 1 /\ input.chars[i] \in {Space, Hyphen} => input.chars[i - 1] \notin Digit

\* A document in one of these forms, between any other characters: spaces,
\* punctuation, labels and words.
IsDocument(x, form, i) ==
    LET stop == i + Len(form)
    IN  /\ stop <= Length
        /\ \A k \in DOMAIN form : input.chars[i + k] \in form[k]
        /\ Begins(x, i)
        /\ stop < Length => input.chars[stop + 1] \notin Digit
        /\ Genuine(x, DigitsOf(input.chars, [start |-> i, stop |-> stop]))

\* It is found from its first character, or that of a label before it, to its
\* last.
FoundWhole(x, form, i) ==
    \E k \in DOMAIN found :
        /\ found[k].label.source = x
        /\ found[k].start <= i
        /\ found[k].stop = i + Len(form)
        /\ \A c \in found[k].start + 1..i : input.chars[c] \notin Digit

\* A document in a form the extractors' documentation gives, with the right
\* check digits, is found whole, whatever candidates stand before it.  The
\* one exception is the INN of twelve digits, which InnExtractor says it finds
\* and never does.  No number with wrong check digits is taken for a document.
FindsDocuments ==
    phase = "answered" =>
        \A x \in ToSet(using.extractors) :
            /\ \A form \in Forms(x), i \in 0..Length :
                  IsDocument(x, form, i) => (FoundWhole(x, form, i) <=> ~Personal(x, form))
            /\ \A k \in DOMAIN found :
                  found[k].label.source = x /\ x \in {"inn", "snils"} =>
                      Genuine(x, DigitsOf(input.chars, found[k]))

=============================================================================
