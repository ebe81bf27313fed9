---------------------------- MODULE MCDetection ----------------------------
(* A small instance of Detection for TLC. *)
EXTENDS Detection, TLC

CONSTANTS p1, p2

TwoProfiles == {p1, p2}
ProfileSymmetry == Permutations(TwoProfiles)
OneConfidence == {1}
TwoPlaceholders == {"hidden", "masked"}
NormalForms == Seq(Int)
Dictionaries == [Attributes -> Int]

AllBuilds == {Names, Names \ {"snils"}}

\* The seeded profile; one extractor twice; the four of EntityExtractor; a
\* profile another version may not support; one nobody accepts.
SomeYamls ==
    {Definition(<<"passport", "inn", "phone">>, "hidden", TRUE),
     Definition(<<"inn", "passport", "inn">>, "masked", FALSE),
     Definition(<<"person", "date", "location", "money">>, "hidden", FALSE),
     Definition(<<"snils", "email">>, "masked", TRUE),
     Definition(<<"inn", "iban">>, "hidden", TRUE)}

-----------------------------------------------------------------------------
OtherText(n) == [k \in 1..n |-> Other]
Padded(t) == t \o OtherText(Length - Len(t))

\* Documents and near misses, of 18 characters at most.
Pieces == {
    <<7, 7, 0, 7, 0, 8, 3, 8, 9, 3>>,              \* inn
    <<7, 7, 0, 7, 0, 8, 3, 8, 9, 4>>,              \* ... with a wrong check digit
    <<Inn, Colon, Space, 7, 7, 0, 7, 0, 8, 3, 8, 9, 3>>,
    <<5, 0, 0, 1, 0, 0, 7, 3, 2, 2, 5, 9>>,        \* inn of a person
    <<1, 1, 2, Hyphen, 2, 3, 3, Hyphen, 4, 4, 5, Space, 9, 5>>,
    <<1, 1, 2, 2, 3, 3, 4, 4, 5, 9, 5>>,           \* snils, the forms of its documentation
    <<0, 0, 1, 0, 0, 1, 9, 9, 8, 7, 7>>,           \* ... the last that is not checked
    <<0, 0, 1, 0, 0, 1, 9, 9, 9, 7, 7>>,           \* ... the first that is
    <<1, 1, 2, 2, 3, 3, 4, 5, 8, 0, 0>>,           \* ... with a remainder of 100
    <<Passport, Space, 4, 5, Space, 0, 7, Space, 1, 2, 3, 4, 5, 6>>,
    <<Series, Space, 4, 5, 0, 7, Space, Number, Space, 1, 2, 3, 4, 5, 6>>,
    <<4, 5, 0, 7, Space, 1, 2, 3, 4, 5, 6>>,
    <<PlusSign, 7, Space, OpenParen, 9, 1, 6, CloseParen, Space, 1, 2, 3, Hyphen, 4, 5, Hyphen, 6, 7>>,
    <<8, 9, 1, 6, 1, 2, 3, 4, 5, 6, 7>>,
    <<Letter, AtSign, Letter, Dot, Letter, Letter>>}

\* What stands before them: the start of the text, another document and a
\* comma, or digits that could belong to them.
Contexts == {<<>>, <<7, 7, 0, 7, 0, 8, 3, 9, 5, 0, Comma>>, <<1, 1, 2, Space>>}

Plain(chars) == [Nothing EXCEPT !.chars = chars]

\* Documents behind a word or a label, in front of more text.
Sentences == {
    <<Letter, Space, 7, 7, 0, 7, 0, 8, 3, 8, 9, 3, Space, 1, 2, Comma>>,
    <<Inn, Space, 5, 0, 0, 1, 0, 0, 7, 3, 2, 2, 5, 9, CloseParen>>,
    <<Snils, Space, NumeroSign, Space, 1, 1, 2, 2, 3, 3, 4, 4, 5, 9, 5, Hyphen, 1>>,
    <<Letter, Hyphen, Space, 1, 1, 2, Hyphen, 2, 3, 3, Hyphen, 4, 4, 5, Space, 9, 5, Dot>>,
    <<1, 2, Space, 4, 5, 0, 7, Space, 1, 2, 3, 4, 5, 6, Comma, Space, 7, 8, 9>>,
    <<Passport, Space, 4, 5, Space, 0, 7, Space, 1, 2, 3, 4, 5, 6, Space, NumeroSign>>}

Documents == {Plain(Padded(c \o p)) : c \in Contexts, p \in Pieces} \cup {Plain(Padded(s)) : s \in Sentences}

-----------------------------------------------------------------------------
Tagged(type, i, j, normal) == [start |-> i, stop |-> j, type |-> type, normal |-> normal]
Match(i, j, fact) == [start |-> i, stop |-> j, fact |-> fact]

NerSpans ==
    {<<>>, <<Tagged("PER", 0, 2, 1)>>, <<Tagged("LOC", 0, 2, 2)>>,
     <<Tagged("PER", 0, 1, 1), Tagged("LOC", 1, 3, 2)>>, <<Tagged("ORG", 0, 2, 3), Tagged("LOC", 3, 4, 2)>>}

Addresses ==
    {<<>>, <<Match(0, 2, [country |-> 0, city |-> -4])>>,
     <<Match(1, 3, [region |-> -6]), Match(3, 4, [city |-> -7, house |-> -8])>>}

Dates == <<Match(2, 5, [day |-> 9, month |-> 5, year |-> 0])>>
Money == <<Match(0, 1, [amount |-> 11, currency |-> -10]), Match(4, 6, [amount |-> 0, currency |-> -10])>>

\* Two readings of the person at the start of the text, one of no person.
PersonNames ==
    <<Match(0, 2, [first |-> -1, last |-> -2, middle |-> 0]), Match(0, 2, [first |-> -3]),
      Match(3, 4, [last |-> -2])>>

Facts ==
    {[chars |-> OtherText(Length), ner |-> n, addresses |-> a, dates |-> Dates, money |-> Money,
      names |-> PersonNames] : n \in NerSpans, a \in Addresses}

\* Both: a date within a phone number, a person before it.
Mixed ==
    {[Plain(Padded(<<8, 9, 1, 6, 1, 2, 3, 4, 5, 6, 7>>)) EXCEPT
        !.dates = <<Match(1, 5, [day |-> 9, year |-> 16])>>, !.ner = <<Tagged("PER", i, i + 2, 1)>>] : i \in {0, 10}}

AllInputs == Documents \cup Facts \cup Mixed

=============================================================================
