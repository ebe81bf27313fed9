------------------------------ MODULE Extractors ------------------------------
(***************************************************************************)
(* The engine's extractors (engine/src/extractors): what each of them      *)
(* finds in a text.                                                        *)
(*                                                                         *)
(* A character is a number: a digit stands for itself, the negative ones   *)
(* are those the patterns tell apart; a word a pattern knows (a label) is  *)
(* one character.  A pattern is the sequence of its alternatives, in the   *)
(* order Python's re tries them: a group (?:A|B) or (?:A)? is written out. *)
(* What remains of each is a sequence of greedy repetitions of classes,    *)
(* whose neighbours have no character in common or a fixed length, so that *)
(* re never gives a character back.                                        *)
(*                                                                         *)
(* What the Natasha library finds is part of the input: spans with their   *)
(* types (`ner`), and matches with facts.  A fact is a function from its   *)
(* attributes to values: a positive one is a number, a negative one a text *)
(* (-n that of the number n), Falsy None, 0 or an empty string.            *)
(***************************************************************************)
EXTENDS Lists, SequencesExt

Digit == 0..9
Space == -1
Hyphen == -2
Comma == -3
OpenParen == -4
CloseParen == -5
PlusSign == -6
AtSign == -7
Dot == -8
Colon == -9
NumeroSign == -10
Letter == -11   \* a Latin one
Inn == -12
Snils == -13
Passport == -14
Series == -15
Number == -16
Underscore == -17
Other == -18    \* anything else, Cyrillic letters included
Char == -18..9

Many == 1000    \* bound: more repetitions than a text has characters
MaxLabels == 2  \* bound: repetitions of an email's (?:\.[a-zA-Z]{2,})+

-----------------------------------------------------------------------------
\* class{least,most}
Times(class, least, most) == [class |-> class, least |-> least, most |-> most]
One(char) == Times({char}, 1, 1)
Star(class) == Times(class, 0, Many)
Digits(n) == <<Times(Digit, n, n)>>

\* The alternatives of two groups that follow each other.
Then(ps, qs) ==
    [k \in 1..Len(ps) * Len(qs) |->
        ps[((k - 1) \div Len(qs)) + 1] \o qs[((k - 1) % Len(qs)) + 1]]

\* (?:word\s*[:№]?\s*)?
Labelled(word) ==
    <<<<One(word), Star({Space}), Times({Colon, NumeroSign}, 0, 1), Star({Space})>>, <<>>>>

\* word\s+
Word(word) == <<One(word), Times({Space}, 1, Many)>>

InnPattern == Then(Labelled(Inn), <<Digits(10), Digits(12)>>)

SnilsPattern ==
    LET gap == <<Times({Space, Hyphen}, 1, 1)>>
    IN  Then(Labelled(Snils),
             <<Digits(3) \o gap \o Digits(3) \o gap \o Digits(3) \o gap \o Digits(2), Digits(11)>>)

PassportPattern ==
    LET series == Digits(2) \o <<Times({Space, Hyphen}, 0, 1)>> \o Digits(2)
                    \o <<Star({Space, Hyphen, Comma})>>
        label  == <<Word(Passport), Word(Series), <<>>>>
        number == <<Word(Number), <<One(NumeroSign), Star({Space})>>, <<>>>>
    IN  Then(Then(Then(label, <<series>>), number), <<Digits(6)>>)

PhonePattern ==
    LET gap == <<Star({Space, Hyphen})>>
    IN  Then(<<<<One(PlusSign), One(7)>>, <<One(8)>>>>,
             << <<Star({Space, Hyphen, OpenParen})>> \o Digits(3)
                    \o <<Star({Space, Hyphen, CloseParen})>> \o Digits(3)
                    \o gap \o Digits(2) \o gap \o Digits(2)>>)

EmailPattern ==
    LET local  == Times(Digit \cup {Letter, Underscore, Dot, PlusSign, Hyphen}, 1, Many)
        domain == Times(Digit \cup {Letter, Hyphen}, 1, Many)
        label  == <<One(Dot), Times({Letter}, 2, Many)>>
    IN  [k \in 1..MaxLabels |->
            <<local, One(AtSign), domain>> \o FlattenSeq([i \in 1..MaxLabels + 1 - k |-> label])]

Pattern(x) ==
    CASE x = "inn"      -> InnPattern
      [] x = "snils"    -> SnilsPattern
      [] x = "passport" -> PassportPattern
      [] x = "phone"    -> PhonePattern
      [] x = "email"    -> EmailPattern

-----------------------------------------------------------------------------
NoMatch == -1

\* How many of the characters after position i a repetition takes.
Greedy(chars, i, item) ==
    LET most == IF item.most < Len(chars) - i THEN item.most ELSE Len(chars) - i
    IN  CHOOSE n \in 0..most :
            /\ \A k \in i + 1..i + n : chars[k] \in item.class
            /\ n < most => chars[i + n + 1] \notin item.class

\* Where an alternative that starts at position i ends.
StopOf(chars, items, i) ==
    LET at[k \in 0..Len(items)] ==
            IF k = 0 THEN i
            ELSE LET before == at[k - 1]
                     n == IF before = NoMatch THEN 0 ELSE Greedy(chars, before, items[k])
                 IN  IF before = NoMatch \/ n < items[k].least THEN NoMatch ELSE before + n
    IN  at[Len(items)]

\* Where the match at position i ends: the first alternative that matches.
MatchAt(chars, x, i) ==
    LET stop(k) == StopOf(chars, Pattern(x)[k], i)
        hits == {k \in DOMAIN Pattern(x) : stop(k) # NoMatch}
    IN  IF hits = {} THEN NoMatch ELSE stop(Min(hits))

\* re.finditer: matches from left to right, none inside another.
Finditer(chars, x) ==
    LET from[i \in 0..Len(chars)] ==
            IF i = Len(chars) THEN <<>>
            ELSE LET stop == MatchAt(chars, x, i)
                 IN  IF stop = NoMatch THEN from[i + 1]
                     ELSE <<[start |-> i, stop |-> stop]>> \o from[stop]
    IN  from[0]

-----------------------------------------------------------------------------
\* The digits of a match; no label has any.
DigitsOf(chars, m) == Among(SubSeq(chars, m.start + 1, m.stop), Digit)

\* sum(s)
Total(s) ==
    LET upto[k \in 0..Len(s)] == IF k = 0 THEN 0 ELSE upto[k - 1] + s[k]
    IN  upto[Len(s)]

\* sum(d * c for d, c in zip(digits, coefficients)) % 11 % 10
ControlDigit(d, coefficients) ==
    (Total([i \in DOMAIN coefficients |-> d[i] * coefficients[i]]) % 11) % 10

\* Slip: the check digit is taken from the wrong end.
Check10Reversed(d) == ControlDigit(d, <<2, 4, 10, 3, 5, 9, 4, 6, 8>>) = d[1]

Check10(d) == ControlDigit(d, <<2, 4, 10, 3, 5, 9, 4, 6, 8>>) = d[10]

Check12(d) ==
    /\ ControlDigit(d, <<7, 2, 4, 10, 3, 5, 9, 4, 6, 8>>) = d[11]
    /\ ControlDigit(d, <<3, 7, 2, 4, 10, 3, 5, 9, 4, 6, 8>>) = d[12]

\* int(d[from:to])
IntOf(d, from, to) ==
    LET upto[k \in from - 1..to] == IF k < from THEN 0 ELSE 10 * upto[k - 1] + d[k]
    IN  upto[to]

CheckSnils(d) ==
    LET rest == Total([i \in 1..9 |-> d[i] * (10 - i)]) % 101
    IN  IntOf(d, 10, 11) = IF rest \in {100, 101} THEN 0 ELSE rest

\* SNILS up to 001-001-998 are not checked.
ValidSnils(d) == IntOf(d, 1, 9) <= 1001998 \/ CheckSnils(d)

Valid(x, d) ==
    CASE x = "inn"   -> IF Len(d) = 10 THEN Check10(d) ELSE Check12(d)
      [] x = "snils" -> ValidSnils(d)
      [] OTHER       -> TRUE

\* What an extractor called x, which gives the entity's type, yields.  Every
\* confidence is 1.0.
Entity(x, m, normal, details) ==
    [start |-> m.start, stop |-> m.stop, confidence |-> 1,
     label |-> [source |-> x, normal |-> normal, details |-> Values(details)]]

\* The normal form without its punctuation: a phone's first digit (of +7 or 8)
\* is replaced by 7; an email is its characters in lower case.
Normalized(chars, x, m) ==
    CASE x = "email" -> SubSeq(chars, m.start + 1, m.stop)
      [] x = "phone" -> <<7>> \o SubSeq(DigitsOf(chars, m), 2, Len(DigitsOf(chars, m)))
      [] OTHER       -> DigitsOf(chars, m)

\* BaseRegexExtractor.extract: a match that validate refuses is left out, but
\* the search goes on behind it.  Its details are pieces of the normal form and
\* are left out.
FoundByRegex(chars, x) ==
    LET matches == Finditer(chars, x)
        good    == Among(matches, {m \in ToSet(matches) : Valid(x, DigitsOf(chars, m))})
    IN  [k \in DOMAIN good |-> Entity(x, good[k], Normalized(chars, x, good[k]), Empty)]

-----------------------------------------------------------------------------
Falsy == 0

\* {k: v for k, v in {...}.items() if v}
Details(fact, attributes) ==
    [a \in {b \in attributes \cap DOMAIN fact : fact[b] # Falsy} |-> fact[a]]

\* str(v): a text is its own.
Str(v) == IF v > 0 THEN -v ELSE v

\* The normal form: the values of details that are there, in this order; none
\* is None.  Dates and amounts take str() of each, addresses join them as they
\* are, which raises TypeError for anything but texts (DetectionAssumption).
Joined(x, details, order) ==
    LET there == Among(order, DOMAIN details)
    IN  [k \in DOMAIN there |->
            IF x = "location" THEN details[there[k]] ELSE Str(details[there[k]])]

DateParts == <<"day", "month", "year">>
MoneyParts == <<"amount", "currency">>
AddressParts == <<"country", "region", "city", "street", "house">>

\* Matches with facts, as entities.
FromFacts(x, matches, order) ==
    [k \in DOMAIN matches |->
        LET details == Details(matches[k].fact, ToSet(order))
        IN  Entity(x, matches[k], Joined(x, details, order), details)]

\* The spans of the tagger that have a type, with their normal forms; details
\* are {}.
FromSpans(x, ner, type) ==
    LET spans == Among(ner, {s \in ToSet(ner) : s.type = type})
    IN  [k \in DOMAIN spans |-> Entity(x, spans[k], <<spans[k].normal>>, Empty)]

\* Slip: addresses the tagger has found already are not left out.
EveryAddress(input) == input.addresses

\* The ends of the tagger's locations.
Located(input) ==
    {<<s.start, s.stop>> : s \in {r \in ToSet(input.ner) : r.type = "LOC"}}

\* Addresses whose span is not one of them.
NewAddresses(input) ==
    Among(input.addresses, {m \in ToSet(input.addresses) : <<m.start, m.stop>> \notin Located(input)})

\* The extractor called x, applied to the input.
Found(input, x) ==
    CASE x = "date"     -> FromFacts("date", input.dates, DateParts)
      [] x = "money"    -> FromFacts("money", input.money, MoneyParts)
      [] x = "person"   -> FromSpans("person", input.ner, "PER")
      [] x = "location" -> FromSpans("location", input.ner, "LOC")
                              \o FromFacts("location", NewAddresses(input), AddressParts)
      [] OTHER          -> FoundByRegex(input.chars, x)

\* The registry of this build, in the order the modules are imported.
Registered ==
    <<"date", "location", "money", "person", "email", "inn", "passport", "phone", "snils">>

=============================================================================
