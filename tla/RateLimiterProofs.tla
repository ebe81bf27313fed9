------------------------- MODULE RateLimiterProofs -------------------------
(***************************************************************************)
(* What holds of the rate limiter for any number of requests and keys, any *)
(* rate, burst and cost, and a clean-up at any time.  The argument weighs  *)
(* each key: what it was granted and what its bucket still holds are       *)
(* together never more than a full bucket, and never less.                 *)
(***************************************************************************)
EXTENDS RateLimiter, TLAPS

\* The bucket b has been made.
Made(b) == bucket[b] = b

\* Buckets are made before they are used, and serve one key.
OneKey ==
    /\ \A k \in Keys : buckets[k] # None => Made(buckets[k]) /\ key[buckets[k]] = k
    /\ \A r \in Requests :
          /\ pc[r] \in {"new", "create"} <=> bucket[r] = None
          /\ bucket[r] # None => Made(bucket[r]) /\ key[bucket[r]] = key[r]

\* What the next request of a key that looks its bucket up can count on: a
\* bucket that is missing, or about to be, is as good as a full one.
Gone(k) == buckets[k] = None \/ (cleaner = "delete" /\ victim = k)
Level(k) == IF Gone(k) THEN Burst ELSE Refilled(buckets[k])

\* Never more ...
NotOver == \A k \in Keys : load[k] + Level(k) <= Burst + Cost * loose[k]

\* ... and never less, whichever bucket of the key is asked.
NotUnder == \A b \in Requests : Made(b) => load[key[b]] + Refilled(b) >= Burst

IInv == TypeOK /\ OneKey /\ NotOver /\ NotUnder

-----------------------------------------------------------------------------
\* What time does to a product with the rate.
LEMMA RateFacts ==
    ASSUME NEW a \in Nat
    PROVE  /\ a * Rate \in Nat
           /\ (a + 1) * Rate = a * Rate + Rate
           /\ a >= TTL => a * Rate >= Burst
<1> USE RateAssumption
<1>1. a * Rate \in Nat
    OBVIOUS
<1>2. (a + 1) * Rate = a * Rate + Rate
    OBVIOUS
<1>3. ASSUME a >= TTL  PROVE a * Rate >= Burst
    <2>1. (a - TTL) * Rate >= 0
        BY <1>3
    <2>2. a * Rate = (a - TTL) * Rate + TTL * Rate
        OBVIOUS
    <2>3. /\ (a - TTL) * Rate \in Int
          /\ TTL * Rate \in Int
        OBVIOUS
    <2>4. QED  BY <2>1, <2>2, <2>3
<1>4. QED  BY <1>1, <1>2, <1>3

\* A refilled bucket holds at least what it held and at most Burst; it is full
\* after the time to live.
LEMMA RefilledFacts ==
    ASSUME TypeOK, NEW b \in Requests
    PROVE  /\ Refilled(b) \in 0..Burst
           /\ Refilled(b) >= tokens[b]
           /\ now - lastUpdate[b] >= TTL => Refilled(b) = Burst
           /\ lastUpdate[b] = now => Refilled(b) = tokens[b]
<1> DEFINE gain == (now - lastUpdate[b]) * Rate
<1>1. /\ tokens[b] \in 0..Burst
      /\ now - lastUpdate[b] \in Nat
      /\ Burst \in Nat
    BY RateAssumption DEF TypeOK
<1>2. /\ gain \in Nat
      /\ now - lastUpdate[b] >= TTL => gain >= Burst
    BY <1>1, RateFacts
<1>3. lastUpdate[b] = now => gain = 0
    BY RateAssumption DEF TypeOK
<1>4. Refilled(b) = IF Burst <= tokens[b] + gain THEN Burst ELSE tokens[b] + gain
    BY DEF Refilled, Smaller
<1> HIDE DEF gain
<1>5. QED  BY <1>1, <1>2, <1>3, <1>4

LEMMA LevelFacts ==
    ASSUME TypeOK, NEW k \in Keys
    PROVE  Level(k) \in 0..Burst
<1>1. CASE Gone(k)
    BY <1>1, RateAssumption DEF Level
<1>2. CASE ~Gone(k)
    <2>1. buckets[k] \in Requests
        BY <1>2 DEF Gone, TypeOK
    <2>2. QED  BY <1>2, <2>1, RefilledFacts DEF Level
<1>3. QED  BY <1>1, <1>2

-----------------------------------------------------------------------------
LEMMA InitIInv == Init => IInv
<1> SUFFICES ASSUME Init PROVE IInv
    OBVIOUS
<1> USE RateAssumption
<1>1. TypeOK
    BY DEF Init, TypeOK
<1>2. OneKey
    BY DEF Init, OneKey, Made
<1>3. NotOver
    BY DEF Init, NotOver, Level, Gone
<1>4. NotUnder
    BY DEF Init, NotUnder, Made
<1>5. QED  BY <1>1, <1>2, <1>3, <1>4 DEF IInv

\* Every step keeps the types.
LEMMA TypeStep ==
    ASSUME TypeOK, OneKey, [Next]_vars
    PROVE  TypeOK'
<1> USE RateAssumption DEF TypeOK, table, calls, cleanUp, history, Goto
<1>1. CASE Tick
    <2>1. now' \in 0..MaxTime /\ now <= now'
        BY <1>1 DEF Tick
    <2>2. lastUpdate' \in [Requests -> 0..now'] /\ seen' \in 0..now'
        BY <1>1, <2>1 DEF Tick
    <2>3. load' \in [Keys -> Nat]
        BY <1>1 DEF Tick
    <2>4. QED  BY <1>1, <2>1, <2>2, <2>3 DEF Tick
<1>2. ASSUME NEW r \in Requests, Lookup(r)  PROVE TypeOK'
    BY <1>2 DEF Lookup
<1>3. ASSUME NEW r \in Requests, Create(r)  PROVE TypeOK'
    BY <1>3 DEF Create, StillAbsent
<1>4. ASSUME NEW r \in Requests, Take(r)  PROVE TypeOK'
    <2>1. bucket[r] \in Requests
        BY <1>4 DEF Take, OneKey
    <2>2. Refilled(bucket[r]) \in 0..Burst
        BY <2>1, RefilledFacts
    <2>3. tokens' \in [Requests -> 0..Burst]
        BY <1>4, <2>1, <2>2 DEF Take
    <2>4. QED  BY <1>4, <2>3 DEF Take
<1>5. CASE Wake \/ Sweep \/ Delete \/ EndSweep
    BY <1>5 DEF Wake, Sweep, Delete, EndSweep
<1>6. ASSUME NEW k \in Keys, Judge(k)  PROVE TypeOK'
    BY <1>6 DEF Judge
<1>7. CASE UNCHANGED vars
    BY <1>7 DEF vars
<1>8. QED  BY <1>1, <1>2, <1>3, <1>4, <1>5, <1>6, <1>7 DEF Next

\* A bucket serves the key it was made for.
LEMMA OneKeyStep ==
    ASSUME TypeOK, OneKey, [Next]_vars
    PROVE  OneKey'
<1> USE RateAssumption DEF TypeOK, OneKey, Made, table, calls, cleanUp, history, Goto
<1>1. ASSUME NEW r \in Requests, Lookup(r)  PROVE OneKey'
    BY <1>1 DEF Lookup
<1>2. ASSUME NEW r \in Requests, Create(r)  PROVE OneKey'
    BY <1>2 DEF Create, StillAbsent
<1>3. ASSUME NEW r \in Requests, Take(r)  PROVE OneKey'
    BY <1>3 DEF Take
<1>4. ASSUME NEW k \in Keys, Judge(k)  PROVE OneKey'
    BY <1>4 DEF Judge
<1>5. CASE Delete
    BY <1>5 DEF Delete
<1>6. CASE Tick \/ Wake \/ Sweep \/ EndSweep \/ UNCHANGED vars
    BY <1>6 DEF Tick, Wake, Sweep, EndSweep, vars
<1>7. QED  BY <1>1, <1>2, <1>3, <1>4, <1>5, <1>6 DEF Next

-----------------------------------------------------------------------------
\* What a tick adds to a bucket it takes off the load, unless either is at its
\* bound.
LEMMA TickRefills ==
    ASSUME TypeOK, Tick, NEW b \in Requests
    PROVE  /\ Refilled(b)' <= Refilled(b) + Rate
           /\ Refilled(b)' = Burst \/ Refilled(b)' = Refilled(b) + Rate
<1> DEFINE gain == (now - lastUpdate[b]) * Rate
<1>1. /\ tokens[b] \in Nat /\ Burst \in Nat /\ Rate \in Nat
      /\ now - lastUpdate[b] \in Nat
    BY RateAssumption DEF TypeOK
<1>2. gain \in Nat /\ ((now - lastUpdate[b]) + 1) * Rate = gain + Rate
    BY <1>1, RateFacts
<1>3. now' - lastUpdate'[b] = (now - lastUpdate[b]) + 1 /\ tokens' = tokens
    BY DEF Tick, table, TypeOK
<1>4. Refilled(b) = IF Burst <= tokens[b] + gain THEN Burst ELSE tokens[b] + gain
    BY DEF Refilled, Smaller
<1>5. Refilled(b)' = IF Burst <= tokens[b] + (gain + Rate) THEN Burst ELSE tokens[b] + (gain + Rate)
    BY <1>2, <1>3 DEF Refilled, Smaller
<1> HIDE DEF gain
<1>6. QED  BY <1>1, <1>2, <1>4, <1>5

\* Nothing of b is touched.
LEMMA SameRefill ==
    ASSUME NEW b, UNCHANGED <<now, tokens[b], lastUpdate[b]>>
    PROVE  Refilled(b)' = Refilled(b)
BY DEF Refilled, Smaller

\* Taking spends what it grants and changes no other bucket.
LEMMA TakeRefills ==
    ASSUME TypeOK, OneKey, NEW r \in Requests, Take(r)
    PROVE  LET b == bucket[r] IN
           /\ b \in Requests /\ Made(b) /\ key[b] = key[r]
           /\ Refilled(b)' = IF Refilled(b) >= Cost THEN Refilled(b) - Cost ELSE Refilled(b)
           /\ \A c \in Requests \ {b} : Refilled(c)' = Refilled(c)
<1> DEFINE b == bucket[r]
<1>1. b \in Requests /\ Made(b) /\ key[b] = key[r]
    BY DEF Take, OneKey, TypeOK
<1>2. /\ tokens'[b] = IF Refilled(b) >= Cost THEN Refilled(b) - Cost ELSE Refilled(b)
      /\ lastUpdate'[b] = now' /\ now' = now
      /\ \A c \in Requests \ {b} : tokens'[c] = tokens[c] /\ lastUpdate'[c] = lastUpdate[c]
    BY <1>1 DEF Take, TypeOK
<1>3. TypeOK'
    BY TypeStep DEF Next
<1>4. Refilled(b)' = tokens'[b]
    <2>1. (now' - lastUpdate'[b]) * Rate = 0
        BY <1>1, <1>2, RateAssumption DEF TypeOK
    <2>2. tokens'[b] <= Burst
        BY <1>1, <1>3 DEF TypeOK
    <2>3. tokens'[b] \in Nat /\ Burst \in Nat
        BY <1>1, <1>3, RateAssumption DEF TypeOK
    <2>4. Refilled(b)' = Smaller(Burst, tokens'[b] + 0)
        BY <1>1, <1>2, <2>1 DEF Refilled, Take
    <2>5. QED  BY <2>2, <2>3, <2>4 DEF Smaller
<1>5. \A c \in Requests \ {b} : Refilled(c)' = Refilled(c)
    BY <1>2 DEF Refilled, Smaller
<1>6. QED  BY <1>1, <1>2, <1>4, <1>5

-----------------------------------------------------------------------------
LEMMA NotOverStep ==
    ASSUME TypeOK, OneKey, NotOver, [Next]_vars
    PROVE  NotOver'
<1> USE RateAssumption
<1>1. TypeOK'
    BY TypeStep
<1> SUFFICES ASSUME NEW k \in Keys
             PROVE  load'[k] + Level(k)' <= Burst + Cost * loose'[k]
    BY DEF NotOver
<1>a. Level(k)' \in 0..Burst
    <2>1. CASE Gone(k)'
        BY <2>1 DEF Level, Gone
    <2>2. CASE ~Gone(k)'
        <3> DEFINE c == buckets'[k]
        <3>1. c \in Requests
            BY <1>1, <2>2 DEF Gone, TypeOK
        <3>2. tokens'[c] \in Nat /\ now' - lastUpdate'[c] \in Nat
            BY <1>1, <3>1 DEF TypeOK
        <3>3. (now' - lastUpdate'[c]) * Rate \in Nat
            BY <3>2, RateFacts
        <3>4. Level(k)' = Smaller(Burst, tokens'[c] + (now' - lastUpdate'[c]) * Rate)
            BY <2>2 DEF Level, Gone, Refilled
        <3>5. QED  BY <3>2, <3>3, <3>4 DEF Smaller
    <2>3. QED  BY <2>1, <2>2
<1>2. /\ load[k] \in Nat /\ Level(k) \in 0..Burst /\ Cost * loose[k] \in Nat
      /\ Level(k)' \in 0..Burst
      /\ load[k] + Level(k) <= Burst + Cost * loose[k]
    BY <1>a, LevelFacts DEF TypeOK, NotOver
<1>3. CASE Tick
    <2>1. /\ load'[k] = IF load[k] <= Rate THEN 0 ELSE load[k] - Rate
          /\ loose' = loose
        BY <1>3 DEF Tick
    <2>2. Gone(k)' <=> Gone(k)
        BY <1>3 DEF Tick, Gone, table, cleanUp
    <2>3. CASE Gone(k)
        BY <1>2, <2>1, <2>2, <2>3 DEF Level
    <2>4. CASE ~Gone(k)
        <3>1. buckets[k] \in Requests /\ buckets' = buckets
            BY <1>3, <2>4 DEF Gone, TypeOK, Tick, table
        <3>2. Level(k)' <= Level(k) + Rate
            BY <1>3, <2>2, <2>4, <3>1, TickRefills DEF Level
        <3>3. QED  BY <1>2, <2>1, <3>2
    <2>5. QED  BY <2>3, <2>4
<1>4. ASSUME NEW r \in Requests, Create(r)  PROVE load'[k] + Level(k)' <= Burst + Cost * loose'[k]
    <2>1. load' = load /\ loose' = loose /\ cleaner' = cleaner /\ cleaner # "delete" /\ now' = now
        BY <1>4 DEF Create, history, cleanUp, Locked
    <2>2. CASE buckets'[k] = buckets[k]
        <3>1. ASSUME buckets[k] # None
              PROVE  Refilled(buckets[k])' = Refilled(buckets[k])
            <4>1. buckets[k] # r /\ buckets[k] \in Requests
                BY <1>4, <3>1 DEF Create, OneKey, Made, TypeOK
            <4>2. tokens'[buckets[k]] = tokens[buckets[k]] /\ lastUpdate'[buckets[k]] = lastUpdate[buckets[k]]
                BY <1>4, <4>1 DEF Create, table, TypeOK
            <4>3. QED  BY <2>1, <2>2, <4>2 DEF Refilled, Smaller
        <3>2. Level(k)' = Level(k)
            BY <2>1, <2>2, <3>1 DEF Level, Gone
        <3>3. QED  BY <1>2, <2>1, <3>2
    <2>3. CASE buckets'[k] # buckets[k]
        <3>1. buckets[k] = None
            BY <1>4, <2>3 DEF Create, StillAbsent, table, TypeOK
        <3>2. Level(k) = Burst
            BY <3>1 DEF Level, Gone
        <3>3. QED  BY <1>2, <2>1, <3>2
    <2>4. QED  BY <2>2, <2>3
<1>5. ASSUME NEW r \in Requests, Take(r)  PROVE load'[k] + Level(k)' <= Burst + Cost * loose'[k]
    <2> DEFINE b == bucket[r]
    <2>1. /\ b \in Requests /\ Made(b) /\ key[b] = key[r]
          /\ Refilled(b)' = IF Refilled(b) >= Cost THEN Refilled(b) - Cost ELSE Refilled(b)
          /\ \A c \in Requests \ {b} : Refilled(c)' = Refilled(c)
        BY <1>5, TakeRefills
    <2>2. Gone(k)' <=> Gone(k)
        BY <1>5 DEF Take, Gone, cleanUp
    <2>3. buckets' = buckets /\ bucket' = bucket
        BY <1>5 DEF Take
    <2>4. CASE key[r] # k
        <3>1. load'[k] = load[k] /\ loose'[k] = loose[k]
            BY <1>5, <2>4 DEF Take, history, TypeOK
        <3>2. ~Gone(k) => buckets[k] \in Requests \ {b}
            BY <2>1, <2>4 DEF Gone, OneKey, TypeOK
        <3>3. Level(k)' = Level(k)
            BY <2>1, <2>2, <2>3, <3>2 DEF Level
        <3>4. QED  BY <1>2, <3>1, <3>3
    <2>5. CASE key[r] = k /\ Refilled(b) < Cost
        <3>1. load'[k] = load[k] /\ loose'[k] = loose[k]
            BY <1>5, <2>1, <2>5, RefilledFacts DEF Take, history
        <3>2. ~Gone(k) => Refilled(buckets[k])' = Refilled(buckets[k])
            BY <2>1, <2>3, <2>5, RefilledFacts DEF Gone, TypeOK
        <3>3. Level(k)' = Level(k)
            BY <2>2, <2>3, <3>2 DEF Level
        <3>4. QED  BY <1>2, <3>1, <3>3
    <2>6. CASE key[r] = k /\ Refilled(b) >= Cost /\ Swept(k, b)
        <3>1. load'[k] = load[k] + Cost /\ loose'[k] = loose[k] + 1
            BY <1>5, <2>6 DEF Take, TypeOK
        <3>2. ~Gone(k) => buckets[k] \in Requests \ {b}
            BY <2>6 DEF Gone, Swept, TypeOK
        <3>3. Level(k)' = Level(k)
            BY <2>1, <2>2, <2>3, <3>2 DEF Level
        <3>4. Cost * (loose[k] + 1) = Cost * loose[k] + Cost
            BY DEF TypeOK
        <3>5. QED  BY <1>2, <3>1, <3>3, <3>4
    <2>7. CASE key[r] = k /\ Refilled(b) >= Cost /\ ~Swept(k, b)
        <3>1. load'[k] = load[k] + Cost /\ loose'[k] = loose[k]
            BY <1>5, <2>7 DEF Take, TypeOK
        <3>2. buckets[k] = b /\ ~Gone(k)
            BY <2>1, <2>7 DEF Swept, Gone
        <3>3. Level(k)' = Level(k) - Cost
            BY <2>1, <2>2, <2>3, <2>7, <3>2 DEF Level
        <3>4. QED  BY <1>2, <3>1, <3>3
    <2>8. QED
        BY <2>1, <2>4, <2>5, <2>6, <2>7, RefilledFacts
<1>6. ASSUME NEW j \in Keys, Judge(j)  PROVE load'[k] + Level(k)' <= Burst + Cost * loose'[k]
    <2>1. load' = load /\ loose' = loose /\ buckets' = buckets /\ cleaner = "sweep"
          /\ tokens' = tokens /\ lastUpdate' = lastUpdate /\ now' = now
        BY <1>6 DEF Judge, history, table
    <2>2. CASE Gone(k)' /\ ~Gone(k)
        <3>1. k = j /\ Expired(buckets[j]) /\ buckets[k] \in Requests
            BY <1>6, <2>1, <2>2 DEF Judge, Gone, TypeOK
        <3>2. now - lastUpdate[buckets[k]] >= TTL
            BY <3>1 DEF Expired, TypeOK
        <3>3. Level(k) = Burst
            BY <2>2, <3>1, <3>2, RefilledFacts DEF Level
        <3>4. QED  BY <1>2, <2>1, <3>3
    <2>3. CASE ~(Gone(k)' /\ ~Gone(k))
        <3>1. Gone(k)' <=> Gone(k)
            BY <2>1, <2>3 DEF Gone
        <3>2. Level(k)' = Level(k)
            BY <2>1, <3>1 DEF Level, Refilled, Smaller
        <3>3. QED  BY <1>2, <2>1, <3>2
    <2>4. QED  BY <2>2, <2>3
<1>7. CASE Delete
    <2>1. load' = load /\ loose' = loose /\ tokens' = tokens /\ lastUpdate' = lastUpdate /\ now' = now
          /\ cleaner = "delete" /\ cleaner' = "sweep"
        BY <1>7 DEF Delete, history
    <2>2. k # victim => buckets'[k] = buckets[k]
        BY <1>7 DEF Delete, TypeOK
    <2>3. k = victim => buckets'[k] = None
        BY <1>7 DEF Delete, TypeOK
    <2>4. Gone(k)' <=> Gone(k)
        BY <2>1, <2>2, <2>3 DEF Gone
    <2>5. ~Gone(k) => buckets'[k] = buckets[k]
        BY <2>1, <2>2 DEF Gone
    <2>6. Level(k)' = Level(k)
        BY <2>1, <2>4, <2>5 DEF Level, Refilled, Smaller
    <2>7. QED  BY <1>2, <2>1, <2>6
<1>8. CASE (\E r \in Requests : Lookup(r)) \/ Wake \/ Sweep \/ EndSweep \/ UNCHANGED vars
    <2>1. /\ load' = load /\ loose' = loose /\ buckets' = buckets /\ victim' = victim
          /\ tokens' = tokens /\ lastUpdate' = lastUpdate /\ now' = now
          /\ cleaner' = "delete" <=> cleaner = "delete"
        BY <1>8 DEF Lookup, Wake, Sweep, EndSweep, vars, table, cleanUp, history
    <2>2. Level(k)' = Level(k)
        BY <2>1 DEF Level, Gone, Refilled, Smaller
    <2>3. QED  BY <1>2, <2>1, <2>2
<1>9. QED  BY <1>3, <1>4, <1>5, <1>6, <1>7, <1>8 DEF Next

LEMMA NotUnderStep ==
    ASSUME TypeOK, OneKey, NotUnder, [Next]_vars
    PROVE  NotUnder'
<1> USE RateAssumption
<1> SUFFICES ASSUME NEW b \in Requests, Made(b)'
             PROVE  load'[key'[b]] + Refilled(b)' >= Burst
    BY DEF NotUnder
<1> DEFINE k == key[b]
<1>1. key' = key /\ k \in Keys /\ load[k] \in Nat
    BY DEF Next, Tick, Lookup, Create, Take, Wake, Sweep, Judge, Delete, EndSweep, vars, calls, TypeOK
<1>2. Refilled(b) \in 0..Burst
    BY RefilledFacts
<1>3. CASE Tick
    <2>1. load[k] + Refilled(b) >= Burst
        BY <1>3 DEF NotUnder, Made, Tick, calls
    <2>2. load'[k] = IF load[k] <= Rate THEN 0 ELSE load[k] - Rate
        BY <1>1, <1>3 DEF Tick
    <2>3. QED  BY <1>1, <1>2, <1>3, <2>1, <2>2, TickRefills
<1>4. ASSUME NEW r \in Requests, Create(r)  PROVE load'[k] + Refilled(b)' >= Burst
    <2>1. load' = load /\ now' = now
        BY <1>4 DEF Create, history
    <2>2. CASE b = r
        <3>1. buckets'[key[r]] = r /\ tokens'[r] = Burst /\ lastUpdate'[r] = now'
            BY <1>4, <2>1, <2>2 DEF Made, Create, StillAbsent, OneKey, TypeOK, table
        <3>2. (now' - lastUpdate'[r]) * Rate = 0
            BY <3>1, <2>1 DEF TypeOK
        <3>3. Refilled(b)' = Burst
            BY <2>2, <3>1, <3>2 DEF Refilled, Smaller
        <3>4. QED  BY <1>1, <2>1, <3>3
    <2>3. CASE b # r
        <3>1. Made(b)
            BY <1>4, <2>3 DEF Made, Create, TypeOK
        <3>2. tokens'[b] = tokens[b] /\ lastUpdate'[b] = lastUpdate[b]
            BY <1>4, <2>3 DEF Create, table, TypeOK
        <3>3. QED  BY <2>1, <3>1, <3>2, SameRefill DEF NotUnder
    <2>4. QED  BY <2>2, <2>3
<1>5. ASSUME NEW r \in Requests, Take(r)  PROVE load'[k] + Refilled(b)' >= Burst
    <2>1. load[k] + Refilled(b) >= Burst
        BY <1>5 DEF Take, Made, NotUnder
    <2>2. /\ bucket[r] \in Requests /\ key[bucket[r]] = key[r]
          /\ Refilled(bucket[r])' = IF Refilled(bucket[r]) >= Cost THEN Refilled(bucket[r]) - Cost
                                    ELSE Refilled(bucket[r])
          /\ \A c \in Requests \ {bucket[r]} : Refilled(c)' = Refilled(c)
        BY <1>5, TakeRefills
    <2>3. /\ load'[k] >= load[k]
          /\ key[r] = k /\ Refilled(bucket[r]) >= Cost => load'[k] = load[k] + Cost
          /\ load'[k] \in Nat /\ bucket' = bucket
        BY <1>1, <1>5 DEF Take, history, TypeOK
    <2>4. QED  BY <1>1, <1>2, <2>1, <2>2, <2>3
<1>6. ASSUME NEW r \in Requests, Lookup(r)  PROVE load'[k] + Refilled(b)' >= Burst
    <2>1. Made(b)
        BY <1>6 DEF Lookup, Made, OneKey, TypeOK
    <2>2. load' = load /\ now' = now /\ tokens' = tokens /\ lastUpdate' = lastUpdate
        BY <1>6 DEF Lookup, table, history
    <2>3. QED  BY <2>1, <2>2, SameRefill DEF NotUnder
<1>7. CASE Wake \/ Sweep \/ (\E j \in Keys : Judge(j)) \/ Delete \/ EndSweep \/ UNCHANGED vars
    <2>1. bucket' = bucket /\ load' = load /\ now' = now /\ tokens' = tokens /\ lastUpdate' = lastUpdate
        BY <1>7 DEF Wake, Sweep, Judge, Delete, EndSweep, vars, table, calls, history
    <2>2. QED  BY <2>1, <1>1, SameRefill DEF NotUnder, Made
<1>8. QED  BY <1>1, <1>3, <1>4, <1>5, <1>6, <1>7 DEF Next

-----------------------------------------------------------------------------
\* What all theorems rest on.
LEMMA Invariance == Spec => []IInv
<1>1. IInv /\ [Next]_vars => IInv'
    BY TypeStep, OneKeyStep, NotOverStep, NotUnderStep DEF IInv
<1>2. QED  BY InitIInv, <1>1, PTL DEF Spec

\* rateLimit.go: tokens stay between zero and the burst, and no bucket is
\* updated in the future.
THEOREM TypeCorrect == Spec => []TypeOK
<1>1. IInv => TypeOK
    BY DEF IInv
<1>2. QED  BY Invariance, <1>1, PTL

\* Allow never grants a key more than burst and rate give in any period, but
\* for requests whose bucket the clean-up sweeps while they hold it.
THEOREM NeverOver == Spec => []WithinRate
<1>1. IInv => WithinRate
    <2> SUFFICES ASSUME IInv, NEW k \in Keys
                 PROVE  load[k] <= Burst + Cost * loose[k]
        BY DEF WithinRate
    <2>1. /\ load[k] \in Nat /\ Level(k) \in 0..Burst /\ Burst \in Nat
          /\ Cost * loose[k] \in Nat
        BY RateAssumption, LevelFacts DEF IInv, TypeOK
    <2>2. load[k] + Level(k) <= Burst + Cost * loose[k]
        BY DEF IInv, NotOver
    <2>3. QED  BY <2>1, <2>2
<1>2. QED  BY Invariance, <1>1, PTL

\* Allow refuses a request only if granting it would have been too much.
THEOREM NeverUnder == Spec => RefusedWhenSpent
<1>1. IInv /\ [Next]_vars =>
          [\A r \in Requests : pc[r] = "take" /\ pc'[r] = "refused" => load[key[r]] + Cost > Burst]_vars
    <2> SUFFICES ASSUME IInv, Next, NEW r \in Requests, pc[r] = "take", pc'[r] = "refused"
                 PROVE  load[key[r]] + Cost > Burst
        OBVIOUS
    <2> USE DEF IInv
    <2>1. Take(r)
        BY DEF Next, Tick, Lookup, Create, Take, Wake, Sweep, Judge, Delete, EndSweep, calls, Goto, TypeOK
    <2>2. bucket[r] \in Requests /\ Made(bucket[r]) /\ key[bucket[r]] = key[r]
        BY <2>1, TakeRefills
    <2>3. Refilled(bucket[r]) < Cost
        BY <2>1, <2>2, RefilledFacts, RateAssumption DEF Take, Goto, TypeOK
    <2>4. load[key[r]] + Refilled(bucket[r]) >= Burst
        BY <2>2 DEF NotUnder
    <2>5. QED  BY <2>2, <2>3, <2>4, RefilledFacts, RateAssumption DEF TypeOK
<1>2. QED  BY Invariance, <1>1, PTL DEF Spec, RefusedWhenSpent

=============================================================================
