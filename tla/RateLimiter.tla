----------------------------- MODULE RateLimiter -----------------------------
(***************************************************************************)
(* The proxy's rate limiter (proxy/internal/middleware/rateLimit.go): one  *)
(* token bucket per client address, found or created by Allow under two    *)
(* locks, and a clean-up goroutine that deletes buckets nobody used for a  *)
(* while.                                                                  *)
(*                                                                         *)
(* Time is counted in ticks, tokens in fractions: a tick refills `Rate` of *)
(* them, a request costs `Cost`.  A bucket is named after the request that *)
(* made it.  rl.mu is held over several steps by the clean-up only; what   *)
(* Allow does under rl.mu or bucket.mu is one step.                        *)
(***************************************************************************)
EXTENDS Integers, FiniteSets

CONSTANTS
    Requests,
    Keys,      \* addresses they come from
    Rate,      \* refill in a tick
    Burst,     \* what a bucket holds
    Cost,      \* of a request
    TTL,       \* ticks an unused bucket is kept
    MaxTime,   \* bound: ticks
    None       \* no bucket

\* The time to live is long enough to fill a bucket (5 min, 3 s in the code).
ASSUME RateAssumption ==
    /\ Rate \in Nat \ {0} /\ Cost \in Nat \ {0} /\ TTL \in Nat \ {0}
    /\ Burst \in Nat /\ Burst >= Cost
    /\ TTL * Rate >= Burst
    /\ MaxTime \in Nat
    /\ None \notin Requests

VARIABLES
    now,
    buckets,     \* rl.buckets
    tokens,      \* of each bucket
    lastUpdate,  \* of each bucket
    pc,          \* where each request stands in Allow
    key,         \* its address
    bucket,      \* the bucket it holds
    cleaner,     \* where the clean-up stands
    seen,        \* the time it read
    todo,        \* the keys it has yet to look at
    victim,      \* the key it is about to delete
    load,        \* history: what a key was granted, drained at Rate (see WithinRate)
    loose        \* history: requests granted out of a bucket that was swept

table == <<buckets, tokens, lastUpdate>>
calls == <<pc, key, bucket>>
cleanUp == <<cleaner, seen, todo, victim>>
history == <<load, loose>>
vars == <<now, table, calls, cleanUp, history>>

Smaller(a, b) == IF a <= b THEN a ELSE b

-----------------------------------------------------------------------------
Init ==
    /\ now = 0
    /\ buckets = [k \in Keys |-> None]
    /\ tokens = [b \in Requests |-> 0]
    /\ lastUpdate = [b \in Requests |-> 0]
    /\ pc = [r \in Requests |-> "new"]
    /\ key \in [Requests -> Keys]
    /\ bucket = [r \in Requests |-> None]
    /\ cleaner = "asleep"
    /\ seen = 0
    /\ todo = {}
    /\ victim \in Keys
    /\ load = [k \in Keys |-> 0]
    /\ loose = [k \in Keys |-> 0]

\* Time passes; what was granted is forgotten at the rate.
Tick ==
    /\ now < MaxTime
    /\ now' = now + 1
    /\ load' = [k \in Keys |-> IF load[k] <= Rate THEN 0 ELSE load[k] - Rate]
    /\ UNCHANGED <<table, calls, cleanUp, loose>>

Goto(r, l) == pc' = [pc EXCEPT ![r] = l]

\* The clean-up holds rl.mu.
Locked == cleaner \in {"sweep", "delete"}

\* rl.mu.RLock; bucket, ok := rl.buckets[key]
Lookup(r) ==
    /\ pc[r] = "new"
    /\ ~Locked
    /\ bucket' = [bucket EXCEPT ![r] = buckets[key[r]]]
    /\ Goto(r, IF buckets[key[r]] = None THEN "create" ELSE "take")
    /\ UNCHANGED <<now, table, key, cleanUp, history>>

\* Slip: the map is not looked at again.
NotLookedAgain(k) == TRUE

\* bucket, ok = rl.buckets[key], now under rl.mu
StillAbsent(k) == buckets[k] = None

\* rl.mu.Lock: a new bucket is full.
Create(r) ==
    LET k == key[r]
    IN  /\ pc[r] = "create"
        /\ ~Locked
        /\ IF StillAbsent(k)
           THEN /\ buckets' = [buckets EXCEPT ![k] = r]
                /\ tokens' = [tokens EXCEPT ![r] = Burst]
                /\ lastUpdate' = [lastUpdate EXCEPT ![r] = now]
           ELSE UNCHANGED table
        /\ bucket' = [bucket EXCEPT ![r] = buckets'[k]]
        /\ Goto(r, "take")
        /\ UNCHANGED <<now, key, cleanUp, history>>

\* Slip: whole requests are refilled, the rest of the time is lost.
RefilledInWholes(b) == Smaller(Burst, tokens[b] + (((now - lastUpdate[b]) * Rate) \div Cost) * Cost)

\* Slip: nothing caps the tokens.
Uncapped(b) == tokens[b] + (now - lastUpdate[b]) * Rate

\* min(burst, tokens + elapsed*rate)
Refilled(b) == Smaller(Burst, tokens[b] + (now - lastUpdate[b]) * Rate)

\* The key's bucket is no longer b, or is about to be deleted.
Swept(k, b) == buckets[k] # b \/ (cleaner = "delete" /\ victim = k)

\* bucket.mu.Lock: refill, and take a token if there is one.
Take(r) ==
    LET k == key[r]
        b == bucket[r]
        allowed == Refilled(b) >= Cost
    IN  /\ pc[r] = "take"
        /\ tokens' = [tokens EXCEPT ![b] = IF allowed THEN Refilled(b) - Cost ELSE Refilled(b)]
        /\ lastUpdate' = [lastUpdate EXCEPT ![b] = now]
        /\ Goto(r, IF allowed THEN "allowed" ELSE "refused")
        /\ IF allowed
           THEN /\ load' = [load EXCEPT ![k] = @ + Cost]
                /\ loose' = [loose EXCEPT ![k] = IF Swept(k, b) THEN @ + 1 ELSE @]
           ELSE UNCHANGED history
        /\ UNCHANGED <<now, buckets, key, bucket, cleanUp>>

-----------------------------------------------------------------------------
\* The ticker fires; now := time.Now() before the lock.
Wake ==
    /\ cleaner = "asleep"
    /\ cleaner' = "lock"
    /\ seen' = now
    /\ UNCHANGED <<now, table, calls, todo, victim, history>>

\* rl.mu.Lock(); for key, bucket := range rl.buckets
Sweep ==
    /\ cleaner = "lock"
    /\ cleaner' = "sweep"
    /\ todo' = {k \in Keys : buckets[k] # None}
    /\ UNCHANGED <<now, table, calls, seen, victim, history>>

\* now.Sub(bucket.lastUpdate) >= rl.ttl
Expired(b) == seen - lastUpdate[b] >= TTL

\* The test, under bucket.mu, of the next bucket; the map's order is random.
Judge(k) ==
    /\ cleaner = "sweep"
    /\ k \in todo
    /\ todo' = todo \ {k}
    /\ IF Expired(buckets[k])
       THEN cleaner' = "delete" /\ victim' = k
       ELSE UNCHANGED <<cleaner, victim>>
    /\ UNCHANGED <<now, table, calls, seen, history>>

\* delete(rl.buckets, key), after bucket.mu was released
Delete ==
    /\ cleaner = "delete"
    /\ buckets' = [buckets EXCEPT ![victim] = None]
    /\ cleaner' = "sweep"
    /\ UNCHANGED <<now, tokens, lastUpdate, calls, seen, todo, victim, history>>

\* rl.mu.Unlock()
EndSweep ==
    /\ cleaner = "sweep"
    /\ todo = {}
    /\ cleaner' = "asleep"
    /\ UNCHANGED <<now, table, calls, seen, todo, victim, history>>

Next ==
    \/ Tick
    \/ \E r \in Requests : Lookup(r) \/ Create(r) \/ Take(r)
    \/ Wake \/ Sweep \/ (\E k \in Keys : Judge(k)) \/ Delete \/ EndSweep

Spec == Init /\ [][Next]_vars

-----------------------------------------------------------------------------
\* The type of the limiter's state.
TypeOK ==
    /\ now \in 0..MaxTime
    /\ buckets \in [Keys -> Requests \cup {None}]
    /\ tokens \in [Requests -> 0..Burst]
    /\ lastUpdate \in [Requests -> 0..now]
    /\ pc \in [Requests -> {"new", "create", "take", "allowed", "refused"}]
    /\ key \in [Requests -> Keys]
    /\ bucket \in [Requests -> Requests \cup {None}]
    /\ cleaner \in {"asleep", "lock", "sweep", "delete"}
    /\ seen \in 0..now
    /\ todo \subseteq Keys
    /\ victim \in Keys
    /\ load \in [Keys -> Nat]
    /\ loose \in [Keys -> Nat]

\* In any period a key is granted no more than a full bucket and what the rate
\* gives in that period, however requests and clean-up interleave; only
\* requests that had looked up a bucket before the clean-up swept it come on
\* top.  (load is the largest excess of what was granted in a period that
\* ends now over what the rate gives in it.)
WithinRate == \A k \in Keys : load[k] <= Burst + Cost * loose[k]

\* A request is refused only if granting it would have exceeded that limit:
\* nobody pays for other keys, for a race or for the clean-up.
RefusedWhenSpent ==
    [][\A r \in Requests :
          pc[r] = "take" /\ pc'[r] = "refused" => load[key[r]] + Cost > Burst]_vars

=============================================================================
