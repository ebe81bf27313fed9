---------------------------- MODULE EngineClient ----------------------------
(***************************************************************************)
(* The proxy's client of the anonymization engine                          *)
(* (proxy/internal/client/client.go): Anonymize with its cache and its     *)
(* single-flight table, the clean-up loop, and SetBaseUrl.                 *)
(*                                                                         *)
(* Anonymize runs in the handlers of proxied requests, SetBaseUrl in the   *)
(* handler of a configuration update.  mu protects the inflight table and  *)
(* is held by SetBaseUrl throughout, but Anonymize reads baseUrl without   *)
(* it.  A Go string is two words, so that read is two steps here, and so   *)
(* is the write: a reader may see one word of each.                        *)
(*                                                                         *)
(* The engine and the network are external: `Replies` says how they may    *)
(* answer.  Texts are opaque; the anonymized form of text t by the engine  *)
(* at u is the record [from |-> u, of |-> t].                              *)
(***************************************************************************)
EXTENDS Naturals, FiniteSets

CONSTANTS
    Calls,        \* calls of Anonymize, by the handlers of different requests
    Texts,        \* the values to anonymize
    Urls,         \* engine_url values, trailing slashes trimmed
    InitUrl,      \* the one of the configuration file
    BadUrls,      \* those Validate accepts and NewRequest does not parse
    Foreign,      \* the address a torn string denotes
    Replies,      \* what the engine may do: "string", "object", "failure"
    MaxSwitches,  \* bound: calls of SetBaseUrl
    MaxExpiries,  \* bound: cache entries that outlive their ttl
    Blank,        \* the zero values ("", nil) of an inflightCall
    Failed,       \* an error
    Nobody        \* no call, no entry, no text

\* Anonymized texts, and what the cache holds of them.
Answers == [from : Urls \cup {Foreign}, of : Texts]
Entries == [value : Answers, fresh : BOOLEAN, late : BOOLEAN]

ASSUME ClientAssumption ==
    /\ InitUrl \in Urls
    /\ BadUrls \subseteq Urls
    /\ Foreign \notin Urls
    /\ Nobody \notin Calls \cup Texts
    /\ Nobody \notin Entries
    /\ Blank \notin Answers /\ Failed \notin Answers
    /\ Replies \subseteq {"string", "object", "failure"}
    /\ MaxSwitches \in Nat
    /\ MaxExpiries \in Nat

VARIABLES
    base,       \* baseUrl, a string header of two words
    setter,     \* where SetBaseUrl stands; it holds mu unless "idle"
    nextUrl,    \* its argument
    sweep,      \* keys its cache.Range has yet to visit
    cache,      \* the sync.Map
    inflight,   \* the table of calls in flight: the leader of each text
    expired,    \* the key cleanUpLoop has found expired, or Nobody
    pc,         \* where each call of Anonymize stands
    text,       \* its argument
    leader,     \* whose inflightCall it waits for
    seen,       \* the words of baseUrl it read
    outcome,    \* value and err of the inflightCall it allocated
    released,   \* wg.Done() of that inflightCall was called
    result,     \* what it returns
    late,       \* history: it read baseUrl before or while that changed
    switches, expiries

setting == <<base, setter, nextUrl, sweep, switches>>
flight == <<inflight, outcome, released>>
reading == <<seen, late>>
cleaning == <<expired, expiries>>
vars == <<setting, cache, flight, cleaning, pc, text, leader, reading, result>>

\* Stages between joining the table as a leader and leaving it.
Leading == {"data", "len", "build", "do", "store", "finish"}
Stages == {"new", "load", "evict", "enter", "wait", "release", "done"} \cup Leading

MuFree == setter = "idle"

-----------------------------------------------------------------------------
Init ==
    /\ base = [data |-> InitUrl, len |-> InitUrl]
    /\ setter = "idle"
    /\ nextUrl = InitUrl
    /\ sweep = {}
    /\ cache = [t \in Texts |-> Nobody]
    /\ inflight = [t \in Texts |-> Nobody]
    /\ expired = Nobody
    /\ pc = [c \in Calls |-> "new"]
    /\ text \in [Calls -> Texts]
    /\ leader = [c \in Calls |-> Nobody]
    /\ seen = [c \in Calls |-> [data |-> InitUrl, len |-> InitUrl]]
    /\ outcome = [c \in Calls |-> Blank]
    /\ released = [c \in Calls |-> FALSE]
    /\ result = [c \in Calls |-> Blank]
    /\ late = [c \in Calls |-> FALSE]
    /\ switches = 0
    /\ expiries = 0

Goto(c, s) == pc' = [pc EXCEPT ![c] = s]

Return(c, r) ==
    /\ Goto(c, "done")
    /\ result' = [result EXCEPT ![c] = r]

\* handleCatchAll calls Anonymize.
Call(c) ==
    /\ pc[c] = "new"
    /\ Goto(c, "load")
    /\ UNCHANGED <<setting, cache, flight, cleaning, text, leader, reading, result>>

\* cache.Load and the comparison with expiresAt.
Load(c) ==
    LET entry == cache[text[c]]
    IN  /\ pc[c] = "load"
        /\ \/ /\ entry = Nobody
              /\ Goto(c, "enter")
              /\ UNCHANGED result
           \/ /\ entry # Nobody
              /\ IF entry.fresh THEN Return(c, entry.value)
                                ELSE Goto(c, "evict") /\ UNCHANGED result
        /\ UNCHANGED <<setting, cache, flight, cleaning, text, leader, reading>>

\* cache.Delete of the expired entry, or of one stored since.
Evict(c) ==
    /\ pc[c] = "evict"
    /\ cache' = [cache EXCEPT ![text[c]] = Nobody]
    /\ Goto(c, "enter")
    /\ UNCHANGED <<setting, flight, cleaning, text, leader, reading, result>>

\* Slip: the table has one entry for all texts.
AnyInFlight(t) ==
    IF \E u \in Texts : inflight[u] # Nobody
    THEN inflight[CHOOSE u \in Texts : inflight[u] # Nobody]
    ELSE Nobody

\* The call in flight that a call for text t joins.
InFlight(t) == inflight[t]

\* Under mu: join the call in flight for this text, or become its leader.
Enter(c) ==
    /\ pc[c] = "enter"
    /\ MuFree
    /\ \/ /\ InFlight(text[c]) # Nobody
          /\ leader' = [leader EXCEPT ![c] = InFlight(text[c])]
          /\ Goto(c, "wait")
          /\ UNCHANGED inflight
       \/ /\ InFlight(text[c]) = Nobody
          /\ leader' = [leader EXCEPT ![c] = c]
          /\ inflight' = [inflight EXCEPT ![text[c]] = c]
          /\ Goto(c, "data")
    /\ UNCHANGED <<setting, cache, outcome, released, cleaning, text, reading, result>>

\* A follower's wg.Wait() returns.
Awake(c) ==
    /\ pc[c] = "wait"
    /\ released[leader[c]]
    /\ Return(c, outcome[leader[c]])
    /\ UNCHANGED <<setting, cache, flight, cleaning, text, leader, reading>>

\* The two loads of ec.baseUrl, without mu.
ReadData(c) ==
    /\ pc[c] = "data"
    /\ seen' = [seen EXCEPT ![c].data = base.data]
    /\ late' = [late EXCEPT ![c] = ~MuFree]
    /\ Goto(c, "len")
    /\ UNCHANGED <<setting, cache, flight, cleaning, text, leader, result>>

ReadLen(c) ==
    /\ pc[c] = "len"
    /\ seen' = [seen EXCEPT ![c].len = base.len]
    /\ Goto(c, "build")
    /\ UNCHANGED <<setting, cache, flight, cleaning, text, leader, late, result>>

Torn(c) == seen[c].data # seen[c].len

\* Where the request of c goes.
Address(c) == IF Torn(c) THEN Foreign ELSE seen[c].data

\* http.NewRequestWithContext fails: the leader returns the error but leaves
\* call.err alone.
BuildFails(c) ==
    /\ pc[c] = "build"
    /\ Torn(c) \/ Address(c) \in BadUrls
    /\ result' = [result EXCEPT ![c] = Failed]
    /\ Goto(c, "finish")
    /\ UNCHANGED <<setting, cache, flight, cleaning, text, leader, reading>>

Build(c) ==
    /\ pc[c] = "build"
    /\ Address(c) \notin BadUrls
    /\ Goto(c, "do")
    /\ UNCHANGED <<setting, cache, flight, cleaning, text, leader, reading, result>>

\* Slip: an error path that returns without setting call.err.
NotRecorded(c) == outcome

\* call.err
Recorded(c) == [outcome EXCEPT ![c] = Failed]

\* Slip: a failure falls through to cache.Store.
StoreFailure(c) == Goto(c, "store")

\* The error paths return at once.
AfterFailure(c) == Goto(c, "finish")

\* Transport error, cancellation of the leader's own request, timeout, a
\* status other than 200, or a 200 whose JSON is not a string.
Fail(c) ==
    /\ pc[c] = "do"
    /\ Replies \cap {"object", "failure"} # {}
    /\ outcome' = Recorded(c)
    /\ result' = [result EXCEPT ![c] = Failed]
    /\ AfterFailure(c)
    /\ UNCHANGED <<setting, cache, inflight, released, cleaning, text, leader, reading>>

\* A 200 whose JSON is a string: decoded into call.value and the result.
Answer(c) ==
    LET a == [from |-> Address(c), of |-> text[c]]
    IN  /\ pc[c] = "do"
        /\ "string" \in Replies
        /\ result' = [result EXCEPT ![c] = a]
        /\ Goto(c, "store")
        /\ UNCHANGED <<setting, cache, flight, cleaning, text, leader, reading>>

\* cache.Store, and call.value for the followers.
Store(c) ==
    /\ pc[c] = "store"
    /\ cache' = [cache EXCEPT ![text[c]] =
                    [value |-> result[c], fresh |-> TRUE, late |-> late[c]]]
    /\ outcome' = [outcome EXCEPT ![c] = result[c]]
    /\ Goto(c, "finish")
    /\ UNCHANGED <<setting, inflight, released, cleaning, text, leader, reading, result>>

\* Slip: the entry is left in the table.
Stays(c) == inflight

\* delete(ec.inflight, text)
Removed(c) == [inflight EXCEPT ![text[c]] = Nobody]

\* The deferred function: leave the table under mu ...
Finish(c) ==
    /\ pc[c] = "finish"
    /\ MuFree
    /\ inflight' = Removed(c)
    /\ Goto(c, "release")
    /\ UNCHANGED <<setting, cache, outcome, released, cleaning, text, leader, reading, result>>

\* Slip: no wg.Done() when the call failed.
DoneOnSuccess(c) == [released EXCEPT ![c] = result[c] # Failed]

\* call.wg.Done()
Done(c) == [released EXCEPT ![c] = TRUE]

\* ... then wake the followers.
Release(c) ==
    /\ pc[c] = "release"
    /\ released' = Done(c)
    /\ Goto(c, "done")
    /\ UNCHANGED <<setting, cache, inflight, outcome, cleaning, text, leader, reading, result>>

-----------------------------------------------------------------------------
\* An entry's ttl runs out.
Expire(t) ==
    /\ expiries < MaxExpiries
    /\ cache[t] # Nobody
    /\ cache[t].fresh
    /\ cache' = [cache EXCEPT ![t].fresh = FALSE]
    /\ expiries' = expiries + 1
    /\ UNCHANGED <<setting, flight, expired, pc, text, leader, reading, result>>

\* cleanUpLoop's Range meets an expired entry ...
FindExpired(t) ==
    /\ expired = Nobody
    /\ cache[t] # Nobody
    /\ ~cache[t].fresh
    /\ expired' = t
    /\ UNCHANGED <<setting, cache, flight, expiries, pc, text, leader, reading, result>>

\* ... and deletes whatever is stored under its key by then.
CleanUp ==
    /\ expired # Nobody
    /\ cache' = [cache EXCEPT ![expired] = Nobody]
    /\ expired' = Nobody
    /\ UNCHANGED <<setting, flight, expiries, pc, text, leader, reading, result>>

-----------------------------------------------------------------------------
\* SetBaseUrl, once it has mu.  Leaders that are reading baseUrl, or have
\* read it and not stored their answer yet, are late from now on.
SetLock(u) ==
    /\ setter = "idle"
    /\ switches < MaxSwitches
    /\ setter' = "data"
    /\ nextUrl' = u
    /\ switches' = switches + 1
    /\ late' = [c \in Calls |-> late[c] \/ pc[c] \in {"len", "build", "do", "store"}]
    /\ UNCHANGED <<base, sweep, cache, flight, cleaning, pc, text, leader, seen, result>>

SetData ==
    /\ setter = "data"
    /\ base' = [base EXCEPT !.data = nextUrl]
    /\ setter' = "len"
    /\ UNCHANGED <<nextUrl, sweep, switches, cache, flight, cleaning, pc, text, leader, reading, result>>

\* Slip: the cache survives the switch.
NoKeys == {}

\* What ec.cache.Range visits: it may meet or miss a key stored meanwhile,
\* which the order of the visits decides here.
AllKeys == Texts

SetLen ==
    /\ setter = "len"
    /\ base' = [base EXCEPT !.len = nextUrl]
    /\ setter' = "clear"
    /\ sweep' = AllKeys
    /\ UNCHANGED <<nextUrl, switches, cache, flight, cleaning, pc, text, leader, reading, result>>

SetClear(t) ==
    /\ setter = "clear"
    /\ t \in sweep
    /\ cache' = [cache EXCEPT ![t] = Nobody]
    /\ sweep' = sweep \ {t}
    /\ UNCHANGED <<base, setter, nextUrl, switches, flight, cleaning, pc, text, leader, reading, result>>

SetUnlock ==
    /\ setter = "clear"
    /\ sweep = {}
    /\ setter' = "idle"
    /\ UNCHANGED <<base, nextUrl, sweep, switches, cache, flight, cleaning, pc, text, leader, reading, result>>

-----------------------------------------------------------------------------
Unlocked(c) ==
    \/ Load(c) \/ Evict(c) \/ Awake(c) \/ ReadData(c) \/ ReadLen(c)
    \/ BuildFails(c) \/ Build(c) \/ Fail(c) \/ Answer(c) \/ Store(c) \/ Release(c)

Setting == SetData \/ SetLen \/ (\E t \in Texts : SetClear(t)) \/ SetUnlock

Next ==
    \/ \E c \in Calls : Call(c) \/ Unlocked(c) \/ Enter(c) \/ Finish(c)
    \/ \E t \in Texts : Expire(t) \/ FindExpired(t)
    \/ CleanUp
    \/ \E u \in Urls : SetLock(u)
    \/ Setting

Spec == Init /\ [][Next]_vars

\* Goroutines are scheduled, the HTTP client gives up after 30 s, and
\* sync.Mutex starves nobody.  Clean-up and expiry need not happen.
FairSpec ==
    /\ Spec
    /\ WF_vars(Setting)
    /\ \A c \in Calls :
          WF_vars(Unlocked(c)) /\ SF_vars(Enter(c)) /\ SF_vars(Finish(c))

-----------------------------------------------------------------------------
\* The type of the client's state.
TypeOK ==
    /\ base \in [data : Urls, len : Urls]
    /\ setter \in {"idle", "data", "len", "clear"}
    /\ nextUrl \in Urls
    /\ sweep \subseteq Texts
    /\ cache \in [Texts -> Entries \cup {Nobody}]
    /\ inflight \in [Texts -> Calls \cup {Nobody}]
    /\ expired \in Texts \cup {Nobody}
    /\ pc \in [Calls -> Stages]
    /\ text \in [Calls -> Texts]
    /\ leader \in [Calls -> Calls \cup {Nobody}]
    /\ seen \in [Calls -> [data : Urls, len : Urls]]
    /\ outcome \in [Calls -> Answers \cup {Blank, Failed}]
    /\ released \in [Calls -> BOOLEAN]
    /\ result \in [Calls -> Answers \cup {Blank, Failed}]
    /\ late \in [Calls -> BOOLEAN]
    /\ switches \in Nat
    /\ expiries \in Nat

\* Single flight: the table holds exactly the calls that are under way to the
\* engine, so two of them never ask it about the same text at once, and none
\* leaves its entry behind, whichever path it returns by.
SingleFlight ==
    \A c \in Calls : pc[c] \in Leading <=> inflight[text[c]] = c

\* Nobody gets the anonymized form of somebody else's text, from the engine,
\* from the cache or from the call it joined.
OwnText ==
    /\ \A c \in Calls : result[c] \in Answers => result[c].of = text[c]
    /\ \A t \in Texts : cache[t] # Nobody => cache[t].value.of = t

\* While no SetBaseUrl is running, a cached answer comes from the engine
\* configured now, unless the call that stored it overlapped a switch: the
\* sweep under mu, and the order of write and sweep, leave no other.
CachedFromBase ==
    setter = "idle" =>
        \A t \in Texts : cache[t] # Nobody /\ ~cache[t].late =>
            /\ cache[t].value.from = base.data
            /\ base.data = base.len

\* A follower returns what its leader returns, except when the leader could
\* not even build the request.
FollowersAgree ==
    \A c \in Calls : pc[c] = "done" /\ leader[c] \notin {Nobody, c} =>
        LET l == leader[c]
        IN  \/ result[c] = result[l]
            \/ result[c] = Blank /\ (Torn(l) \/ Address(l) \in BadUrls)

\* Every call of Anonymize returns: a follower is always woken.
EveryCallReturns == \A c \in Calls : pc[c] = "load" ~> pc[c] = "done"

\* What the service documentation says of the request flow: what Anonymize
\* returns without an error has been through the engine.
SuccessIsAnAnswer ==
    \A c \in Calls : pc[c] = "done" /\ result[c] # Failed => result[c] \in Answers

=============================================================================
