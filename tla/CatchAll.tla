------------------------------ MODULE CatchAll ------------------------------
(***************************************************************************)
(* The handler of proxied requests (proxy/internal/httpserver/server.go,   *)
(* handleCatchAll) with what it calls: routing/matcher.go, body/*.go and   *)
(* extract/*.go.  One request, from its arrival to its answer, while the   *)
(* configuration is replaced; the goroutines that evaluate its JSON paths. *)
(* Requests share nothing but the configuration, the engine client         *)
(* (EngineClient) and the upstream's workers (WorkerPool).                 *)
(*                                                                         *)
(* A JSON document is a tree: a function from nodes to what they hold.  A  *)
(* node is the sequence of keys that leads to it, a key a field or an      *)
(* index.  A JSON path is the sequence of segments ParsePath compiles.     *)
(***************************************************************************)
EXTENDS Integers, FiniteSets, Sequences

CONSTANTS
    Fields,      \* names of fields
    Index,       \* what strconv.Atoi makes of the names that are numbers
    Wildcard,    \* the segment [*]
    Wrong,       \* a part of a path that ParsePath refuses
    AnyHost,     \* a target without a host
    Requests,    \* host, path, method and body of a request
    Configs,     \* configurations at the start: sequences of targets
    Updates,     \* configurations that replace it
    MaxUpdates,  \* bound: replacements
    Unreadable,  \* a body whose connection breaks
    Malformed,   \* a body that is not an object, or longer than the limit
    Absent,      \* an empty body, or null
    Nothing      \* no target, no document

Kinds == {"object", "array", "string", "scalar", "big"}

IsIndex(k) == k \notin Fields \cup {Wildcard, Wrong}

\* The last key of a node, and the node that holds it.
Key(n) == n[Len(n)]
Holder(n) == SubSeq(n, 1, Len(n) - 1)
HolderKind(k) == IF IsIndex(k) THEN "array" ELSE "object"

\* What encoding/json makes of an object: finitely many nodes, each held by
\* an object or an array, the elements of an array numbered without a gap.
IsTree(b) ==
    /\ IsFiniteSet(DOMAIN b)
    /\ <<>> \in DOMAIN b /\ b[<<>>] = "object"
    /\ \A n \in DOMAIN b \ {<<>>} :
          /\ n \in Seq(Fields \cup Nat)
          /\ b[n] \in Kinds
          /\ Holder(n) \in DOMAIN b
          /\ b[Holder(n)] = HolderKind(Key(n))
          /\ IsIndex(Key(n)) => \A i \in 0..Key(n) : Append(Holder(n), i) \in DOMAIN b

Segments == Fields \cup {Wildcard, Wrong} \cup Int

ASSUME CatchAllAssumption ==
    /\ \A k \in Fields \cup {Wildcard, Wrong} : k \notin Int
    /\ Wildcard \notin Fields /\ Wrong \notin Fields /\ Wildcard # Wrong
    /\ \A f \in DOMAIN Index : f \in Fields /\ Index[f] \in Int
    /\ \A r \in Requests : r.body \in {Unreadable, Malformed, Absent} \/ IsTree(r.body)
    /\ Updates \subseteq Configs
    /\ \A c \in Configs : \A i \in DOMAIN c :
          c[i] # Nothing /\ c[i].paths \in Seq(Seq(Segments))
    /\ MaxUpdates \in Nat

VARIABLES
    config,      \* cfgStore's configuration
    updates,     \* replacements so far
    request,     \* the request
    stage,       \* where the handler stands
    target,      \* the target it matched
    payload,     \* the decoded body
    running,     \* goroutines that have not called wg.Done()
    errChan,     \* paths whose goroutine sent an error
    valuesChan,  \* what the others sent: path and nodes
    todo,        \* extracted values not anonymized yet
    asked,       \* history: nodes whose text the engine was given
    sent,        \* history: what the upstream was given, and of which target
    answer       \* what the client is answered, by cause

extraction == <<running, errChan, valuesChan>>
vars == <<config, updates, request, stage, target, payload, extraction,
          todo, asked, sent, answer>>

-----------------------------------------------------------------------------
Init ==
    /\ config \in Configs
    /\ updates = 0
    /\ request \in Requests
    /\ stage = "route"
    /\ target = Nothing
    /\ payload = Nothing
    /\ running = {}
    /\ errChan = {}
    /\ valuesChan = {}
    /\ todo = {}
    /\ asked = {}
    /\ sent = Nothing
    /\ answer = "none"

\* UpdateConfig or the watcher: cfgStore.Set, while the request lasts.
Reconfigure ==
    /\ stage \notin {"over", "dead"}
    /\ updates < MaxUpdates
    /\ config' \in Updates
    /\ updates' = updates + 1
    /\ UNCHANGED <<request, stage, target, payload, extraction, todo, asked, sent, answer>>

Answer(cause) == answer' = cause /\ stage' = "over"

\* Host and method up to the case of their letters; Compile makes a target's
\* UpstreamURL non-empty, so the path is always compared.
Accepts(t) ==
    /\ t.host \in {AnyHost, request.host}
    /\ t.path = request.path
    /\ request.method \in t.methods

\* The first target that accepts the request, copied.
Route ==
    LET hits == {i \in DOMAIN config : Accepts(config[i])}
    IN  /\ stage = "route"
        /\ \/ hits = {} /\ Answer("no route") /\ UNCHANGED target
           \/ \E i \in hits :
                 /\ \A j \in hits : i <= j
                 /\ target' = config[i]
                 /\ stage' = "read"
                 /\ UNCHANGED answer
        /\ UNCHANGED <<config, updates, request, payload, extraction, todo, asked, sent>>

\* The document as it is in the request, and as Go holds it: numbers are
\* float64, so big integers are rounded.  `of` is the node whose text it is.
Text(kind, n, form) == [kind |-> kind, of |-> n, form |-> form]
Original(b) == [n \in DOMAIN b |-> Text(b[n], n, "plain")]
Decoded(b) == [n \in DOMAIN b |-> Text(b[n], n, IF b[n] = "big" THEN "rounded" ELSE "plain")]
Empty == [n \in {<<>>} |-> "object"]

\* body.Reader and body.ParseJSON; then one goroutine per path.
ReadBody ==
    /\ stage = "read"
    /\ \/ request.body = Unreadable /\ Answer("unreadable") /\ UNCHANGED <<payload, running>>
       \/ request.body = Malformed /\ Answer("malformed") /\ UNCHANGED <<payload, running>>
       \/ /\ request.body \notin {Unreadable, Malformed}
          /\ payload' = Decoded(IF request.body = Absent THEN Empty ELSE request.body)
          /\ running' = DOMAIN target.paths
          /\ stage' = "extract"
          /\ UNCHANGED answer
    /\ UNCHANGED <<config, updates, request, target, errChan, valuesChan, todo, asked, sent>>

-----------------------------------------------------------------------------
\* Extract, one segment: only objects have fields, only arrays indexes.
Children(n, segment) ==
    {m \in DOMAIN payload \ {<<>>} :
        Holder(m) = n /\ (Key(m) = segment \/ (segment = Wildcard /\ IsIndex(Key(m))))}

\* The nodes Extract stands at after each segment.
Visited(path) ==
    LET v[i \in 0..Len(path)] ==
            IF i = 0 THEN {<<>>} ELSE UNION {Children(n, path[i]) : n \in v[i - 1]}
    IN  v

Size(n) == Cardinality(Children(n, Wildcard))

OutOfRange(path) ==
    \E i \in DOMAIN path : \E n \in Visited(path)[i - 1] :
        IsIndex(path[i]) /\ payload[n].kind = "array" /\ path[i] \notin 0..Size(n) - 1

Unparsable(path) == path = <<>> \/ \E i \in DOMAIN path : path[i] = Wrong

\* Extract: the strings at the end of the path.
Extract(path) == {n \in Visited(path)[Len(path)] : payload[n].kind = "string"}

\* Slip: channels without a buffer, which are received from after wg.Wait().
NoRoom(chan) == FALSE

\* make(chan ..., len(target.JsonPaths))
Room(chan) == Cardinality(chan) < Len(target.paths)

\* The goroutine of one path.
ExtractPath(i) ==
    LET path == target.paths[i]
    IN  /\ stage = "extract"
        /\ i \in running
        /\ \/ /\ Unparsable(path) \/ OutOfRange(path)
              /\ Room(errChan)
              /\ errChan' = errChan \cup {i}
              /\ UNCHANGED valuesChan
           \/ /\ ~Unparsable(path) /\ ~OutOfRange(path)
              /\ Room(valuesChan)
              /\ valuesChan' = valuesChan \cup {<<i, Extract(path)>>}
              /\ UNCHANGED errChan
        /\ running' = running \ {i}
        /\ UNCHANGED <<config, updates, request, stage, target, payload, todo, asked, sent, answer>>

\* wg.Wait()
Waited == running = {}

\* Slip: errors matter only when nothing was extracted.
RefusedIfNothing == errChan # {} /\ valuesChan = {}

\* The loop over errChan.
Refused == errChan # {}

\* The loops over the two channels; a path extracted twice is listed twice.
Collect ==
    LET extracted == UNION {{<<v[1], n>> : n \in v[2]} : v \in valuesChan}
    IN  /\ stage = "extract"
        /\ Waited
        /\ \/ Refused /\ Answer("bad path") /\ UNCHANGED todo
           \/ /\ ~Refused
              /\ todo' = extracted
              /\ stage' = IF extracted = {} THEN "relay" ELSE "mask"
              /\ UNCHANGED answer
        /\ UNCHANGED <<config, updates, request, target, payload, extraction, asked, sent>>

-----------------------------------------------------------------------------
\* Slip: an index is written one too high.
Shifted(n) == [i \in DOMAIN n |-> IF IsIndex(n[i]) THEN n[i] + 1 ELSE n[i]]

\* A node written as a resolved path and read back by parseResolvedPath.
Resolved(n) == [i \in DOMAIN n |-> IF n[i] \in DOMAIN Index THEN Index[n[i]] ELSE n[i]]

\* The object or array that SetString looks up the i-th segment of r in.
Reached(r, i) == SubSeq(r, 1, i - 1)

SetFails(r) ==
    \E i \in DOMAIN r : Reached(r, i) \in DOMAIN payload /\
        \/ payload[Reached(r, i)].kind # HolderKind(r[i])
        \/ IsIndex(r[i]) /\ (r[i] < 0 \/ r[i] > Size(Reached(r, i)))
        \/ ~IsIndex(r[i]) /\ i < Len(r) /\ Reached(r, i + 1) \notin DOMAIN payload

\* The check compares with >, so an index equal to the length passes it.
SetPanics(r) ==
    \E i \in DOMAIN r : Reached(r, i) \in DOMAIN payload /\
        payload[Reached(r, i)].kind = "array" /\ IsIndex(r[i]) /\ r[i] = Size(Reached(r, i))

\* Slip: the string replaces what holds it.
SetHolder(r, value) == [payload EXCEPT ![Holder(r)] = value]

\* The assignment at the end of SetString.
SetAt(r, value) == [n \in DOMAIN payload \cup {r} |-> IF n = r THEN value ELSE payload[n]]

\* engine.Anonymize of one extracted value, then SetString.  The engine's
\* answer may be blank without an error: see EngineClient.
Anonymize(v) ==
    LET r == Resolved(v[2])
    IN  /\ stage = "mask"
        /\ v \in todo
        /\ asked' = asked \cup {v[2]}
        /\ \/ Answer("engine") /\ UNCHANGED <<payload, todo>>
           \/ /\ SetFails(r) \/ SetPanics(r)
              /\ Answer(IF SetPanics(r) THEN "panic" ELSE "not set")
              /\ UNCHANGED <<payload, todo>>
           \/ /\ ~SetFails(r) /\ ~SetPanics(r)
              /\ \E form \in {"masked", "blank"} : payload' = SetAt(r, Text("string", v[2], form))
              /\ todo' = todo \ {v}
              /\ UNCHANGED <<stage, answer>>
        /\ UNCHANGED <<config, updates, request, target, extraction, sent>>

\* Slip: the target is looked up again.
Latest == IF config = <<>> THEN target ELSE config[1]

\* target.UpstreamURL
Destination == target

\* forwarder.Forward is called: with the bytes received if nothing was
\* extracted, else with the payload marshalled.
Forward ==
    /\ \/ /\ stage = "relay"
          /\ sent' = [to |-> Destination, body |-> Original(
                        IF request.body = Absent THEN Empty ELSE request.body)]
       \/ /\ stage = "mask" /\ todo = {}
          /\ sent' = [to |-> Destination, body |-> payload]
    /\ stage' = "forward"
    /\ UNCHANGED <<config, updates, request, target, payload, extraction, todo, asked, answer>>

\* ... and returns, as WorkerPool says: nil, an error answered with 502, or
\* the panic of a send to the closed queue, which drops the connection.
Forwarded ==
    /\ stage = "forward"
    /\ \E cause \in {"forwarded", "upstream", "aborted"} : Answer(cause)
    /\ UNCHANGED <<config, updates, request, target, payload, extraction, todo, asked, sent>>

\* The process ends, and what the handler holds with it: main returns, or a
\* worker of this or of another request panics (WorkerPool's death).
Die ==
    /\ stage \notin {"over", "dead"}
    /\ stage' = "dead"
    /\ payload' = Nothing /\ todo' = {}
    /\ running' = {} /\ errChan' = {} /\ valuesChan' = {}
    /\ UNCHANGED <<config, updates, request, target, asked, sent, answer>>

Handler == Route \/ Collect \/ (\E v \in todo : Anonymize(v)) \/ Forward

Next ==
    \/ Reconfigure \/ Handler \/ ReadBody \/ Forwarded \/ Die
    \/ \E i \in running : ExtractPath(i)

\* Goroutines are scheduled, and the engine's requests have a timeout.  Nobody
\* has to change the configuration.  ReadBody waits for the client, which the
\* server gives a deadline for the header only, and Forwarded for the pool: no
\* fairness of theirs.
Spec ==
    /\ Init /\ [][Next]_vars
    /\ WF_vars(Handler)
    /\ WF_vars(\E i \in running : ExtractPath(i))

-----------------------------------------------------------------------------
Document == IF request.body = Absent THEN Empty ELSE request.body

\* Node n lies on a path: what a path means, without walking it.
LiesOn(n, path) ==
    Len(n) = Len(path) /\ \A i \in DOMAIN n : n[i] = path[i] \/ (path[i] = Wildcard /\ IsIndex(n[i]))

\* The strings a target's paths select in the request's body.
Selected(t) ==
    {n \in DOMAIN Document :
        Document[n] = "string" /\ \E i \in DOMAIN t.paths : LiesOn(n, t.paths[i])}

\* No part of the path is refused, and no index lies outside its array.
Sound(path) ==
    /\ path # <<>> /\ \A i \in DOMAIN path : path[i] # Wrong
    /\ \A i \in DOMAIN path : \A n \in DOMAIN Document :
          IsIndex(path[i]) /\ Document[n] = "array" /\ LiesOn(n, SubSeq(path, 1, i - 1)) =>
              Append(n, path[i]) \in DOMAIN Document

\* The type of the handler's state: the payload keeps the body's shape.
TypeOK ==
    /\ config \in Configs /\ updates \in 0..MaxUpdates /\ request \in Requests
    /\ stage \in {"route", "read", "extract", "mask", "relay", "forward", "over", "dead"}
    /\ target = Nothing \/ \E c \in Configs : \E i \in DOMAIN c : target = c[i]
    /\ payload # Nothing =>
          /\ DOMAIN payload = DOMAIN Document
          /\ \A n \in DOMAIN payload :
                /\ payload[n].kind = Document[n] /\ payload[n].of = n
                /\ payload[n].form \in {"plain", "rounded", "masked", "blank"}
    /\ target # Nothing =>
          /\ running \cup errChan \cup {v[1] : v \in valuesChan} \subseteq DOMAIN target.paths
          /\ \A v \in todo : v[1] \in DOMAIN target.paths /\ v[2] \in Selected(target)
    /\ answer \in {"none", "no route", "unreadable", "malformed", "bad path", "engine",
                   "not set", "panic", "upstream", "aborted", "forwarded"}

\* What reaches an upstream is filtered by the paths of the target it belongs
\* to, whatever configuration is in force by then and in whatever order the
\* goroutines ended: every selected string is replaced by its own anonymized
\* (or blank) text, and nothing else changes but big integers.
FilteredForItsTarget ==
    sent # Nothing => \A n \in DOMAIN Document :
        /\ n \in DOMAIN sent.body
        /\ sent.body[n].kind = Document[n] /\ sent.body[n].of = n
        /\ IF n \in Selected(sent.to) THEN sent.body[n].form \in {"masked", "blank"}
           ELSE IF Document[n] = "big" /\ Selected(sent.to) # {} THEN sent.body[n].form = "rounded"
           ELSE sent.body[n].form = "plain"

\* The engine sees selected strings only, and none of a request that is
\* refused for one of its paths: no path's error is found out too late.
AskedWhenSound ==
    asked # {} =>
        /\ asked \subseteq Selected(target)
        /\ \A i \in DOMAIN target.paths : Sound(target.paths[i])

\* What Extract returns, SetString can set, unless a field's name on the way
\* is a number; it never panics.
WhatIsReadCanBeSet ==
    /\ answer # "panic"
    /\ answer = "not set" =>
          \E n \in Selected(target) : \E i \in DOMAIN n : n[i] \in DOMAIN Index

\* A request is refused, or its body is waited for; and once the body is there
\* it is answered or handed to the pool, whatever its paths select and whatever
\* the engine answers, unless the process dies.  What becomes of it in the pool
\* is WorkerPool's EveryRequestEnds.
EveryRequestAnswered ==
    /\ stage = "route" ~> stage \in {"read", "over", "dead"}
    /\ stage = "extract" ~> stage \in {"forward", "over", "dead"}

=============================================================================
