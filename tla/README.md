# A formal model of skuf

skuf is a filter between a program and a text service. Its **proxy** (Go,
`proxy/`) takes HTTP requests, picks a target from its configuration, extracts
strings from the JSON body, has them anonymized by the **engine** (Python,
FastAPI, `engine/`) and forwards the changed request to the upstream. The engine
keeps *profiles* (which extractors run, what the placeholder is) in SQLite and
masks the entities its extractors find.

This directory holds TLA+ modules that model the parts of both programs with
state, concurrency or a non-trivial algorithm, TLC configurations that check them
on small instances, and TLAPS proofs for every size.
Paths below are relative to the repository; `M.tla` is a module of this directory.

## 1. Inventory

| part | state | operations | interacts with |
|---|---|---|---|
| profile store (`engine/src/profiles/store.py`, `routes/v1/profiles.py`) | table `profiles`, unique index "one active, not deleted" | create, update, activate, delete (each: read, await, write transaction), seeding at startup | SQLite; FastAPI's event loop interleaves handlers at every await |
| masking pipeline (`engine/src/extractors/pipeline.py`, `models.py`) | none between calls | run (sort, `_resolve_overlaps`), anonymize | extractors |
| regex extractors (`extractors/regex/*.py`) | none | validate, normalize, extract | Python `re` |
| natasha extractors (`extractors/natasha/*.py`) | none | extract | the natasha library |
| registry (`extractors/registry.py`) | the names registered by this version | register, get, instantiate | profiles name extractors |
| legacy `entity_extractor.py` | none | extract, anonymize | used by no route |
| processing and anonymization routes (`routes/v1/processing.py`, `anonymization.py`, schemas) | per request: what it read of the active profile | all, base | profile store, registry, pipeline |
| meta routes | none | list names and actions | registry |
| engine client (`proxy/internal/client/client.go`) | `baseUrl`, `cache` (sync.Map), `inflight` table, `mu` | Anonymize, clean-up loop, SetBaseUrl | called by handleCatchAll and UpdateConfig; calls the engine |
| forwarder (`proxy/internal/upstream/*.go`) | task queue, workers, result channels | Forward, worker, doRequestWithRetry, doForward, ShutDown | handleCatchAll's ResponseWriter and context; upstream; main's shutdown |
| configuration (`proxy/internal/config/*.go`, `UpdateConfig`, `cmd/app/main.go`) | YAML file, `Store.current`, client's address | POST /api/v1/config, watcher's reload, startup | file system, engine client, router |
| rate limiter (`proxy/internal/middleware/rateLimit.go`) | token buckets by address | Allow, clean-up loop | every request |
| catch-all handler (`httpserver/server.go`, `extract`, `body`, `routing`) | per request: snapshot of the configuration, payload, two channels, a WaitGroup | Match, ParsePath, Extract (one goroutine per path), SetString | configuration store, engine client, forwarder |
| request ids, logging | none | copy a header into the context | every request |

What is hard, and what correctness means, part by part:

* **Profile store.** Every handler reads before it opens its transaction, so all it
  decides on may be stale; delete commits twice (the row, then its heir's
  activation); the process may die in between. Correct: never two active
  profiles, never an active deleted one, a deleted row is frozen, an error means
  nothing happened; without races the client's choice survives and a live profile
  implies an active one.
* **Engine client.** Three goroutine kinds share a cache, a single-flight table and
  an unprotected string. Correct: one call in flight per text, no answer handed to
  another text, followers agree with leaders and always wake, no answer of the
  previous engine in the cache after a switch.
* **Forwarder.** Handler and worker share a ResponseWriter; contexts, retries, a
  bounded queue and a shutdown race each other. Correct: no task lost or answered
  twice, nil means the whole answer, and only a client that does not read its answer
  keeps a request from ending or a worker from its next task.
* **Configuration.** Three places written one after the other by handlers without a
  lock, and by a watcher; a truncating save. Correct: what is refused is never
  served, the file is whole, and the store agrees with it once things are quiet.
* **Masking.** Positions in a text that is being rewritten. Correct: disjoint
  result, nothing dropped without reason, exactly what is kept is replaced.
* **Detection.** A request awaits while it reads the profile that decides its answer,
  and the profile may be switched, rewritten, deleted or name an extractor of another
  version; alternatives of a pattern are tried in order and candidates use up text.
  Correct: one definition that was active meanwhile decides everything, each of its
  extractors runs once, a document in a documented form with right check digits is
  found (all but one form, see "Seen while modelling") and none with wrong ones is, and
  the new extractors find what the old one did, the parts of persons' names excepted.
* **Rate limiter.** Two locks, and a clean-up that tests a bucket under one and deletes
  it under the other. Correct: in no period does a client get more than burst + rate x
  time, but for requests whose bucket was swept away under them, and it is never
  refused below that.
* **Catch-all handler.** Goroutines over one payload, errors that must be seen before
  anything leaves, a configuration replaced meanwhile, paths written and read back.
  Correct: what an upstream gets is filtered by its own target's paths, the engine
  sees nothing of a request that is refused for a path, SetString at a place Extract
  returned changes that value and no other, a request whose body has come is answered
  or handed to the forwarder.

`PROJECT.json` lists the hazards with their lines under `hazards`.

## 2. Modules

| module | models | state and actions |
|---|---|---|
| `ActiveProfile` | abstract specification | live, current and retired profiles: Add, Switch, Lose, Retire |
| `ProfileStore` | store.py and its routes | sets of rows for the columns the code tests; per request a coroutine (`pc`, what it read in `flag`, its `stamp`); one action per await-to-await segment: `Arrive`, `Get`/`CheckActive`/`RejectYaml` (reads), `BeginTxn`/`LockTimeout`, the four `Commit*`, `ListHeirs` and `Reread`; `Start` (seeding), `Crash` |
| `EngineClient` | client.go | per call of Anonymize: `Load`, `Evict`, `Enter` (join or lead, under mu), `ReadData`/`ReadLen` (baseUrl, two words), `Build`/`BuildFails`, `Fail`/`Answer`/`Store`, `Finish`, `Release`; `SetLock`..`SetUnlock`; `Expire`, `FindExpired`, `CleanUp` |
| `WorkerPool` | upstream/*.go, handleCatchAll's use of Forward, main's shutdown | per handler: `Arrive` (until the process ends), the selects of Forward, `WriteError`; per worker: `Take`, `Attempt`, `Backoff`, `WriteHeader`, `Copy` or `StrayCopy` (the handler is ending or has left), `Send` (into the result channel, whose room is a guard), `Exit`; clients: `Disconnect` (`gone`), `Stall` (stops reading); `Close`, `Drained`, `DrainTimeout`, `Stop`; `death`, how a worker brought the process down |
| `ConfigUpdate` | config/*.go, UpdateConfig, main's startup | per update: `Arrive`, `Open` (truncates), `Write` (whole, half, or whole with a failing Close: 500 although the file is the new one), `Set`, `Point`; watcher: `Fire` (reads), `Reload` (stores); `Edit`, `Crash`, `Start` |
| `CatchAll` | handleCatchAll, extract/*.go, body/*.go, matcher.go | one request: `Route`, `ReadBody`, `ExtractPath` (the goroutine of a path), `Collect` (wg.Wait, both channels), `Anonymize` (one value, with SetString), `Forward` and `Forwarded` (the call and what it returns); `Reconfigure`; `Die` (the process ends under it) |
| `Extractors` | regex/*.py, natasha/*.py, registry.py | operators: the patterns as sequences of repetitions, `Finditer`, check digits, normal forms, `Found` |
| `Lists` | list comprehensions and dictionaries | operators `Among`, `Values`, for `Extractors` and `Legacy` |
| `Legacy` | entity_extractor.py | operators: `Extract`, `Anonymized` |
| `Detection` | processing.py, anonymization.py, with `Masking`, `Extractors` and the profile store as `ActiveProfile` promises it | one request: `Receive`, `ReadActive` (its one await), `Run` (extractors and sort), `Pipeline` (steps of `Masking`), `Respond`; the store's `Commit`; `Redeploy` |
| `RateLimiter` | rateLimit.go | per request: `Lookup` (rl.mu shared), `Create` (rl.mu), `Take` (bucket.mu); the clean-up: `Wake`, `Sweep`, `Judge`, `Delete`, `EndSweep`; `Tick` |
| `Masking` | pipeline.py, models.py | `Consider` (one turn of `_resolve_overlaps`), `Resolved`, `Mask` (one replacement), `Return` |
| `MC*` | - | model values, definitions and symmetry for TLC |
| `*Proofs` | - | theorems about the module they are named after |

How they compose. `Detection` is the engine as a request sees it: it extends `Masking`
and `Extractors` and takes its profile store from `ActiveProfile`, which `ProfileStore`
is shown (and proved) to implement, so what a request may read between two commits is
what the detailed store may commit. The proxy's modules share little and state it where
it is used: `CatchAll` takes one step for a call of Anonymize and two for Forward, with
the outcomes `EngineClient` and `WorkerPool` show these calls to have (an error, an
answer or, without an error, a blank text; nil, an error, the panic of a send to the
closed queue, or the death of the process); there the calls start from `Call` and
`Arrive`.
SetBaseUrl appears in full in `EngineClient` and as the last step `Point` of an update
in `ConfigUpdate`. The rate limiter stands before everything and shares no state.

Abstractions worth knowing:

* A row's YAML is its `author`, the request that wrote it. Ids are fresh because
  uuid4 is. The statements of a transaction are one atomic change: SQLite admits one
  writer, readers see the last commit. The migration of old tables is left out.
* The anonymized form of text t by the engine at u is `[from |-> u, of |-> t]`, so
  a property can tell whose answer it is. Errors are one value `Failed`; an
  inflightCall's zero values are `Blank`.
* A Go string header is two words; a racy read may combine them. Such a value
  denotes `Foreign`.
* The ResponseWriter is a status line and a body: none, whole, part, error, mixed, or
  foreign (it holds bytes of another request's answer). net/http takes a writer's
  buffers back when its handler returns, so a worker that writes later may panic or
  write into whatever answer has the buffer by then (`StrayCopy`); while the handler
  writes its error, both touch one map of headers (`WriteHeader`). Each is a choice:
  nothing happens, foreign bytes, or the process dies (`death` is "writer").
* A configuration is named after whoever wrote it; a file may also be `Empty`
  (truncated) or `Mixed` (overlapping or failed writes). A shorter write over a
  longer content leaves its tail: sizes are a constant. Loading a mixed file may or
  may not succeed. The names assume that two authors never submit the same text.
* The masked text is the sequence of the original positions, so what survives can be
  read off. Entities are not empty; in `Masking` alone, what the extractors find is arbitrary.
* A JSON document is a function from nodes (sequences of keys) to kinds; a text is
  the node it was read at and what has been done to it (plain, masked, blank,
  rounded), so that a value set in the wrong place shows. A JSON path is its sequence
  of segments; `Wrong` is a part that ParsePath refuses. Values of one request are
  anonymized in any order, which includes the code's.
* A character is a number: digits are themselves, and the negative numbers are the
  classes and words the patterns and the check of a document's surroundings tell apart:
  letters, the underscore of an email's local part, spaces, punctuation, labels (a word
  such as a label is one character, as is any letter no pattern names). A pattern's
  groups are written out as the sequence of its alternatives in `re`'s order; what
  remains is greedy without backtracking, because neighbouring repetitions share no
  character or have a fixed length. An email's labels repeat at most twice.
* What Natasha's models find is part of a request's input: spans and matches that lie in
  the text, no two of a kind at the same start (`WellPlaced`). Facts map attributes to
  numbers: a positive one is a Python number n, -n the text `str(n)` or another text, and
  zero whatever Python takes for false. A normal form is the sequence of its parts, and
  `details` a function over the attributes (`Values`).
* Address attributes and currencies are texts, as Natasha gives them (`OnlyTexts`).
  `locations.py:42` joins the values as they are and would raise a TypeError for a
  number, where `entity_extractor.py:200` puts `str()` around them; for texts `str` is
  the identity (`Str`), which is what the comparison of the two rests on.
* A profile that is saved may list any names, any number of times (`Unchecked`); what is
  stored is what `parse_profile_yaml` makes of it.
* `Redeploy` is the environment: another version of the engine registers other
  extractors and keeps the database. It happens between requests.
* Time in `RateLimiter` is ticks and tokens are counted in fractions, so that a refill
  smaller than a request exists. `load` is a leaky bucket of what a key was granted: it
  exceeds L exactly if in some period that ends now the key got more than L + rate x
  the period. `loose` counts grants out of a bucket that was swept while its request
  held it; without it `WithinRate` fails.
* Definitions marked `Slip:` are plausible mistakes kept beside the definition they
  are a mistake about. No specification uses them; each is put in place of that
  definition to see that the property guarding it notices (`mutants` in
  `PROJECT.json`).

History variables (`effect`, `chosen`, `raced`, `late`, `overlapped`, `edited`, `asked`,
`sent`, `lost`, `offered`, `load`, `loose`) record the past for properties; no guard
reads them, except `edited`, which bounds the operator to one use of each edit.

## 3. Runs

Passing runs, with their bounds and why they suffice:

| run | instance | question |
|---|---|---|
| `store_races` | 3 profiles, 3 requests of any kind, all concurrent, 1 crash | the store's invariants, its answers, and that every commit is a step of `ActiveProfile` |
| `client_races` | 2 calls, 2 texts, 2 addresses (one does not parse), 1 switch, 1 expiry, fairness | single flight, no mix-up, followers, cache against address, every call returns |
| `pool_races` | 2 requests, 2 workers, queue of 1, 2 attempts, upstream good/bad/unreachable, clients that leave or stop reading, fairness | tasks, answers, shutdown; requests end and workers come back unless a client does not read |
| `config_races` | 3 updates (2 at once), 1 edit, 1 crash, watcher | refused updates, whole file, store in step with the file |
| `catch_all` | 1 request, 108 bodies of depth up to 3, lists of up to 2 of 9 paths, 2 targets, 1 replacement of the configuration, fairness | filtered for its target, asked when sound, set where read, every request answered or handed to the pool |
| `detection` | 1 request to any of 4 routes, 68 texts of 29 characters (51 documents and near misses, 15 sets of Natasha's findings, 2 with both), 2 profiles, 5 definitions, 2 versions, 1 change of the store, placeholder of 2 | one definition decides, documents are found whole (and the INN of twelve digits never), as the legacy extractor up to the parts of names, disjoint, with reason, exact |
| `rate_limits` | 4 requests, 2 addresses, 5 ticks, buckets of one request and a half that fill in 3 ticks, kept for 3 | never more than rate and burst, never refused below |

Bounds. *Store*: a race needs a reader whose decision two others invalidate; three
requests give all of activate/activate/delete, delete/delete/create and a delete whose
heir is deleted; three profiles are the one deleted, its heir and a rival; a crash falls
between any two steps. *Client*: a leader and its follower, or two leaders; one switch
separates old from new. More calls are what the proofs are for: all safety properties of
this run are theorems. *Catch-all*: two paths race, overlap, repeat each other or fail;
arrays of two elements have an index inside, at and beyond their length, and the paths
name fields, elements, all elements, an index out of range, a numeric name and a part
that does not parse. Requests share no state here but the configuration, so one is
enough. *Pool*: with a queue of one and two workers, a task can be in the queue while
both workers are busy only if there are three requests; two suffice for a full queue
(one queued, the other refused), for closing with a task buffered, and for workers that
exit at different times. Two attempts distinguish the last from the others. Both clients
may stall and hold both workers; that another task then waits in the queue takes a third
request, so in this run the last exemption of `EveryRequestEnds` never applies and
only its own client holds a request up. *Configuration*: two concurrent updates overlap every pair of steps, the third comes after them; the sizes
make a later write both longer and shorter. *Detection*: a request awaits once, so one
commit falls before, into or after its read; a second commit would only repeat one of
these. The texts are every documented form, each with a wrong check digit or at the
check's boundaries where it has one, after nothing, after another document and a comma
and after digits that could belong to it, and in sentences: behind words, labels and
spaces, before commas, parentheses, full stops and further numbers. Natasha's findings
are an agreeing, a disagreeing and a touching pair of tagger and address, with dates and
money that have every falsy attribute and names that fit a person, twice, or none. What
entities may overlap how is not bounded by this run: `KeptDisjoint` and
`DroppedForReason` are theorems. *Rate limiter*: an orphan needs a request that holds a
bucket, the clean-up, and two more requests of the same address; the fourth comes from
elsewhere or after. Five ticks allow the time to live and two refills.

Runs that show a disagreement between the code and a statement about it; each
checks one property that TLC refutes, and `findings` quotes the statement:

| run | shown |
|---|---|
| `store_update_doc` | PUT answered 200 although the profile was deleted meanwhile and nothing was written (`rowcount` is ignored); with `activate` every profile has been deactivated |
| `client_empty_doc` | the leader returns the error of NewRequest without recording it; followers return an empty text and no error, and the request is forwarded with it |
| `pool_status_doc` | four answers of 5xx or 429 leave `nil, nil`; doForward dereferences the nil response in a worker and the process dies |
| `config_doc` | two concurrent updates, both answered 200, leave one in the file and the other in memory |
| `masking_doc` | on `detection`'s instance: where findings overlap, a part of one stays in the text |

Deadlock is not checked: requests, calls and updates of an instance come to an end, the
pool's process stops, the pipeline returns and the time of the rate limiter ends; what
must not get stuck is stated as liveness.

Seen while modelling, without a run of its own: a delete that took effect can be
answered 404 or 500 when its heir's activation fails; a torn `baseUrl` read may
address neither engine; when a body breaks off, the 502 object is
appended to half of the upstream's answer; after a disconnect, a worker that is still
writing can panic or write into another request's answer (`forwarder.go:21-32`); an
update whose file fails only at Close is answered 500 and comes into force with the
next restart; main never starts the watcher, although
`openapi.yaml:12` announces hot reload; main listens on `:8080` whatever `port` says.
The client decodes a 200 into a Go string (`client.go:130`), but
`routes/v1/anonymization.py:49` answers an object `{"text": ...}`, so with this
repository's engine every call fails and the proxy answers 502 (`Replies` has "object"
for it, which fails like an error). A stored profile
that names an extractor the running version lacks makes `/base` answer 500
(`registry.py:23`), since names are checked when it is saved. A request that holds a
bucket while the clean-up sweeps it takes its token from an orphan
(`rateLimit.go:99`), and the next request gets a full one. In the catch-all handler, a selected
string below a field whose name is a number makes the request fail with 502, because
SetString takes the name for an index; big integers beside a replaced string are
rounded to float64; selected values that are not strings (numbers, or nested content
such as a list of parts) are forwarded as they are without an error, although
`README.md:53` speaks of the values; a body longer than 1 MiB is cut off and then
refused as malformed (400).

Three disagreements deserve more words.

* *`engine_url`.* `UpdateConfig` ends with `SetBaseUrl` (`server.go:106-108`), so the
  engine is switched at run time; `service-docs.yaml:112` says that the client is not
  updated and a restart is needed. `ConfigUpdate` has the step (`Point`), as the code
  does; no property claims that the engine follows the file, because the
  documentation says the opposite.
* *INN of twelve digits.* `inn.py:10` documents ten and twelve digits, but the pattern
  (`inn.py:19`) tries ten first and nothing makes it go on, so of a twelve-digit number
  only the first ten are ever considered. `FindsDocuments` lists the form among the
  documented ones and states both halves: every other form is found whole, this one
  never is (`Personal`).
* *Parts of names.* `EntityExtractor` fills a person's `details` with first, last and
  middle name from NamesExtractor (`entity_extractor.py:96-117`); its successor leaves
  them empty (`persons.py:24`). `SameAsLegacy` states equality of everything else and
  this difference (`AsLegacy`).

A candidate that fails its check uses up its characters: in `112 112-233-445 95` the
valid SNILS is missed, because the search goes on behind `112 112-233-44`. That needs a
digit, or for a SNILS a digit and a gap, right before the document; `Begins` exempts
exactly these, and every other neighbour (a space, a comma, a bracket, a label, a
word) is covered.

### Fairness

`EngineClient!FairSpec`: goroutines are scheduled (weak fairness of the steps that
wait for nothing), the engine request has a timeout of 30 s, and Go's mutex is
starvation free, which makes the two steps under `mu` strongly fair: `mu` is free
again and again. Expiry and clean-up need not happen.

`WorkerPool!FairSpec`: weak fairness of each handler and of each worker, except while
it writes to a client that has stopped reading (`ErrorHeld`, `CopyHeld`). An attempt
and the reading of the upstream's answer end because the HTTP client's timeout of 30 s
covers the body too; writing it on to the client has no such bound, since main sets no
WriteTimeout (`main.go:47-51`). So `EveryRequestEnds` and `WorkersComeBack` say who may
hold them up: a client that does not read, its own or, for a task still in the queue,
as many of them as there are workers. Nobody has to connect, to disconnect, to stall or
to send a signal, and main need not come to an end. A handler's `select` is weakly fair
as a whole: which ready case it takes is open.

`CatchAll!Spec`: weak fairness of the handler and of its goroutines; the engine's calls
end because of their timeout, which is what `EveryCallReturns` checks of them. No
fairness of `ReadBody`, which waits for the client (`reader.go:15-16`; the server's
ReadHeaderTimeout covers the header only), of `Forwarded`, which waits for the pool,
and of `Die`. `EveryRequestAnswered` therefore speaks of the stretches between them: from
the request to its body, and from the body to an answer or to the pool, where
`EveryRequestEnds` takes over. Nobody has to change the configuration.

The other properties are safety properties and need none.

## 4. Proofs

All theorems hold for arbitrary constants that satisfy the named assumption of
their module.

* `ProfileStoreProofs` (`StoreAssumption`): `TypeCorrect`, `OneActive`
  (AtMostOneActive), `NoDeletedActive` (DeletedInactive), `Frozen` (DeletedFrozen),
  `Refinement` (AbstractSpec), `Truthful` (AnswersAreTruthful), `ChoiceSurvives`
  (ChosenStaysActive), `HeirFound` (SomeoneActive). The inductive invariant adds to the
  types that `active` is a subset of the live rows with at most one member (the unique
  index rejects the one commit, of an update with a stale `current.is_active`, that would
  break it) and that a delete in its transaction has an existing target. Each step
  then maps to a step or a stutter of `ActiveProfile`. `TruthInv` says what a request has
  done at each of its stages, and that the rows it works on exist. `SeqInv` is about
  requests that do not overlap: at most one is in progress, what it read is still so,
  and a delete that has yet to choose its heir is the only reason for no profile to be
  active.
* `EngineClientProofs` (`ClientAssumption`): `TypeCorrect`, `OneLeader`
  (SingleFlight), `NoMixUp` (OwnText), `FreshCache` (CachedFromBase), `FollowersInStep`
  (FollowersAgree). `FlightInv`
  says that the table maps a text to a call about that text, that a follower's
  leader has its text, and so have outcomes. `CacheInv` says what a reader that
  is not `late` has seen of the address, and that the sweep has left only fresh
  entries behind: the invariant of SetBaseUrl's loop. `FollowInv` says that a leader that is
  through has published its result (or could not build its request), that nobody is
  released before, and that a follower took what was published.
* `ConfigUpdateProofs` (`ConfigAssumption`): `TypeCorrect`, `RefusedIsGone`
  (ErrorsChangeNothing), `OnlyNamedCauses` (FileWhole), `StoreInStep`
  (StoreFollowsFile). `Unserved` says that a configuration is nowhere before its update
  has written it, `Unclosed` that after a failing Close only a crash and the watcher
  bring it into force; `Alone` that without
  overlaps the update in progress owns the file; `Watching` that a store that lags
  behind the file is due to be reloaded.
* `WorkerPoolProofs` (`PoolAssumption`): `TypeCorrect`, `NoTaskLost` (TaskAccounted),
  `OutcomesEarned` (OutcomeEarned), `WriterOwned` (WriterShared), `DrainComplete`
  (DrainedMeansDone). The invariant: a task is in one place (`Places`); its handler
  waits, or gave up because the client had gone (`Owned`); what the client of a waiting
  handler has been sent is what its worker's stage says, but for bytes of a request whose
  client had gone (`Sending`); a worker is at most
  at its last attempt (`Counted`); and a worker exits only when the queue is closed and
  empty (`Draining`).
* `RateLimiterProofs` (`RateAssumption`): `TypeCorrect`, `NeverOver` (WithinRate),
  `NeverUnder` (RefusedWhenSpent). Both weigh, key by key, what was granted against
  what the bucket in the map holds: `NotOver` says load and tokens together are at most
  the burst and the `loose` grants, `NotUnder` that together they are at least the
  burst. A sweep keeps the second because a bucket idle for the time to live is full
  again (TTL x rate is at least the burst, part of the assumption).
* `ExtractorsProofs` holds lemmas about the extractors' operators, for any text:
  selecting from a list (`AmongIs`, `AmongKeeps`) and joining lists (`FlattenIs`) keep
  the items and their order; a greedy repetition takes what it can (`GreedyIs`); every
  pattern is well formed and takes a character (`PatternIs`); a match lies in the text
  (`StopLies`, `MatchIs`); and the matches of finditer follow each other without sharing
  a character (`FinditerIs`). What is defined by recursion is met by `Recursion` (a
  recursive function obeys its equation) and `Induct` (induction over numbers as a least
  counterexample, `Least`, drawn from the strict subset ordering of a finite set being
  well-founded). What a pattern does on a document is computed item by item: `ReachesIs`
  unfolds the search over the ends a prefix of a pattern can reach, `FirstHit` takes the
  first alternative that reaches any, and `MatchCovers` reads off a match what its
  alternative has taken. Where a pattern matches, finditer yields a match that begins
  there or reaches over it from before (`FoundOver`); `InnOver`, `SnilsOver`,
  `PassportOver`, `PassportLabelOver` and `PhoneOver` say that such a match ends where
  the document does, and `InnNeverTwelve` that none is twelve digits long. `InnFound`,
  `SnilsFound`, `GroupedSnilsFound`, `SeriesNumberFound`, `LabelledPassportFound`,
  `SpacedPassportFound`, `BarePassportFound` and `PhoneFound` say where each documented
  form is matched, up to its last character whatever follows it; `InnHasTen` and
  `SnilsHasEleven` how many digits a match has, on which the coefficients of the check
  digits rest.
* `DetectionProofs` (`MaskingAssumption`, `DetectionAssumption`) is about the pipeline
  and about the service that uses it.

  The pipeline on any entities: `ResultIsDisjoint` (KeptDisjoint), `NothingDroppedInVain`
  (DroppedForReason), `TypeCorrect` (TypeOK), `ExactlyMasked` (MasksExactly).
  `OverlapsIsShared` shows that comparing ends is the same as sharing a character.
  The invariant of anonymize, `Replacing`, says that the text is the original one with
  the entities replaced that are no longer in `todo`, all of which start behind those
  that are: what stands before the next slice is untouched (`Untouched`), so its
  positions are still those of the original, and `MaskOne` computes what one slice does
  to every character's place.

  The service: `OneDefinition` (OneSnapshot), `FoundOnce` (EachOnce), `FailsOnlyForLost`
  (FailsOnlyIfLost), together `AnsweredByOne` (AnsweredAsConfigured); `ServiceTyped`
  (DetectionTypeOK); and the pipeline's properties on what the extractors really find,
  `AnswerIsDisjoint`, `AnswerDropsForReason`, `AnswerMasksExactly`. `Offered` says that
  every definition a request can have read was the active one at some moment since it
  arrived, `Followed` that what ran is what it read, `NamesAccounted` that a name in a
  stored profile is registered or was lost. `PInv` types the store and the request, says
  that no definition lists a name twice (`DedupedIs`), and that `found` is what the
  extractors of `using` find (`Started`), which `FoundIs` shows to be entities of the
  text, no two the same, and `SortedIs` a permutation of them by start.

  The documents: `DocumentsFound` (FindsDocuments). `MatchIsGenuine` shows that `validate`
  (a sum modulo 11, then modulo 10; a sum modulo 101 with two exceptions) is the official
  rule for every match; `FormFound`, by cutting the form into its parts (`Parted`), that
  where a form stands its extractor matches up to its last character and that a match
  which begins earlier does not take it apart (`NotApart`: such a match has taken a label
  before it and ends where it ends); `NeverWhole` that no match ends where twelve digits
  do. It holds for every text and every neighbour of a document but those `Begins`
  exempts.

  The legacy extractor: `LegacyAgrees` (SameAsLegacy), for texts in addresses and
  currencies (`OnlyTexts`, part of the assumption) and up to persons' details, which the
  theorem names. `LegacyCollects` shows that it collects what the four extractors find,
  `SortsAgree` that its sort, by insertion, is the sort by rank of `Detection`: after k
  insertions everyone of the first k stands at its rank among them (`InsertionIs`), and
  ranks are all different and all taken (`PlacesTaken`). For the text entities may
  overlap, so `Replacing` says nothing; the invariant is `Sliced`: while the pipeline
  works, after r replacements the text is the legacy one after r of its turns (`Texts`),
  and `todo` holds the entities with a later turn.
* `CatchAllProofs` (`CatchAllAssumption`): `TypeCorrect`, `Filtered`
  (FilteredForItsTarget), `AskedSoundly` (AskedWhenSound), `ReadCanBeSet`
  (WhatIsReadCanBeSet), for any document, any paths and any number of targets. What
  Extract finds is defined by recursion over the path: `Walked` shows that after i
  segments it stands on the nodes that match the first i (`VisitedIs`), by a least
  counterexample, which `Least` draws from the strict subset ordering of a finite set
  being well-founded; `ExtractIs` and `SoundIs` put its result and its errors in the
  words of the properties. `SizeCounts` shows that the sizes by which arrays are walked
  count their elements. The invariant: the target is one that was configured (`Routed`),
  the payload keeps the shape of the body (`Held`), every path is with its goroutine or
  in one of the channels (`Channels`), and a selected string is masked or still to be,
  every other one as it was decoded (`Texts`).

Checked by TLC only: liveness (EveryCallReturns, EveryRequestEnds, WorkersComeBack,
EveryRequestAnswered), which is out of the prover's reach. Every other property of a
passing run is a theorem.

## 5. Not modelled

The meta routes answer constants (the registry's names, sorted, and a fixed list of
actions). Request ids and logging copy a header into the context and keep no state.
Inside the catch-all handler, how the text of a path is split, and that Marshal escapes;
in the extractors over regular expressions `details`, which is made of the characters the
normal form is made of and read by nothing here (the `details` of the extractors over
Natasha are modelled). Natasha's models,
`re`, net/http, fsnotify, pydantic and SQLAlchemy are external and appear by how the code
uses them. Where the rate limiter takes a client's address from is a key here. Tests, the
demo page and build files have no behaviour to model.

## 6. Plan

Done, in this order: profile store, engine client, forwarder, configuration, masking,
catch-all handler; extractors, legacy extractor, the engine's routes over the store;
rate limiter.
Next:

1. A composition of `CatchAll` with `EngineClient` for several requests: nobody's
   request carries another's text, and a blank text appears only where a leader failed
   to build its request.
