---------------------------- MODULE ProfileStore ----------------------------
(***************************************************************************)
(* The engine's profile store (engine/src/profiles/store.py) and the HTTP  *)
(* handlers that call it (engine/src/routes/v1/profiles.py).               *)
(*                                                                         *)
(* Every handler is a coroutine that reads the table, awaits, and then     *)
(* opens a write transaction: what it read may be stale by then.  SQLite   *)
(* runs one write transaction at a time; a reader sees the last committed  *)
(* table.  A transaction is therefore two steps here, taking the write     *)
(* lock and committing, and its statements are one atomic change.          *)
(*                                                                         *)
(* Names, descriptions and definitions are abstracted to `author`: the     *)
(* request that wrote the YAML a row holds.                                *)
(***************************************************************************)
EXTENDS Naturals, FiniteSets

CONSTANTS
    Profiles,       \* the ids uuid4 may hand out
    Requests,       \* the HTTP requests of a behaviour, one operation each
    Seed,           \* author of the profile ensure_seed_profile writes
    NoOne,          \* no author, no profile, no holder of the write lock
    MaxConcurrent,  \* bound: requests in progress at once
    MaxCrashes      \* bound: crashes of the process

ASSUME StoreAssumption ==
    /\ NoOne \notin Profiles \cup Requests \cup {Seed}
    /\ MaxConcurrent \in Nat
    /\ MaxCrashes \in Nat

VARIABLES
    present,   \* rows of table profiles
    active,    \* rows with is_active
    deleted,   \* rows with is_deleted
    updated,   \* column updated_at
    author,    \* who wrote columns yaml and definition_json
    writer,    \* connection inside a write transaction, or NoOne
    clock,     \* the next value of _utc_now()
    up,        \* the application has started
    crashes,   \* crashes so far
    raced,     \* history: two requests have overlapped, or a crash cut one short
    request,   \* what each request asks for
    pc,        \* where its coroutine stands
    doing,     \* the store method it executes
    target,    \* that method's profile_id
    flag,      \* what its read told it: the row was active / nothing was
    stamp,     \* its `now`
    answer,    \* the HTTP answer
    effect,    \* history: what its own transaction did to the table
    chosen     \* history: the profile last activated on a client's demand

table == <<present, active, deleted, updated, author>>
session == <<request, doing, target, flag, stamp>>
history == <<effect, chosen>>
process == <<up, crashes, raced>>
vars == <<table, writer, clock, process, session, history, pc, answer>>

Kinds == {"create", "update", "activate", "delete"}
Stages == {"new", "get", "write", "txn", "reread", "list", "done"}
Errors == {"not_found", "conflict", "bad_yaml", "locked", "error"}
Answers == Errors \cup {"none", "ok", "lost"}
Effects == {"none", "partial", "full"}
Asked == [kind : Kinds, profile : Profiles \cup {NoOne}, activate : BOOLEAN]

\* Rows list_profiles(include_deleted=False) returns.
Live == present \ deleted

\* Rows get_active and the unique index look at.
ActiveRows == active \ deleted

\* Slip: the index is missing, or not unique.
NoUniqueIndex(a) == FALSE

\* Unique index idx_only_one_active_profile would reject is_active = a.
IndexRejects(a) == \E p, q \in a \ deleted : p # q

InProgress == {r \in Requests : pc[r] \notin {"new", "done"}}

-----------------------------------------------------------------------------
Init ==
    /\ present = {} /\ active = {} /\ deleted = {}
    /\ updated = [p \in Profiles |-> 0]
    /\ author = [p \in Profiles |-> NoOne]
    /\ writer = NoOne
    /\ clock = 1
    /\ up = FALSE
    /\ crashes = 0
    /\ raced = FALSE
    /\ request = [r \in Requests |->
                    [kind |-> "activate", profile |-> NoOne, activate |-> FALSE]]
    /\ pc = [r \in Requests |-> "new"]
    /\ doing = [r \in Requests |-> "activate"]
    /\ target = [r \in Requests |-> NoOne]
    /\ flag = [r \in Requests |-> FALSE]
    /\ stamp = [r \in Requests |-> 0]
    /\ answer = [r \in Requests |-> "none"]
    /\ effect = [r \in Requests |-> "none"]
    /\ chosen = NoOne

\* Startup: ensure_seed_profile writes a default profile into a table that
\* has neither an active profile nor any row at all.  Requests are served
\* only after it returns.
Start ==
    /\ ~up
    /\ up' = TRUE
    /\ \/ /\ ActiveRows # {} \/ present # {}
          /\ UNCHANGED <<table, clock>>
       \/ /\ ActiveRows = {} /\ present = {}
          /\ \E p \in Profiles :
                /\ present' = {p}
                /\ active' = {p}
                /\ updated' = [updated EXCEPT ![p] = clock]
                /\ author' = [author EXCEPT ![p] = Seed]
          /\ clock' = clock + 1
          /\ UNCHANGED deleted
    /\ UNCHANGED <<writer, crashes, raced, session, history, pc, answer>>

\* The process dies.  SQLite rolls the open transaction back; clients of the
\* requests in progress get no answer.
Crash ==
    /\ up
    /\ crashes < MaxCrashes
    /\ up' = FALSE
    /\ crashes' = crashes + 1
    /\ raced' = (raced \/ InProgress # {})
    /\ writer' = NoOne
    /\ pc' = [r \in Requests |-> IF r \in InProgress THEN "done" ELSE pc[r]]
    /\ answer' = [r \in Requests |-> IF r \in InProgress THEN "lost" ELSE answer[r]]
    /\ UNCHANGED <<table, clock, session, history>>

-----------------------------------------------------------------------------
Goto(r, s) == pc' = [pc EXCEPT ![r] = s]

Finish(r, a) ==
    /\ Goto(r, "done")
    /\ answer' = [answer EXCEPT ![r] = a]

\* now = _utc_now(), taken before the transaction begins.
TakeStamp(r) ==
    /\ stamp' = [stamp EXCEPT ![r] = clock]
    /\ clock' = clock + 1

\* A handler is called, with the id of a row or (NoOne) with an id nobody has.
Arrive(r) ==
    /\ up
    /\ pc[r] = "new"
    /\ Cardinality(InProgress) < MaxConcurrent
    /\ \E k \in Kinds, act \in BOOLEAN, p \in present \cup {NoOne} :
          /\ k = "create" => p = NoOne
          /\ k \in {"activate", "delete"} => ~act
          /\ request' = [request EXCEPT ![r] = [kind |-> k, profile |-> p, activate |-> act]]
          /\ doing' = [doing EXCEPT ![r] = k]
          /\ target' = [target EXCEPT ![r] = p]
    /\ Goto(r, "get")
    /\ raced' = (raced \/ InProgress # {})
    /\ UNCHANGED <<table, writer, clock, up, crashes, flag, stamp, history, answer>>

\* parse_profile_yaml raises: create before it reads anything, update after
\* it found the row.
RejectYaml(r) ==
    /\ pc[r] = "get"
    /\ \/ doing[r] = "create"
       \/ doing[r] = "update" /\ target[r] \in Live
    /\ Finish(r, "bad_yaml")
    /\ UNCHANGED <<table, writer, clock, process, session, history>>

\* create_from_yaml parsed the YAML; it reads whether to activate the profile
\* although nobody asked: when nothing is active.
CheckActive(r) ==
    /\ pc[r] = "get"
    /\ doing[r] = "create"
    /\ flag' = [flag EXCEPT ![r] = (~request[r].activate /\ ActiveRows = {})]
    /\ TakeStamp(r)
    /\ Goto(r, "write")
    /\ UNCHANGED <<table, writer, process, request, doing, target, history, answer>>

\* Slip: a status nobody declared.
UndeclaredAnswer(r) == "value_error"

\* How the handler answers a ValueError("Profile is deleted"): delete_profile
\* does not catch the one its fallback activation raises.
DeletedAnswer(r) == IF request[r].kind = "delete" THEN "error" ELSE "conflict"

\* update, activate and delete read the row before anything else.
Get(r) ==
    /\ pc[r] = "get"
    /\ doing[r] # "create"
    /\ \/ /\ target[r] \notin present
          /\ Finish(r, "not_found")
          /\ UNCHANGED <<flag, stamp, clock>>
       \/ /\ target[r] \in deleted
          /\ Finish(r, IF doing[r] = "delete" THEN "ok" ELSE DeletedAnswer(r))
          /\ UNCHANGED <<flag, stamp, clock>>
       \/ /\ target[r] \in Live
          /\ flag' = [flag EXCEPT ![r] = target[r] \in active]
          /\ TakeStamp(r)
          /\ Goto(r, "write")
          /\ UNCHANGED answer
    /\ UNCHANGED <<table, writer, process, request, doing, target, history>>

\* The transaction's first statement takes SQLite's write lock ...
BeginTxn(r) ==
    /\ pc[r] = "write"
    /\ writer = NoOne
    /\ writer' = r
    /\ Goto(r, "txn")
    /\ UNCHANGED <<table, clock, process, session, history, answer>>

\* ... or gives up: "database is locked" after sqlite3's busy timeout.
LockTimeout(r) ==
    /\ pc[r] = "write"
    /\ writer # NoOne
    /\ Finish(r, "locked")
    /\ UNCHANGED <<table, writer, clock, process, session, history>>

-----------------------------------------------------------------------------
\* Inside the transaction: r holds the write lock and leaves it either way.
InTxn(r, method) ==
    /\ pc[r] = "txn"
    /\ doing[r] = method
    /\ writer' = NoOne
    /\ UNCHANGED <<clock, process>>

\* Slip: the deactivation of the others is committed before the exception.
HalfRollback(r, a) ==
    /\ Finish(r, a)
    /\ active' = {}
    /\ effect' = [effect EXCEPT ![r] = "partial"]
    /\ UNCHANGED <<present, deleted, updated, author, session, chosen>>

\* An exception inside `async with session.begin()`.
Rollback(r, a) ==
    /\ Finish(r, a)
    /\ UNCHANGED <<table, session, history>>

\* Slip: WHERE id = :p only.
MatchesAnyRow(p) == p \in present

\* WHERE id = :p AND is_deleted IS FALSE.
Matches(p) == p \in Live

Did(r, e) ==
    effect' = [effect EXCEPT ![r] = IF doing[r] = request[r].kind THEN e ELSE @]

\* INSERT; the uuid is fresh.  The record answered is the one just built.
CommitCreate(r) ==
    /\ InTxn(r, "create")
    /\ \E p \in Profiles \ present :
          /\ present' = present \cup {p}
          /\ updated' = [updated EXCEPT ![p] = stamp[r]]
          /\ author' = [author EXCEPT ![p] = r]
          /\ target' = [target EXCEPT ![r] = p]
          /\ \/ /\ request[r].activate \/ flag[r]
                /\ active' = {p}
                /\ chosen' = p
             \/ /\ ~(request[r].activate \/ flag[r])
                /\ UNCHANGED <<active, chosen>>
    /\ Did(r, "full")
    /\ Finish(r, "ok")
    /\ UNCHANGED <<deleted, request, doing, flag, stamp>>

\* Slip: is_active = activate, forgetting that the row was active.
ForgetsActive(p, activate, wasActive) ==
    IF activate THEN {p} \cap Live ELSE active \ {p}

\* Column is_active after update_from_yaml's statements: everything is
\* deactivated on demand, then the row, if it still matches, gets
\* `activate or current.is_active`, the latter as read before the transaction.
ActiveAfterUpdate(p, activate, wasActive) ==
    LET others == IF activate THEN {} ELSE active
    IN  IF ~Matches(p) THEN others
        ELSE IF activate \/ wasActive THEN others \cup {p}
        ELSE others \ {p}

CommitUpdate(r) ==
    LET p == target[r]
        a == ActiveAfterUpdate(p, request[r].activate, flag[r])
    IN  /\ InTxn(r, "update")
        /\ \/ /\ IndexRejects(a)
              /\ Rollback(r, "conflict")
           \/ /\ ~IndexRejects(a)
              /\ active' = a
              /\ \/ /\ Matches(p)
                    /\ updated' = [updated EXCEPT ![p] = stamp[r]]
                    /\ author' = [author EXCEPT ![p] = r]
                    /\ chosen' = IF request[r].activate THEN p ELSE chosen
                    /\ Did(r, "full")
                 \/ /\ ~Matches(p)
                    /\ Did(r, IF a = active THEN "none" ELSE "partial")
                    /\ UNCHANGED <<updated, author, chosen>>
              /\ Goto(r, "reread")
              /\ UNCHANGED <<present, deleted, session, answer>>

\* rowcount == 0 raises KeyError inside the transaction and undoes the
\* deactivation of the other profiles.
CommitActivate(r) ==
    /\ InTxn(r, "activate")
    /\ \/ /\ ~Matches(target[r])
          /\ Rollback(r, "not_found")
       \/ /\ Matches(target[r])
          /\ active' = {target[r]}
          /\ updated' = [updated EXCEPT ![target[r]] = stamp[r]]
          /\ chosen' = IF request[r].kind = "activate" THEN target[r] ELSE chosen
          /\ Did(r, "full")
          /\ Goto(r, "reread")
          /\ UNCHANGED <<present, deleted, author, session, answer>>

\* Slip: delete sets is_deleted only.
StaysActive(p) == active

\* Column is_active after delete's statement.
ActiveAfterDelete(p) == active \ {p}

\* Slip: no fallback.
NoHeirNeeded(r) == FALSE

\* `if record.is_active`, as read before the transaction.
NeedsHeir(r) == flag[r]

CommitDelete(r) ==
    /\ InTxn(r, "delete")
    /\ deleted' = deleted \cup {target[r]}
    /\ active' = ActiveAfterDelete(target[r])
    /\ updated' = [updated EXCEPT ![target[r]] = stamp[r]]
    /\ Did(r, "full")
    /\ \/ /\ NeedsHeir(r)
          /\ Goto(r, "list")
          /\ UNCHANGED answer
       \/ /\ ~NeedsHeir(r)
          /\ Finish(r, "ok")
    /\ UNCHANGED <<present, author, session, chosen>>

\* delete's fallback: list_profiles orders by updated_at, newest first, and
\* the first one is activated.
ListHeirs(r) ==
    /\ pc[r] = "list"
    /\ \/ /\ Live = {}
          /\ Finish(r, "ok")
          /\ UNCHANGED session
       \/ \E heir \in Live :
             /\ \A p \in Live : updated[p] <= updated[heir]
             /\ doing' = [doing EXCEPT ![r] = "activate"]
             /\ target' = [target EXCEPT ![r] = heir]
             /\ Goto(r, "get")
             /\ UNCHANGED <<request, flag, stamp, answer>>
    /\ UNCHANGED <<table, writer, clock, process, history>>

\* session.get after the commit; a missing row is a RuntimeError.
Reread(r) ==
    /\ pc[r] = "reread"
    /\ Finish(r, IF target[r] \in present THEN "ok" ELSE "error")
    /\ UNCHANGED <<table, writer, clock, process, session, history>>

-----------------------------------------------------------------------------
Step(r) ==
    \/ RejectYaml(r)
    \/ CheckActive(r)
    \/ Get(r)
    \/ BeginTxn(r)
    \/ LockTimeout(r)
    \/ CommitCreate(r)
    \/ CommitUpdate(r)
    \/ CommitActivate(r)
    \/ CommitDelete(r)
    \/ ListHeirs(r)
    \/ Reread(r)

Next ==
    \/ Start
    \/ Crash
    \/ \E r \in Requests : Arrive(r) \/ Step(r)

Spec == Init /\ [][Next]_vars

-----------------------------------------------------------------------------
TableOK ==
    /\ present \subseteq Profiles
    /\ active \subseteq present
    /\ deleted \subseteq present
    /\ updated \in [Profiles -> Nat]
    /\ author \in [Profiles -> Requests \cup {Seed, NoOne}]
    /\ writer \in Requests \cup {NoOne}
    /\ clock \in Nat
    /\ up \in BOOLEAN
    /\ crashes \in Nat
    /\ raced \in BOOLEAN
    /\ chosen \in Profiles \cup {NoOne}

SessionOK ==
    /\ request \in [Requests -> Asked]
    /\ pc \in [Requests -> Stages]
    /\ doing \in [Requests -> Kinds]
    /\ target \in [Requests -> Profiles \cup {NoOne}]
    /\ flag \in [Requests -> BOOLEAN]
    /\ stamp \in [Requests -> Nat]
    /\ answer \in [Requests -> Answers]
    /\ effect \in [Requests -> Effects]

\* The type of the store: ids, stages and answers, and every row that is
\* active or deleted exists.
TypeOK == TableOK /\ SessionOK

\* However requests interleave and wherever the process dies, committed rows
\* never show two active profiles (idx_only_one_active_profile and the
\* deactivation at the start of every activating transaction).
AtMostOneActive == \A p, q \in active : p = q

\* A soft-deleted row is never left, or made, active: delete clears both
\* columns in one statement and every activation filters on is_deleted.
DeletedInactive == active \cap deleted = {}

\* An update that read the row before a concurrent delete committed must not
\* rewrite it afterwards, nor may anything bring a deleted row back.
DeletedFrozen ==
    [][\A p \in deleted : p \in deleted' /\ author'[p] = author[p]]_vars

\* A create, an update or an activate that is answered with an error changed
\* no row; a create or an activate answered 2xx took effect in full.
AnswersAreTruthful ==
    \A r \in Requests : request[r].kind # "delete" =>
        /\ answer[r] \in Errors => effect[r] = "none"
        /\ answer[r] = "ok" /\ request[r].kind # "update" => effect[r] = "full"

Quiescent == up /\ InProgress = {}

\* Requests that did not overlap: the profile a client last made active stays
\* active until it is deleted or another one takes its place, restarts included.
ChosenStaysActive == Quiescent /\ ~raced /\ chosen \in Live => active = {chosen}

\* Requests that did not overlap: a store with a live profile has an active
\* one, deletes of the active profile included.
SomeoneActive == Quiescent /\ ~raced /\ Live # {} => ActiveRows # {}

\* What PUT /profiles/{id} says of an update answered 200: the YAML was
\* replaced (a deleted profile cannot be updated).
UpdateTakesEffect ==
    \A r \in Requests :
        request[r].kind = "update" /\ answer[r] = "ok" => effect[r] = "full"

\* The abstract store this one implements.
Abstract == INSTANCE ActiveProfile WITH
                live <- Live, current <- ActiveRows, retired <- deleted

AbstractSpec == Abstract!Spec

=============================================================================
