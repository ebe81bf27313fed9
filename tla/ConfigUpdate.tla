---------------------------- MODULE ConfigUpdate ----------------------------
(***************************************************************************)
(* How a configuration gets into the proxy: main loads the file            *)
(* (proxy/cmd/app/main.go), POST /api/v1/config validates, saves and       *)
(* applies one (UpdateConfig in proxy/internal/httpserver/server.go), and  *)
(* the watcher of proxy/internal/config reloads the file when it changes   *)
(* (main does not start it: `Watched`).                                    *)
(*                                                                         *)
(* A configuration lives in three places that are written one after the    *)
(* other, without a lock: the file, the store that routes requests, and    *)
(* the engine client's address.  Saving is two system calls, a truncating  *)
(* open and a write at offset 0.  The configuration update u submits is    *)
(* called u.                                                               *)
(***************************************************************************)
EXTENDS Naturals, FiniteSets

CONSTANTS
    Updates,        \* calls of POST /api/v1/config
    Edits,          \* configurations an operator puts into the file
    First,          \* the configuration of the installation
    Size,           \* length of a configuration in YAML
    Watched,        \* whether a Watcher runs
    Empty,          \* content of a truncated file
    Mixed,          \* content nobody wrote as a whole
    Rejected,       \* what does not load or validate
    MaxConcurrent,  \* bound: updates in progress at once
    MaxCrashes      \* bound: crashes of the proxy

Configs == Updates \cup Edits \cup {First}

ASSUME ConfigAssumption ==
    /\ Updates \cap (Edits \cup {First}) = {}
    /\ First \notin Edits
    /\ Size \in [Configs -> Nat \ {0}]
    /\ {Empty, Mixed, Rejected} \cap Configs = {}
    /\ Empty # Mixed /\ Empty # Rejected /\ Mixed # Rejected
    /\ Watched \in BOOLEAN
    /\ MaxConcurrent \in Nat
    /\ MaxCrashes \in Nat

VARIABLES
    file,        \* content of configs/config.yaml
    store,       \* Store.current
    engine,      \* the configuration whose engine_url the client has
    up,          \* the proxy runs
    crashes,     \* crashes so far
    pc,          \* where each update stands
    answer,      \* its HTTP answer
    armed,       \* the watcher's timer runs, or an event for it is queued
    loaded,      \* what the watcher has loaded and not stored yet
    edited,      \* history: edits made so far
    overlapped   \* history: an update has met another one, or an edit

places == <<file, store, engine>>
updating == <<pc, answer>>
watching == <<armed, loaded>>
history == <<edited, overlapped>>
vars == <<places, up, crashes, updating, watching, history>>

InProgress == {u \in Updates : pc[u] \notin {"new", "done"}}

-----------------------------------------------------------------------------
Init ==
    /\ file = First
    /\ store = First
    /\ engine = First
    /\ up = TRUE
    /\ crashes = 0
    /\ pc = [u \in Updates |-> "new"]
    /\ answer = [u \in Updates |-> "none"]
    /\ armed = FALSE
    /\ loaded = Rejected
    /\ edited = {}
    /\ overlapped = FALSE

Goto(u, s) == pc' = [pc EXCEPT ![u] = s]

Finish(u, a) ==
    /\ Goto(u, "done")
    /\ answer' = [answer EXCEPT ![u] = a]

\* Slip: the event is lost if it comes while the watcher reloads.
MissedWhileLoading == armed' = (Watched /\ (armed \/ loaded = Rejected))

\* inotify reports a change of the file; every event restarts the timer.
Notify == armed' = Watched

-----------------------------------------------------------------------------
\* UpdateConfig up to Validate.
Arrive(u) ==
    /\ up
    /\ pc[u] = "new"
    /\ Cardinality(InProgress) < MaxConcurrent
    /\ \/ Finish(u, "invalid")
       \/ Goto(u, "open") /\ UNCHANGED answer
    /\ overlapped' = (overlapped \/ InProgress # {})
    /\ UNCHANGED <<places, up, crashes, watching, edited>>

\* Slip: no return after the 500.
FallThrough(u) ==
    /\ Goto(u, "set")
    /\ answer' = [answer EXCEPT ![u] = "unsaved"]

\* SaveToFile fails: 500.
SaveFails(u) == Finish(u, "unsaved")

\* Slip: O_TRUNC is missing.
NotTruncated == file

\* O_TRUNC
Truncated == Empty

\* os.WriteFile opens the file, or cannot.
Open(u) ==
    /\ pc[u] = "open"
    /\ \/ /\ file' = Truncated
          /\ Notify
          /\ Goto(u, "write")
          /\ UNCHANGED answer
       \/ /\ SaveFails(u)
          /\ UNCHANGED <<file, armed>>
    /\ UNCHANGED <<store, engine, up, crashes, loaded, history>>

\* What the file may hold after content c was written over it from offset 0.
Overlay(c) ==
    CASE file = Empty -> {c}
      [] file \in Configs -> IF Size[file] <= Size[c] THEN {c} ELSE {Mixed}
      [] OTHER -> {c, Mixed}

\* ... and writes and closes it, or fails half-way, or only at the Close: then
\* the answer is 500 although the content is there.
Write(u) ==
    /\ pc[u] = "write"
    /\ Notify
    /\ \/ /\ file' \in Overlay(u)
          /\ Goto(u, "set")
          /\ UNCHANGED answer
       \/ /\ file' = Mixed
          /\ SaveFails(u)
       \/ /\ file' \in Overlay(u)
          /\ Finish(u, "unclosed")
    /\ UNCHANGED <<store, engine, up, crashes, loaded, history>>

\* Compile cannot fail on what validated; cfgStore.Set.
Set(u) ==
    /\ pc[u] = "set"
    /\ store' = u
    /\ Goto(u, "point")
    /\ UNCHANGED <<file, engine, up, crashes, answer, watching, history>>

\* engine.SetBaseUrl, and 200.  EngineUrl is not empty, or Validate would have
\* refused it.
Point(u) ==
    /\ pc[u] = "point"
    /\ engine' = u
    /\ Finish(u, "ok")
    /\ UNCHANGED <<file, store, up, crashes, watching, history>>

-----------------------------------------------------------------------------
\* Slip: the file is not validated.
LoadsAnything == {file}

\* What LoadFromFile, Validate and Compile may make of the file: an empty one
\* has no port; a mixed one may parse or not.
Loads ==
    CASE file = Empty -> {Rejected}
      [] file = Mixed -> {Mixed, Rejected}
      [] OTHER -> {file}

\* The debounce timer fires and reload reads the file ...
Fire ==
    /\ up
    /\ armed
    /\ loaded = Rejected
    /\ armed' = FALSE
    /\ loaded' \in Loads
    /\ UNCHANGED <<places, up, crashes, updating, history>>

\* ... and stores what it has read.  The client keeps its address.
Reload ==
    /\ up
    /\ loaded # Rejected
    /\ store' = loaded
    /\ loaded' = Rejected
    /\ UNCHANGED <<file, engine, up, crashes, updating, armed, history>>

\* An operator rewrites the file, while no update does.
Edit(e) ==
    /\ e \notin edited
    /\ \A u \in Updates : pc[u] # "write"
    /\ file' = e
    /\ edited' = edited \cup {e}
    /\ armed' = (Watched /\ up)
    /\ overlapped' = (overlapped \/ InProgress # {})
    /\ UNCHANGED <<store, engine, up, crashes, loaded, updating>>

\* The proxy dies.
Crash ==
    /\ up
    /\ crashes < MaxCrashes
    /\ up' = FALSE
    /\ crashes' = crashes + 1
    /\ pc' = [u \in Updates |-> IF u \in InProgress THEN "done" ELSE pc[u]]
    /\ answer' = [u \in Updates |-> IF u \in InProgress THEN "lost" ELSE answer[u]]
    /\ armed' = FALSE
    /\ loaded' = Rejected
    /\ UNCHANGED <<places, history>>

\* main: with a file that does not load it exits at once (log.Fatalf).
Start ==
    /\ ~up
    /\ \E c \in Loads \ {Rejected} :
          /\ store' = c
          /\ engine' = c
    /\ up' = TRUE
    /\ UNCHANGED <<file, crashes, updating, watching, history>>

-----------------------------------------------------------------------------
Next ==
    \/ \E u \in Updates : Arrive(u) \/ Open(u) \/ Write(u) \/ Set(u) \/ Point(u)
    \/ \E e \in Edits : Edit(e)
    \/ Fire \/ Reload
    \/ Crash \/ Start

Spec == Init /\ [][Next]_vars

-----------------------------------------------------------------------------
\* The type of the configuration's state: what is served, or read to be
\* served, has been through Validate.
TypeOK ==
    /\ file \in Configs \cup {Empty, Mixed}
    /\ store \in Configs \cup {Mixed}
    /\ engine \in Configs \cup {Mixed}
    /\ up \in BOOLEAN
    /\ crashes \in Nat
    /\ pc \in [Updates -> {"new", "open", "write", "set", "point", "done"}]
    /\ answer \in [Updates -> {"none", "invalid", "unsaved", "unclosed", "ok", "lost"}]
    /\ armed \in BOOLEAN
    /\ loaded \in Configs \cup {Mixed, Rejected}
    /\ edited \subseteq Edits
    /\ overlapped \in BOOLEAN

Quiet == up /\ InProgress = {} /\ ~armed /\ loaded = Rejected

SaveFailed == \E u \in Updates : answer[u] = "unsaved"

\* An update answered 400 or 500 is not what the proxy runs with, now or
\* after a reload or a restart.  When only the Close of the file failed, its
\* content is there: then a restart may bring it, or the watcher bring it into
\* the store, and nothing else may.
ErrorsChangeNothing ==
    \A u \in Updates :
        /\ answer[u] \in {"invalid", "unsaved"} => u \notin {file, store, engine, loaded}
        /\ answer[u] = "unclosed" /\ crashes = 0 => u # engine /\ (u = store => Watched)

\* Between updates the file is a whole configuration, unless two writers
\* overlapped, a save failed, or the proxy died before it could write.
FileWhole ==
    /\ file = Mixed => overlapped \/ SaveFailed
    /\ file = Empty => crashes > 0 \/ \E u \in Updates : pc[u] = "write"

\* Updates one at a time: once the watcher has nothing left to do, requests
\* are routed by what the file says, whatever reads of the watcher, crashes
\* and edits came in between.
StoreFollowsFile ==
    Watched /\ Quiet /\ ~overlapped /\ file \in Configs => store = file

\* What the API documentation says of an update: the configuration is saved
\* to the file and becomes the one in memory.  So after updates that were all
\* answered 200 the two are the same.
SavedIsApplied ==
    Quiet /\ crashes = 0 /\ edited = {} /\ (\A u \in Updates : answer[u] = "ok") => file = store

=============================================================================
