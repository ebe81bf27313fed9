------------------------- MODULE ConfigUpdateProofs -------------------------
(***************************************************************************)
(* What holds of configuration updates for any number of them, at any      *)
(* concurrency, with any number of edits and crashes and with or without a *)
(* watcher: the safety properties of ConfigUpdate that its runs check.     *)
(***************************************************************************)
EXTENDS ConfigUpdate, TLAPS

\* An update is answered when it ends; nothing is in progress, or about to be
\* stored, while the proxy is down.
Answered ==
    /\ \A u \in Updates : pc[u] # "done" => answer[u] = "none"
    /\ ~up => InProgress = {} /\ loaded = Rejected

\* A configuration is nowhere before its update has written it, and nowhere
\* for good if it was refused.
Absent(u) == u \notin {file, store, engine, loaded}

Unserved ==
    \A u \in Updates :
        pc[u] \in {"new", "open", "write"} \/ answer[u] \in {"invalid", "unsaved"} => Absent(u)

\* Only a crash and the watcher bring back what an update left in the file whose
\* Close failed.
Idle == ~Watched => ~armed /\ loaded = Rejected

Unclosed ==
    /\ ~up => crashes > 0
    /\ Idle
    /\ \A u \in Updates : answer[u] = "unclosed" /\ crashes = 0 => u # engine /\ (u = store => Watched)

\* While nothing overlaps, the update in progress owns the file from the
\* moment it has truncated it.
Alone ==
    ~overlapped =>
        /\ \A u, v \in InProgress : u = v
        /\ \A u \in Updates : pc[u] = "write" => file = Empty
        /\ \A u \in Updates : pc[u] \in {"set", "point"} => file = u

\* While nothing overlaps, a store that lags behind the file is due to be
\* reloaded: the timer runs, or the watcher has read the file as it is.
Watching ==
    Watched /\ up /\ ~overlapped /\ ~armed /\ file \in Configs =>
        IF loaded = Rejected THEN store = file ELSE loaded = file

IInv == TypeOK /\ Answered /\ Unserved /\ Unclosed /\ Alone /\ Watching /\ FileWhole

-----------------------------------------------------------------------------
LEMMA InitIInv == Init => IInv
<1> SUFFICES ASSUME Init PROVE IInv
    OBVIOUS
<1>1. TypeOK
    BY ConfigAssumption DEF Init, TypeOK, Configs
<1>2. Answered /\ Alone
    BY DEF Init, Answered, Alone, InProgress
<1>3. Unserved
    BY ConfigAssumption DEF Init, Unserved, Absent, Configs
<1>4. Watching
    BY DEF Init, Watching
<1>5. FileWhole
    BY ConfigAssumption DEF Init, FileWhole, Configs
<1>6. Unclosed
    BY DEF Init, Unclosed, Idle
<1>7. QED  BY <1>1, <1>2, <1>3, <1>4, <1>5, <1>6 DEF IInv

-----------------------------------------------------------------------------
\* What a write over the file may leave there, and what may be loaded.
LEMMA Contents ==
    ASSUME TypeOK
    PROVE  /\ \A u \in Updates : Overlay(u) \subseteq {u, Mixed}
           /\ \A u \in Updates : file = Empty => Overlay(u) = {u}
           /\ Loads \subseteq {file, Mixed, Rejected}
           /\ file = Empty => Loads = {Rejected}
           /\ file \in Configs => Loads = {file}
           /\ Loads \subseteq Configs \cup {Mixed, Rejected}
<1> USE ConfigAssumption DEF TypeOK, Configs
<1>1. \A u \in Updates : Overlay(u) \subseteq {u, Mixed}
    BY DEF Overlay
<1>2. \A u \in Updates : file = Empty => Overlay(u) = {u}
    BY DEF Overlay
<1>3. Loads \subseteq {file, Mixed, Rejected}
    BY DEF Loads
<1>4. file = Empty => Loads = {Rejected}
    BY DEF Loads
<1>5. file \in Configs => Loads = {file}
    BY DEF Loads
<1>6. Loads \subseteq Configs \cup {Mixed, Rejected}
    BY DEF Loads
<1>7. QED  BY <1>1, <1>2, <1>3, <1>4, <1>5, <1>6

\* Every step keeps the types.
LEMMA TypeStep ==
    ASSUME TypeOK, [Next]_vars
    PROVE  TypeOK'
<1> USE ConfigAssumption DEF TypeOK, Goto, places, updating, watching, history
<1>a. Updates \subseteq Configs /\ Edits \subseteq Configs
    BY DEF Configs
<1>1. ASSUME NEW u \in Updates, Arrive(u)  PROVE TypeOK'
    BY <1>1 DEF Arrive, Finish
<1>2. ASSUME NEW u \in Updates, Open(u)  PROVE TypeOK'
    BY <1>2 DEF Open, Finish, SaveFails, Notify, Truncated
<1>3. ASSUME NEW u \in Updates, Write(u)  PROVE TypeOK'
    BY <1>a, <1>3, Contents DEF Write, Finish, SaveFails, Notify
<1>4. ASSUME NEW u \in Updates, Set(u)  PROVE TypeOK'
    BY <1>a, <1>4 DEF Set
<1>5. ASSUME NEW u \in Updates, Point(u)  PROVE TypeOK'
    BY <1>a, <1>5 DEF Point, Finish
<1>6. ASSUME NEW e \in Edits, Edit(e)  PROVE TypeOK'
    BY <1>a, <1>6 DEF Edit
<1>7. CASE Fire
    BY <1>7, Contents DEF Fire
<1>8. CASE Reload
    BY <1>8 DEF Reload
<1>9. CASE Crash
    <2>1. /\ pc' = [u \in Updates |-> IF u \in InProgress THEN "done" ELSE pc[u]]
          /\ answer' = [u \in Updates |-> IF u \in InProgress THEN "lost" ELSE answer[u]]
        BY <1>9 DEF Crash
    <2>2. /\ pc' \in [Updates -> {"new", "open", "write", "set", "point", "done"}]
          /\ answer' \in [Updates -> {"none", "invalid", "unsaved", "unclosed", "ok", "lost"}]
        BY <2>1
    <2>3. /\ UNCHANGED <<file, store, engine, edited, overlapped>>
          /\ crashes' = crashes + 1
          /\ loaded' = Rejected
        BY <1>9 DEF Crash
    <2>4. up' \in BOOLEAN /\ armed' \in BOOLEAN
        BY <1>9 DEF Crash
    <2>5. QED  BY <2>2, <2>3, <2>4
<1>10. CASE Start
    BY <1>10, Contents DEF Start
<1>11. CASE UNCHANGED vars
    BY <1>11 DEF vars
<1>12. QED
    BY <1>1, <1>2, <1>3, <1>4, <1>5, <1>6, <1>7, <1>8, <1>9, <1>10, <1>11 DEF Next

\* Every step answers an update at its end.
LEMMA AnsweredStep ==
    ASSUME TypeOK, Answered, [Next]_vars
    PROVE  Answered'
<1> USE ConfigAssumption DEF TypeOK, Answered, InProgress, Goto, places, updating, watching, history
<1>1. ASSUME NEW u \in Updates, Arrive(u)  PROVE Answered'
    BY <1>1 DEF Arrive, Finish
<1>2. ASSUME NEW u \in Updates, Open(u)  PROVE Answered'
    BY <1>2 DEF Open, Finish, SaveFails, Notify, Truncated
<1>3. ASSUME NEW u \in Updates, Write(u)  PROVE Answered'
    BY <1>3, Contents DEF Write, Finish, SaveFails, Notify
<1>4. ASSUME NEW u \in Updates, Set(u)  PROVE Answered'
    BY <1>4 DEF Set
<1>5. ASSUME NEW u \in Updates, Point(u)  PROVE Answered'
    BY <1>5 DEF Point, Finish
<1>6. ASSUME NEW e \in Edits, Edit(e)  PROVE Answered'
    BY <1>6 DEF Edit
<1>7. CASE Fire
    BY <1>7, Contents DEF Fire
<1>8. CASE Reload
    BY <1>8 DEF Reload
<1>9. CASE Crash
    BY <1>9 DEF Crash
<1>10. CASE Start
    BY <1>10, Contents DEF Start
<1>11. CASE UNCHANGED vars
    BY <1>11 DEF vars
<1>12. QED
    BY <1>1, <1>2, <1>3, <1>4, <1>5, <1>6, <1>7, <1>8, <1>9, <1>10, <1>11 DEF Next

\* No step brings a refused configuration anywhere.
LEMMA UnservedStep ==
    ASSUME TypeOK, Answered, Unserved, [Next]_vars
    PROVE  Unserved'
<1> USE ConfigAssumption DEF TypeOK, Configs, Answered, Unserved, Absent, Goto, places, updating, watching, history
<1>1. ASSUME NEW u \in Updates, Arrive(u)  PROVE Unserved'
    BY <1>1 DEF Arrive, Finish
<1>2. ASSUME NEW u \in Updates, Open(u)  PROVE Unserved'
    BY <1>2 DEF Open, Finish, SaveFails, Notify, Truncated
<1>3. ASSUME NEW u \in Updates, Write(u)  PROVE Unserved'
    BY <1>3, Contents DEF Write, Finish, SaveFails, Notify
<1>4. ASSUME NEW u \in Updates, Set(u)  PROVE Unserved'
    BY <1>4 DEF Set
<1>5. ASSUME NEW u \in Updates, Point(u)  PROVE Unserved'
    BY <1>5 DEF Point, Finish
<1>6. ASSUME NEW e \in Edits, Edit(e)  PROVE Unserved'
    BY <1>6 DEF Edit
<1>7. CASE Fire
    BY <1>7, Contents DEF Fire
<1>8. CASE Reload
    BY <1>8 DEF Reload
<1>9. CASE Crash
    BY <1>9 DEF Crash
<1>10. CASE Start
    BY <1>10, Contents DEF Start
<1>11. CASE UNCHANGED vars
    BY <1>11 DEF vars
<1>12. QED
    BY <1>1, <1>2, <1>3, <1>4, <1>5, <1>6, <1>7, <1>8, <1>9, <1>10, <1>11 DEF Next

\* Nothing but a restart or the watcher brings back what an update left in the
\* file whose Close failed.
LEMMA UnclosedStep ==
    ASSUME TypeOK, Answered, Unserved, Unclosed, [Next]_vars
    PROVE  Unclosed'
<1> USE ConfigAssumption DEF TypeOK, Configs, Answered, Unserved, Unclosed, Idle, Absent, Goto, places, updating, watching, history
<1>1. ASSUME NEW u \in Updates, Arrive(u)  PROVE Unclosed'
    BY <1>1 DEF Arrive, Finish
<1>2. ASSUME NEW u \in Updates, Open(u)  PROVE Unclosed'
    BY <1>2 DEF Open, Finish, SaveFails, Notify, Truncated
<1>3. ASSUME NEW u \in Updates, Write(u)  PROVE Unclosed'
    BY <1>3, Contents DEF Write, Finish, SaveFails, Notify
<1>4. ASSUME NEW u \in Updates, Set(u)  PROVE Unclosed'
    BY <1>4 DEF Set
<1>5. ASSUME NEW u \in Updates, Point(u)  PROVE Unclosed'
    BY <1>5 DEF Point, Finish
<1>6. ASSUME NEW e \in Edits, Edit(e)  PROVE Unclosed'
    BY <1>6 DEF Edit
<1>7. CASE Fire
    BY <1>7, Contents DEF Fire
<1>8. CASE Reload
    BY <1>8 DEF Reload
<1>9. CASE Crash
    BY <1>9 DEF Crash
<1>10. CASE Start
    BY <1>10, Contents DEF Start
<1>11. CASE UNCHANGED vars
    BY <1>11 DEF vars
<1>12. QED
    BY <1>1, <1>2, <1>3, <1>4, <1>5, <1>6, <1>7, <1>8, <1>9, <1>10, <1>11 DEF Next

\* Without overlaps the file belongs to the update in progress.
LEMMA AloneStep ==
    ASSUME TypeOK, Answered, Alone, [Next]_vars
    PROVE  Alone'
<1> USE ConfigAssumption DEF TypeOK, Answered, Alone, InProgress, Goto, places, updating, watching, history
<1>1. ASSUME NEW u \in Updates, Arrive(u)  PROVE Alone'
    <2>1. SUFFICES ASSUME ~overlapped'  PROVE Alone'
        BY DEF Alone
    <2>2. InProgress = {} /\ ~overlapped
        BY <1>1, <2>1 DEF Arrive
    <2>3. InProgress' \subseteq {u}
        BY <1>1, <2>2 DEF Arrive, Finish
    <2>4. \A v \in Updates : pc'[v] \notin {"write", "set", "point"}
        BY <1>1, <2>2 DEF Arrive, Finish
    <2>5. QED  BY <2>3, <2>4
<1>2. ASSUME NEW u \in Updates, Open(u)  PROVE Alone'
    BY <1>2 DEF Open, Finish, SaveFails, Notify, Truncated
<1>3. ASSUME NEW u \in Updates, Write(u)  PROVE Alone'
    BY <1>3, Contents DEF Write, Finish, SaveFails, Notify
<1>4. ASSUME NEW u \in Updates, Set(u)  PROVE Alone'
    BY <1>4 DEF Set
<1>5. ASSUME NEW u \in Updates, Point(u)  PROVE Alone'
    BY <1>5 DEF Point, Finish
<1>6. ASSUME NEW e \in Edits, Edit(e)  PROVE Alone'
    BY <1>6 DEF Edit
<1>7. CASE Fire
    BY <1>7, Contents DEF Fire
<1>8. CASE Reload
    BY <1>8 DEF Reload
<1>9. CASE Crash
    BY <1>9 DEF Crash
<1>10. CASE Start
    BY <1>10, Contents DEF Start
<1>11. CASE UNCHANGED vars
    BY <1>11 DEF vars
<1>12. QED
    BY <1>1, <1>2, <1>3, <1>4, <1>5, <1>6, <1>7, <1>8, <1>9, <1>10, <1>11 DEF Next

\* Without overlaps the store follows the file.
LEMMA WatchingStep ==
    ASSUME TypeOK, Answered, Alone, Watching, [Next]_vars
    PROVE  Watching'
<1> USE ConfigAssumption DEF TypeOK, Configs, Answered, Alone, Watching, Goto, places, updating, watching, history
<1>1. ASSUME NEW u \in Updates, Arrive(u)  PROVE Watching'
    BY <1>1 DEF Arrive, Finish
<1>2. ASSUME NEW u \in Updates, Open(u)  PROVE Watching'
    BY <1>2 DEF Open, Finish, SaveFails, Notify, Truncated
<1>3. ASSUME NEW u \in Updates, Write(u)  PROVE Watching'
    BY <1>3, Contents DEF Write, Finish, SaveFails, Notify
<1>4. ASSUME NEW u \in Updates, Set(u)  PROVE Watching'
    BY <1>4 DEF Set
<1>5. ASSUME NEW u \in Updates, Point(u)  PROVE Watching'
    BY <1>5 DEF Point, Finish
<1>6. ASSUME NEW e \in Edits, Edit(e)  PROVE Watching'
    BY <1>6 DEF Edit
<1>7. CASE Fire
    BY <1>7, Contents DEF Fire
<1>8. CASE Reload
    BY <1>8 DEF Reload
<1>9. CASE Crash
    BY <1>9 DEF Crash
<1>10. CASE Start
    BY <1>10, Contents DEF Start
<1>11. CASE UNCHANGED vars
    BY <1>11 DEF vars
<1>12. QED
    BY <1>1, <1>2, <1>3, <1>4, <1>5, <1>6, <1>7, <1>8, <1>9, <1>10, <1>11 DEF Next

\* The file is broken only by what FileWhole names.
LEMMA FileWholeStep ==
    ASSUME TypeOK, Answered, Alone, FileWhole, [Next]_vars
    PROVE  FileWhole'
<1> USE ConfigAssumption DEF TypeOK, Configs, Answered, Alone, FileWhole, SaveFailed, InProgress, Goto, places, updating, watching, history
<1>1. ASSUME NEW u \in Updates, Arrive(u)  PROVE FileWhole'
    BY <1>1 DEF Arrive, Finish
<1>2. ASSUME NEW u \in Updates, Open(u)  PROVE FileWhole'
    BY <1>2 DEF Open, Finish, SaveFails, Notify, Truncated
<1>3. ASSUME NEW u \in Updates, Write(u)  PROVE FileWhole'
    BY <1>3, Contents DEF Write, Finish, SaveFails, Notify
<1>4. ASSUME NEW u \in Updates, Set(u)  PROVE FileWhole'
    BY <1>4 DEF Set
<1>5. ASSUME NEW u \in Updates, Point(u)  PROVE FileWhole'
    BY <1>5 DEF Point, Finish
<1>6. ASSUME NEW e \in Edits, Edit(e)  PROVE FileWhole'
    BY <1>6 DEF Edit
<1>7. CASE Fire
    BY <1>7, Contents DEF Fire
<1>8. CASE Reload
    BY <1>8 DEF Reload
<1>9. CASE Crash
    BY <1>9 DEF Crash
<1>10. CASE Start
    <2>1. UNCHANGED <<file, crashes, pc, answer, overlapped>>
        BY <1>10 DEF Start
    <2>2. QED  BY <2>1
<1>11. CASE UNCHANGED vars
    BY <1>11 DEF vars
<1>12. QED
    BY <1>1, <1>2, <1>3, <1>4, <1>5, <1>6, <1>7, <1>8, <1>9, <1>10, <1>11 DEF Next

LEMMA NextIInv == IInv /\ [Next]_vars => IInv'
BY TypeStep, AnsweredStep, UnservedStep, UnclosedStep, AloneStep, WatchingStep, FileWholeStep DEF IInv

LEMMA Invariance == Spec => []IInv
BY InitIInv, NextIInv, PTL DEF Spec

-----------------------------------------------------------------------------
\* Type correctness: in particular nothing is stored, or about to be stored,
\* that did not load and validate.
THEOREM TypeCorrect == Spec => []TypeOK
<1>1. IInv => TypeOK
    BY DEF IInv
<1>2. QED  BY <1>1, Invariance, PTL

\* A refused update is never in the file, served, or about to be served; one
\* refused for the Close of its file is served only after a restart, or by the
\* watcher.
THEOREM RefusedIsGone == Spec => []ErrorsChangeNothing
<1>1. IInv => ErrorsChangeNothing
    BY DEF IInv, Unserved, Unclosed, Absent, ErrorsChangeNothing
<1>2. QED  BY <1>1, Invariance, PTL

\* The configuration file is broken only by overlapping writers, a failed save
\* or a crash.
THEOREM OnlyNamedCauses == Spec => []FileWhole
<1>1. IInv => FileWhole
    BY DEF IInv
<1>2. QED  BY <1>1, Invariance, PTL

\* With a watcher and without overlaps the store ends up with what the file
\* says.
THEOREM StoreInStep == Spec => []StoreFollowsFile
<1>1. IInv => StoreFollowsFile
    BY DEF IInv, Watching, StoreFollowsFile, Quiet
<1>2. QED  BY <1>1, Invariance, PTL

=============================================================================
