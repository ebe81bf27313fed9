------------------------- MODULE ProfileStoreProofs -------------------------
(***************************************************************************)
(* Theorems about ProfileStore for any number of profiles and requests,    *)
(* any degree of concurrency and any number of crashes.                    *)
(***************************************************************************)
EXTENDS ProfileStore, TLAPS

\* A delete past its first read works on a row that exists.
DeleteTargets ==
    \A r \in Requests :
        pc[r] \in {"write", "txn"} /\ doing[r] = "delete" => target[r] \in present

\* The inductive invariant: the columns of the table fit together.  Nothing
\* is said of flag, what a request remembers of is_active: however stale, the
\* index and the WHERE clauses keep the table sound.
IInv ==
    /\ TypeOK
    /\ DeleteTargets
    /\ AtMostOneActive
    /\ DeletedInactive

-----------------------------------------------------------------------------
\* The initial table is empty and no request has arrived.
LEMMA InitIInv == Init => IInv
<1> SUFFICES ASSUME Init PROVE IInv
  OBVIOUS
<1>1. TableOK
  BY DEF Init, TableOK
<1>2. [kind |-> "activate", profile |-> NoOne, activate |-> FALSE] \in Asked
  BY DEF Asked, Kinds
<1>3. SessionOK
  BY <1>2 DEF Init, SessionOK, Stages, Kinds, Answers, Effects
<1>4. DeleteTargets /\ AtMostOneActive /\ DeletedInactive
  BY DEF Init, DeleteTargets, AtMostOneActive, DeletedInactive
<1> QED
  BY <1>1, <1>3, <1>4 DEF IInv, TypeOK

\* Moving a coroutine to a stage keeps pc a function on the requests.
LEMMA GotoType ==
  ASSUME SessionOK, NEW r \in Requests, NEW s \in Stages, Goto(r, s)
  PROVE  pc' \in [Requests -> Stages]
  BY DEF Goto, SessionOK

\* So does answering it, and the answers keep their type.
LEMMA FinishType ==
  ASSUME SessionOK, NEW r \in Requests, NEW a \in Answers, Finish(r, a)
  PROVE  pc' \in [Requests -> Stages] /\ answer' \in [Requests -> Answers]
<1>1. "done" \in Stages
  BY DEF Stages
<1> QED
  BY <1>1, GotoType DEF Finish, SessionOK

\* The history variable effect keeps its type.
LEMMA DidType ==
  ASSUME SessionOK, NEW r \in Requests, NEW e \in Effects, Did(r, e)
  PROVE  effect' \in [Requests -> Effects]
  BY DEF Did, SessionOK

\* The stages and answers the steps use.
LEMMA Vocabulary ==
    /\ \A s \in {"new", "get", "write", "txn", "reread", "list", "done"} : s \in Stages
    /\ \A a \in {"not_found", "conflict", "bad_yaml", "locked", "error",
                 "none", "ok", "lost"} : a \in Answers
    /\ \A e \in {"none", "partial", "full"} : e \in Effects
    /\ \A k \in {"create", "update", "activate", "delete"} : k \in Kinds
  BY DEF Stages, Answers, Errors, Effects, Kinds

-----------------------------------------------------------------------------
\* A step that leaves the table alone keeps what is said of it.
LEMMA SessionStep ==
  ASSUME IInv, SessionOK', NEW r \in Requests,
         \/ Arrive(r) \/ RejectYaml(r) \/ CheckActive(r) \/ Get(r)
         \/ BeginTxn(r) \/ LockTimeout(r) \/ ListHeirs(r) \/ Reread(r)
  PROVE  IInv'
<1> USE DEF IInv, TypeOK, TableOK, SessionOK
<1>1. UNCHANGED <<table, up, crashes, chosen>>
  BY DEF Arrive, RejectYaml, CheckActive, Get, BeginTxn, LockTimeout, ListHeirs,
         Reread, process, session, history
<1>2. TableOK'
  <2>1. clock' \in Nat
    BY DEF Arrive, RejectYaml, CheckActive, Get, BeginTxn, LockTimeout, ListHeirs,
           Reread, TakeStamp
  <2>2. writer' \in Requests \cup {NoOne}
    BY DEF Arrive, RejectYaml, CheckActive, Get, BeginTxn, LockTimeout, ListHeirs,
           Reread
  <2>3. raced' \in BOOLEAN
    <3>1. CASE Arrive(r)
      <4>1. raced' = (raced \/ InProgress # {})
        BY <3>1 DEF Arrive
      <4> HIDE DEF IInv, TypeOK, TableOK, SessionOK
      <4> QED
        BY <4>1, Zenon
    <3>2. CASE ~ Arrive(r)
      BY <3>2 DEF RejectYaml, CheckActive, Get, BeginTxn, LockTimeout, ListHeirs,
             Reread, process
    <3> QED
      BY <3>1, <3>2
  <2> QED
    BY <1>1, <2>1, <2>2, <2>3 DEF table
<1>3. DeleteTargets'
  <2> SUFFICES ASSUME NEW q \in Requests, pc'[q] \in {"write", "txn"},
                      doing'[q] = "delete"
               PROVE  target'[q] \in present
    BY <1>1 DEF DeleteTargets, table
  <2>1. CASE q # r
    <3>1. pc'[q] = pc[q] /\ doing'[q] = doing[q] /\ target'[q] = target[q]
      BY <2>1 DEF Arrive, RejectYaml, CheckActive, Get, BeginTxn, LockTimeout,
             ListHeirs, Reread, Goto, Finish, session
    <3> QED
      BY <3>1 DEF DeleteTargets
  <2>2. CASE q = r
    <3>1. CASE Arrive(r)
      BY <2>2, <3>1 DEF Arrive, Goto
    <3>2. CASE Get(r)
      BY <2>2, <3>2 DEF Get, Goto, Finish, Live
    <3>3. CASE BeginTxn(r)
      BY <2>2, <3>3 DEF BeginTxn, Goto, session, DeleteTargets
    <3>4. CASE CheckActive(r)
      BY <2>2, <3>4 DEF CheckActive
    <3>5. CASE RejectYaml(r) \/ LockTimeout(r) \/ ListHeirs(r) \/ Reread(r)
      BY <2>2, <3>5 DEF RejectYaml, LockTimeout, ListHeirs, Reread, Goto, Finish
    <3> QED
      BY <3>1, <3>2, <3>3, <3>4, <3>5
  <2> QED
    BY <2>1, <2>2
<1> QED
  BY <1>1, <1>2, <1>3 DEF table, AtMostOneActive, DeletedInactive

\* Every step of a request keeps the types of its session.
LEMMA SessionTypes ==
  ASSUME IInv, NEW r \in Requests, Arrive(r) \/ Step(r)
  PROVE  SessionOK'
<1> USE Vocabulary DEF IInv, TypeOK
<1>1. CASE Arrive(r)
  <2>1. /\ UNCHANGED <<flag, answer, effect>>
        /\ stamp' \in [Requests -> Nat]
        /\ pc' \in [Requests -> Stages]
    BY <1>1, GotoType DEF Arrive, SessionOK, TableOK, history, TakeStamp
  <2>2. PICK k \in Kinds, act \in BOOLEAN, p \in present \cup {NoOne} :
              /\ request' = [request EXCEPT ![r] = [kind |-> k, profile |-> p, activate |-> act]]
              /\ doing' = [doing EXCEPT ![r] = k]
              /\ target' = [target EXCEPT ![r] = p]
    BY <1>1 DEF Arrive
  <2>3. p \in Profiles \cup {NoOne}
    BY DEF TableOK
  <2>4. [kind |-> k, profile |-> p, activate |-> act] \in Asked
    BY <2>3 DEF Asked
  <2> QED
    BY <2>1, <2>2, <2>3, <2>4 DEF SessionOK
<1>2. CASE RejectYaml(r)
  BY <1>2, FinishType DEF RejectYaml, session, history, SessionOK
<1>3. CASE CheckActive(r)
  BY <1>3, GotoType DEF CheckActive, TakeStamp, history, SessionOK, TableOK
<1>4. CASE Get(r)
  <2>1. DeletedAnswer(r) \in Answers
    BY DEF DeletedAnswer
  <2>2. pc' \in [Requests -> Stages] /\ answer' \in [Requests -> Answers]
    BY <1>4, <2>1, GotoType, FinishType DEF Get, SessionOK
  <2>3. stamp' \in [Requests -> Nat]
    BY <1>4 DEF Get, TakeStamp, SessionOK, TableOK
  <2>4. flag' \in [Requests -> BOOLEAN]
    <3> DEFINE b == target[r] \in active
    <3>1. b \in BOOLEAN
      OBVIOUS
    <3>2. flag' = flag \/ flag' = [flag EXCEPT ![r] = b]
      BY <1>4, Zenon DEF Get
    <3> HIDE DEF b
    <3> QED
      BY <3>1, <3>2 DEF SessionOK
  <2> QED
    BY <1>4, <2>2, <2>3, <2>4 DEF Get, history, SessionOK
<1>5. CASE BeginTxn(r)
  BY <1>5, GotoType DEF BeginTxn, session, history, SessionOK
<1>6. CASE LockTimeout(r)
  BY <1>6, FinishType DEF LockTimeout, session, history, SessionOK
<1>7. CASE CommitCreate(r)
  BY <1>7, FinishType, DidType DEF CommitCreate, SessionOK
<1>8. CASE CommitUpdate(r)
  <2>1. CASE Rollback(r, "conflict")
    BY <2>1, FinishType DEF Rollback, session, history, SessionOK
  <2>2. CASE /\ Goto(r, "reread") /\ UNCHANGED <<session, answer>>
             /\ \E e \in Effects : Did(r, e)
    BY <2>2, GotoType, DidType DEF session, SessionOK
  <2>3. \A b \in BOOLEAN : (IF b THEN "none" ELSE "partial") \in Effects
    OBVIOUS
  <2> QED
    BY <1>8, <2>1, <2>2, <2>3 DEF CommitUpdate
<1>9. CASE CommitActivate(r)
  BY <1>9, GotoType, FinishType, DidType DEF CommitActivate, Rollback, session, history, SessionOK
<1>10. CASE CommitDelete(r)
  BY <1>10, GotoType, FinishType, DidType DEF CommitDelete, session, SessionOK
<1>11. CASE ListHeirs(r)
  <2>1. pc' \in [Requests -> Stages] /\ answer' \in [Requests -> Answers]
    BY <1>11, GotoType, FinishType DEF ListHeirs, SessionOK
  <2>2. doing' \in [Requests -> Kinds] /\ target' \in [Requests -> Profiles \cup {NoOne}]
    BY <1>11 DEF ListHeirs, Live, session, SessionOK, TableOK
  <2> QED
    BY <1>11, <2>1, <2>2 DEF ListHeirs, session, history, SessionOK
<1>12. CASE Reread(r)
  BY <1>12, FinishType DEF Reread, session, history, SessionOK
<1> QED
  BY <1>1, <1>2, <1>3, <1>4, <1>5, <1>6, <1>7, <1>8, <1>9, <1>10, <1>11, <1>12 DEF Step

-----------------------------------------------------------------------------
\* The new is_active column is_active = {p}, for a live row p, is sound.
LEMMA OnlyActive ==
  ASSUME NEW p \in Live', active' = {p}
  PROVE  AtMostOneActive' /\ DeletedInactive'
  BY DEF AtMostOneActive, DeletedInactive, Live

\* An update keeps the column sound: the index rejects what would not be.
LEMMA UpdatedColumn ==
  ASSUME IInv, NEW p, NEW activate \in BOOLEAN, NEW wasActive \in BOOLEAN,
         NEW a, a = ActiveAfterUpdate(p, activate, wasActive), ~IndexRejects(a)
  PROVE  /\ a \subseteq Live
         /\ \A x, y \in a : x = y
<1>1. active \subseteq Live
  BY DEF IInv, TypeOK, TableOK, DeletedInactive, Live
<1>2. a \subseteq Live
  BY <1>1 DEF ActiveAfterUpdate, Matches
<1>3. a \ deleted = a
  BY <1>2 DEF Live
<1> QED
  BY <1>2, <1>3 DEF IndexRejects

\* A commit keeps the table's types and columns.
LEMMA CommitTable ==
  ASSUME IInv, NEW r \in Requests,
         \/ CommitCreate(r) \/ CommitUpdate(r) \/ CommitActivate(r) \/ CommitDelete(r)
  PROVE  TableOK' /\ AtMostOneActive' /\ DeletedInactive' /\ present \subseteq present'
<1> USE DEF IInv, TypeOK
<1>1. writer' = NoOne /\ UNCHANGED <<clock, up, crashes, raced>>
  BY DEF CommitCreate, CommitUpdate, CommitActivate, CommitDelete, InTxn, process
<1>2. CASE CommitCreate(r)
  <2>1. PICK p \in Profiles \ present :
              /\ present' = present \cup {p}
              /\ updated' = [updated EXCEPT ![p] = stamp[r]]
              /\ author' = [author EXCEPT ![p] = r]
              /\ \/ active' = {p} /\ chosen' = p
                 \/ UNCHANGED <<active, chosen>>
              /\ UNCHANGED deleted
    BY <1>2 DEF CommitCreate
  <2>2. TableOK'
    BY <1>1, <2>1 DEF TableOK, SessionOK
  <2>3. AtMostOneActive' /\ DeletedInactive'
    BY <2>1 DEF AtMostOneActive, DeletedInactive, TableOK
  <2> QED
    BY <2>1, <2>2, <2>3
<1>3. CASE CommitUpdate(r)
  <2>1. CASE UNCHANGED <<table, chosen>>
    BY <1>1, <2>1 DEF table, TableOK, AtMostOneActive, DeletedInactive
  <2>2. CASE ~ UNCHANGED <<table, chosen>>
    <3> DEFINE a == ActiveAfterUpdate(target[r], request[r].activate, flag[r])
    <3>1. /\ ~IndexRejects(a)
          /\ active' = a
          /\ UNCHANGED <<present, deleted>>
          /\ \/ /\ target[r] \in Live
                /\ updated' = [updated EXCEPT ![target[r]] = stamp[r]]
                /\ author' = [author EXCEPT ![target[r]] = r]
                /\ chosen' \in {target[r], chosen}
             \/ UNCHANGED <<updated, author, chosen>>
      BY <1>3, <2>2 DEF CommitUpdate, Rollback, Matches, history
    <3>2. request[r].activate \in BOOLEAN /\ flag[r] \in BOOLEAN
      BY DEF SessionOK, Asked
    <3> HIDE DEF a
    <3>3. a \subseteq Live /\ \A x, y \in a : x = y
      BY <3>1, <3>2, UpdatedColumn DEF a
    <3>4. TableOK'
      BY <1>1, <3>1, <3>3 DEF TableOK, SessionOK, Live
    <3> QED
      BY <3>1, <3>3, <3>4 DEF AtMostOneActive, DeletedInactive, Live
  <2> QED
    BY <2>1, <2>2
<1>4. CASE CommitActivate(r)
  <2>1. CASE UNCHANGED <<table, chosen>>
    BY <1>1, <2>1 DEF table, TableOK, AtMostOneActive, DeletedInactive
  <2>2. CASE ~ UNCHANGED <<table, chosen>>
    <3>1. /\ target[r] \in Live
          /\ active' = {target[r]}
          /\ updated' = [updated EXCEPT ![target[r]] = stamp[r]]
          /\ chosen' \in {target[r], chosen}
          /\ UNCHANGED <<present, deleted, author>>
      BY <1>4, <2>2 DEF CommitActivate, Rollback, Matches, history
    <3>2. TableOK'
      BY <1>1, <3>1 DEF TableOK, SessionOK, Live
    <3> QED
      BY <3>1, <3>2, OnlyActive DEF Live
  <2> QED
    BY <2>1, <2>2
<1>5. CASE CommitDelete(r)
  <2>1. target[r] \in present
    BY <1>5 DEF CommitDelete, InTxn, DeleteTargets
  <2>2. /\ deleted' = deleted \cup {target[r]}
        /\ active' = active \ {target[r]}
        /\ updated' = [updated EXCEPT ![target[r]] = stamp[r]]
        /\ UNCHANGED <<present, author, chosen>>
    BY <1>5 DEF CommitDelete, ActiveAfterDelete
  <2>3. TableOK'
    BY <1>1, <2>1, <2>2 DEF TableOK, SessionOK
  <2> QED
    BY <2>2, <2>3 DEF AtMostOneActive, DeletedInactive
<1> QED
  BY <1>2, <1>3, <1>4, <1>5

\* A commit takes its request out of the stages DeleteTargets speaks of.
LEMMA CommitTargets ==
  ASSUME IInv, NEW r \in Requests, present \subseteq present',
         \/ CommitCreate(r) \/ CommitUpdate(r) \/ CommitActivate(r) \/ CommitDelete(r)
  PROVE  DeleteTargets'
<1> SUFFICES ASSUME NEW q \in Requests, pc'[q] \in {"write", "txn"},
                    doing'[q] = "delete"
             PROVE  target'[q] \in present'
  BY DEF DeleteTargets
<1> USE DEF IInv, TypeOK, SessionOK
<1>1. /\ pc'[r] \in {"reread", "list", "done"}
      /\ q # r => pc'[q] = pc[q] /\ doing'[q] = doing[q] /\ target'[q] = target[q]
  BY DEF CommitCreate, CommitUpdate, CommitActivate, CommitDelete, Rollback, Goto,
         Finish, session
<1> QED
  BY <1>1 DEF DeleteTargets

\* Startup writes the seed profile, or nothing.
LEMMA StartStep ==
  ASSUME IInv, Start
  PROVE  IInv'
<1> USE DEF IInv, TypeOK
<1>1. SessionOK' /\ DeleteTargets'
  <2>1. UNCHANGED <<pc, doing, target, request, flag, stamp, answer, effect>>
    BY DEF Start, session, history
  <2>2. present \subseteq present'
    BY DEF Start, table
  <2> QED
    BY <2>1, <2>2 DEF SessionOK, DeleteTargets
<1>2. TableOK' /\ AtMostOneActive' /\ DeletedInactive'
  BY DEF Start, TableOK, AtMostOneActive, DeletedInactive, table, history
<1> QED
  BY <1>1, <1>2

\* A crash leaves the committed table as it is.
LEMMA CrashStep ==
  ASSUME IInv, Crash
  PROVE  IInv'
<1> USE DEF IInv, TypeOK
<1>1. TableOK' /\ AtMostOneActive' /\ DeletedInactive'
  <2>1. /\ UNCHANGED <<present, active, deleted, updated, author, clock, chosen>>
        /\ up' = FALSE /\ crashes' = crashes + 1 /\ writer' = NoOne
    BY DEF Crash, table, history
  <2>2. up' \in BOOLEAN
    BY <2>1
  <2>3. crashes' \in Nat
    BY <2>1 DEF TableOK
  <2>4. writer' \in Requests \cup {NoOne}
    BY <2>1
  <2>5. raced' \in BOOLEAN
    <3>1. raced' = (raced \/ InProgress # {})
      BY DEF Crash
    <3> QED
      BY <3>1, Zenon
  <2>6. TableOK'
    BY <2>1, <2>2, <2>3, <2>4, <2>5 DEF TableOK
  <2>7. AtMostOneActive' /\ DeletedInactive'
    BY <2>1 DEF AtMostOneActive, DeletedInactive
  <2> QED
    BY <2>6, <2>7
<1>2. SessionOK' /\ DeleteTargets'
  <2>1. \A q \in Requests : pc'[q] \in {pc[q], "done"} /\ answer'[q] \in {answer[q], "lost"}
    BY DEF Crash, SessionOK
  <2>2. pc' \in [Requests -> Stages] /\ answer' \in [Requests -> Answers]
    BY <2>1, Vocabulary DEF Crash, SessionOK
  <2> QED
    BY <2>1, <2>2 DEF Crash, SessionOK, DeleteTargets, session, history, table
<1> QED
  BY <1>1, <1>2

\* The invariant is inductive.
LEMMA NextIInv == IInv /\ [Next]_vars => IInv'
<1> SUFFICES ASSUME IInv, [Next]_vars PROVE IInv'
  OBVIOUS
<1>1. CASE UNCHANGED vars
  BY <1>1 DEF vars, table, session, history, process, IInv, TypeOK, TableOK, SessionOK,
              DeleteTargets, AtMostOneActive, DeletedInactive
<1>2. ASSUME NEW r \in Requests,
             \/ CommitCreate(r) \/ CommitUpdate(r) \/ CommitActivate(r) \/ CommitDelete(r)
      PROVE  IInv'
  BY <1>2, SessionTypes, CommitTable, CommitTargets DEF IInv, TypeOK, Step
<1>3. ASSUME NEW r \in Requests, Arrive(r) \/ Step(r)
      PROVE  IInv'
  BY <1>2, <1>3, SessionTypes, SessionStep DEF Step
<1> QED
  BY <1>1, <1>3, StartStep, CrashStep DEF Next

\* The invariant holds in every reachable state.
THEOREM Invariance == Spec => []IInv
  BY InitIInv, NextIInv, PTL DEF Spec

\* Type correctness, for every instance.
THEOREM TypeCorrect == Spec => []TypeOK
  BY Invariance, PTL DEF IInv

\* No interleaving of requests and no crash shows two active profiles.
THEOREM OneActive == Spec => []AtMostOneActive
  BY Invariance, PTL DEF IInv

\* A soft-deleted profile is never the active one.
THEOREM NoDeletedActive == Spec => []DeletedInactive
  BY Invariance, PTL DEF IInv

-----------------------------------------------------------------------------
absVars == <<Live, ActiveRows, deleted>>

\* A step of the store that changes the table is a step of the abstract store.
LEMMA StepRefines ==
  ASSUME IInv, IInv', [Next]_vars
  PROVE  [Abstract!Next]_absVars
<1> USE DEF absVars
<1>1. /\ ActiveRows = active /\ active \subseteq Live
      /\ ActiveRows' = active' /\ active' \subseteq Live'
  BY DEF IInv, TypeOK, TableOK, DeletedInactive, ActiveRows, Live
<1>2. CASE UNCHANGED <<present, active, deleted>>
  BY <1>2 DEF Live, ActiveRows
<1>3. CASE Start
  <2>1. CASE UNCHANGED table
    BY <1>2, <2>1 DEF table
  <2>2. CASE ~ UNCHANGED table
    <3>1. PICK p \in Profiles : present = {} /\ present' = {p} /\ active' = {p} /\ deleted' = deleted
      BY <1>3, <2>2 DEF Start, table
    <3>2. Abstract!Add(p)
      BY <1>1, <3>1 DEF Abstract!Add, Abstract!Fresh, Live, IInv, TypeOK, TableOK
    <3> QED
      BY <3>2 DEF Abstract!Next
  <2> QED
    BY <2>1, <2>2
<1>4. CASE Crash
  BY <1>2, <1>4 DEF Crash, table
<1>5. ASSUME NEW r \in Requests,
             \/ Arrive(r) \/ RejectYaml(r) \/ CheckActive(r) \/ Get(r)
             \/ BeginTxn(r) \/ LockTimeout(r) \/ ListHeirs(r) \/ Reread(r)
      PROVE  UNCHANGED <<present, active, deleted>>
  BY <1>5 DEF Arrive, RejectYaml, CheckActive, Get, BeginTxn, LockTimeout, ListHeirs,
              Reread, table
<1>6. ASSUME NEW r \in Requests, CommitCreate(r)
      PROVE  Abstract!Next
  <2>1. PICK p \in Profiles \ present :
              /\ present' = present \cup {p}
              /\ active' \in {active, {p}}
              /\ deleted' = deleted
    BY <1>6 DEF CommitCreate
  <2>2. Abstract!Add(p)
    BY <1>1, <2>1 DEF Abstract!Add, Abstract!Fresh, Live, IInv, TypeOK, TableOK
  <2> QED
    BY <2>1, <2>2 DEF Abstract!Next
<1>7. ASSUME NEW r \in Requests, CommitUpdate(r) \/ CommitActivate(r),
             ~ UNCHANGED <<present, active, deleted>>
      PROVE  Abstract!Next
  <2>1. Live' = Live /\ deleted' = deleted
    BY <1>7 DEF CommitUpdate, CommitActivate, Rollback, Live, table
  <2>2. active' \subseteq Live /\ \A x, y \in active' : x = y
    BY <1>1, <2>1 DEF IInv, AtMostOneActive
  <2>3. CASE active' = {}
    BY <1>1, <2>1, <2>3 DEF Abstract!Next, Abstract!Lose
  <2>4. CASE active' # {}
    <3>1. PICK p \in active' : TRUE
      BY <2>4
    <3>2. active' = {p} /\ p \in Live /\ p \in Profiles
      BY <2>2, <3>1 DEF Live, IInv, TypeOK, TableOK
    <3>3. Abstract!Switch(p)
      BY <1>1, <2>1, <3>2 DEF Abstract!Switch
    <3> QED
      BY <3>2, <3>3 DEF Abstract!Next
  <2> QED
    BY <2>3, <2>4
<1>8. ASSUME NEW r \in Requests, CommitDelete(r),
             ~ UNCHANGED <<present, active, deleted>>
      PROVE  Abstract!Next
  <2>1. /\ target[r] \in present
        /\ present' = present
        /\ deleted' = deleted \cup {target[r]}
        /\ active' = active \ {target[r]}
    BY <1>8 DEF CommitDelete, InTxn, ActiveAfterDelete, IInv, DeleteTargets
  <2>2. target[r] \in Live
    BY <1>8, <2>1 DEF Live, IInv, DeletedInactive
  <2>3. Abstract!Retire(target[r])
    BY <1>1, <2>1, <2>2 DEF Abstract!Retire, Live
  <2> QED
    BY <2>2, <2>3 DEF Abstract!Next, Live, IInv, TypeOK, TableOK
<1>9. CASE UNCHANGED vars
  BY <1>2, <1>9 DEF vars, table
<1> QED
  BY <1>2, <1>3, <1>4, <1>5, <1>6, <1>7, <1>8, <1>9 DEF Next, Step

\* The store, crashes and stale reads included, implements ActiveProfile.
THEOREM Refinement == Spec => AbstractSpec
<1>1. Init => Abstract!Init
  BY DEF Init, Abstract!Init, Live, ActiveRows
<1>2. IInv /\ IInv' /\ [Next]_vars => [Abstract!Next]_absVars
  BY StepRefines
<1> QED
  BY <1>1, <1>2, Invariance, PTL DEF Spec, AbstractSpec, Abstract!Spec, absVars

\* A request that changes a row's YAML found the row not deleted, inside its
\* transaction.
LEMMA FrozenStep ==
  ASSUME IInv, [Next]_vars, NEW p \in deleted
  PROVE  p \in deleted' /\ author'[p] = author[p]
<1>1. p \in present /\ p \notin Live
  BY DEF IInv, TypeOK, TableOK, Live
<1>2. CASE UNCHANGED <<deleted, author>>
  BY <1>2
<1>3. CASE Start
  BY <1>1, <1>3 DEF Start, table
<1>4. ASSUME NEW r \in Requests, CommitCreate(r)
      PROVE  p \in deleted' /\ author'[p] = author[p]
  BY <1>1, <1>4 DEF CommitCreate, IInv, TypeOK, TableOK
<1>5. ASSUME NEW r \in Requests, CommitUpdate(r)
      PROVE  p \in deleted' /\ author'[p] = author[p]
  <2>1. CASE UNCHANGED <<deleted, author>>
    BY <2>1
  <2>2. CASE /\ target[r] \in Live
             /\ author' = [author EXCEPT ![target[r]] = r]
             /\ UNCHANGED deleted
    BY <1>1, <2>2 DEF IInv, TypeOK, TableOK
  <2> QED
    BY <1>5, <2>1, <2>2 DEF CommitUpdate, Rollback, Matches, table
<1>6. ASSUME NEW r \in Requests, CommitActivate(r) \/ CommitDelete(r)
      PROVE  p \in deleted' /\ author'[p] = author[p]
  BY <1>6 DEF CommitActivate, CommitDelete, Rollback, table
<1>7. ASSUME NEW r \in Requests,
             \/ Arrive(r) \/ RejectYaml(r) \/ CheckActive(r) \/ Get(r)
             \/ BeginTxn(r) \/ LockTimeout(r) \/ ListHeirs(r) \/ Reread(r)
      PROVE  UNCHANGED <<deleted, author>>
  BY <1>7 DEF Arrive, RejectYaml, CheckActive, Get, BeginTxn, LockTimeout, ListHeirs,
              Reread, table
<1>8. CASE Crash \/ UNCHANGED vars
  BY <1>2, <1>8 DEF Crash, vars, table
<1> QED
  BY <1>2, <1>3, <1>4, <1>5, <1>6, <1>7, <1>8 DEF Next, Step

\* Nothing rewrites or revives a deleted profile, whatever raced its delete.
THEOREM Frozen == Spec => DeletedFrozen
<1>1. IInv /\ [Next]_vars =>
        [\A p \in deleted : p \in deleted' /\ author'[p] = author[p]]_vars
  BY FrozenStep
<1> QED
  BY <1>1, Invariance, PTL DEF Spec, DeletedFrozen

-----------------------------------------------------------------------------
\* What a request is doing is what it was asked to do, except that a delete
\* activates an heir in the end; only a delete lists heirs.
Employed ==
    \A r \in Requests :
        /\ doing[r] = request[r].kind \/ (request[r].kind = "delete" /\ doing[r] = "activate")
        /\ pc[r] = "list" => request[r].kind = "delete"

\* Past its first read a request that did not come to create works on a row
\* that exists, and so does an answer that reads the row once more.
Found ==
    \A r \in Requests :
        /\ pc[r] \in {"write", "txn"} /\ doing[r] # "create" => target[r] \in present
        /\ pc[r] = "reread" => target[r] \in present

\* What r has done to the table so far, and what it says of it.
Honest(r) ==
    /\ pc[r] \in {"new", "get", "write", "txn"} => effect[r] = "none" /\ answer[r] = "none"
    /\ pc[r] = "reread" =>
          answer[r] = "none" /\ (request[r].kind # "update" => effect[r] = "full")
    /\ answer[r] \in Errors => effect[r] = "none"
    /\ answer[r] = "ok" /\ request[r].kind # "update" => effect[r] = "full"

AllHonest == \A r \in Requests : request[r].kind # "delete" \/ pc[r] = "new" => Honest(r)

TruthInv == Employed /\ Found /\ AllHonest

LEMMA InitTruth == Init => TruthInv
  BY DEF Init, TruthInv, Employed, Found, AllHonest, Honest, Errors

\* A step moves r from one of the stages it may start in, and no other request.
LEMMA OthersStay ==
  ASSUME IInv, NEW r \in Requests, Arrive(r) \/ Step(r), NEW q \in Requests, q # r
  PROVE  /\ pc'[q] = pc[q] /\ doing'[q] = doing[q] /\ target'[q] = target[q]
         /\ request'[q] = request[q] /\ flag'[q] = flag[q]
         /\ answer'[q] = answer[q] /\ effect'[q] = effect[q]
<1> USE DEF IInv, TypeOK, SessionOK, Goto, Finish, session, history
<1>1. CASE Arrive(r)
  BY <1>1 DEF Arrive
<1>2. CASE RejectYaml(r) \/ CheckActive(r) \/ Get(r)
  BY <1>2 DEF RejectYaml, CheckActive, Get
<1>3. CASE BeginTxn(r) \/ LockTimeout(r) \/ ListHeirs(r) \/ Reread(r)
  BY <1>3 DEF BeginTxn, LockTimeout, ListHeirs, Reread
<1>4. CASE CommitCreate(r) \/ CommitDelete(r)
  BY <1>4 DEF CommitCreate, CommitDelete, Did
<1>5. CASE CommitUpdate(r)
  BY <1>5 DEF CommitUpdate, Rollback, Did
<1>6. CASE CommitActivate(r)
  BY <1>6 DEF CommitActivate, Rollback, Did
<1> QED
  BY <1>1, <1>2, <1>3, <1>4, <1>5, <1>6 DEF Step

\* Rows never leave the table.
LEMMA RowsStay ==
  ASSUME IInv, [Next]_vars
  PROVE  present \subseteq present'
<1>1. ASSUME NEW r \in Requests, Arrive(r) \/ Step(r)
      PROVE  present \subseteq present'
  BY <1>1, CommitTable DEF Step, Arrive, RejectYaml, CheckActive, Get, BeginTxn,
     LockTimeout, ListHeirs, Reread, table
<1>2. CASE Start \/ Crash \/ UNCHANGED vars
  BY <1>2 DEF Start, Crash, vars, table
<1> QED
  BY <1>1, <1>2 DEF Next

\* A step of a request keeps it employed on what exists, and honest.
LEMMA OwnTruth ==
  ASSUME IInv, TruthInv, NEW r \in Requests, Arrive(r) \/ Step(r),
         present \subseteq present'
  PROVE  /\ doing'[r] = request'[r].kind \/ (request'[r].kind = "delete" /\ doing'[r] = "activate")
         /\ pc'[r] = "list" => request'[r].kind = "delete"
         /\ pc'[r] \in {"write", "txn"} /\ doing'[r] # "create" => target'[r] \in present'
         /\ pc'[r] = "reread" => target'[r] \in present'
         /\ request'[r].kind # "delete" \/ pc'[r] = "new" => Honest(r)'
<1> USE DEF IInv, TypeOK, SessionOK, Goto, Finish, session, history, Honest, Errors
<1>0. /\ doing[r] = request[r].kind \/ (request[r].kind = "delete" /\ doing[r] = "activate")
      /\ pc[r] = "list" => request[r].kind = "delete"
      /\ pc[r] \in {"write", "txn"} /\ doing[r] # "create" => target[r] \in present
      /\ pc[r] = "reread" => target[r] \in present
      /\ request[r].kind # "delete" \/ pc[r] = "new" => Honest(r)
  BY DEF TruthInv, Employed, Found, AllHonest
<1>1. CASE Arrive(r)
  <2>1. PICK k \in Kinds, act \in BOOLEAN, p \in present \cup {NoOne} :
              /\ request' = [request EXCEPT ![r] = [kind |-> k, profile |-> p, activate |-> act]]
              /\ doing' = [doing EXCEPT ![r] = k]
              /\ \/ k = "create" /\ pc' = [pc EXCEPT ![r] = "write"]
                 \/ pc' = [pc EXCEPT ![r] = "get"]
    BY <1>1 DEF Arrive
  <2>2. request'[r].kind = k /\ doing'[r] = k
    BY <2>1
  <2>3. /\ answer' = answer /\ effect' = effect /\ pc[r] = "new"
    BY <1>1 DEF Arrive
  <2>4. effect[r] = "none" /\ answer[r] = "none"
    BY <1>0, <2>3
  <2> QED
    BY <1>0, <2>1, <2>2, <2>3, <2>4
<1>2. CASE RejectYaml(r)
  BY <1>0, <1>2 DEF RejectYaml
<1>3. CASE CheckActive(r)
  BY <1>0, <1>3 DEF CheckActive
<1>4. CASE Get(r)
  BY <1>0, <1>4 DEF Get, DeletedAnswer, Live
<1>5. CASE BeginTxn(r) \/ LockTimeout(r)
  BY <1>0, <1>5 DEF BeginTxn, LockTimeout
<1>6. CASE CommitCreate(r)
  BY <1>0, <1>6 DEF CommitCreate, InTxn, Did
<1>7. CASE CommitUpdate(r)
  BY <1>0, <1>7 DEF CommitUpdate, InTxn, Rollback, Did
<1>8. CASE CommitActivate(r)
  BY <1>0, <1>8 DEF CommitActivate, InTxn, Rollback, Did
<1>9. CASE CommitDelete(r)
  BY <1>0, <1>9 DEF CommitDelete, InTxn
<1>10. CASE ListHeirs(r)
  BY <1>0, <1>10 DEF ListHeirs
<1>11. CASE Reread(r)
  BY <1>0, <1>11 DEF Reread
<1> QED
  BY <1>1, <1>2, <1>3, <1>4, <1>5, <1>6, <1>7, <1>8, <1>9, <1>10, <1>11 DEF Step

LEMMA NextTruth ==
  ASSUME IInv, TruthInv, [Next]_vars
  PROVE  TruthInv'
<1>1. present \subseteq present'
  BY RowsStay
<1>2. ASSUME NEW r \in Requests, Arrive(r) \/ Step(r)
      PROVE  TruthInv'
  <2> SUFFICES ASSUME NEW q \in Requests
               PROVE  /\ doing'[q] = request'[q].kind \/ (request'[q].kind = "delete" /\ doing'[q] = "activate")
                      /\ pc'[q] = "list" => request'[q].kind = "delete"
                      /\ pc'[q] \in {"write", "txn"} /\ doing'[q] # "create" => target'[q] \in present'
                      /\ pc'[q] = "reread" => target'[q] \in present'
                      /\ request'[q].kind # "delete" \/ pc'[q] = "new" => Honest(q)'
    BY DEF TruthInv, Employed, Found, AllHonest
  <2>1. CASE q = r
    BY <1>1, <1>2, <2>1, OwnTruth
  <2>2. CASE q # r
    BY <1>1, <1>2, <2>2, OthersStay DEF TruthInv, Employed, Found, AllHonest, Honest
  <2> QED
    BY <2>1, <2>2
<1>3. CASE Start \/ UNCHANGED vars
  <2>1. UNCHANGED <<session, history, pc, answer>> \/ (Start /\ UNCHANGED <<session, effect, pc, answer>>)
    BY <1>3 DEF Start, vars, session, history
  <2> QED
    BY <1>1, <2>1 DEF session, history, TruthInv, Employed, Found, AllHonest, Honest
<1>4. CASE Crash
  <2>1. /\ UNCHANGED <<session, history>>
        /\ \A q \in Requests : \/ pc'[q] = "done" /\ answer'[q] = "lost"
                               \/ pc'[q] = pc[q] /\ answer'[q] = answer[q]
    BY <1>4 DEF Crash
  <2> QED
    BY <1>1, <2>1 DEF session, history, TruthInv, Employed, Found, AllHonest, Honest, Errors
<1> QED
  BY <1>2, <1>3, <1>4 DEF Next

\* An error means that nothing was changed, and a create or an activate that
\* is answered 2xx took effect in full, whatever raced it.
THEOREM Truthful == Spec => []AnswersAreTruthful
<1>1. Init => TruthInv
  BY InitTruth
<1>2. IInv /\ TruthInv /\ [Next]_vars => TruthInv'
  BY NextTruth
<1>3. TruthInv => AnswersAreTruthful
  BY DEF TruthInv, AllHonest, Honest, AnswersAreTruthful
<1> QED
  BY <1>1, <1>2, <1>3, Invariance, PTL DEF Spec

-----------------------------------------------------------------------------
\* A delete that has still to give the store its next active profile.
Pending(r) ==
    /\ r \in InProgress
    /\ request[r].kind = "delete"
    /\ doing[r] = "activate" \/ pc[r] = "list"
    /\ pc[r] # "reread"

\* What the one request in progress has read is still so.
Informed(r) ==
    /\ pc[r] \in {"write", "txn"} /\ doing[r] # "create" =>
          target[r] \in Live /\ (flag[r] <=> target[r] \in active)
    /\ pc[r] \in {"write", "txn"} /\ doing[r] = "create" =>
          request[r].activate \/ (flag[r] <=> active = {})
    /\ Pending(r) => active = {} /\ (pc[r] # "list" => target[r] \in Live)

\* Without races: one request at a time, which holds the lock if anyone does;
\* a live profile is active, and it is the one chosen if that still lives.
Alone ==
    /\ up \/ InProgress = {}
    /\ \A q, r \in InProgress : q = r
    /\ writer # NoOne => pc[writer] = "txn"
    /\ \A r \in InProgress : Informed(r)
    /\ Live # {} /\ active = {} => \E r \in Requests : Pending(r)
    /\ chosen \in Live => active = {chosen}

SeqInv ==
    /\ chosen \in present \cup {NoOne}
    /\ ~raced => Alone

LEMMA InitSeq == Init => SeqInv
  BY StoreAssumption DEF Init, SeqInv, Alone, InProgress, Live

\* Only a request in progress takes a step, and it overlaps nobody.
LEMMA Sequential ==
  ASSUME IInv, SeqInv, NEW r \in Requests, Arrive(r) \/ Step(r), ~raced'
  PROVE  /\ ~raced /\ Alone
         /\ up' /\ (Step(r) => r \in InProgress)
         /\ \A q \in Requests : q # r => q \notin InProgress /\ q \notin InProgress'
         /\ chosen \in present \cup {NoOne}
         /\ active \subseteq Live
         /\ \A p, q \in active : p = q
<1>1. ~raced
  BY DEF Arrive, Step, RejectYaml, CheckActive, Get, BeginTxn, LockTimeout,
         CommitCreate, CommitUpdate, CommitActivate, CommitDelete, InTxn, ListHeirs,
         Reread, process
<1>2. Alone /\ chosen \in present \cup {NoOne}
  BY <1>1 DEF SeqInv
<1>3. Step(r) => r \in InProgress
  BY DEF Step, RejectYaml, CheckActive, Get, BeginTxn, LockTimeout,
         CommitCreate, CommitUpdate, CommitActivate, CommitDelete, InTxn, ListHeirs,
         Reread, InProgress
<1>4. Arrive(r) => InProgress = {}
  BY DEF Arrive
<1>5. \A q \in Requests : q # r => q \notin InProgress /\ pc'[q] = pc[q]
  BY <1>2, <1>3, <1>4, OthersStay DEF Alone
<1>7. up /\ up' = up
  <2>1. up' = up
    BY DEF Arrive, Step, RejectYaml, CheckActive, Get, BeginTxn, LockTimeout,
           CommitCreate, CommitUpdate, CommitActivate, CommitDelete, InTxn, ListHeirs,
           Reread, process
  <2>2. Arrive(r) => up
    BY DEF Arrive
  <2> QED
    BY <1>2, <1>3, <2>1, <2>2 DEF Alone
<1>6. active \subseteq Live /\ \A p, q \in active : p = q
  BY DEF IInv, TypeOK, TableOK, DeletedInactive, AtMostOneActive, Live
<1> QED
  BY <1>1, <1>2, <1>3, <1>5, <1>6, <1>7 DEF InProgress

\* What is left to show of Alone when the others are idle.
LEMMA AloneIfIdle ==
  ASSUME NEW r \in Requests, up',
         \A q \in Requests : q # r => q \notin InProgress',
         writer' # NoOne => pc'[writer'] = "txn",
         r \in InProgress' => Informed(r)',
         Live' # {} /\ active' = {} => Pending(r)',
         chosen' \in Live' => active' = {chosen'}
  PROVE  Alone'
  BY DEF Alone, InProgress

\* A step that only reads keeps what is known, or learns it.
LEMMA SeqRead ==
  ASSUME IInv, TruthInv, SeqInv, NEW r \in Requests, ~raced',
         \/ Arrive(r) \/ RejectYaml(r) \/ CheckActive(r) \/ Get(r)
         \/ BeginTxn(r) \/ LockTimeout(r) \/ ListHeirs(r) \/ Reread(r)
  PROVE  SeqInv'
<1> USE DEF IInv, TypeOK, SessionOK, Goto, Finish, session, history
<1>0. /\ ~raced /\ Alone /\ up'
      /\ Step(r) => r \in InProgress
      /\ \A q \in Requests : q # r => q \notin InProgress /\ q \notin InProgress'
      /\ chosen \in present \cup {NoOne} /\ active \subseteq Live
  BY Sequential DEF Step
<1>1. UNCHANGED <<present, active, deleted, chosen>> /\ Live' = Live
  BY DEF Arrive, RejectYaml, CheckActive, Get, BeginTxn, LockTimeout, ListHeirs,
         Reread, table, Live
<1>2. \A q \in Requests : q # r => ~Pending(q)
  BY <1>0 DEF Pending
<1>3. /\ Live # {} /\ active = {} => Pending(r)
      /\ chosen \in Live => active = {chosen}
      /\ r \in InProgress => Informed(r)
      /\ writer # NoOne => pc[writer] = "txn"
  BY <1>0, <1>2 DEF Alone
<1>4. writer # NoOne => writer = r /\ pc[r] = "txn"
  BY <1>0, <1>3 DEF TableOK, InProgress
<1>5. SUFFICES /\ writer' # NoOne => pc'[writer'] = "txn"
               /\ r \in InProgress' => Informed(r)'
               /\ Live # {} /\ active = {} => Pending(r)'
  BY <1>0, <1>1, <1>3, AloneIfIdle DEF SeqInv
<1>6. /\ doing[r] = request[r].kind \/ (request[r].kind = "delete" /\ doing[r] = "activate")
      /\ pc[r] = "list" => request[r].kind = "delete"
  BY DEF TruthInv, Employed
<1>7. CASE Arrive(r)
  <2>1. PICK k \in Kinds, act \in BOOLEAN, p \in present \cup {NoOne} :
              /\ request' = [request EXCEPT ![r] = [kind |-> k, profile |-> p, activate |-> act]]
              /\ doing' = [doing EXCEPT ![r] = k]
              /\ pc' = [pc EXCEPT ![r] = "get"]
    BY <1>7 DEF Arrive
  <2>2. request'[r].kind = k /\ request'[r].activate = act /\ doing'[r] = k
    BY <2>1
  <2>3. writer' = writer /\ pc[r] = "new"
    BY <1>7 DEF Arrive
  <2>4. ~Pending(r)
    BY <2>3 DEF Pending, InProgress
  <2>5. ~Pending(r)'
    BY <2>1, <2>2 DEF Pending
  <2> QED
    BY <1>3, <1>4, <2>1, <2>2, <2>3, <2>4, <2>5 DEF Informed
<1>8. CASE RejectYaml(r)
  <2>1. ~Pending(r)
    BY <1>6, <1>8 DEF RejectYaml, Pending
  <2> QED
    BY <1>3, <1>4, <1>8, <2>1 DEF RejectYaml, InProgress
<1>9. CASE CheckActive(r)
  <2>1. ~Pending(r) /\ ~Pending(r)'
    BY <1>6, <1>9 DEF CheckActive, Pending
  <2>2. flag'[r] = (~request[r].activate /\ ActiveRows = {}) /\ ActiveRows = active
    BY <1>0, <1>9 DEF CheckActive, ActiveRows, Live
  <2> QED
    BY <1>1, <1>3, <1>4, <1>9, <2>1, <2>2 DEF CheckActive, Informed
<1>10. CASE Get(r)
  <2>0. writer' = writer /\ pc[r] = "get" /\ doing' = doing /\ target' = target /\ request' = request
    BY <1>10 DEF Get
  <2>1. CASE target[r] \notin Live
    <3>1. ~Pending(r)
      BY <1>3, <2>0, <2>1 DEF Informed, Pending
    <3>2. pc'[r] = "done"
      BY <1>10, <2>1 DEF Get
    <3> QED
      BY <1>3, <1>4, <2>0, <3>1, <3>2 DEF InProgress
  <2>2. CASE target[r] \in Live
    <3>1. flag'[r] = (target[r] \in active) /\ pc'[r] = "write" /\ doing[r] # "create"
      BY <1>10, <2>2 DEF Get, Live
    <3>2. Pending(r)' <=> Pending(r)
      BY <2>0, <3>1 DEF Pending, InProgress
    <3>3. Pending(r) => active = {}
      BY <1>3 DEF Informed, Pending
    <3> QED
      BY <1>1, <1>3, <1>4, <2>0, <2>2, <3>1, <3>2, <3>3 DEF Informed
  <2> QED
    BY <2>1, <2>2
<1>11. CASE BeginTxn(r)
  <2>1. pc'[r] = "txn" /\ writer' = r /\ pc[r] = "write"
        /\ UNCHANGED <<request, doing, target, flag>>
    BY <1>11 DEF BeginTxn
  <2>2. Pending(r)' <=> Pending(r)
    BY <2>1 DEF Pending, InProgress
  <2>3. r \in InProgress
    BY <2>1 DEF InProgress
  <2> QED
    BY <1>1, <1>3, <2>1, <2>2, <2>3 DEF Informed
<1>12. CASE LockTimeout(r)
  BY <1>4, <1>12 DEF LockTimeout
<1>13. CASE ListHeirs(r)
  <2>1. writer' = writer /\ request' = request /\ pc[r] = "list" /\ r \in InProgress
    BY <1>13 DEF ListHeirs, InProgress
  <2>2. CASE Live = {}
    BY <1>4, <1>13, <2>1, <2>2 DEF ListHeirs, InProgress
  <2>3. CASE Live # {}
    <3>1. target'[r] \in Live /\ doing'[r] = "activate" /\ pc'[r] = "get"
      BY <1>13, <2>3 DEF ListHeirs
    <3>2. active = {}
      BY <1>3, <1>6, <2>1 DEF Informed, Pending
    <3>3. Pending(r)'
      BY <1>6, <2>1, <3>1 DEF Pending, InProgress
    <3> QED
      BY <1>1, <1>4, <2>1, <3>1, <3>2, <3>3 DEF Informed
  <2> QED
    BY <2>2, <2>3
<1>14. CASE Reread(r)
  <2>1. ~Pending(r)
    BY <1>14 DEF Reread, Pending
  <2> QED
    BY <1>3, <1>4, <1>14, <2>1 DEF Reread, InProgress
<1> QED
  BY <1>7, <1>8, <1>9, <1>10, <1>11, <1>12, <1>13, <1>14

\* A commit acts on what was read, which is still so.
LEMMA SeqCommit ==
  ASSUME IInv, IInv', TruthInv, SeqInv, NEW r \in Requests, ~raced',
         \/ CommitCreate(r) \/ CommitUpdate(r) \/ CommitActivate(r) \/ CommitDelete(r)
  PROVE  Alone'
<1> USE DEF IInv, TypeOK, SessionOK, Goto, Finish, session, history
<1>0. /\ Alone /\ up' /\ r \in InProgress
      /\ \A q \in Requests : q # r => q \notin InProgress /\ q \notin InProgress'
      /\ chosen \in present \cup {NoOne} /\ active \subseteq Live
      /\ \A p, q \in active : p = q
  BY Sequential DEF Step
<1>2. \A q \in Requests : q # r => ~Pending(q)
  BY <1>0 DEF Pending
<1>3. /\ Live # {} /\ active = {} => Pending(r)
      /\ chosen \in Live => active = {chosen}
      /\ Informed(r)
  BY <1>0, <1>2 DEF Alone
<1>4. pc[r] = "txn" /\ writer' = NoOne
  BY DEF CommitCreate, CommitUpdate, CommitActivate, CommitDelete, InTxn
<1>5. pc'[r] \in {"reread", "list", "done"}
  BY DEF CommitCreate, CommitUpdate, CommitActivate, CommitDelete, Rollback
<1>6. SUFFICES /\ Pending(r)' => active' = {} /\ pc'[r] = "list"
               /\ Live' # {} /\ active' = {} => Pending(r)'
               /\ chosen' \in Live' => active' = {chosen'}
  <2>1. r \in InProgress' => Informed(r)'
    BY <1>5, <1>6 DEF Informed
  <2> QED
    BY <1>0, <1>4, <1>6, <2>1, AloneIfIdle
<1>7. /\ doing[r] = request[r].kind \/ (request[r].kind = "delete" /\ doing[r] = "activate")
  BY DEF TruthInv, Employed
<1>8. CASE CommitCreate(r)
  <2>1. ~Pending(r) /\ ~Pending(r)'
    BY <1>4, <1>7, <1>8 DEF CommitCreate, InTxn, Pending
  <2>2. PICK p \in Profiles \ present :
              /\ present' = present \cup {p}
              /\ deleted' = deleted
              /\ \/ /\ request[r].activate \/ flag[r]
                    /\ active' = {p} /\ chosen' = p
                 \/ /\ ~(request[r].activate \/ flag[r])
                    /\ UNCHANGED <<active, chosen>>
    BY <1>8 DEF CommitCreate
  <2>3. CASE active' = {p} /\ chosen' = p
    BY <2>1, <2>3
  <2>4. CASE ~(request[r].activate \/ flag[r]) /\ UNCHANGED <<active, chosen>>
    <3>1. active # {}
      BY <1>3, <1>4, <1>8, <2>4 DEF CommitCreate, InTxn, Informed
    <3>2. chosen # p
      BY <1>0, <2>2, StoreAssumption
    <3>3. chosen \in Live' => chosen \in Live
      BY <2>2, <3>2 DEF Live
    <3> QED
      BY <1>3, <2>1, <2>4, <3>1, <3>3
  <2> QED
    BY <2>2, <2>3, <2>4
<1>9. CASE CommitUpdate(r)
  <2>1. ~Pending(r) /\ ~Pending(r)'
    BY <1>4, <1>5, <1>7, <1>9 DEF CommitUpdate, InTxn, Rollback, Pending
  <2>2. CASE UNCHANGED <<table, chosen>>
    BY <1>3, <2>1, <2>2 DEF table, Live
  <2>3. CASE ~ UNCHANGED <<table, chosen>>
    <3>1. target[r] \in Live /\ (flag[r] <=> target[r] \in active)
      BY <1>3, <1>4, <1>9 DEF CommitUpdate, InTxn, Informed
    <3>2. /\ active' = ActiveAfterUpdate(target[r], request[r].activate, flag[r])
          /\ UNCHANGED <<present, deleted>>
          /\ chosen' = IF request[r].activate THEN target[r] ELSE chosen
      BY <1>9, <2>3, <3>1 DEF CommitUpdate, Rollback, Matches
    <3>3. CASE request[r].activate
      BY <2>1, <3>1, <3>2, <3>3 DEF ActiveAfterUpdate, Matches
    <3>4. CASE ~request[r].activate
      <4>1. active' = active
        BY <3>1, <3>2, <3>4 DEF ActiveAfterUpdate, Matches
      <4> QED
        BY <1>3, <2>1, <3>2, <3>4, <4>1 DEF Live
    <3> QED
      BY <3>3, <3>4
  <2> QED
    BY <2>2, <2>3
<1>10. CASE CommitActivate(r)
  <2>1. target[r] \in Live
    BY <1>3, <1>4, <1>10 DEF CommitActivate, InTxn, Informed
  <2>2. /\ active' = {target[r]} /\ pc'[r] = "reread"
        /\ UNCHANGED <<present, deleted, request>>
        /\ chosen' = IF request[r].kind = "activate" THEN target[r] ELSE chosen
    BY <1>10, <2>1 DEF CommitActivate, Rollback, Matches
  <2>3. CASE request[r].kind = "activate"
    BY <2>2, <2>3 DEF Pending
  <2>4. CASE request[r].kind # "activate"
    <3>1. Pending(r)
      BY <1>0, <1>4, <1>7, <1>10, <2>4 DEF CommitActivate, InTxn, Pending
    <3>2. chosen \notin Live
      BY <1>3, <3>1 DEF Informed
    <3> QED
      BY <2>2, <2>4, <3>2 DEF Pending, Live
  <2> QED
    BY <2>3, <2>4
<1>11. CASE CommitDelete(r)
  <2>1. target[r] \in Live /\ (flag[r] <=> target[r] \in active)
    BY <1>3, <1>4, <1>11 DEF CommitDelete, InTxn, Informed
  <2>2. /\ active' = active \ {target[r]} /\ deleted' = deleted \cup {target[r]}
        /\ UNCHANGED <<present, chosen, request, doing>>
        /\ Live' = Live \ {target[r]}
    BY <1>11 DEF CommitDelete, ActiveAfterDelete, Live
  <2>3. request[r].kind = "delete" /\ doing[r] = "delete"
    BY <1>7, <1>11 DEF CommitDelete, InTxn
  <2>4. CASE flag[r]
    <3>1. active' = {} /\ pc'[r] = "list"
      BY <1>0, <1>11, <2>1, <2>2, <2>4 DEF CommitDelete, NeedsHeir
    <3>2. Pending(r)'
      BY <2>2, <2>3, <3>1 DEF Pending, InProgress
    <3>3. chosen \notin Live'
      BY <1>0, <1>3, <2>1, <2>2, <2>4
    <3> QED
      BY <2>2, <3>1, <3>2, <3>3
  <2>5. CASE ~flag[r]
    <3>1. active' = active /\ pc'[r] = "done"
      BY <1>11, <2>1, <2>2, <2>5 DEF CommitDelete, NeedsHeir
    <3>2. ~Pending(r) /\ ~Pending(r)'
      BY <1>4, <2>3, <3>1 DEF Pending, InProgress
    <3> QED
      BY <1>3, <2>2, <3>1, <3>2
  <2> QED
    BY <2>4, <2>5
<1> QED
  BY <1>8, <1>9, <1>10, <1>11

\* Startup activates the profile it writes; a crash loses a request or nothing.
LEMMA SeqEnvironment ==
  ASSUME IInv, SeqInv, Start \/ Crash \/ UNCHANGED vars, ~raced'
  PROVE  Alone'
<1>0. ~raced /\ Alone
  <2>1. raced' = (raced \/ InProgress # {}) \/ raced' = raced
    BY DEF Start, Crash, vars, process
  <2>2. ~raced
    BY <2>1, Zenon
  <2> QED
    BY <2>2 DEF SeqInv
<1>1. CASE Crash
  <2>1. InProgress = {} /\ writer' = NoOne /\ UNCHANGED <<table, chosen>>
    BY <1>1 DEF Crash, history
  <2>2. InProgress' = {}
    BY <1>1, <2>1 DEF Crash, InProgress
  <2>3. \A q \in Requests : ~Pending(q)
    BY <2>1 DEF Pending
  <2> QED
    BY <1>0, <2>1, <2>2, <2>3 DEF Alone, table, Live
<1>2. CASE UNCHANGED <<table, writer, session, chosen, pc>> /\ up' \in {up, TRUE}
  <2>1. InProgress' = InProgress /\ Live' = Live /\ active' = active
    BY <1>2 DEF InProgress, Live, table
  <2>2. \A q \in Requests : (Pending(q)' <=> Pending(q)) /\ (Informed(q)' <=> Informed(q))
    BY <1>2, <2>1 DEF Pending, Informed, session
  <2> QED
    <3>1. InProgress \subseteq Requests
      BY DEF InProgress
    <3>2. up' \/ InProgress' = {}
      BY <1>0, <1>2, <2>1 DEF Alone
    <3>3. /\ \A q \in InProgress' : Informed(q)'
          /\ Live' # {} /\ active' = {} => \E q \in Requests : Pending(q)'
      BY <1>0, <2>1, <2>2, <3>1 DEF Alone
    <3> QED
      BY <1>0, <1>2, <2>1, <3>2, <3>3 DEF Alone
<1>3. CASE Start /\ ~ UNCHANGED table
  <2>1. PICK p \in Profiles : present = {} /\ present' = {p} /\ active' = {p} /\ active \subseteq present
    BY <1>3 DEF Start, table, IInv, TypeOK, TableOK
  <2>2. /\ UNCHANGED <<deleted, writer, request, doing, target, flag, chosen, pc>>
    BY <1>3 DEF Start, session, history
  <2>3. chosen = NoOne /\ NoOne \notin Profiles
    BY <2>1, StoreAssumption DEF SeqInv
  <2>4. InProgress' = {} /\ up'
    BY <1>0, <1>3, <2>2 DEF InProgress, Start, Alone
  <2>5. chosen' \notin Live'
    BY <2>1, <2>2, <2>3 DEF Live
  <2> QED
    BY <1>0, <2>1, <2>2, <2>4, <2>5 DEF Alone
<1> QED
  BY <1>1, <1>2, <1>3 DEF Start, vars, history, process

\* Whoever is chosen has a row, and without races all of this lasts.
LEMMA NextSeq ==
  ASSUME IInv, IInv', TruthInv, SeqInv, [Next]_vars
  PROVE  SeqInv'
<1>0. present \subseteq present'
  BY RowsStay
<1>1. chosen' \in present' \cup {NoOne}
  <2>1. CASE chosen' = chosen
    BY <1>0, <2>1 DEF SeqInv
  <2>2. ASSUME NEW r \in Requests, CommitCreate(r)
        PROVE  chosen' \in present' \cup {NoOne}
    BY <1>0, <2>2 DEF CommitCreate, SeqInv
  <2>3. ASSUME NEW r \in Requests, CommitUpdate(r)
        PROVE  chosen' \in present' \cup {NoOne}
    BY <1>0, <2>3 DEF CommitUpdate, Rollback, Matches, Live, history, SeqInv
  <2>4. ASSUME NEW r \in Requests, CommitActivate(r)
        PROVE  chosen' \in present' \cup {NoOne}
    BY <1>0, <2>4 DEF CommitActivate, Rollback, Matches, Live, history, SeqInv
  <2>5. ASSUME NEW r \in Requests,
               \/ Arrive(r) \/ RejectYaml(r) \/ CheckActive(r) \/ Get(r) \/ BeginTxn(r)
               \/ LockTimeout(r) \/ ListHeirs(r) \/ Reread(r) \/ CommitDelete(r)
        PROVE  chosen' = chosen
    BY <2>5 DEF Arrive, RejectYaml, CheckActive, Get, BeginTxn, LockTimeout, ListHeirs,
           Reread, CommitDelete, history
  <2>6. CASE Start \/ Crash \/ UNCHANGED vars
    BY <2>1, <2>6 DEF Start, Crash, vars, history
  <2> QED
    BY <2>1, <2>2, <2>3, <2>4, <2>5, <2>6 DEF Next, Step
<1>2. ASSUME ~raced'
      PROVE  Alone'
  <2>1. ASSUME NEW r \in Requests, Arrive(r) \/ Step(r)
        PROVE  Alone'
    BY <1>2, <2>1, SeqRead, SeqCommit DEF Step, SeqInv
  <2> QED
    BY <1>2, <2>1, SeqEnvironment DEF Next
<1> QED
  BY <1>1, <1>2 DEF SeqInv

\* Table and sessions fit together in every reachable state.
LEMMA Sequentially == Spec => [](IInv /\ SeqInv)
<1>1. Init => TruthInv /\ SeqInv
  BY InitTruth, InitSeq
<1>2. IInv /\ IInv' /\ TruthInv /\ SeqInv /\ [Next]_vars => TruthInv' /\ SeqInv'
  BY NextTruth, NextSeq
<1> QED
  BY <1>1, <1>2, Invariance, PTL DEF Spec

\* Without overlaps the profile last chosen stays active while it lives, other
\* deletes, heirs and restarts notwithstanding.
THEOREM ChoiceSurvives == Spec => []ChosenStaysActive
<1>1. SeqInv => ChosenStaysActive
  BY DEF SeqInv, Alone, ChosenStaysActive
<1> QED
  BY <1>1, Sequentially, PTL

\* Without overlaps a store that has live profiles has an active one whenever
\* nothing is in progress.
THEOREM HeirFound == Spec => []SomeoneActive
<1>1. IInv /\ SeqInv => SomeoneActive
  <2> SUFFICES ASSUME IInv, SeqInv, InProgress = {}, ~raced, Live # {}
               PROVE  ActiveRows # {}
    BY DEF SomeoneActive, Quiescent
  <2>1. active # {}
    BY DEF SeqInv, Alone, Pending
  <2> QED
    BY <2>1 DEF ActiveRows, IInv, DeletedInactive
<1> QED
  BY <1>1, Sequentially, PTL

=============================================================================
