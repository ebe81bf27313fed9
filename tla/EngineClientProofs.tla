------------------------- MODULE EngineClientProofs -------------------------
(***************************************************************************)
(* Theorems about EngineClient for any number of calls, texts, addresses,  *)
(* switches and expiries.                                                  *)
(***************************************************************************)
EXTENDS EngineClient, TLAPS

\* The table maps a text to a call for that text.
TableOfTexts == \A t \in Texts : inflight[t] # Nobody => text[inflight[t]] = t

\* A follower waits for a call about its own text.
OwnLeader == \A c \in Calls : pc[c] = "wait" => leader[c] \in Calls /\ text[leader[c]] = text[c]

\* What a leader publishes is the answer about its own text.
OwnOutcome ==
    /\ \A c \in Calls : outcome[c] \in Answers => outcome[c].of = text[c]
    /\ \A c \in Calls : pc[c] = "store" => result[c] \in Answers

\* The invariant of the single-flight table.
FlightInv ==
    /\ SingleFlight
    /\ TableOfTexts
    /\ OwnLeader
    /\ OwnOutcome
    /\ OwnText

\* The two words agree except between the writes of SetBaseUrl.
Words ==
    /\ setter # "len" => base.data = base.len
    /\ setter = "len" => base.data = nextUrl
    /\ setter # "clear" => sweep = {}

Reading == {"len", "build", "do", "store"}

\* Whoever read baseUrl while it changed, or before, is marked late; whoever
\* is not late has read what baseUrl still is.
OnTime ==
    \A c \in Calls : pc[c] \in Reading =>
        /\ setter # "idle" => late[c]
        /\ ~late[c] => /\ seen[c].data = base.data
                       /\ pc[c] # "len" => seen[c].len = base.len
                       /\ pc[c] = "store" => result[c].from = base.data

\* The sweep's loop invariant: what it has visited comes from the new engine.
Swept ==
    setter \in {"idle", "clear"} =>
        \A t \in Texts : cache[t] # Nobody /\ ~cache[t].late /\ t \notin sweep =>
            cache[t].value.from = base.data

\* The invariant of the address and the cache.
CacheInv == Words /\ OnTime /\ Swept

\* Who leads and who follows.
Roles ==
    \A c \in Calls :
        /\ pc[c] \in {"new", "load", "evict", "enter"} => leader[c] = Nobody
        /\ pc[c] \in Leading \cup {"release"} => leader[c] = c
        /\ pc[c] = "wait" => leader[c] # c
        /\ leader[c] # Nobody => leader[leader[c]] = leader[c]

\* A leader that is through has published its result, or could not build
\* its request; before that it has published nothing.
Published ==
    \A c \in Calls :
        /\ released[c] => pc[c] = "done"
        /\ pc[c] \notin {"finish", "release", "done"} => outcome[c] = Blank
        /\ pc[c] \in {"finish", "release", "done"} /\ leader[c] = c =>
              outcome[c] = result[c] \/ (outcome[c] = Blank /\ (Torn(c) \/ Address(c) \in BadUrls))

\* A follower that is through has what its leader published.
HandedOver ==
    \A c \in Calls : pc[c] = "done" /\ leader[c] \notin {Nobody, c} =>
        released[leader[c]] /\ result[c] = outcome[leader[c]]

\* The invariant of leaders and followers.
FollowInv == Roles /\ Published /\ HandedOver

IInv == TypeOK /\ FlightInv /\ CacheInv /\ FollowInv

-----------------------------------------------------------------------------
\* Every step keeps the types.
LEMMA TypeStep ==
  ASSUME TypeOK, FlightInv, [Next]_vars
  PROVE  TypeOK'
<1> USE ClientAssumption DEF TypeOK, Entries, Answers, Stages, Leading, Goto, setting, flight, reading, cleaning
<1>1. ASSUME NEW c \in Calls, Call(c)
      PROVE  TypeOK'
  BY <1>1 DEF Call
<1>2. ASSUME NEW c \in Calls, Load(c)
      PROVE  TypeOK'
  <2>1. CASE cache[text[c]] = Nobody
    BY <1>2, <2>1 DEF Load
  <2>2. CASE cache[text[c]] # Nobody
    <3>1. cache[text[c]].value \in Answers
      BY <2>2
    <3>2. \/ result' = result
          \/ result' = [result EXCEPT ![c] = cache[text[c]].value]
      BY <1>2, Zenon DEF Load, Return
    <3>3. \/ pc' = [pc EXCEPT ![c] = "enter"]
          \/ pc' = [pc EXCEPT ![c] = "done"]
          \/ pc' = [pc EXCEPT ![c] = "evict"]
      BY <1>2, Zenon DEF Load, Return
    <3>4. result' \in [Calls -> Answers \cup {Blank, Failed}]
      BY <3>1, <3>2
    <3>5. pc' \in [Calls -> Stages]
      BY <3>3
    <3>6. UNCHANGED <<setting, cache, flight, cleaning, text, leader, reading>>
      BY <1>2 DEF Load
    <3> QED
      BY <3>4, <3>5, <3>6
  <2> QED
    BY <2>1, <2>2
<1>3. ASSUME NEW c \in Calls, Evict(c)
      PROVE  TypeOK'
  BY <1>3 DEF Evict
<1>4. ASSUME NEW c \in Calls, Enter(c)
      PROVE  TypeOK'
  <2>1. inflight[text[c]] \in Calls \cup {Nobody}
    OBVIOUS
  <2>2. leader' \in [Calls -> Calls \cup {Nobody}]
    BY <1>4, <2>1 DEF Enter, InFlight
  <2>3. inflight' \in [Texts -> Calls \cup {Nobody}]
    BY <1>4, <2>1 DEF Enter, InFlight
  <2>3a. pc' \in [Calls -> Stages]
    BY <1>4 DEF Enter
  <2>4. UNCHANGED <<setting, cache, outcome, released, cleaning, text, reading, result>>
    BY <1>4 DEF Enter
  <2> QED
    BY <2>2, <2>3, <2>3a, <2>4
<1>5. ASSUME NEW c \in Calls, Awake(c)
      PROVE  TypeOK'
  <2>1. leader[c] \in Calls
    BY <1>5 DEF Awake, FlightInv, OwnLeader
  <2> QED
    BY <1>5, <2>1 DEF Awake, Return
<1>6. ASSUME NEW c \in Calls, ReadData(c)
      PROVE  TypeOK'
  <2>1. late' \in [Calls -> BOOLEAN]
    <3> DEFINE b == ~MuFree
    <3>1. b \in BOOLEAN
      OBVIOUS
    <3>2. late' = [late EXCEPT ![c] = b]
      BY <1>6 DEF ReadData
    <3> HIDE DEF b
    <3> QED
      BY <3>1, <3>2
  <2>2. seen' \in [Calls -> [data : Urls, len : Urls]]
    <3>1. seen' = [seen EXCEPT ![c] = [@ EXCEPT !.data = base.data]]
      BY <1>6 DEF ReadData
    <3>2. [seen[c] EXCEPT !.data = base.data] \in [data : Urls, len : Urls]
      OBVIOUS
    <3> QED
      BY <3>1, <3>2
  <2>3. /\ UNCHANGED <<setting, cache, flight, cleaning, text, leader, result>>
        /\ Goto(c, "len")
    BY <1>6 DEF ReadData
  <2> QED
    BY <2>1, <2>2, <2>3
<1>7. ASSUME NEW c \in Calls, ReadLen(c)
      PROVE  TypeOK'
  <2>1. seen' \in [Calls -> [data : Urls, len : Urls]]
    <3>1. seen' = [seen EXCEPT ![c] = [@ EXCEPT !.len = base.len]]
      BY <1>7 DEF ReadLen
    <3>2. [seen[c] EXCEPT !.len = base.len] \in [data : Urls, len : Urls]
      OBVIOUS
    <3> QED
      BY <3>1, <3>2
  <2>2. /\ UNCHANGED <<setting, cache, flight, cleaning, text, leader, late, result>>
        /\ Goto(c, "build")
    BY <1>7 DEF ReadLen
  <2> QED
    BY <2>1, <2>2
<1>8. ASSUME NEW c \in Calls, BuildFails(c)
      PROVE  TypeOK'
  BY <1>8 DEF BuildFails, Torn, Address
<1>9. ASSUME NEW c \in Calls, Build(c)
      PROVE  TypeOK'
  BY <1>9 DEF Build, Torn, Address
<1>10. ASSUME NEW c \in Calls, Fail(c)
      PROVE  TypeOK'
  BY <1>10 DEF Fail, Recorded, AfterFailure
<1>11. ASSUME NEW c \in Calls, Answer(c)
      PROVE  TypeOK'
  BY <1>11 DEF Answer, Torn, Address
<1>12. ASSUME NEW c \in Calls, Store(c)
      PROVE  TypeOK'
  <2>1. result[c] \in Answers
    BY <1>12 DEF Store, FlightInv, OwnOutcome
  <2>2. [value |-> result[c], fresh |-> TRUE, late |-> late[c]] \in Entries
    BY <2>1
  <2> QED
    BY <1>12, <2>1, <2>2 DEF Store
<1>13. ASSUME NEW c \in Calls, Finish(c)
      PROVE  TypeOK'
  BY <1>13 DEF Finish, MuFree, Removed
<1>14. ASSUME NEW c \in Calls, Release(c)
      PROVE  TypeOK'
  BY <1>14 DEF Release, Done
<1>15. ASSUME NEW t \in Texts, Expire(t)
      PROVE  TypeOK'
  <2>1. cache[t] \in Entries
    BY <1>15 DEF Expire
  <2>2. [cache[t] EXCEPT !.fresh = FALSE] \in Entries
    BY <2>1
  <2>3. cache' = [cache EXCEPT ![t] = [@ EXCEPT !.fresh = FALSE]]
    BY <1>15 DEF Expire
  <2>4. cache' \in [Texts -> Entries \cup {Nobody}]
    BY <2>2, <2>3
  <2>5. /\ UNCHANGED <<setting, flight, expired, pc, text, leader, reading, result>>
        /\ expiries' = expiries + 1
    BY <1>15 DEF Expire
  <2> QED
    BY <2>4, <2>5
<1>16. ASSUME NEW t \in Texts, FindExpired(t)
      PROVE  TypeOK'
  BY <1>16 DEF FindExpired
<1>17. ASSUME NEW t \in Texts, SetClear(t)
      PROVE  TypeOK'
  BY <1>17 DEF SetClear
<1>18. ASSUME NEW u \in Urls, SetLock(u)
      PROVE  TypeOK'
  <2>1. late' \in [Calls -> BOOLEAN]
    BY <1>18, Zenon DEF SetLock
  <2>2. /\ UNCHANGED <<base, sweep, cache, flight, cleaning, pc, text, leader, seen, result>>
        /\ setter' = "data" /\ nextUrl' = u /\ switches' = switches + 1
    BY <1>18 DEF SetLock
  <2> QED
    BY <2>1, <2>2
<1>19. CASE CleanUp
  BY <1>19 DEF CleanUp
<1>20. CASE SetData
  BY <1>20 DEF SetData
<1>21. CASE SetLen
  BY <1>21 DEF SetLen, AllKeys
<1>22. CASE SetUnlock
  BY <1>22 DEF SetUnlock
<1>23. CASE UNCHANGED vars
  BY <1>23 DEF vars
<1> QED
  BY SMTT(30), <1>1, <1>2, <1>3, <1>4, <1>5, <1>6, <1>7, <1>8, <1>9, <1>10, <1>11, <1>12, <1>13, <1>14, <1>15, <1>16, <1>17, <1>18, <1>19, <1>20, <1>21, <1>22, <1>23 DEF Next, Unlocked, Setting

-----------------------------------------------------------------------------
\* Every step keeps the table and what is published through it.
LEMMA FlightStep ==
  ASSUME TypeOK, FlightInv, [Next]_vars
  PROVE  FlightInv'
<1> USE ClientAssumption DEF TypeOK, FlightInv, SingleFlight, TableOfTexts, OwnLeader, OwnOutcome, OwnText,
        Entries, Answers, Leading, Goto, setting, flight, reading, cleaning
<1>1. ASSUME NEW c \in Calls, Call(c)
      PROVE  FlightInv'
  <2>1. SingleFlight'
    BY <1>1 DEF Call
  <2>2. TableOfTexts'
    BY <1>1 DEF Call
  <2>3. OwnLeader'
    BY <1>1 DEF Call
  <2>4. OwnOutcome'
    BY <1>1 DEF Call
  <2>5. OwnText'
    BY <1>1 DEF Call
  <2> QED
    BY <2>1, <2>2, <2>3, <2>4, <2>5
<1>2. ASSUME NEW c \in Calls, Load(c)
      PROVE  FlightInv'
  <2>1. SingleFlight'
    <3>1. pc[c] = "load" /\ UNCHANGED <<inflight, text>>
      BY <1>2 DEF Load
    <3>2. \/ pc' = [pc EXCEPT ![c] = "enter"]
          \/ pc' = [pc EXCEPT ![c] = "done"]
          \/ pc' = [pc EXCEPT ![c] = "evict"]
      BY <1>2, Zenon DEF Load, Return
    <3> QED
      BY <3>1, <3>2
  <2>2. TableOfTexts'
    BY <1>2 DEF Load, Return
  <2>3. OwnLeader'
    BY <1>2 DEF Load, Return
  <2>4. OwnOutcome'
    BY <1>2, SMTT(30) DEF Load, Return
  <2>5. OwnText'
    BY <1>2 DEF Load, Return
  <2> QED
    BY <2>1, <2>2, <2>3, <2>4, <2>5
<1>3. ASSUME NEW c \in Calls, Evict(c)
      PROVE  FlightInv'
  <2>1. SingleFlight'
    BY <1>3 DEF Evict
  <2>2. TableOfTexts'
    BY <1>3 DEF Evict
  <2>3. OwnLeader'
    BY <1>3 DEF Evict
  <2>4. OwnOutcome'
    BY <1>3 DEF Evict
  <2>5. OwnText'
    BY <1>3 DEF Evict
  <2> QED
    BY <2>1, <2>2, <2>3, <2>4, <2>5
<1>4. ASSUME NEW c \in Calls, Enter(c)
      PROVE  FlightInv'
  <2>1. SingleFlight'
    BY <1>4 DEF Enter, InFlight
  <2>2. TableOfTexts'
    BY <1>4 DEF Enter, InFlight
  <2>3. OwnLeader'
    BY <1>4 DEF Enter, InFlight
  <2>4. OwnOutcome'
    BY <1>4 DEF Enter, InFlight
  <2>5. OwnText'
    BY <1>4 DEF Enter, InFlight
  <2> QED
    BY <2>1, <2>2, <2>3, <2>4, <2>5
<1>5. ASSUME NEW c \in Calls, Awake(c)
      PROVE  FlightInv'
  <2>1. SingleFlight'
    BY <1>5 DEF Awake, Return
  <2>2. TableOfTexts'
    BY <1>5 DEF Awake, Return
  <2>3. OwnLeader'
    BY <1>5 DEF Awake, Return
  <2>4. OwnOutcome'
    BY <1>5 DEF Awake, Return
  <2>5. OwnText'
    BY <1>5 DEF Awake, Return
  <2> QED
    BY <2>1, <2>2, <2>3, <2>4, <2>5
<1>6. ASSUME NEW c \in Calls, ReadData(c)
      PROVE  FlightInv'
  <2>1. SingleFlight'
    BY <1>6 DEF ReadData
  <2>2. TableOfTexts'
    BY <1>6 DEF ReadData
  <2>3. OwnLeader'
    BY <1>6 DEF ReadData
  <2>4. OwnOutcome'
    BY <1>6 DEF ReadData
  <2>5. OwnText'
    BY <1>6 DEF ReadData
  <2> QED
    BY <2>1, <2>2, <2>3, <2>4, <2>5
<1>7. ASSUME NEW c \in Calls, ReadLen(c)
      PROVE  FlightInv'
  <2>1. SingleFlight'
    BY <1>7 DEF ReadLen
  <2>2. TableOfTexts'
    BY <1>7 DEF ReadLen
  <2>3. OwnLeader'
    BY <1>7 DEF ReadLen
  <2>4. OwnOutcome'
    BY <1>7 DEF ReadLen
  <2>5. OwnText'
    BY <1>7 DEF ReadLen
  <2> QED
    BY <2>1, <2>2, <2>3, <2>4, <2>5
<1>8. ASSUME NEW c \in Calls, BuildFails(c)
      PROVE  FlightInv'
  <2>1. SingleFlight'
    BY <1>8 DEF BuildFails
  <2>2. TableOfTexts'
    BY <1>8 DEF BuildFails
  <2>3. OwnLeader'
    BY <1>8 DEF BuildFails
  <2>4. OwnOutcome'
    BY <1>8 DEF BuildFails
  <2>5. OwnText'
    BY <1>8 DEF BuildFails
  <2> QED
    BY <2>1, <2>2, <2>3, <2>4, <2>5
<1>9. ASSUME NEW c \in Calls, Build(c)
      PROVE  FlightInv'
  <2>1. SingleFlight'
    BY <1>9 DEF Build
  <2>2. TableOfTexts'
    BY <1>9 DEF Build
  <2>3. OwnLeader'
    BY <1>9 DEF Build
  <2>4. OwnOutcome'
    BY <1>9 DEF Build
  <2>5. OwnText'
    BY <1>9 DEF Build
  <2> QED
    BY <2>1, <2>2, <2>3, <2>4, <2>5
<1>10. ASSUME NEW c \in Calls, Fail(c)
      PROVE  FlightInv'
  <2>1. SingleFlight'
    BY <1>10 DEF Fail, Recorded, AfterFailure
  <2>2. TableOfTexts'
    BY <1>10 DEF Fail, Recorded, AfterFailure
  <2>3. OwnLeader'
    BY <1>10 DEF Fail, Recorded, AfterFailure
  <2>4. OwnOutcome'
    BY <1>10 DEF Fail, Recorded, AfterFailure
  <2>5. OwnText'
    BY <1>10 DEF Fail, Recorded, AfterFailure
  <2> QED
    BY <2>1, <2>2, <2>3, <2>4, <2>5
<1>11. ASSUME NEW c \in Calls, Answer(c)
      PROVE  FlightInv'
  <2>1. SingleFlight'
    BY <1>11 DEF Answer, Torn, Address
  <2>2. TableOfTexts'
    BY <1>11 DEF Answer, Torn, Address
  <2>3. OwnLeader'
    BY <1>11 DEF Answer, Torn, Address
  <2>4. OwnOutcome'
    BY <1>11 DEF Answer, Torn, Address
  <2>5. OwnText'
    BY <1>11 DEF Answer, Torn, Address
  <2> QED
    BY <2>1, <2>2, <2>3, <2>4, <2>5
<1>12. ASSUME NEW c \in Calls, Store(c)
      PROVE  FlightInv'
  <2>1. SingleFlight'
    BY <1>12 DEF Store
  <2>2. TableOfTexts'
    BY <1>12 DEF Store
  <2>3. OwnLeader'
    BY <1>12 DEF Store
  <2>4. OwnOutcome'
    BY <1>12 DEF Store
  <2>5. OwnText'
    BY <1>12 DEF Store
  <2> QED
    BY <2>1, <2>2, <2>3, <2>4, <2>5
<1>13. ASSUME NEW c \in Calls, Finish(c)
      PROVE  FlightInv'
  <2>1. SingleFlight'
    BY <1>13 DEF Finish, Removed
  <2>2. TableOfTexts'
    BY <1>13 DEF Finish, Removed
  <2>3. OwnLeader'
    BY <1>13 DEF Finish, Removed
  <2>4. OwnOutcome'
    BY <1>13 DEF Finish, Removed
  <2>5. OwnText'
    BY <1>13 DEF Finish, Removed
  <2> QED
    BY <2>1, <2>2, <2>3, <2>4, <2>5
<1>14. ASSUME NEW c \in Calls, Release(c)
      PROVE  FlightInv'
  <2>1. SingleFlight'
    BY <1>14 DEF Release, Done
  <2>2. TableOfTexts'
    BY <1>14 DEF Release, Done
  <2>3. OwnLeader'
    BY <1>14 DEF Release, Done
  <2>4. OwnOutcome'
    BY <1>14 DEF Release, Done
  <2>5. OwnText'
    BY <1>14 DEF Release, Done
  <2> QED
    BY <2>1, <2>2, <2>3, <2>4, <2>5
<1>15. ASSUME NEW t \in Texts, Expire(t) \/ SetClear(t)
      PROVE  FlightInv'
  <2>1. UNCHANGED <<inflight, outcome, pc, text, leader, result>>
    BY <1>15 DEF Expire, SetClear
  <2>2. \A u \in Texts : cache'[u] # Nobody =>
            cache[u] # Nobody /\ cache'[u].value = cache[u].value
    <3>1. CASE Expire(t)
      <4>1. /\ cache[t] \in Entries
            /\ cache' = [cache EXCEPT ![t] = [@ EXCEPT !.fresh = FALSE]]
        BY <3>1 DEF Expire
      <4> QED
        BY <4>1
    <3>2. CASE SetClear(t)
      BY <3>2 DEF SetClear
    <3> QED
      BY <1>15, <3>1, <3>2
  <2>3. OwnText'
    BY <2>1, <2>2
  <2> QED
    BY <2>1, <2>3
<1>16. ASSUME NEW t \in Texts, FindExpired(t)
      PROVE  FlightInv'
  BY <1>16 DEF FindExpired
<1>17. ASSUME NEW u \in Urls, SetLock(u)
      PROVE  FlightInv'
  BY <1>17 DEF SetLock
<1>18. CASE CleanUp
  BY <1>18 DEF CleanUp
<1>19. CASE SetData \/ SetLen \/ SetUnlock
  BY <1>19 DEF SetData, SetLen, SetUnlock
<1>20. CASE UNCHANGED vars
  BY <1>20 DEF vars
<1> QED
  BY <1>1, <1>2, <1>3, <1>4, <1>5, <1>6, <1>7, <1>8, <1>9, <1>10, <1>11, <1>12, <1>13, <1>14, <1>15, <1>16, <1>17, <1>18, <1>19, <1>20 DEF Next, Unlocked, Setting

-----------------------------------------------------------------------------
\* Every step keeps the address and the cache in step.
LEMMA CacheStep ==
  ASSUME TypeOK, FlightInv, CacheInv, [Next]_vars
  PROVE  CacheInv'
<1> USE ClientAssumption DEF TypeOK, CacheInv, Words, Reading, OnTime, Swept, Entries, Goto,
        setting, flight, reading, cleaning
<1>1. ASSUME NEW c \in Calls, Call(c)
      PROVE  CacheInv'
  BY <1>1 DEF Call
<1>2. ASSUME NEW c \in Calls, Load(c)
      PROVE  CacheInv'
  BY <1>2 DEF Load, Return
<1>3. ASSUME NEW c \in Calls, Evict(c)
      PROVE  CacheInv'
  BY <1>3 DEF Evict
<1>4. ASSUME NEW c \in Calls, Enter(c)
      PROVE  CacheInv'
  BY <1>4 DEF Enter, InFlight
<1>5. ASSUME NEW c \in Calls, Awake(c)
      PROVE  CacheInv'
  BY <1>5 DEF Awake, Return
<1>6. ASSUME NEW c \in Calls, ReadData(c)
      PROVE  CacheInv'
  <2>1. Words'
    BY <1>6 DEF ReadData, MuFree
  <2>2. OnTime'
    <3>1. ASSUME NEW d \in Calls, d # c
          PROVE  /\ pc'[d] = pc[d]
                 /\ late'[d] = late[d]
                 /\ seen'[d] = seen[d]
      BY <1>6, <3>1 DEF ReadData
    <3>2. pc'[c] = "len"
      BY <1>6 DEF ReadData
    <3>3. late' = [late EXCEPT ![c] = ~MuFree]
      BY <1>6 DEF ReadData
    <3>4. setter # "idle" => late'[c]
      BY <3>3 DEF MuFree
    <3>5. seen'[c].data = base.data
      BY <1>6 DEF ReadData
    <3>6. UNCHANGED <<setter, base, result>>
      BY <1>6 DEF ReadData
    <3> QED
      BY <3>1, <3>2, <3>4, <3>5, <3>6
  <2>3. Swept'
    BY <1>6 DEF ReadData, MuFree
  <2> QED
    BY <2>1, <2>2, <2>3
<1>7. ASSUME NEW c \in Calls, ReadLen(c)
      PROVE  CacheInv'
  <2>1. Words'
    BY <1>7 DEF ReadLen
  <2>2. OnTime'
    BY <1>7 DEF ReadLen
  <2>3. Swept'
    BY <1>7 DEF ReadLen
  <2> QED
    BY <2>1, <2>2, <2>3
<1>8. ASSUME NEW c \in Calls, BuildFails(c)
      PROVE  CacheInv'
  BY <1>8 DEF BuildFails
<1>9. ASSUME NEW c \in Calls, Build(c)
      PROVE  CacheInv'
  BY <1>9 DEF Build
<1>10. ASSUME NEW c \in Calls, Fail(c)
      PROVE  CacheInv'
  BY <1>10 DEF Fail, Recorded, AfterFailure
<1>11. ASSUME NEW c \in Calls, Answer(c)
      PROVE  CacheInv'
  <2>1. Words'
    BY <1>11 DEF Answer, Torn, Address
  <2>2. OnTime'
    BY <1>11 DEF Answer, Torn, Address
  <2>3. Swept'
    BY <1>11 DEF Answer, Torn, Address
  <2> QED
    BY <2>1, <2>2, <2>3
<1>12. ASSUME NEW c \in Calls, Store(c)
      PROVE  CacheInv'
  <2>1. Words'
    BY <1>12 DEF Store
  <2>2. OnTime'
    BY <1>12 DEF Store
  <2>3. Swept'
    BY <1>12 DEF Store
  <2> QED
    BY <2>1, <2>2, <2>3
<1>13. ASSUME NEW c \in Calls, Finish(c)
      PROVE  CacheInv'
  BY <1>13 DEF Finish, Removed
<1>14. ASSUME NEW c \in Calls, Release(c)
      PROVE  CacheInv'
  BY <1>14 DEF Release, Done
<1>15. ASSUME NEW t \in Texts, Expire(t)
      PROVE  CacheInv'
  <2>1. Words'
    BY <1>15 DEF Expire
  <2>2. OnTime'
    BY <1>15 DEF Expire
  <2>3. Swept'
    BY <1>15 DEF Expire
  <2> QED
    BY <2>1, <2>2, <2>3
<1>16. ASSUME NEW t \in Texts, FindExpired(t)
      PROVE  CacheInv'
  <2>1. Words'
    BY <1>16 DEF FindExpired
  <2>2. OnTime'
    BY <1>16 DEF FindExpired
  <2>3. Swept'
    BY <1>16 DEF FindExpired
  <2> QED
    BY <2>1, <2>2, <2>3
<1>17. ASSUME NEW t \in Texts, SetClear(t)
      PROVE  CacheInv'
  <2>1. Words'
    BY <1>17 DEF SetClear
  <2>2. OnTime'
    BY <1>17 DEF SetClear
  <2>3. Swept'
    BY <1>17 DEF SetClear
  <2> QED
    BY <2>1, <2>2, <2>3
<1>18. ASSUME NEW u \in Urls, SetLock(u)
      PROVE  CacheInv'
  <2>1. Words'
    BY <1>18 DEF SetLock
  <2>2. OnTime'
    BY <1>18 DEF SetLock
  <2>3. Swept'
    BY <1>18 DEF SetLock
  <2> QED
    BY <2>1, <2>2, <2>3
<1>19. CASE CleanUp
  <2>1. Words'
    BY <1>19 DEF CleanUp
  <2>2. OnTime'
    BY <1>19 DEF CleanUp
  <2>3. Swept'
    BY <1>19 DEF CleanUp
  <2> QED
    BY <2>1, <2>2, <2>3
<1>20. CASE SetData
  <2>1. Words'
    BY <1>20 DEF SetData
  <2>2. OnTime'
    BY <1>20 DEF SetData
  <2>3. Swept'
    BY <1>20 DEF SetData
  <2> QED
    BY <2>1, <2>2, <2>3
<1>21. CASE SetLen
  <2>1. Words'
    BY <1>21 DEF SetLen, AllKeys
  <2>2. OnTime'
    BY <1>21 DEF SetLen, AllKeys
  <2>3. Swept'
    BY <1>21 DEF SetLen, AllKeys
  <2> QED
    BY <2>1, <2>2, <2>3
<1>22. CASE SetUnlock
  <2>1. Words'
    BY <1>22 DEF SetUnlock
  <2>2. OnTime'
    BY <1>22 DEF SetUnlock
  <2>3. Swept'
    BY <1>22 DEF SetUnlock
  <2> QED
    BY <2>1, <2>2, <2>3
<1>23. CASE UNCHANGED vars
  BY <1>23 DEF vars
<1> QED
  BY <1>1, <1>2, <1>3, <1>4, <1>5, <1>6, <1>7, <1>8, <1>9, <1>10, <1>11, <1>12, <1>13, <1>14, <1>15, <1>16, <1>17, <1>18, <1>19, <1>20, <1>21, <1>22, <1>23 DEF Next, Unlocked, Setting

-----------------------------------------------------------------------------
\* Every step keeps leaders and followers in step.
LEMMA FollowStep ==
  ASSUME TypeOK, FlightInv, FollowInv, [Next]_vars
  PROVE  FollowInv'
<1> USE ClientAssumption DEF TypeOK, FollowInv, Roles, Published, HandedOver, Leading, Stages, Goto, Torn, Address,
        setting, flight, reading, cleaning
<1>1. ASSUME NEW c \in Calls, Call(c)
      PROVE  FollowInv'
  <2>1. Roles'
    BY <1>1 DEF Call
  <2>2. Published'
    BY <1>1 DEF Call
  <2>3. HandedOver'
    BY <1>1 DEF Call
  <2> QED
    BY <2>1, <2>2, <2>3
<1>2. ASSUME NEW c \in Calls, Load(c)
      PROVE  FollowInv'
  <2>1. Roles'
    BY <1>2 DEF Load, Return
  <2>2. Published'
    BY <1>2 DEF Load, Return
  <2>3. HandedOver'
    BY <1>2 DEF Load, Return
  <2> QED
    BY <2>1, <2>2, <2>3
<1>3. ASSUME NEW c \in Calls, Evict(c)
      PROVE  FollowInv'
  <2>1. Roles'
    BY <1>3 DEF Evict
  <2>2. Published'
    BY <1>3 DEF Evict
  <2>3. HandedOver'
    BY <1>3 DEF Evict
  <2> QED
    BY <2>1, <2>2, <2>3
<1>4. ASSUME NEW c \in Calls, Enter(c)
      PROVE  FollowInv'
  <2>1. Roles'
    BY <1>4 DEF Enter, InFlight, FlightInv, SingleFlight, TableOfTexts
  <2>2. Published'
    BY <1>4 DEF Enter, InFlight
  <2>3. HandedOver'
    BY <1>4 DEF Enter, InFlight
  <2> QED
    BY <2>1, <2>2, <2>3
<1>5. ASSUME NEW c \in Calls, Awake(c)
      PROVE  FollowInv'
  <2>1. Roles'
    BY <1>5 DEF Awake, Return
  <2>2. Published'
    BY <1>5 DEF Awake, Return
  <2>3. HandedOver'
    BY <1>5 DEF Awake, Return
  <2> QED
    BY <2>1, <2>2, <2>3
<1>6. ASSUME NEW c \in Calls, ReadData(c)
      PROVE  FollowInv'
  <2>1. Roles'
    BY <1>6 DEF ReadData
  <2>2. Published'
    BY <1>6 DEF ReadData
  <2>3. HandedOver'
    BY <1>6 DEF ReadData
  <2> QED
    BY <2>1, <2>2, <2>3
<1>7. ASSUME NEW c \in Calls, ReadLen(c)
      PROVE  FollowInv'
  <2>1. Roles'
    BY <1>7 DEF ReadLen
  <2>2. Published'
    BY <1>7 DEF ReadLen
  <2>3. HandedOver'
    BY <1>7 DEF ReadLen
  <2> QED
    BY <2>1, <2>2, <2>3
<1>8. ASSUME NEW c \in Calls, BuildFails(c)
      PROVE  FollowInv'
  <2>1. Roles'
    BY <1>8 DEF BuildFails
  <2>2. Published'
    BY <1>8 DEF BuildFails
  <2>3. HandedOver'
    BY <1>8 DEF BuildFails
  <2> QED
    BY <2>1, <2>2, <2>3
<1>9. ASSUME NEW c \in Calls, Build(c)
      PROVE  FollowInv'
  <2>1. Roles'
    BY <1>9 DEF Build
  <2>2. Published'
    BY <1>9 DEF Build
  <2>3. HandedOver'
    BY <1>9 DEF Build
  <2> QED
    BY <2>1, <2>2, <2>3
<1>10. ASSUME NEW c \in Calls, Fail(c)
      PROVE  FollowInv'
  <2>1. Roles'
    BY <1>10 DEF Fail, Recorded, AfterFailure
  <2>2. Published'
    BY <1>10 DEF Fail, Recorded, AfterFailure
  <2>3. HandedOver'
    BY <1>10 DEF Fail, Recorded, AfterFailure
  <2> QED
    BY <2>1, <2>2, <2>3
<1>11. ASSUME NEW c \in Calls, Answer(c)
      PROVE  FollowInv'
  <2>1. Roles'
    BY <1>11 DEF Answer
  <2>2. Published'
    BY <1>11 DEF Answer
  <2>3. HandedOver'
    BY <1>11 DEF Answer
  <2> QED
    BY <2>1, <2>2, <2>3
<1>12. ASSUME NEW c \in Calls, Store(c)
      PROVE  FollowInv'
  <2>1. Roles'
    BY <1>12 DEF Store
  <2>2. Published'
    BY <1>12 DEF Store
  <2>3. HandedOver'
    BY <1>12 DEF Store
  <2> QED
    BY <2>1, <2>2, <2>3
<1>13. ASSUME NEW c \in Calls, Finish(c)
      PROVE  FollowInv'
  <2>1. Roles'
    BY <1>13 DEF Finish, Removed
  <2>2. Published'
    BY <1>13 DEF Finish, Removed
  <2>3. HandedOver'
    BY <1>13 DEF Finish, Removed
  <2> QED
    BY <2>1, <2>2, <2>3
<1>14. ASSUME NEW c \in Calls, Release(c)
      PROVE  FollowInv'
  <2>1. Roles'
    BY <1>14 DEF Release, Done
  <2>2. Published'
    BY <1>14 DEF Release, Done
  <2>3. HandedOver'
    BY <1>14 DEF Release, Done
  <2> QED
    BY <2>1, <2>2, <2>3
<1>15. ASSUME NEW t \in Texts, Expire(t) \/ FindExpired(t) \/ SetClear(t)
      PROVE  FollowInv'
  BY <1>15 DEF Expire, FindExpired, SetClear
<1>16. ASSUME NEW u \in Urls, SetLock(u)
      PROVE  FollowInv'
  BY <1>16 DEF SetLock
<1>17. CASE CleanUp \/ SetData \/ SetLen \/ SetUnlock
  BY <1>17 DEF CleanUp, SetData, SetLen, SetUnlock
<1>18. CASE UNCHANGED vars
  BY <1>18 DEF vars
<1> QED
  BY <1>1, <1>2, <1>3, <1>4, <1>5, <1>6, <1>7, <1>8, <1>9, <1>10, <1>11, <1>12, <1>13, <1>14, <1>15, <1>16, <1>17, <1>18 DEF Next, Unlocked, Setting

-----------------------------------------------------------------------------
\* At first nobody calls, the table and the cache are empty.
LEMMA InitIInv == Init => IInv
<1> SUFFICES ASSUME Init PROVE IInv
  OBVIOUS
<1> USE ClientAssumption DEF Init
<1>1. TypeOK
  BY DEF TypeOK, Entries, Answers, Stages, Leading
<1>2. FlightInv
  BY DEF FlightInv, SingleFlight, TableOfTexts, OwnLeader, OwnOutcome, OwnText, Leading
<1>3. CacheInv
  BY DEF CacheInv, Words, OnTime, Swept, Reading
<1>4. FollowInv
  BY DEF FollowInv, Roles, Published, HandedOver, Leading
<1> QED
  BY <1>1, <1>2, <1>3, <1>4 DEF IInv

\* The invariant holds in every reachable state.
THEOREM Invariance == Spec => []IInv
<1>1. IInv /\ [Next]_vars => IInv'
  BY TypeStep, FlightStep, CacheStep, FollowStep DEF IInv
<1> QED
  BY <1>1, InitIInv, PTL DEF Spec

\* Type correctness, for every instance.
THEOREM TypeCorrect == Spec => []TypeOK
  BY Invariance, PTL DEF IInv

\* The engine is never asked twice at once about one text, and every call
\* that leaves takes its entry with it.
THEOREM OneLeader == Spec => []SingleFlight
  BY Invariance, PTL DEF IInv, FlightInv

\* Sharing calls and caching never hand out another text's answer.
THEOREM NoMixUp == Spec => []OwnText
  BY Invariance, PTL DEF IInv, FlightInv

\* After any number of switches the cache serves the present engine, up to
\* the calls that overlapped a switch.
THEOREM FreshCache == Spec => []CachedFromBase
<1>1. IInv => CachedFromBase
  BY DEF IInv, CacheInv, Words, Swept, CachedFromBase, TypeOK
<1> QED
  BY <1>1, Invariance, PTL

\* Followers return what their leader returns, unless the leader could not
\* build its request.
THEOREM FollowersInStep == Spec => []FollowersAgree
<1>1. IInv => FollowersAgree
  BY DEF IInv, FollowInv, Roles, Published, HandedOver, FollowersAgree, TypeOK
<1> QED
  BY <1>1, Invariance, PTL

=============================================================================
