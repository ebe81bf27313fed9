------------------------- MODULE WorkerPoolProofs -------------------------
(***************************************************************************)
(* What holds of the forwarder for any number of requests and workers, any *)
(* queue, any number of attempts and whatever the upstream answers: the    *)
(* safety properties of WorkerPool that its run checks.                    *)
(***************************************************************************)
EXTENDS WorkerPool, TLAPS

\* A task is in one place: once in the queue, at one worker, or its result is
\* in the channel.
Places ==
    /\ \A i, j \in 1..Len(queue) : queue[i] = queue[j] => i = j
    /\ \A w \in Workers : task[w] = NoTask <=> stage[w] \in {"idle", "exited"}
    /\ \A v, w \in Workers : v # w /\ task[v] = task[w] => task[w] = NoTask
    /\ \A w \in Workers : task[w] \notin Queued
    /\ \A r \in Requests : result[r] # "none" => r \notin Queued \cup Worked
    /\ \A w \in Workers : stage[w] = "send" => outcome[w] # "none"

Pending(r) == r \in Queued \cup Worked \/ result[r] # "none"

\* Its handler waits for it, or has given up because the client had gone.
Owned ==
    /\ TaskAccounted
    /\ \A r \in Requests :
          /\ Pending(r) => \/ handler[r] = "waiting"
                           \/ gone[r] /\ reply[r] = "cancelled" /\ handler[r] \in {"failing", "returned"}
          /\ handler[r] \in {"new", "forward", "waiting"} => reply[r] = "none"
          /\ reply[r] = "nil" => handler[r] = "returned"

\* A body nobody of this request's has written to yet, and one its worker has
\* written whole.
Clean(r) == body[r] \in {"none", "foreign"}
Whole(r) == body[r] \in {"whole", "foreign"}

\* What the client of a waiting handler has been sent is what its worker's
\* stage says; only the worker of a request given up writes to another's body.
Sending ==
    /\ \A r \in Requests :
          /\ handler[r] \in {"new", "forward"} \/ (handler[r] = "waiting" /\ r \in Queued) =>
                head[r] = "none" /\ Clean(r)
          /\ handler[r] = "waiting" /\ result[r] = "nil" => head[r] = "upstream" /\ Whole(r)
          /\ body[r] = "foreign" => \E q \in Requests \ {r} : reply[q] = "cancelled"
    /\ \A w \in Workers :
          /\ stage[w] \in {"do", "backoff", "header"} /\ handler[task[w]] = "waiting" =>
                head[task[w]] = "none" /\ Clean(task[w])
          /\ stage[w] = "copy" =>
                /\ head[task[w]] # "none"
                /\ handler[task[w]] = "waiting" => head[task[w]] = "upstream" /\ Clean(task[w])
          /\ stage[w] = "send" /\ outcome[w] = "nil" /\ handler[task[w]] = "waiting" =>
                head[task[w]] = "upstream" /\ Whole(task[w])

\* Attempts are counted from zero, a worker that goes on has one left, and one
\* that reports an error has none, or had written a status line.
Counted ==
    /\ \A r \in Requests :
          handler[r] \in {"new", "forward"} \/ r \in Queued => tries[r] = 0
    /\ \A w \in Workers :
          /\ stage[w] = "do" => tries[task[w]] <= MaxRetries
          /\ stage[w] = "backoff" => tries[task[w]] <= MaxRetries \/ death # "none"
          /\ stage[w] = "send" /\ outcome[w] = "error" =>
                tries[task[w]] = MaxRetries + 1 \/ head[task[w]] # "none"

\* Workers exit once the queue is closed and empty, which it then remains.
Draining ==
    /\ (\E w \in Workers : stage[w] = "exited") => closed /\ queue = <<>>
    /\ main = "drained" => AllExited

IInv == TypeOK /\ Places /\ Owned /\ Sending /\ Counted /\ Draining /\ OutcomeEarned

-----------------------------------------------------------------------------
\* The members of a sequence without repetitions, when one comes or leaves.
Distinct(q) == \A i, j \in 1..Len(q) : q[i] = q[j] => i = j
Members(q) == {q[i] : i \in 1..Len(q)}

LEMMA AppendFacts ==
    ASSUME NEW q \in Seq(Requests), NEW r \in Requests, Distinct(q), r \notin Members(q)
    PROVE  /\ Append(q, r) \in Seq(Requests)
           /\ Len(Append(q, r)) = Len(q) + 1
           /\ Members(Append(q, r)) = Members(q) \cup {r}
           /\ Distinct(Append(q, r))
<1> DEFINE p == Append(q, r)
<1>1. /\ p \in Seq(Requests) /\ Len(q) \in Nat /\ Len(p) = Len(q) + 1
      /\ p[Len(p)] = r
      /\ \A i \in 1..Len(q) : p[i] = q[i]
    OBVIOUS
<1> HIDE DEF p
<1>2. \A i \in 1..Len(p) : i = Len(p) \/ i \in 1..Len(q)
    BY <1>1
<1>3. Members(p) = Members(q) \cup {r}
    BY <1>1, <1>2 DEF Members
<1>4. Distinct(p)
    BY <1>1, <1>2 DEF Distinct, Members
<1>5. QED  BY <1>1, <1>3, <1>4 DEF p

LEMMA TailFacts ==
    ASSUME NEW q \in Seq(Requests), q # <<>>, Distinct(q)
    PROVE  /\ Head(q) \in Requests /\ Head(q) \in Members(q)
           /\ Tail(q) \in Seq(Requests)
           /\ Len(Tail(q)) = Len(q) - 1
           /\ Members(Tail(q)) = Members(q) \ {Head(q)}
           /\ Distinct(Tail(q))
<1> DEFINE p == Tail(q)
<1>1. /\ p \in Seq(Requests) /\ Len(q) \in Nat \ {0} /\ Len(p) = Len(q) - 1
      /\ Head(q) = q[1] /\ q[1] \in Requests
      /\ \A i \in 1..Len(p) : p[i] = q[i + 1]
    OBVIOUS
<1> HIDE DEF p
<1>2. Head(q) \in Members(q)
    BY <1>1 DEF Members
<1>3. \A i \in 1..Len(q) : i = 1 \/ (i - 1 \in 1..Len(p) /\ p[i - 1] = q[i])
    BY <1>1
<1>4. \A i \in 1..Len(p) : i + 1 \in 1..Len(q) /\ i + 1 # 1
    BY <1>1
<1>5. Members(p) = Members(q) \ {Head(q)}
    <2>1. ASSUME NEW i \in 1..Len(p)  PROVE p[i] \in Members(q) \ {Head(q)}
        BY <1>1, <1>4 DEF Members, Distinct
    <2>2. ASSUME NEW i \in 1..Len(q), q[i] # Head(q)  PROVE q[i] \in Members(p)
        BY <1>1, <1>3, <2>2 DEF Members
    <2>3. QED  BY <2>1, <2>2 DEF Members
<1>6. Distinct(p)
    BY <1>1, <1>4 DEF Distinct
<1>7. QED  BY <1>1, <1>2, <1>5, <1>6 DEF p

-----------------------------------------------------------------------------
LEMMA InitIInv == Init => IInv
<1> SUFFICES ASSUME Init PROVE IInv
    OBVIOUS
<1> USE PoolAssumption DEF Init
<1>1. Queued = {} /\ Worked = {}
    BY DEF Queued, Worked
<1>2. TypeOK
    <2>1. queue \in Seq(Requests) /\ Len(queue) <= MaxQueue
        OBVIOUS
    <2>2. /\ handler \in [Requests -> {"new", "forward", "waiting", "failing", "returned", "aborted"}]
          /\ gone \in [Requests -> BOOLEAN]
          /\ stalled \in [Requests -> BOOLEAN]
          /\ reply \in [Requests -> {"none", "nil", "error", "cancelled", "full"}]
        OBVIOUS
    <2>3. /\ result \in [Requests -> {"none", "nil", "error", "cancelled"}]
          /\ head \in [Requests -> {"none", "upstream", "bad_gateway"}]
          /\ body \in [Requests -> {"none", "whole", "part", "error", "mixed", "foreign"}]
        OBVIOUS
    <2>4. tries \in [Requests -> 0..MaxRetries + 1]
        OBVIOUS
    <2>5. /\ stage \in [Workers -> {"idle", "do", "backoff", "header", "copy", "send", "exited"}]
          /\ task \in [Workers -> Requests \cup {NoTask}]
          /\ outcome \in [Workers -> {"none", "nil", "error", "cancelled"}]
        OBVIOUS
    <2>6. closed \in BOOLEAN /\ main = "serving" /\ death = "none"
        OBVIOUS
    <2> HIDE DEF Init
    <2>7. QED  BY <2>1, <2>2, <2>3, <2>4, <2>5, <2>6 DEF TypeOK
<1>3. Places /\ Owned
    BY <1>1 DEF Places, Owned, TaskAccounted, Pending
<1>4. Sending /\ Counted /\ Draining /\ OutcomeEarned
    BY <1>1 DEF Sending, Clean, Counted, Draining, OutcomeEarned
<1>5. QED  BY <1>2, <1>3, <1>4 DEF IInv

Busy == {"do", "backoff", "header", "copy", "send"}

\* What a worker has in hand.
LEMMA Task ==
    ASSUME TypeOK, Places, NEW w \in Workers
    PROVE  /\ stage[w] \in Busy =>
                 /\ task[w] \in Requests /\ task[w] \in Worked /\ task[w] \notin Queued
                 /\ result[task[w]] = "none"
           /\ stage[w] \in {"idle", "exited"} => task[w] = NoTask
<1> USE PoolAssumption
<1>1. ASSUME stage[w] \in Busy
      PROVE  task[w] \in Requests /\ task[w] \in Worked
    <2>1. task[w] # NoTask
        BY <1>1 DEF Places, Busy
    <2>2. task[w] \in Requests \cup {NoTask}
        BY DEF TypeOK
    <2>3. QED  BY <2>1, <2>2 DEF Worked
<1>2. QED  BY <1>1 DEF Places

\* What an action of a worker with a task does to the task: it keeps it, or
\* delivers a result.
Errors == {"nil", "error", "cancelled"}

Keeps(w, s) ==
    /\ Step(w, s) /\ UNCHANGED <<task, result>>
    /\ \/ s # "send" /\ UNCHANGED outcome
       \/ s = "send" /\ \E err \in Errors : outcome' = [outcome EXCEPT ![w] = err]

Attends(w) == Attempt(w) \/ Backoff(w) \/ WriteHeader(w) \/ Copy(w) \/ StrayCopy(w)

LEMMA WorkerFlow ==
    ASSUME TypeOK, NEW w \in Workers, Attends(w)
    PROVE  /\ stage[w] \in Busy /\ stage[w] # "send"
           /\ UNCHANGED <<queue, closed, handler, gone, stalled, reply, main>>
           /\ \E s \in Busy : Keeps(w, s)
<1>1. CASE Attempt(w)
    BY <1>1 DEF Attempt, Busy, Keeps, Done, Errors, client
<1>2. CASE Backoff(w)
    BY <1>2 DEF Backoff, Busy, Keeps, Done, Errors, client
<1>3. CASE WriteHeader(w)
    BY <1>3 DEF WriteHeader, Busy, Keeps
<1>4. CASE Copy(w)
    BY <1>4 DEF Copy, Busy, CopyError, Keeps, Done, Errors
<1>5. CASE StrayCopy(w)
    <2>1. stage[w] = "copy" /\ stage = [stage EXCEPT ![w] = "copy"]
        BY <1>5 DEF StrayCopy, TypeOK
    <2>2. QED  BY <1>5, <2>1 DEF StrayCopy, Busy, CopyError, Keeps, Done, Errors, Step
<1>6. QED  BY <1>1, <1>2, <1>3, <1>4, <1>5 DEF Attends

LEMMA KeepsTypes ==
    ASSUME TypeOK, NEW w \in Workers, NEW s \in Busy, Keeps(w, s)
    PROVE  /\ result' \in [Requests -> {"none", "nil", "error", "cancelled"}]
           /\ task' \in [Workers -> Requests \cup {NoTask}]
           /\ outcome' \in [Workers -> {"none", "nil", "error", "cancelled"}]
           /\ stage' \in [Workers -> {"idle", "do", "backoff", "header", "copy", "send", "exited"}]
<1>1. /\ result \in [Requests -> {"none", "nil", "error", "cancelled"}]
      /\ task \in [Workers -> Requests \cup {NoTask}]
      /\ outcome \in [Workers -> {"none", "nil", "error", "cancelled"}]
      /\ stage \in [Workers -> {"idle", "do", "backoff", "header", "copy", "send", "exited"}]
    BY DEF TypeOK
<1>2. stage' \in [Workers -> {"idle", "do", "backoff", "header", "copy", "send", "exited"}]
    BY <1>1 DEF Keeps, Busy, Step
<1>3. outcome' \in [Workers -> {"none", "nil", "error", "cancelled"}]
    BY <1>1 DEF Keeps, Errors
<1>4. QED  BY <1>1, <1>2, <1>3 DEF Keeps

\* The queue stays within its capacity.
LEMMA QueueTypes ==
    ASSUME TypeOK, \/ \E r \in Requests : Enqueue(r)
                   \/ \E w \in Workers : Take(w)
    PROVE  /\ queue' \in Seq(Requests) /\ Len(queue') <= MaxQueue
           /\ queue # <<>> => Head(queue) \in Requests
<1> USE PoolAssumption
<1>1. queue \in Seq(Requests) /\ Len(queue) <= MaxQueue
    BY DEF TypeOK
<1>2. ASSUME NEW r \in Requests, Enqueue(r)  PROVE queue' \in Seq(Requests) /\ Len(queue') <= MaxQueue
    BY <1>1, <1>2 DEF Enqueue, HasRoom
<1>3. ASSUME NEW w \in Workers, Take(w)  PROVE queue' \in Seq(Requests) /\ Len(queue') <= MaxQueue
    BY <1>1, <1>3 DEF Take
<1>4. queue # <<>> => Head(queue) \in Requests
    BY <1>1
<1>5. QED  BY <1>2, <1>3, <1>4

\* What a worker counts and writes keeps its type.
LEMMA WriteTypes ==
    ASSUME TypeOK, Places, Counted, NEW w \in Workers, Attends(w)
    PROVE  /\ tries' \in [Requests -> 0..MaxRetries + 1]
           /\ head' \in [Requests -> {"none", "upstream", "bad_gateway"}]
           /\ body' \in [Requests -> {"none", "whole", "part", "error", "mixed", "foreign"}]
<1> USE PoolAssumption
<1>1. /\ tries \in [Requests -> 0..MaxRetries + 1]
      /\ head \in [Requests -> {"none", "upstream", "bad_gateway"}]
      /\ body \in [Requests -> {"none", "whole", "part", "error", "mixed", "foreign"}]
    BY DEF TypeOK
<1>2. CASE Attempt(w)
    <2>1. stage[w] = "do" /\ task[w] \in Requests /\ tries[task[w]] <= MaxRetries
        BY <1>2, Task DEF Attempt, Counted, Busy
    <2>2. tries[task[w]] + 1 \in 0..MaxRetries + 1
        BY <1>1, <2>1
    <2>3. tries' \in [Requests -> 0..MaxRetries + 1]
        BY <1>1, <1>2, <2>2 DEF Attempt
    <2>4. QED  BY <1>1, <1>2, <2>3 DEF Attempt, client
<1>3. CASE Backoff(w)
    BY <1>1, <1>3 DEF Backoff, client
<1>4. CASE WriteHeader(w)
    BY <1>1, <1>4 DEF WriteHeader
<1>5. CASE Copy(w)
    <2>1. body' \in [Requests -> {"none", "whole", "part", "error", "mixed", "foreign"}]
        BY <1>1, <1>5 DEF Copy, Written
    <2>2. QED  BY <1>1, <1>5, <2>1 DEF Copy
<1>6. CASE StrayCopy(w)
    BY <1>1, <1>6 DEF StrayCopy
<1>7. QED  BY <1>2, <1>3, <1>4, <1>5, <1>6 DEF Attends

\* Every step keeps the types.
LEMMA TypeStep ==
    ASSUME TypeOK, Places, Owned, Counted, [Next]_vars
    PROVE  TypeOK'
<1> USE PoolAssumption DEF TypeOK, client, pool
<1>1. ASSUME NEW r \in Requests, Arrive(r) \/ Disconnect(r) \/ Stall(r)  PROVE TypeOK'
    <2>1. CASE Arrive(r)
        BY <2>1 DEF Arrive
    <2>2. CASE Disconnect(r)
        BY <2>2 DEF Disconnect
    <2>3. CASE Stall(r)
        BY <2>3 DEF Stall
    <2>4. QED  BY <1>1, <2>1, <2>2, <2>3
<1>2. ASSUME NEW r \in Requests, Enqueue(r)  PROVE TypeOK'
    <2>1. queue' \in Seq(Requests) /\ Len(queue') <= MaxQueue
        BY <1>2, QueueTypes
    <2>2. QED  BY <1>2, <2>1 DEF Enqueue
<1>3. ASSUME NEW r \in Requests, EnqueueClosed(r) \/ GiveUp(r) \/ QueueFull(r)  PROVE TypeOK'
    <2>1. CASE EnqueueClosed(r)
        BY <2>1 DEF EnqueueClosed
    <2>2. CASE GiveUp(r)
        BY <2>2 DEF GiveUp, Forwarded
    <2>3. CASE QueueFull(r)
        BY <2>3 DEF QueueFull, Forwarded
    <2>4. QED  BY <1>3, <2>1, <2>2, <2>3
<1>4. ASSUME NEW r \in Requests, Receive(r)  PROVE TypeOK'
    BY <1>4 DEF Receive, Forwarded
<1>5. ASSUME NEW r \in Requests, WriteError(r)  PROVE TypeOK'
    BY <1>5 DEF WriteError, Written
<1>6. ASSUME NEW w \in Workers, Take(w)  PROVE TypeOK'
    <2>1. /\ queue' \in Seq(Requests) /\ Len(queue') <= MaxQueue
          /\ Head(queue) \in Requests
        <3>1. queue # <<>>
            BY <1>6 DEF Take
        <3>2. QED  BY <1>6, <3>1, QueueTypes
    <2>2. QED  BY <1>6, <2>1 DEF Take, Step
<1>7. ASSUME NEW w \in Workers, Exit(w)  PROVE TypeOK'
    BY <1>7 DEF Exit, Step
<1>8. ASSUME NEW w \in Workers, Attends(w)  PROVE TypeOK'
    <2>1. PICK s \in Busy : Keeps(w, s)
        BY <1>8, WorkerFlow
    <2>2. /\ UNCHANGED <<queue, closed, handler, gone, stalled, reply, main>>
          /\ result' \in [Requests -> {"none", "nil", "error", "cancelled"}]
          /\ task' \in [Workers -> Requests \cup {NoTask}]
          /\ outcome' \in [Workers -> {"none", "nil", "error", "cancelled"}]
          /\ stage' \in [Workers -> {"idle", "do", "backoff", "header", "copy", "send", "exited"}]
        BY <1>8, <2>1, WorkerFlow, KeepsTypes
    <2>3. /\ tries' \in [Requests -> 0..MaxRetries + 1]
          /\ head' \in [Requests -> {"none", "upstream", "bad_gateway"}]
          /\ body' \in [Requests -> {"none", "whole", "part", "error", "mixed", "foreign"}]
        BY <1>8, WriteTypes
    <2>4. death' \in {"none", "nil_response", "writer"}
        BY <1>8 DEF Attends, Attempt, Backoff, WriteHeader, Copy, StrayCopy, Running
    <2>5. QED  BY <2>2, <2>3, <2>4
<1>9. ASSUME NEW w \in Workers, Send(w)  PROVE TypeOK'
    BY <1>9 DEF Send, Sent, Step
<1>10. CASE Close \/ Drained \/ DrainTimeout \/ Stop \/ UNCHANGED vars
    <2>1. /\ UNCHANGED <<queue, handler, gone, stalled, reply, head, body, result, tries, stage, task, outcome, death>>
          /\ closed' \in BOOLEAN
        BY <1>10 DEF Close, Drained, DrainTimeout, Stop, vars
    <2>2. main' \in {"serving", "closing", "drained", "overdue", "stopped"}
        BY <1>10 DEF Close, Drained, DrainTimeout, Stop, vars
    <2>3. QED  BY <2>1, <2>2
<1>11. QED
    BY <1>1, <1>2, <1>3, <1>4, <1>5, <1>6, <1>7, <1>8, <1>9, <1>10 DEF Next, Handle, Work, Attends

-----------------------------------------------------------------------------
\* How tasks move: into the queue, ...
LEMMA EnqueueFlow ==
    ASSUME TypeOK, Places, Owned, NEW r \in Requests, Enqueue(r)
    PROVE  /\ r \notin Queued \cup Worked /\ result[r] = "none"
           /\ Queued' = Queued \cup {r} /\ Worked' = Worked
           /\ Distinct(queue')
<1>1. r \notin Queued \cup Worked /\ result[r] = "none"
    BY DEF Enqueue, Owned, Pending, TypeOK
<1>2. queue \in Seq(Requests) /\ Distinct(queue) /\ Members(queue) = Queued
    BY DEF TypeOK, Places, Distinct, Members, Queued
<1>3. queue' = Append(queue, r) /\ task' = task
    BY DEF Enqueue, pool
<1>4. Members(queue') = Members(queue) \cup {r} /\ Distinct(queue')
    BY <1>1, <1>2, <1>3, AppendFacts
<1>5. Queued' = Members(queue') /\ Worked' = Worked
    BY <1>3 DEF Queued, Members, Worked
<1>6. QED  BY <1>1, <1>2, <1>4, <1>5

\* ... to a worker, ...
LEMMA TakeFlow ==
    ASSUME TypeOK, Places, NEW w \in Workers, Take(w)
    PROVE  LET r == Head(queue) IN
           /\ r \in Requests /\ r \in Queued
           /\ task' = [task EXCEPT ![w] = r] /\ stage' = [stage EXCEPT ![w] = "do"]
           /\ Queued' = Queued \ {r} /\ Worked' = Worked \cup {r}
           /\ Distinct(queue')
<1> DEFINE r == Head(queue)
<1>1. queue \in Seq(Requests) /\ queue # <<>> /\ Distinct(queue) /\ Members(queue) = Queued
    BY DEF Take, TypeOK, Places, Distinct, Members, Queued
<1>2. /\ r \in Requests /\ r \in Queued
      /\ Members(Tail(queue)) = Queued \ {r} /\ Distinct(Tail(queue))
    BY <1>1, TailFacts
<1>3. /\ queue' = Tail(queue) /\ task' = [task EXCEPT ![w] = r] /\ stage' = [stage EXCEPT ![w] = "do"]
      /\ task[w] = NoTask
    BY DEF Take, Step, Places
<1>4. Queued' = Queued \ {r} /\ Distinct(queue')
    BY <1>2, <1>3 DEF Queued, Members
<1> HIDE DEF r
<1>5. Worked' = Worked \cup {r}
    <2>1. \A v \in Workers : task'[v] = IF v = w THEN r ELSE task[v]
        BY <1>3 DEF TypeOK
    <2>2. r # NoTask
        BY <1>2, PoolAssumption
    <2>3. QED  BY <1>3, <2>1, <2>2 DEF Worked
<1>6. QED  BY <1>2, <1>3, <1>4, <1>5 DEF r

\* ... and, as a result, into the channel.
LEMMA SendFlow ==
    ASSUME TypeOK, Places, NEW w \in Workers, Send(w)
    PROVE  LET r == task[w] IN
           /\ r \in Requests /\ r \in Worked /\ r \notin Queued
           /\ stage[w] = "send" /\ outcome[w] \in Errors
           /\ result' = [result EXCEPT ![r] = outcome[w]] /\ outcome' = [outcome EXCEPT ![w] = "none"]
           /\ task' = [task EXCEPT ![w] = NoTask] /\ stage' = [stage EXCEPT ![w] = "idle"]
           /\ Queued' = Queued /\ Worked' = Worked \ {r}
           /\ UNCHANGED <<queue, handler, gone, reply>>
<1> DEFINE r == task[w]
<1>1. stage[w] = "send" /\ outcome[w] \in Errors
    BY DEF Send, Places, TypeOK, Errors
<1>2. r \in Requests /\ r \in Worked /\ r \notin Queued
    BY <1>1, Task DEF Busy
<1>3. /\ result' = [result EXCEPT ![r] = outcome[w]] /\ outcome' = [outcome EXCEPT ![w] = "none"]
      /\ task' = [task EXCEPT ![w] = NoTask] /\ stage' = [stage EXCEPT ![w] = "idle"]
      /\ UNCHANGED <<queue, handler, gone, reply>>
    BY DEF Send, Sent, Step, client
<1>4. Queued' = Queued
    BY <1>3 DEF Queued
<1>5. Worked' = Worked \ {r}
    <2>1. \A v \in Workers : task'[v] = IF v = w THEN NoTask ELSE task[v]
        BY <1>3 DEF TypeOK
    <2>2. \A v \in Workers : task[v] = r => v = w
        BY <1>2, PoolAssumption DEF Places
    <2>3. QED  BY <1>2, <2>1, <2>2 DEF Worked
<1>6. QED  BY <1>1, <1>2, <1>3, <1>4, <1>5

\* The steps that move no task.
Still ==
    /\ UNCHANGED <<queue, stage, task, outcome>>
    /\ \A r \in Requests : result'[r] \in {result[r], "none"}

LEMMA StillSteps ==
    ASSUME TypeOK,
           \/ \E r \in Requests : \/ Arrive(r) \/ Disconnect(r) \/ Stall(r) \/ EnqueueClosed(r) \/ GiveUp(r)
                                  \/ QueueFull(r) \/ Receive(r) \/ WriteError(r)
           \/ Close \/ Drained \/ DrainTimeout \/ Stop \/ UNCHANGED vars
    PROVE  Still
<1>1. ASSUME NEW r \in Requests, Receive(r)  PROVE Still
    BY <1>1 DEF Still, Receive, pool, TypeOK
<1>2. ASSUME NEW r \in Requests,
             Arrive(r) \/ Disconnect(r) \/ Stall(r) \/ EnqueueClosed(r) \/ GiveUp(r) \/ QueueFull(r) \/ WriteError(r)
      PROVE  Still
    BY <1>2 DEF Still, Arrive, Disconnect, Stall, EnqueueClosed, GiveUp, QueueFull, WriteError, pool
<1>3. CASE Close \/ Drained \/ DrainTimeout \/ Stop \/ UNCHANGED vars
    BY <1>3 DEF Still, Close, Drained, DrainTimeout, Stop, vars, pool
<1>4. QED  BY <1>1, <1>2, <1>3

-----------------------------------------------------------------------------
\* Every step leaves a task in one place.
LEMMA PlacesStep ==
    ASSUME TypeOK, Places, Owned, [Next]_vars
    PROVE  Places'
<1> USE PoolAssumption
<1>1. ASSUME NEW r \in Requests, Enqueue(r)  PROVE Places'
    <2>1. /\ r \notin Queued \cup Worked /\ result[r] = "none"
          /\ Queued' = Queued \cup {r} /\ Worked' = Worked /\ Distinct(queue')
        BY <1>1, EnqueueFlow
    <2>2. UNCHANGED <<stage, task, outcome, result>>
        BY <1>1 DEF Enqueue, pool
    <2>3. \A w \in Workers : task[w] # r
        BY <2>1 DEF Worked
    <2>4. QED  BY <2>1, <2>2, <2>3 DEF Places, Distinct
<1>2. ASSUME NEW w \in Workers, Take(w)  PROVE Places'
    <2> DEFINE r == Head(queue)
    <2>1. /\ r \in Requests /\ r \in Queued
          /\ task' = [task EXCEPT ![w] = r] /\ stage' = [stage EXCEPT ![w] = "do"]
          /\ Queued' = Queued \ {r} /\ Worked' = Worked \cup {r} /\ Distinct(queue')
        BY <1>2, TakeFlow
    <2> HIDE DEF r
    <2>2. result' = result /\ outcome' = outcome
        BY <1>2 DEF Take
    <2>3. \A v \in Workers : /\ task'[v] = IF v = w THEN r ELSE task[v]
                             /\ stage'[v] = IF v = w THEN "do" ELSE stage[v]
        BY <2>1 DEF TypeOK
    <2>4. QED  BY <2>1, <2>2, <2>3 DEF Places, Distinct
<1>3. ASSUME NEW w \in Workers, Exit(w)  PROVE Places'
    <2>1. /\ UNCHANGED <<queue, task, outcome, result>>
          /\ \A v \in Workers : stage'[v] = IF v = w THEN "exited" ELSE stage[v]
          /\ stage[w] = "idle"
        BY <1>3 DEF Exit, Step, TypeOK
    <2>2. Queued' = Queued /\ Worked' = Worked
        BY <2>1 DEF Queued, Worked
    <2>3. QED  BY <2>1, <2>2 DEF Places
<1>4. ASSUME NEW w \in Workers, Attends(w)  PROVE Places'
    <2>1. stage[w] \in Busy /\ queue' = queue
        BY <1>4, WorkerFlow
    <2>2. PICK s \in Busy : Keeps(w, s)
        BY <1>4, WorkerFlow
    <2>3. /\ UNCHANGED <<queue, task, result>>
          /\ \A v \in Workers : stage'[v] = IF v = w THEN s ELSE stage[v]
          /\ \A v \in Workers : v # w => outcome'[v] = outcome[v]
          /\ s = "send" => outcome'[w] # "none"
        BY <2>1, <2>2 DEF Keeps, Step, Errors, TypeOK
    <2>4. Queued' = Queued /\ Worked' = Worked
        BY <2>3 DEF Queued, Worked
    <2>5. QED  BY <2>1, <2>3, <2>4 DEF Places, Busy
<1>5. ASSUME NEW w \in Workers, Send(w)  PROVE Places'
    <2> DEFINE r == task[w]
    <2>1. /\ r \in Requests /\ r \in Worked /\ r \notin Queued
          /\ result' = [result EXCEPT ![r] = outcome[w]] /\ outcome' = [outcome EXCEPT ![w] = "none"]
          /\ task' = [task EXCEPT ![w] = NoTask] /\ stage' = [stage EXCEPT ![w] = "idle"]
          /\ Queued' = Queued /\ Worked' = Worked \ {r} /\ queue' = queue
        BY <1>5, SendFlow
    <2>2. \A v \in Workers : /\ task'[v] = IF v = w THEN NoTask ELSE task[v]
                             /\ stage'[v] = IF v = w THEN "idle" ELSE stage[v]
                             /\ v # w => outcome'[v] = outcome[v]
        BY <2>1 DEF TypeOK
    <2>3. \A q \in Requests : result'[q] = IF q = r THEN outcome[w] ELSE result[q]
        BY <2>1 DEF TypeOK
    <2>4. NoTask \notin Queued
        <3>1. queue \in Seq(Requests)
            BY DEF TypeOK
        <3>2. QED  BY <3>1 DEF Queued
    <2>5. QED  BY <2>1, <2>2, <2>3, <2>4 DEF Places
<1>6. CASE Still
    <2>1. Queued' = Queued /\ Worked' = Worked
        BY <1>6 DEF Still, Queued, Worked
    <2>2. QED  BY <1>6, <2>1 DEF Still, Places
<1>7. QED
    BY <1>1, <1>2, <1>3, <1>4, <1>5, <1>6, StillSteps DEF Next, Handle, Work, Attends

-----------------------------------------------------------------------------
\* A task that moves stays pending.
LEMMA StaysPending ==
    ASSUME TypeOK, Places, NEW w \in Workers, Work(w)
    PROVE  \A q \in Requests : Pending(q)' <=> Pending(q)
<1>1. CASE Take(w)
    <2>1. Queued' \cup Worked' = Queued \cup Worked
        BY <1>1, TakeFlow
    <2>2. result' = result
        BY <1>1 DEF Take
    <2>3. QED  BY <2>1, <2>2 DEF Pending
<1>2. CASE Exit(w)
    BY <1>2 DEF Exit, Pending, Queued, Worked
<1>3. CASE Attends(w)
    <2>1. queue' = queue /\ task' = task /\ result' = result
        BY <1>3, WorkerFlow DEF Keeps
    <2>2. QED  BY <2>1 DEF Pending, Queued, Worked
<1>4. CASE Send(w)
    <2> DEFINE r == task[w]
    <2>1. /\ r \in Requests /\ r \in Worked /\ r \notin Queued /\ outcome[w] \in Errors
          /\ result' = [result EXCEPT ![r] = outcome[w]]
          /\ Queued' = Queued /\ Worked' = Worked \ {r}
        BY <1>4, SendFlow
    <2>2. \A q \in Requests : result'[q] = IF q = r THEN outcome[w] ELSE result[q]
        BY <2>1 DEF TypeOK
    <2> HIDE DEF r
    <2>3. QED  BY <2>1, <2>2 DEF Pending, Errors
<1>5. QED  BY <1>1, <1>2, <1>3, <1>4 DEF Work, Attends

\* The handler's own steps move nothing but its result.
LEMMA HandlerPending ==
    ASSUME TypeOK, Still
    PROVE  /\ Queued' = Queued /\ Worked' = Worked
           /\ \A q \in Requests : Pending(q)' => Pending(q)
           /\ \A q \in Requests : result'[q] = result[q] => (Pending(q)' <=> Pending(q))
<1>1. Queued' = Queued /\ Worked' = Worked
    BY DEF Still, Queued, Worked
<1>2. QED  BY <1>1 DEF Still, Pending

LEMMA OwnedStep ==
    ASSUME TypeOK, Places, Owned, [Next]_vars
    PROVE  Owned'
<1> USE PoolAssumption
<1> DEFINE Own(q) ==
        /\ handler[q] = "waiting" => Pending(q)
        /\ Pending(q) => \/ handler[q] = "waiting"
                         \/ gone[q] /\ reply[q] = "cancelled" /\ handler[q] \in {"failing", "returned"}
        /\ handler[q] \in {"new", "forward", "waiting"} => reply[q] = "none"
        /\ reply[q] = "nil" => handler[q] = "returned"
<1>a. Owned <=> \A q \in Requests : Own(q)
    BY DEF Owned, TaskAccounted, Pending
<1>b. Owned' <=> \A q \in Requests : Own(q)'
    BY DEF Owned, TaskAccounted, Pending
<1> SUFFICES ASSUME NEW q \in Requests, Own(q)  PROVE Own(q)'
    BY <1>a, <1>b
<1>1. ASSUME NEW w \in Workers, Work(w)  PROVE Own(q)'
    <2>1. UNCHANGED <<handler, gone, reply>>
        BY <1>1 DEF Work, Take, Exit, Attempt, Backoff, WriteHeader, Copy, StrayCopy, Send, client
    <2>2. Pending(q)' <=> Pending(q)
        BY <1>1, StaysPending
    <2>3. QED  BY <2>1, <2>2
<1>2. ASSUME NEW r \in Requests, Enqueue(r)  PROVE Own(q)'
    <2>1. Queued' = Queued \cup {r} /\ Worked' = Worked
        BY <1>2, EnqueueFlow
    <2>2. /\ UNCHANGED <<gone, reply, result>>
          /\ handler[r] = "forward" /\ handler'[q] = IF q = r THEN "waiting" ELSE handler[q]
        BY <1>2 DEF Enqueue, client, TypeOK
    <2>3. Pending(q)' <=> (q = r \/ Pending(q))
        BY <2>1, <2>2 DEF Pending
    <2>4. QED  BY <2>2, <2>3
<1>3. ASSUME NEW r \in Requests, Receive(r)  PROVE Own(q)'
    <2>1. CASE q = r
        <3>1. /\ handler[r] = "waiting" /\ result[r] # "none" /\ result'[r] = "none"
              /\ handler'[r] = IF result[r] = "nil" THEN "returned" ELSE "failing"
              /\ reply'[r] = result[r]
            BY <1>3 DEF Receive, Forwarded, TypeOK
        <3>2. r \notin Queued \cup Worked
            BY <3>1 DEF Places
        <3>3. Queued' = Queued /\ Worked' = Worked
            BY <1>3, StillSteps, HandlerPending
        <3>4. ~Pending(r)'
            BY <3>1, <3>2, <3>3 DEF Pending
        <3>5. QED  BY <2>1, <3>1, <3>4
    <2>2. CASE q # r
        <3>1. /\ handler'[q] = handler[q] /\ result'[q] = result[q]
              /\ reply'[q] = reply[q] /\ gone'[q] = gone[q]
            BY <1>3, <2>2 DEF Receive, Forwarded, TypeOK
        <3>2. Pending(q)' <=> Pending(q)
            BY <1>3, <3>1, StillSteps, HandlerPending
        <3>3. QED  BY <3>1, <3>2
    <2>3. QED  BY <2>1, <2>2
<1>4. ASSUME NEW r \in Requests,
             Arrive(r) \/ Disconnect(r) \/ Stall(r) \/ EnqueueClosed(r) \/ GiveUp(r) \/ QueueFull(r) \/ WriteError(r)
      PROVE  Own(q)'
    <2>1. result' = result
        BY <1>4 DEF Arrive, Disconnect, Stall, EnqueueClosed, GiveUp, QueueFull, WriteError
    <2>2. Pending(q)' <=> Pending(q)
        BY <1>4, <2>1, StillSteps, HandlerPending
    <2>3. q # r => handler'[q] = handler[q] /\ reply'[q] = reply[q] /\ gone'[q] = gone[q]
        BY <1>4 DEF Arrive, Disconnect, Stall, EnqueueClosed, GiveUp, QueueFull, WriteError, Forwarded, client, TypeOK
    <2>4. CASE q # r
        BY <2>2, <2>3, <2>4
    <2>5. CASE q = r /\ (Arrive(r) \/ Disconnect(r) \/ Stall(r) \/ EnqueueClosed(r))
        BY <2>2, <2>5 DEF Arrive, Disconnect, Stall, EnqueueClosed, client, TypeOK
    <2>6. CASE q = r /\ GiveUp(r)
        BY <2>2, <2>6 DEF GiveUp, ContextDone, Forwarded, TypeOK
    <2>7. CASE q = r /\ QueueFull(r)
        BY <2>2, <2>7 DEF QueueFull, Forwarded, TypeOK
    <2>8. CASE q = r /\ WriteError(r)
        BY <2>2, <2>8 DEF WriteError, TypeOK
    <2>9. QED  BY <1>4, <2>4, <2>5, <2>6, <2>7, <2>8
<1>5. CASE Close \/ Drained \/ DrainTimeout \/ Stop \/ UNCHANGED vars
    <2>1. UNCHANGED <<handler, gone, reply, result>>
        BY <1>5 DEF Close, Drained, DrainTimeout, Stop, vars, client
    <2>2. Pending(q)' <=> Pending(q)
        BY <1>5, <2>1, StillSteps, HandlerPending
    <2>3. QED  BY <2>1, <2>2
<1>6. QED
    BY <1>1, <1>2, <1>3, <1>4, <1>5 DEF Next, Handle

-----------------------------------------------------------------------------
\* The parts of Counted, for a request and for a worker.
CountedFor(q) == handler[q] \in {"new", "forward"} \/ q \in Queued => tries[q] = 0

CountedBy(v) ==
    /\ stage[v] = "do" => tries[task[v]] <= MaxRetries
    /\ stage[v] = "backoff" => tries[task[v]] <= MaxRetries \/ death # "none"
    /\ stage[v] = "send" /\ outcome[v] = "error" =>
          tries[task[v]] = MaxRetries + 1 \/ head[task[v]] # "none"

LEMMA CountedParts ==
    /\ Counted <=> (\A q \in Requests : CountedFor(q)) /\ (\A v \in Workers : CountedBy(v))
    /\ Counted' <=> (\A q \in Requests : CountedFor(q)') /\ (\A v \in Workers : CountedBy(v)')
BY DEF Counted, CountedFor, CountedBy

\* A status line, once sent, stays.
LEMMA HeadStays ==
    ASSUME TypeOK, [Next]_vars
    PROVE  \A q \in Requests : head[q] # "none" => head'[q] # "none"
<1>1. ASSUME NEW r \in Requests, Arrive(r) \/ Disconnect(r) \/ Stall(r) \/ Handle(r)
      PROVE  \A q \in Requests : head[q] # "none" => head'[q] # "none"
    BY <1>1 DEF Arrive, Disconnect, Stall, Handle, Enqueue, EnqueueClosed, GiveUp, QueueFull, Receive,
                WriteError, client, TypeOK
<1>2. ASSUME NEW w \in Workers, Work(w)
      PROVE  \A q \in Requests : head[q] # "none" => head'[q] # "none"
    BY <1>2 DEF Work, Take, Exit, Attempt, Backoff, WriteHeader, Copy, StrayCopy, Send, client, TypeOK
<1>3. CASE Close \/ Drained \/ DrainTimeout \/ Stop \/ UNCHANGED vars
    BY <1>3 DEF Close, Drained, DrainTimeout, Stop, vars, client
<1>4. QED  BY <1>1, <1>2, <1>3 DEF Next

LEMMA CountedStep ==
    ASSUME TypeOK, Places, Owned, Sending, Counted, [Next]_vars
    PROVE  Counted'
<1> USE PoolAssumption
<1>h. \A q \in Requests : head[q] # "none" => head'[q] # "none"
    BY HeadStays
<1>1. ASSUME NEW r \in Requests, Enqueue(r)  PROVE Counted'
    <2>1. Queued' = Queued \cup {r}
        BY <1>1, EnqueueFlow
    <2>2. UNCHANGED <<tries, stage, task, outcome, head, death>>
        BY <1>1 DEF Enqueue, pool, client
    <2>3. handler' = [handler EXCEPT ![r] = "waiting"] /\ handler[r] = "forward"
        BY <1>1 DEF Enqueue
    <2>4. QED  BY <2>1, <2>2, <2>3 DEF Counted, TypeOK
<1>2. ASSUME NEW w \in Workers, Take(w)  PROVE Counted'
    <2> DEFINE r == Head(queue)
    <2>1. /\ r \in Requests /\ r \in Queued
          /\ task' = [task EXCEPT ![w] = r] /\ stage' = [stage EXCEPT ![w] = "do"]
          /\ Queued' = Queued \ {r}
        BY <1>2, TakeFlow
    <2> HIDE DEF r
    <2>2. UNCHANGED <<handler, tries, outcome, head, death>>
        BY <1>2 DEF Take, client
    <2>3. \A v \in Workers : /\ task'[v] = IF v = w THEN r ELSE task[v]
                             /\ stage'[v] = IF v = w THEN "do" ELSE stage[v]
        BY <2>1 DEF TypeOK
    <2>4. QED  BY <2>1, <2>2, <2>3 DEF Counted, TypeOK
<1>3. ASSUME NEW w \in Workers, Attends(w)  PROVE Counted'
    <2>a. PICK r \in Requests : r = task[w]
        BY <1>3, WorkerFlow, Task
    <2>1. /\ r \in Worked /\ r \notin Queued /\ stage[w] \in Busy
          /\ task' = task /\ handler' = handler /\ Queued' = Queued
        BY <1>3, <2>a, WorkerFlow, Task DEF Keeps, Queued
    <2>b. PICK s \in Busy : Keeps(w, s)
        BY <1>3, WorkerFlow
    <2>2. death = "none"
        BY <1>3 DEF Attends, Attempt, Backoff, WriteHeader, Copy, StrayCopy, Running
    <2>3. handler[r] \notin {"new", "forward"}
        BY <2>1 DEF Owned, Pending
    <2>4. \A q \in Requests \ {r} : tries'[q] = tries[q]
        BY <1>3, <2>a DEF Attends, Attempt, Backoff, WriteHeader, Copy, StrayCopy, TypeOK
    <2>5. \A q \in Requests : CountedFor(q)'
        BY <2>1, <2>3, <2>4, CountedParts DEF CountedFor
    <2>6. ASSUME NEW v \in Workers \ {w}  PROVE CountedBy(v)'
        <3>1. stage'[v] = stage[v] /\ task'[v] = task[v] /\ outcome'[v] = outcome[v]
            BY <2>b DEF Keeps, Step, TypeOK
        <3>2. stage[v] \in Busy => task[v] \in Requests \ {r}
            BY <2>a, <2>1, Task DEF Places
        <3>3. CountedBy(v)
            BY CountedParts
        <3>4. QED  BY <1>h, <2>2, <2>4, <3>1, <3>2, <3>3 DEF CountedBy, Busy
    <2>7. CountedBy(w)'
        <3>1. CASE Attempt(w)
            <4>1. /\ stage[w] = "do" /\ tries[r] \in Nat /\ tries[r] <= MaxRetries
                  /\ tries'[r] = tries[r] + 1
                <5>1. tries \in [Requests -> 0..MaxRetries + 1]
                    BY DEF TypeOK
                <5>2. tries[r] \in Nat
                    BY <5>1
                <5>3. QED  BY <2>a, <3>1, <5>2 DEF Attempt, Counted, TypeOK
            <4>2. \/ stage' = [stage EXCEPT ![w] = "header"]
                  \/ stage' = [stage EXCEPT ![w] = "backoff"] /\ (tries[r] # MaxRetries \/ death' # "none")
                  \/ stage' = [stage EXCEPT ![w] = "send"] /\ tries[r] = MaxRetries
                BY <2>a, <3>1 DEF Attempt, Step, Done, LastAttempt
            <4>3. \/ stage'[w] = "header"
                  \/ stage'[w] = "backoff" /\ (tries[r] # MaxRetries \/ death' # "none")
                  \/ stage'[w] = "send" /\ tries[r] = MaxRetries
                BY <4>2 DEF TypeOK
            <4>4. tries[r] # MaxRetries => tries'[r] <= MaxRetries
                BY <4>1
            <4>5. QED  BY <2>a, <2>1, <4>1, <4>3, <4>4 DEF CountedBy
        <3>2. CASE Backoff(w)
            <4>1. /\ stage[w] = "backoff" /\ tries' = tries
                  /\ stage'[w] = "do" \/ (stage'[w] = "send" /\ outcome'[w] = "cancelled")
                BY <3>2 DEF Backoff, Step, Done, TypeOK
            <4>2. tries[r] <= MaxRetries
                BY <2>a, <2>2, <4>1 DEF Counted
            <4>3. QED  BY <2>a, <2>1, <4>1, <4>2 DEF CountedBy
        <3>3. CASE WriteHeader(w)
            <4>1. stage'[w] = "copy"
                BY <3>3 DEF WriteHeader, Step, TypeOK
            <4>2. QED  BY <4>1 DEF CountedBy
        <3>4. CASE Copy(w) \/ StrayCopy(w)
            <4>1. stage[w] = "copy" /\ stage'[w] \in {"copy", "send"}
                BY <3>4 DEF Copy, StrayCopy, Done, Step, TypeOK
            <4>2. head'[r] # "none"
                BY <1>h, <2>a, <4>1 DEF Sending
            <4>3. QED  BY <2>a, <2>1, <4>1, <4>2 DEF CountedBy
        <3>5. QED  BY <1>3, <3>1, <3>2, <3>3, <3>4 DEF Attends
    <2>8. QED  BY <2>5, <2>6, <2>7, CountedParts
<1>4. ASSUME NEW w \in Workers, Exit(w)  PROVE Counted'
    <2>1. UNCHANGED <<handler, tries, head, death, task, outcome>> /\ Queued' = Queued
        BY <1>4 DEF Exit, Queued, client
    <2>2. \A v \in Workers : stage'[v] = IF v = w THEN "exited" ELSE stage[v]
        BY <1>4 DEF Exit, Step, TypeOK
    <2>3. QED  BY <2>1, <2>2 DEF Counted
<1>5. ASSUME NEW w \in Workers, Send(w)  PROVE Counted'
    <2>1. UNCHANGED <<handler, tries, head, death>>
        BY <1>5 DEF Send, client
    <2>2. /\ Queued' = Queued
          /\ task' = [task EXCEPT ![w] = NoTask] /\ stage' = [stage EXCEPT ![w] = "idle"]
          /\ outcome' = [outcome EXCEPT ![w] = "none"]
        BY <1>5, SendFlow
    <2>3. \A v \in Workers : v # w =>
              stage'[v] = stage[v] /\ task'[v] = task[v] /\ outcome'[v] = outcome[v]
        BY <2>2 DEF TypeOK
    <2>4. stage'[w] = "idle"
        BY <2>2 DEF TypeOK
    <2>5. QED  BY <2>1, <2>2, <2>3, <2>4 DEF Counted
<1>6. ASSUME NEW r \in Requests,
             \/ Arrive(r) \/ Disconnect(r) \/ Stall(r) \/ EnqueueClosed(r) \/ GiveUp(r)
             \/ QueueFull(r) \/ Receive(r) \/ WriteError(r)
      PROVE  Counted'
    <2>1. Still /\ UNCHANGED <<tries, death>>
        BY <1>6, StillSteps DEF Arrive, Disconnect, Stall, EnqueueClosed, GiveUp, QueueFull, Receive, WriteError
    <2>2. Queued' = Queued
        BY <2>1, HandlerPending
    <2>3. \A q \in Requests : handler'[q] \in {"new", "forward"} => handler[q] \in {"new", "forward"}
        BY <1>6 DEF Arrive, Disconnect, Stall, EnqueueClosed, GiveUp, QueueFull, Receive, WriteError, Forwarded, TypeOK
    <2>4. \A q \in Requests : CountedFor(q)'
        BY <2>1, <2>2, <2>3, CountedParts DEF CountedFor
    <2>5. \A v \in Workers : stage[v] = "send" => task[v] \in Requests
        BY Task DEF Busy
    <2>6. \A v \in Workers : CountedBy(v)'
        BY <1>h, <2>1, <2>5, CountedParts DEF CountedBy, Still
    <2>7. QED  BY <2>4, <2>6, CountedParts
<1>7. CASE Close \/ Drained \/ DrainTimeout \/ Stop \/ UNCHANGED vars
    BY <1>7 DEF Close, Drained, DrainTimeout, Stop, vars, pool, client, Counted, Queued
<1>8. QED
    BY <1>1, <1>2, <1>3, <1>4, <1>5, <1>6, <1>7 DEF Next, Handle, Work, Attends

LEMMA DrainingStep ==
    ASSUME TypeOK, Draining, [Next]_vars
    PROVE  Draining'
<1>1. ASSUME NEW r \in Requests, Arrive(r) \/ Disconnect(r) \/ Stall(r) \/ Handle(r)  PROVE Draining'
    <2>1. UNCHANGED <<stage, main, closed>>
        BY <1>1 DEF Arrive, Disconnect, Stall, Handle, Enqueue, EnqueueClosed, GiveUp, QueueFull, Receive, WriteError, pool
    <2>2. queue' = queue \/ ~closed
        BY <1>1 DEF Arrive, Disconnect, Stall, Handle, Enqueue, EnqueueClosed, GiveUp, QueueFull, Receive, WriteError
    <2>3. QED  BY <2>1, <2>2 DEF Draining, AllExited
<1>2. ASSUME NEW w \in Workers, Take(w)  PROVE Draining'
    BY <1>2 DEF Take, Step, Draining, AllExited, TypeOK
<1>3. ASSUME NEW w \in Workers, Exit(w)  PROVE Draining'
    BY <1>3 DEF Exit, Step, NoMoreTasks, Draining, AllExited, TypeOK
<1>4. ASSUME NEW w \in Workers, Attends(w) \/ Send(w)  PROVE Draining'
    <2>1. stage[w] \in Busy /\ UNCHANGED <<queue, closed, main>>
        BY <1>4, WorkerFlow DEF Send, Busy
    <2>2. \E s \in Busy \cup {"idle"} : stage' = [stage EXCEPT ![w] = s]
        BY <1>4, WorkerFlow DEF Keeps, Send, Step
    <2>3. QED  BY <2>1, <2>2 DEF Draining, AllExited, TypeOK, Busy
<1>5. CASE Close \/ Drained \/ DrainTimeout \/ Stop \/ UNCHANGED vars
    BY <1>5 DEF Close, Drained, DrainTimeout, Stop, vars, pool, Draining, AllExited
<1>6. QED  BY <1>1, <1>2, <1>3, <1>4, <1>5 DEF Next, Work, Attends

-----------------------------------------------------------------------------
\* The parts of Sending, for a request and for a worker.
SentTo(q) ==
    /\ handler[q] \in {"new", "forward"} \/ (handler[q] = "waiting" /\ q \in Queued) =>
          head[q] = "none" /\ Clean(q)
    /\ handler[q] = "waiting" /\ result[q] = "nil" => head[q] = "upstream" /\ Whole(q)
    /\ body[q] = "foreign" => \E p \in Requests \ {q} : reply[p] = "cancelled"

SentBy(v) ==
    /\ stage[v] \in {"do", "backoff", "header"} /\ handler[task[v]] = "waiting" =>
          head[task[v]] = "none" /\ Clean(task[v])
    /\ stage[v] = "copy" =>
          /\ head[task[v]] # "none"
          /\ handler[task[v]] = "waiting" => head[task[v]] = "upstream" /\ Clean(task[v])
    /\ stage[v] = "send" /\ outcome[v] = "nil" /\ handler[task[v]] = "waiting" =>
          head[task[v]] = "upstream" /\ Whole(task[v])

LEMMA SendingParts ==
    /\ Sending <=> (\A q \in Requests : SentTo(q)) /\ (\A v \in Workers : SentBy(v))
    /\ Sending' <=> (\A q \in Requests : SentTo(q)') /\ (\A v \in Workers : SentBy(v)')
BY DEF Sending, SentTo, SentBy

\* A request that was given up stays so.
LEMMA CancelledStays ==
    ASSUME TypeOK, Owned, [Next]_vars
    PROVE  \A q \in Requests : reply[q] = "cancelled" => reply'[q] = "cancelled"
<1>1. ASSUME NEW r \in Requests, Arrive(r) \/ Disconnect(r) \/ Stall(r) \/ Handle(r)
      PROVE  \A q \in Requests : reply[q] = "cancelled" => reply'[q] = "cancelled"
    <2>1. \A q \in Requests : q # r => reply'[q] = reply[q]
        BY <1>1 DEF Arrive, Disconnect, Stall, Handle, Enqueue, EnqueueClosed, GiveUp, QueueFull, Receive,
                    WriteError, Forwarded, client, TypeOK
    <2>2. handler[r] \in {"forward", "waiting"} \/ reply'[r] = reply[r]
        BY <1>1 DEF Arrive, Disconnect, Stall, Handle, Enqueue, EnqueueClosed, GiveUp, QueueFull, Receive,
                    WriteError, client
    <2>3. QED  BY <2>1, <2>2 DEF Owned
<1>2. ASSUME NEW w \in Workers, Work(w)  PROVE reply' = reply
    BY <1>2 DEF Work, Take, Exit, Attempt, Backoff, WriteHeader, Copy, StrayCopy, Send, client
<1>3. CASE Close \/ Drained \/ DrainTimeout \/ Stop \/ UNCHANGED vars
    BY <1>3 DEF Close, Drained, DrainTimeout, Stop, vars, client
<1>4. QED  BY <1>1, <1>2, <1>3 DEF Next

\* The steps of a handler: what it writes, it writes as no longer waiting.
LEMMA SendingHandler ==
    ASSUME TypeOK, Places, Owned, Sending, NEW r \in Requests,
           Arrive(r) \/ Disconnect(r) \/ Stall(r) \/ Handle(r)
    PROVE  Sending'
<1> USE PoolAssumption
<1>c. \A q \in Requests : reply[q] = "cancelled" => reply'[q] = "cancelled"
    BY CancelledStays DEF Next
<1>1. CASE Enqueue(r)
    <2>1. r \notin Queued \cup Worked /\ result[r] = "none" /\ Queued' = Queued \cup {r}
        BY <1>1, EnqueueFlow
    <2>2. /\ UNCHANGED <<head, body, reply, result, stage, task, outcome>>
          /\ handler[r] = "forward" /\ handler' = [handler EXCEPT ![r] = "waiting"]
        BY <1>1 DEF Enqueue, client, pool
    <2>3. \A v \in Workers : stage[v] \in Busy => task[v] \in Requests /\ task[v] # r
        BY <2>1, Task
    <2>4. \A q \in Requests : SentTo(q)'
        BY <2>1, <2>2, SendingParts DEF SentTo, Clean, Whole, TypeOK
    <2>5. \A v \in Workers : SentBy(v)'
        BY <2>2, <2>3, SendingParts DEF SentBy, Clean, Whole, Busy, TypeOK
    <2>6. QED  BY <2>4, <2>5, SendingParts
<1>2. CASE WriteError(r)
    <2>1. /\ UNCHANGED <<reply, result, stage, task, outcome>> /\ Queued' = Queued
          /\ handler[r] = "failing" /\ handler' = [handler EXCEPT ![r] = "returned"]
          /\ head'[r] # "none"
          /\ body'[r] = "foreign" => body[r] = "foreign"
          /\ \A q \in Requests : q # r => head'[q] = head[q] /\ body'[q] = body[q]
        BY <1>2 DEF WriteError, Written, pool, Queued, TypeOK
    <2>2. \A v \in Workers : stage[v] \in Busy => task[v] \in Requests
        BY Task
    <2>3. \A q \in Requests : SentTo(q)'
        BY <2>1, SendingParts DEF SentTo, Clean, Whole, TypeOK
    <2>4. \A v \in Workers : SentBy(v)'
        BY <2>1, <2>2, SendingParts DEF SentBy, Clean, Whole, Busy, TypeOK
    <2>5. QED  BY <2>3, <2>4, SendingParts
<1>3. CASE \/ Arrive(r) \/ Disconnect(r) \/ Stall(r) \/ EnqueueClosed(r) \/ GiveUp(r) \/ QueueFull(r)
           \/ Receive(r)
    <2>1. Still /\ Queued' = Queued
        BY <1>3, StillSteps, HandlerPending
    <2>2. UNCHANGED <<head, body>>
        BY <1>3 DEF Arrive, Disconnect, Stall, EnqueueClosed, GiveUp, QueueFull, Receive, client, Forwarded
    <2>3. \A q \in Requests :
              /\ handler'[q] = "waiting" => handler[q] = "waiting"
              /\ handler'[q] \in {"new", "forward"} => handler[q] \in {"new", "forward"}
        BY <1>3 DEF Arrive, Disconnect, Stall, EnqueueClosed, GiveUp, QueueFull, Receive, Forwarded, TypeOK
    <2>4. \A q \in Requests : SentTo(q)'
        BY <1>c, <2>1, <2>2, <2>3, SendingParts DEF SentTo, Clean, Whole, Still
    <2>5. \A v \in Workers : stage[v] \in Busy => task[v] \in Requests
        BY Task
    <2>6. \A v \in Workers : SentBy(v)'
        BY <2>1, <2>2, <2>3, <2>5, SendingParts DEF SentBy, Clean, Whole, Still, Busy
    <2>7. QED  BY <2>4, <2>6, SendingParts
<1>4. QED  BY <1>1, <1>2, <1>3 DEF Handle

\* What an attending worker writes: to its own request, as its stage says, or,
\* its handler having returned, to a body it spoils.
LEMMA AttendWrites ==
    ASSUME TypeOK, Places, Owned, NEW w \in Workers, NEW r \in Requests, r = task[w], Attends(w)
    PROVE  /\ \A q \in Requests \ {r} :
                 /\ head'[q] = head[q]
                 /\ \/ body'[q] = body[q]
                    \/ body'[q] = "foreign" /\ reply[r] = "cancelled"
           /\ body'[r] = "foreign" => body[r] = "foreign"
<1>1. CASE Attempt(w) \/ Backoff(w) \/ WriteHeader(w)
    BY <1>1 DEF Attempt, Backoff, WriteHeader, client, TypeOK
<1>2. CASE Copy(w)
    BY <1>2 DEF Copy, Written, TypeOK
<1>3. CASE StrayCopy(w)
    <2>1. r \in Worked
        BY WorkerFlow, Task
    <2>2. handler[r] = "returned" => reply[r] = "cancelled"
        BY <2>1 DEF Owned, Pending
    <2>3. QED  BY <1>3, <2>2 DEF StrayCopy, TypeOK
<1>4. QED  BY <1>1, <1>2, <1>3 DEF Attends

\* A worker's step keeps what holds of its own request and of the others.
LEMMA SendingWorker ==
    ASSUME TypeOK, Places, Owned, Sending, NEW w \in Workers, Work(w)
    PROVE  Sending'
<1> USE PoolAssumption
<1>1. CASE Take(w)
    <2> DEFINE r == Head(queue)
    <2>1. /\ r \in Requests /\ r \in Queued
          /\ task' = [task EXCEPT ![w] = r] /\ stage' = [stage EXCEPT ![w] = "do"]
          /\ Queued' = Queued \ {r}
        BY <1>1, TakeFlow
    <2> HIDE DEF r
    <2>2. UNCHANGED <<handler, head, body, reply, result, outcome>>
        BY <1>1 DEF Take, client
    <2>3. \A q \in Requests : SentTo(q)'
        BY <2>1, <2>2, SendingParts DEF SentTo, Clean, Whole
    <2>4. SentTo(r)
        BY <2>1, SendingParts
    <2>5. \A v \in Workers : SentBy(v)'
        BY <2>1, <2>2, <2>4, SendingParts DEF SentBy, SentTo, Clean, Whole, TypeOK
    <2>6. QED  BY <2>3, <2>5, SendingParts
<1>2. CASE Exit(w)
    <2>1. /\ UNCHANGED <<queue, handler, head, body, reply, result, task, outcome>>
          /\ \A v \in Workers : stage'[v] = IF v = w THEN "exited" ELSE stage[v]
        BY <1>2 DEF Exit, Step, client, TypeOK
    <2>2. Queued' = Queued
        BY <2>1 DEF Queued
    <2>3. QED  BY <2>1, <2>2 DEF Sending, Clean, Whole
<1>3. CASE Send(w)
    <2>a. PICK r \in Requests : r = task[w]
        BY <1>3, SendFlow
    <2>1. /\ r \in Worked /\ r \notin Queued /\ stage[w] = "send"
          /\ task' = [task EXCEPT ![w] = NoTask] /\ stage' = [stage EXCEPT ![w] = "idle"]
          /\ Queued' = Queued /\ handler' = handler /\ reply' = reply
          /\ result' = [result EXCEPT ![r] = outcome[w]] /\ outcome' = [outcome EXCEPT ![w] = "none"]
        BY <1>3, <2>a, SendFlow
    <2>2. head' = head /\ body' = body
        BY <1>3 DEF Send, client
    <2>3. SentBy(w)
        BY SendingParts
    <2>4. \A q \in Requests : SentTo(q)'
        <3>1. \A q \in Requests : result'[q] = IF q = r THEN outcome[w] ELSE result[q]
            BY <2>1 DEF TypeOK
        <3>2. QED  BY <2>a, <2>1, <2>2, <2>3, <3>1, SendingParts DEF SentTo, SentBy, Clean, Whole
    <2>5. \A v \in Workers : SentBy(v)'
        <3>1. \A v \in Workers : v # w =>
                  stage'[v] = stage[v] /\ task'[v] = task[v] /\ outcome'[v] = outcome[v]
            BY <2>1 DEF TypeOK
        <3>2. stage'[w] = "idle"
            BY <2>1 DEF TypeOK
        <3>3. QED  BY <2>1, <2>2, <3>1, <3>2, SendingParts DEF SentBy, Clean, Whole
    <2>6. QED  BY <2>4, <2>5, SendingParts
<1>4. CASE Attends(w)
    <2>a. PICK r \in Requests : r = task[w]
        BY <1>4, WorkerFlow, Task
    <2>b. PICK s \in Busy : Keeps(w, s)
        BY <1>4, WorkerFlow
    <2>1. /\ stage[w] \in Busy /\ UNCHANGED <<queue, handler, reply, task, result>> /\ Queued' = Queued
          /\ r \in Worked /\ r \notin Queued /\ result[r] = "none"
        BY <1>4, <2>a, WorkerFlow, Task DEF Keeps, Queued
    <2>2. handler[r] \notin {"new", "forward"}
        BY <2>1 DEF Owned, Pending
    <2>3. /\ \A q \in Requests \ {r} :
                /\ head'[q] = head[q]
                /\ body'[q] = body[q] \/ (body'[q] = "foreign" /\ reply[r] = "cancelled")
          /\ body'[r] = "foreign" => body[r] = "foreign"
        BY <1>4, <2>a, AttendWrites
    <2>4. \A v \in Workers \ {w} :
              /\ stage'[v] = stage[v] /\ task'[v] = task[v] /\ outcome'[v] = outcome[v]
              /\ stage[v] \in Busy => task[v] \in Requests \ {r}
        <3>1. \A v \in Workers \ {w} : stage'[v] = stage[v] /\ task'[v] = task[v] /\ outcome'[v] = outcome[v]
            BY <2>b DEF Keeps, Step, TypeOK
        <3>2. \A v \in Workers \ {w} : stage[v] \in Busy => task[v] \in Requests \ {r}
            BY <2>a, <2>1, Task DEF Places
        <3>3. QED  BY <3>1, <3>2
    <2>5. ASSUME NEW q \in Requests \ {r}  PROVE SentTo(q)'
        <3>1. SentTo(q)
            BY SendingParts
        <3>2. QED  BY <2>1, <2>3, <3>1 DEF SentTo, Clean, Whole
    <2>6. ASSUME NEW v \in Workers \ {w}  PROVE SentBy(v)'
        <3>1. SentBy(v)
            BY SendingParts
        <3>2. QED  BY <2>1, <2>3, <2>4, <3>1 DEF SentBy, Clean, Whole, Busy
    <2>7. SentTo(r)'
        <3>1. SentTo(r)
            BY SendingParts
        <3>2. QED  BY <2>1, <2>2, <2>3, <3>1 DEF SentTo
    <2>8. SentBy(w)'
        <3>a. SentBy(w)
            BY SendingParts
        <3>1. CASE Attempt(w)
            <4>1. /\ UNCHANGED <<head, body>> /\ stage[w] = "do"
                  /\ \/ stage'[w] \in {"header", "backoff"}
                     \/ stage'[w] = "send" /\ outcome'[w] = "error"
                BY <3>1 DEF Attempt, Step, Done, client, TypeOK
            <4>2. QED  BY <2>a, <2>1, <3>a, <4>1 DEF SentBy, Clean
        <3>2. CASE Backoff(w)
            <4>1. /\ UNCHANGED <<head, body>> /\ stage[w] = "backoff"
                  /\ \/ stage'[w] = "do"
                     \/ stage'[w] = "send" /\ outcome'[w] = "cancelled"
                BY <3>2 DEF Backoff, Step, Done, client, TypeOK
            <4>2. QED  BY <2>a, <2>1, <3>a, <4>1 DEF SentBy, Clean
        <3>3. CASE WriteHeader(w)
            <4>1. /\ body' = body /\ stage[w] = "header" /\ stage'[w] = "copy"
                  /\ head'[r] = IF head[r] = "none" THEN "upstream" ELSE head[r]
                BY <2>a, <3>3 DEF WriteHeader, Step, TypeOK
            <4>2. QED  BY <2>a, <2>1, <3>a, <4>1 DEF SentBy, Clean
        <3>4. CASE Copy(w)
            <4>1. /\ head' = head /\ stage[w] = "copy" /\ stage'[w] = "send"
                  /\ \/ outcome'[w] = "nil" /\ body'[r] = Written(body[r], "whole")
                     \/ outcome'[w] = "error"
                BY <2>a, <3>4 DEF Copy, CopyError, Step, Done, TypeOK
            <4>2. QED  BY <2>a, <2>1, <3>a, <4>1 DEF SentBy, Clean, Whole, Written
        <3>5. CASE StrayCopy(w)
            <4>1. head' = head /\ stage[w] = "copy" /\ handler[r] \in {"failing", "returned"}
                BY <2>a, <3>5 DEF StrayCopy
            <4>2. stage'[w] \in {"copy", "send"}
                BY <3>5, <4>1 DEF StrayCopy, Done, Step, TypeOK
            <4>3. QED  BY <2>a, <2>1, <3>a, <4>1, <4>2 DEF SentBy
        <3>6. QED  BY <1>4, <3>1, <3>2, <3>3, <3>4, <3>5 DEF Attends
    <2>9. QED  BY <2>5, <2>6, <2>7, <2>8, SendingParts
<1>5. QED  BY <1>1, <1>2, <1>3, <1>4 DEF Work, Attends

LEMMA SendingStep ==
    ASSUME TypeOK, Places, Owned, Sending, [Next]_vars
    PROVE  Sending'
<1>1. CASE Close \/ Drained \/ DrainTimeout \/ Stop \/ UNCHANGED vars
    <2>1. UNCHANGED <<queue, handler, head, body, reply, result, stage, task, outcome>>
        BY <1>1 DEF Close, Drained, DrainTimeout, Stop, vars, client, pool
    <2>2. Queued' = Queued
        BY <2>1 DEF Queued
    <2>3. QED  BY <2>1, <2>2 DEF Sending, Clean, Whole
<1>2. QED  BY <1>1, SendingHandler, SendingWorker DEF Next

-----------------------------------------------------------------------------
\* Both outcomes come from a worker's Send; nobody but a stray worker writes
\* after a nil, and that not to a handler that has returned.
LEMMA OutcomeStep ==
    ASSUME TypeOK, Places, Owned, Sending, Counted, OutcomeEarned, [Next]_vars
    PROVE  OutcomeEarned'
<1> USE PoolAssumption
<1> SUFFICES ASSUME NEW q \in Requests
             PROVE  /\ reply'[q] = "nil" =>
                          /\ head'[q] = "upstream"
                          /\ \/ body'[q] = "whole"
                             \/ body'[q] = "foreign" /\ \E p \in Requests \ {q} : reply'[p] = "cancelled"
                    /\ result'[q] = "error" => tries'[q] = MaxRetries + 1 \/ head'[q] # "none"
    BY DEF OutcomeEarned
<1> DEFINE Whose == body[q] = "foreign" => \E p \in Requests \ {q} : reply[p] = "cancelled"
           Nil == reply[q] = "nil" => head[q] = "upstream" /\ Whole(q)
           Failed == result[q] = "error" => tries[q] = MaxRetries + 1 \/ head[q] # "none"
<1>a. Nil /\ Failed
    BY DEF OutcomeEarned, Whole
<1>b. reply[q] = "nil" => ~Pending(q) /\ handler[q] = "returned"
    BY DEF Owned
<1>w. Whose'
    BY SendingStep DEF Sending
<1>h. head[q] # "none" => head'[q] # "none"
    BY HeadStays
<1>1. ASSUME NEW w \in Workers, Attends(w)  PROVE Nil' /\ Failed'
    <2>1. PICK r \in Requests : r = task[w]
        BY <1>1, WorkerFlow, Task
    <2>2. r \in Worked /\ result[r] = "none" /\ result' = result /\ reply' = reply /\ reply[r] # "nil"
        BY <1>1, <1>b, <2>1, WorkerFlow, Task DEF Keeps, Owned, Pending
    <2>3. CASE q # r
        <3>1. /\ head'[q] = head[q] /\ tries'[q] = tries[q]
              /\ body'[q] = body[q] \/ handler[q] # "returned"
            <4>1. CASE StrayCopy(w)
                BY <4>1 DEF StrayCopy, TypeOK
            <4>2. CASE ~StrayCopy(w)
                BY <1>1, <2>1, <2>3, <4>2 DEF Attends, Attempt, Backoff, WriteHeader, Copy, client, TypeOK
            <4>3. QED  BY <4>1, <4>2
        <3>2. QED  BY <1>a, <1>b, <2>2, <3>1 DEF Whole
    <2>4. QED  BY <2>2, <2>3
<1>2. ASSUME NEW w \in Workers, Send(w)  PROVE Nil' /\ Failed'
    <2>1. PICK r \in Requests : r = task[w]
        BY <1>2, SendFlow
    <2>2. /\ reply' = reply /\ stage[w] = "send"
          /\ result'[q] = IF q = r THEN outcome[w] ELSE result[q]
        BY <1>2, <2>1, SendFlow DEF TypeOK
    <2>3. head' = head /\ body' = body /\ tries' = tries
        BY <1>2 DEF Send, client
    <2>4. outcome[w] = "error" => tries[r] = MaxRetries + 1 \/ head[r] # "none"
        BY <2>1, <2>2 DEF Counted
    <2>5. QED  BY <1>a, <2>2, <2>3, <2>4 DEF Whole
<1>3. ASSUME NEW r \in Requests, Receive(r)  PROVE Nil' /\ Failed'
    <2>1. /\ head' = head /\ body' = body /\ tries' = tries
          /\ result'[q] \in {result[q], "none"}
          /\ reply'[q] = IF q = r THEN result[r] ELSE reply[q]
          /\ handler[r] = "waiting"
        BY <1>3 DEF Receive, Forwarded, TypeOK
    <2>2. q = r /\ result[r] = "nil" => head[q] = "upstream" /\ Whole(q)
        BY <2>1 DEF Sending
    <2>3. QED  BY <1>a, <2>1, <2>2 DEF Whole
<1>4. ASSUME NEW r \in Requests, WriteError(r)  PROVE Nil' /\ Failed'
    <2>1. /\ UNCHANGED <<reply, result, tries>> /\ handler[r] = "failing"
          /\ q # r => head'[q] = head[q] /\ body'[q] = body[q]
        BY <1>4 DEF WriteError, TypeOK
    <2>2. QED  BY <1>a, <1>b, <1>h, <2>1 DEF Whole
<1>5. ASSUME NEW r \in Requests,
             \/ Arrive(r) \/ Disconnect(r) \/ Stall(r) \/ Enqueue(r) \/ EnqueueClosed(r) \/ GiveUp(r)
             \/ QueueFull(r)
      PROVE  Nil' /\ Failed'
    <2>1. /\ UNCHANGED <<head, body, result, tries>>
          /\ reply'[q] \in {reply[q], "cancelled", "full"}
        BY <1>5 DEF Arrive, Disconnect, Stall, Enqueue, EnqueueClosed, GiveUp, QueueFull, Forwarded, client, TypeOK
    <2>2. QED  BY <1>a, <2>1 DEF Whole
<1>6. ASSUME NEW w \in Workers, Take(w) \/ Exit(w)  PROVE Nil' /\ Failed'
    BY <1>a, <1>6 DEF Take, Exit, client, Whole
<1>7. ASSUME Close \/ Drained \/ DrainTimeout \/ Stop \/ UNCHANGED vars  PROVE Nil' /\ Failed'
    BY <1>a, <1>7 DEF Close, Drained, DrainTimeout, Stop, vars, client, Whole
<1>8. Nil' /\ Failed'
    BY <1>1, <1>2, <1>3, <1>4, <1>5, <1>6, <1>7 DEF Next, Handle, Work, Attends
<1>9. QED  BY <1>8, <1>w DEF Whole

-----------------------------------------------------------------------------
\* What all theorems rest on.
LEMMA Invariance == Spec => []IInv
<1>1. IInv /\ [Next]_vars => IInv'
    BY TypeStep, PlacesStep, OwnedStep, SendingStep, CountedStep, DrainingStep, OutcomeStep DEF IInv
<1>2. QED  BY InitIInv, <1>1, PTL DEF Spec

\* worker_pool.go: the queue holds no more than its capacity and the attempts
\* for a request are no more than retry.go allows.
THEOREM TypeCorrect == Spec => []TypeOK
<1>1. IInv => TypeOK
    BY DEF IInv
<1>2. QED  BY Invariance, <1>1, PTL

\* Forward never waits for a task that nobody holds.
THEOREM NoTaskLost == Spec => []TaskAccounted
<1>1. IInv => TaskAccounted
    BY DEF IInv, Owned
<1>2. QED  BY Invariance, <1>1, PTL

\* Forward returns nil only for a whole answer of the upstream and gives up
\* only after the last attempt or a failed copy.
THEOREM OutcomesEarned == Spec => []OutcomeEarned
<1>1. IInv => OutcomeEarned
    BY DEF IInv
<1>2. QED  BY Invariance, <1>1, PTL

\* doForward writes to the ResponseWriter of a handler that no longer waits
\* only if that handler's client has gone.
THEOREM WriterOwned == Spec => []WriterShared
<1>1. IInv => WriterShared
    <2> SUFFICES ASSUME IInv, NEW w \in Workers, stage[w] \in {"header", "copy"}
                 PROVE  \/ handler[task[w]] = "waiting"
                        \/ gone[task[w]] /\ reply[task[w]] = "cancelled"
        BY DEF WriterShared
    <2>1. task[w] \in Requests /\ task[w] \in Worked
        BY Task DEF IInv, Busy
    <2>2. QED  BY <2>1 DEF IInv, Owned, Pending
<1>2. QED  BY Invariance, <1>1, PTL

\* When ShutDown returns nil, every queued task has been worked off.
THEOREM DrainComplete == Spec => []DrainedMeansDone
<1>1. IInv => DrainedMeansDone
    <2> SUFFICES ASSUME IInv, main = "drained"
                 PROVE  /\ queue = <<>> /\ Worked = {}
                        /\ \A r \in Requests : handler[r] = "waiting" => result[r] # "none"
        BY DEF DrainedMeansDone
    <2>1. \A w \in Workers : stage[w] = "exited"
        BY DEF IInv, Draining, AllExited
    <2>2. queue = <<>>
        BY <2>1, PoolAssumption DEF IInv, Draining
    <2>3. Worked = {}
        BY <2>1, Task DEF IInv, Worked
    <2>4. Queued = {}
        BY <2>2 DEF Queued
    <2>5. QED  BY <2>2, <2>3, <2>4 DEF IInv, Owned, TaskAccounted
<1>2. QED  BY Invariance, <1>1, PTL

=============================================================================
