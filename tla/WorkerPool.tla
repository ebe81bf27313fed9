----------------------------- MODULE WorkerPool -----------------------------
(***************************************************************************)
(* The proxy's forwarder (proxy/internal/upstream): Forward hands a task   *)
(* to a bounded queue, workers take tasks, retry the upstream and copy its *)
(* answer into the handler's ResponseWriter.  With it, what handleCatchAll *)
(* does with Forward's result and the shutdown sequence of cmd/app/main.go.*)
(*                                                                         *)
(* The upstream is external: `Upstream` says how it may answer.  A request *)
(* is its handler, its task and its result channel.  The ResponseWriter is *)
(* what its client has been sent: a status line and a body.                *)
(***************************************************************************)
EXTENDS Naturals, Sequences, FiniteSets

CONSTANTS
    Requests,    \* requests that reach Forward
    Workers,     \* goroutines of the pool (50 in the code)
    MaxQueue,    \* capacity of taskQueue (1000 in the code)
    MaxRetries,  \* ConfigRetry.MaxRetries (3 in the code)
    Upstream,    \* its possible answers: "good", "bad" (5xx, 429), "error"
    NoTask       \* what an idle worker works on

ASSUME PoolAssumption ==
    /\ MaxQueue \in Nat \ {0}
    /\ MaxRetries \in Nat
    /\ Upstream \subseteq {"good", "bad", "error"}
    /\ NoTask \notin Requests
    /\ Workers # {}

VARIABLES
    queue,      \* buffer of taskQueue
    closed,     \* close(taskQueue) has been called
    handler,    \* where each request's handler stands
    gone,       \* its context is done
    stalled,    \* its client has stopped reading the answer
    reply,      \* what Forward returned to it
    result,     \* buffer of its resultChan
    head,       \* status line its client was sent
    body,       \* body its client was sent
    tries,      \* requests made to the upstream for it
    stage,      \* where each worker stands
    task,       \* the request it works on
    outcome,    \* what doForward returned to it
    main,       \* where main stands
    death       \* why a goroutine brought the process down

client == <<gone, stalled, reply, head, body>>
pool == <<stage, task, outcome>>
vars == <<queue, closed, handler, client, result, tries, pool, main, death>>

Running == death = "none" /\ main # "stopped"

-----------------------------------------------------------------------------
Init ==
    /\ queue = <<>>
    /\ closed = FALSE
    /\ handler = [r \in Requests |-> "new"]
    /\ gone = [r \in Requests |-> FALSE]
    /\ stalled = [r \in Requests |-> FALSE]
    /\ reply = [r \in Requests |-> "none"]
    /\ result = [r \in Requests |-> "none"]
    /\ head = [r \in Requests |-> "none"]
    /\ body = [r \in Requests |-> "none"]
    /\ tries = [r \in Requests |-> 0]
    /\ stage = [w \in Workers |-> "idle"]
    /\ task = [w \in Workers |-> NoTask]
    /\ outcome = [w \in Workers |-> "none"]
    /\ main = "serving"
    /\ death = "none"

\* handleCatchAll reaches Forward: a request accepted before Shutdown may do
\* so as late as the end of the process.
Arrive(r) ==
    /\ Running
    /\ handler[r] = "new"
    /\ handler' = [handler EXCEPT ![r] = "forward"]
    /\ UNCHANGED <<queue, closed, client, result, tries, pool, main, death>>

\* The client disconnects: net/http cancels the request's context.
Disconnect(r) ==
    /\ Running
    /\ handler[r] \in {"forward", "waiting"}
    /\ ~gone[r]
    /\ gone' = [gone EXCEPT ![r] = TRUE]
    /\ UNCHANGED <<queue, closed, handler, stalled, reply, result, head, body, tries, pool, main, death>>

\* The client keeps its connection and stops reading.  The server has no
\* WriteTimeout: what is written to it from now on may never get through.
Stall(r) ==
    /\ Running
    /\ handler[r] \in {"forward", "waiting", "failing"}
    /\ ~stalled[r]
    /\ stalled' = [stalled EXCEPT ![r] = TRUE]
    /\ UNCHANGED <<queue, closed, handler, gone, reply, result, head, body, tries, pool, main, death>>

\* Forward returns.  On nil the handler is done; on an error it still has a
\* 502 to write.
Forwarded(r, err) ==
    /\ reply' = [reply EXCEPT ![r] = err]
    /\ handler' = [handler EXCEPT ![r] = IF err = "nil" THEN "returned" ELSE "failing"]
    /\ gone' = [gone EXCEPT ![r] = @ \/ err = "nil"]

\* Slip: the channel is made one too large.
OneTooMany == Len(queue) <= MaxQueue

\* make(chan *forwardTask, maxQueue)
HasRoom == Len(queue) < MaxQueue

\* Slip: Forward has a deadline of its own.
OwnDeadline(r) == TRUE

\* <-ctx.Done() is ready.
ContextDone(r) == gone[r]

\* The outer select of Forward: taskQueue <- task ...
Enqueue(r) ==
    /\ Running
    /\ handler[r] = "forward"
    /\ ~closed
    /\ HasRoom
    /\ queue' = Append(queue, r)
    /\ handler' = [handler EXCEPT ![r] = "waiting"]
    /\ UNCHANGED <<closed, client, result, tries, pool, main, death>>

\* ... which panics on a closed channel; net/http recovers the handler's
\* panic and drops the connection ...
EnqueueClosed(r) ==
    /\ Running
    /\ handler[r] = "forward"
    /\ closed
    /\ handler' = [handler EXCEPT ![r] = "aborted"]
    /\ gone' = [gone EXCEPT ![r] = TRUE]
    /\ UNCHANGED <<queue, closed, stalled, reply, result, head, body, tries, pool, main, death>>

\* ... or ctx.Done(), here and in the inner select ...
GiveUp(r) ==
    /\ Running
    /\ handler[r] \in {"forward", "waiting"}
    /\ ContextDone(r)
    /\ Forwarded(r, "cancelled")
    /\ UNCHANGED <<queue, closed, stalled, result, head, body, tries, pool, main, death>>

\* ... or default, when neither is ready.
QueueFull(r) ==
    /\ Running
    /\ handler[r] = "forward"
    /\ ~closed
    /\ ~HasRoom
    /\ ~gone[r]
    /\ Forwarded(r, "full")
    /\ UNCHANGED <<queue, closed, stalled, result, head, body, tries, pool, main, death>>

\* The inner select: result := <-resultChan.
Receive(r) ==
    /\ Running
    /\ handler[r] = "waiting"
    /\ result[r] # "none"
    /\ Forwarded(r, result[r])
    /\ result' = [result EXCEPT ![r] = "none"]
    /\ UNCHANGED <<queue, closed, stalled, head, body, tries, pool, main, death>>

\* What is written to a body after what it holds; bytes of another request's
\* answer spoil it for good.
Written(sofar, what) ==
    IF sofar = "none" THEN what ELSE IF sofar = "foreign" THEN "foreign" ELSE "mixed"

\* writeJSON(502): the status is superfluous once another one was sent, the
\* JSON follows whatever body there is.  Returning ends the context.
WriteError(r) ==
    /\ Running
    /\ handler[r] = "failing"
    /\ head' = [head EXCEPT ![r] = IF @ = "none" THEN "bad_gateway" ELSE @]
    /\ body' = [body EXCEPT ![r] = Written(@, "error")]
    /\ handler' = [handler EXCEPT ![r] = "returned"]
    /\ gone' = [gone EXCEPT ![r] = TRUE]
    /\ UNCHANGED <<queue, closed, stalled, reply, result, tries, pool, main, death>>

-----------------------------------------------------------------------------
Step(w, s) == stage' = [stage EXCEPT ![w] = s]

\* doForward returns.
Done(w, err) == outcome' = [outcome EXCEPT ![w] = err] /\ Step(w, "send")

\* Slip: nothing is sent to a handler whose client has gone.
SkipCancelled(w) ==
    IF outcome[w] = "cancelled" THEN result ELSE [result EXCEPT ![task[w]] = outcome[w]]

\* result goes into the channel.
Sent(w) == [result EXCEPT ![task[w]] = outcome[w]]

\* Slip: the channel has no buffer, and the handler may have left.
Unbuffered(r) == handler[r] = "waiting"

\* make(chan *forwardResult, 1)
ResultRoom(r) == result[r] = "none"

\* task.resultChan <- result
Send(w) ==
    /\ Running
    /\ stage[w] = "send"
    /\ ResultRoom(task[w])
    /\ result' = Sent(w)
    /\ task' = [task EXCEPT ![w] = NoTask]
    /\ outcome' = [outcome EXCEPT ![w] = "none"]
    /\ Step(w, "idle")
    /\ UNCHANGED <<queue, closed, handler, client, tries, main, death>>

\* for task := range wp.taskQueue
Take(w) ==
    /\ Running
    /\ stage[w] = "idle"
    /\ queue # <<>>
    /\ task' = [task EXCEPT ![w] = Head(queue)]
    /\ queue' = Tail(queue)
    /\ Step(w, "do")
    /\ UNCHANGED <<closed, handler, client, result, outcome, tries, main, death>>

\* Slip: the worker looks at closed only.
ClosedIsEnough == closed

\* A range over a closed channel ends when its buffer is empty.
NoMoreTasks == closed /\ queue = <<>>

Exit(w) ==
    /\ Running
    /\ stage[w] = "idle"
    /\ NoMoreTasks
    /\ Step(w, "exited")
    /\ UNCHANGED <<queue, closed, handler, client, result, tries, task, outcome, main, death>>

\* attempt == cfg.MaxRetries, for the attempt being made.
LastAttempt(r) == tries[r] = MaxRetries

\* One doRequest of doRequestWithRetry.  A status worth a retry leaves
\* lastError nil, so after the last attempt doForward dereferences a nil
\* response, in a goroutine nobody recovers.
Attempt(w) ==
    LET r == task[w]
    IN  /\ Running
        /\ stage[w] = "do"
        /\ tries' = [tries EXCEPT ![r] = @ + 1]
        /\ \/ /\ "good" \in Upstream
              /\ Step(w, "header")
              /\ UNCHANGED <<outcome, death>>
           \/ /\ "bad" \in Upstream
              /\ death' = IF LastAttempt(r) THEN "nil_response" ELSE "none"
              /\ Step(w, "backoff")
              /\ UNCHANGED outcome
           \/ /\ "error" \in Upstream \/ gone[r]
              /\ IF LastAttempt(r) THEN Done(w, "error") ELSE Step(w, "backoff") /\ UNCHANGED outcome
              /\ UNCHANGED death
        /\ UNCHANGED <<queue, closed, handler, client, result, task, main>>

\* The timer or the context ends the wait between two attempts.
Backoff(w) ==
    /\ Running
    /\ stage[w] = "backoff"
    /\ \/ Step(w, "do") /\ UNCHANGED outcome
       \/ gone[task[w]] /\ Done(w, "cancelled")
    /\ UNCHANGED <<queue, closed, handler, client, result, tries, task, main, death>>

\* doForward copies the headers and calls w.WriteHeader, whether or not the
\* handler is still there.  While the handler writes its error, both write to
\* the map of headers, which the runtime may notice and abort the process.
WriteHeader(w) ==
    LET r == task[w]
    IN  /\ Running
        /\ stage[w] = "header"
        /\ head' = [head EXCEPT ![r] = IF @ = "none" THEN "upstream" ELSE @]
        /\ Step(w, "copy")
        /\ death' = "none" \/ (handler[r] = "failing" /\ death' = "writer")
        /\ UNCHANGED <<queue, closed, handler, gone, stalled, reply, body, result, tries, task, outcome, main>>

\* Slip: the error of io.Copy is dropped.
NoCopyError == "nil"

\* What doForward returns when io.Copy fails.
CopyError == "error"

\* io.Copy(w, response.Body) ends, or fails on either side after some bytes.
Copy(w) ==
    LET r == task[w]
    IN  /\ Running
        /\ stage[w] = "copy"
        /\ \/ /\ body' = [body EXCEPT ![r] = Written(@, "whole")]
              /\ Done(w, "nil")
           \/ /\ body' = [body EXCEPT ![r] = Written(@, "part")]
              /\ Done(w, CopyError)
        /\ UNCHANGED <<queue, closed, handler, gone, stalled, reply, head, result, tries, task, main, death>>

\* The same through a ResponseWriter whose handler is ending or has returned:
\* its buffer is in use by two goroutines, or back in net/http's pool.  The
\* worker panics, or what it writes goes to the answer that has the buffer now.
StrayCopy(w) ==
    LET r == task[w]
    IN  /\ Running
        /\ stage[w] = "copy"
        /\ \/ /\ handler[r] \in {"failing", "returned"}
              /\ death' = "writer"
              /\ UNCHANGED <<body, stage, outcome>>
           \/ /\ handler[r] = "returned"
              /\ \E q \in Requests \ {r} :
                    /\ handler[q] \notin {"returned", "aborted"}
                    /\ body' = [body EXCEPT ![q] = "foreign"]
              /\ \E err \in {"nil", CopyError} : Done(w, err)
              /\ UNCHANGED death
        /\ UNCHANGED <<queue, closed, handler, gone, stalled, reply, head, result, tries, task, main>>

-----------------------------------------------------------------------------
\* SIGTERM: ShutDown closes taskQueue while the server still accepts.
Close ==
    /\ Running
    /\ main = "serving"
    /\ main' = "closing"
    /\ closed' = TRUE
    /\ UNCHANGED <<queue, handler, client, result, tries, pool, death>>

\* Slip: ShutDown waits for one worker only.
SomeExited == \E w \in Workers : stage[w] = "exited"

\* wp.wg.Wait() returns.
AllExited == \A w \in Workers : stage[w] = "exited"

Drained ==
    /\ Running
    /\ main = "closing"
    /\ AllExited
    /\ main' = "drained"
    /\ UNCHANGED <<queue, closed, handler, client, result, tries, pool, death>>

\* Five seconds pass before the workers are done.
DrainTimeout ==
    /\ Running
    /\ main = "closing"
    /\ main' = "overdue"
    /\ UNCHANGED <<queue, closed, handler, client, result, tries, pool, death>>

\* httpServ.Shutdown returns, at once if the deadline has passed, else when
\* the handlers are done or the deadline passes; the process exits.
Stop ==
    /\ Running
    /\ main \in {"drained", "overdue"}
    /\ main' = "stopped"
    /\ UNCHANGED <<queue, closed, handler, client, result, tries, pool, death>>

-----------------------------------------------------------------------------
Handle(r) ==
    \/ Enqueue(r) \/ EnqueueClosed(r) \/ GiveUp(r) \/ QueueFull(r)
    \/ Receive(r) \/ WriteError(r)

Work(w) ==
    \/ Take(w) \/ Exit(w) \/ Attempt(w) \/ Backoff(w) \/ WriteHeader(w) \/ Copy(w) \/ StrayCopy(w)
    \/ Send(w)

Next ==
    \/ \E r \in Requests : Arrive(r) \/ Disconnect(r) \/ Stall(r) \/ Handle(r)
    \/ \E w \in Workers : Work(w)
    \/ Close \/ Drained \/ DrainTimeout \/ Stop

Spec == Init /\ [][Next]_vars

\* A write that waits for a client that does not read.
ErrorHeld(r) == handler[r] = "failing" /\ stalled[r]
CopyHeld(w) == stage[w] = "copy" /\ stalled[task[w]]

\* Goroutines are scheduled, and every attempt and the reading of the
\* upstream's answer end within the HTTP client's 30 s.  Nobody has to connect,
\* disconnect or send a signal, main has not to stop, and a write to a client
\* that has stopped reading need not end.
FairSpec ==
    /\ Spec
    /\ \A r \in Requests : WF_vars(Handle(r) /\ ~ErrorHeld(r))
    /\ \A w \in Workers : WF_vars(Work(w) /\ ~CopyHeld(w))

-----------------------------------------------------------------------------
\* Requests whose task a worker or the queue holds.
Queued == {queue[i] : i \in 1..Len(queue)}
Worked == {task[w] : w \in Workers} \ {NoTask}

\* The type of the pool's state.
TypeOK ==
    /\ queue \in Seq(Requests)
    /\ Len(queue) <= MaxQueue
    /\ closed \in BOOLEAN
    /\ handler \in [Requests -> {"new", "forward", "waiting", "failing", "returned", "aborted"}]
    /\ gone \in [Requests -> BOOLEAN]
    /\ stalled \in [Requests -> BOOLEAN]
    /\ reply \in [Requests -> {"none", "nil", "error", "cancelled", "full"}]
    /\ result \in [Requests -> {"none", "nil", "error", "cancelled"}]
    /\ head \in [Requests -> {"none", "upstream", "bad_gateway"}]
    /\ body \in [Requests -> {"none", "whole", "part", "error", "mixed", "foreign"}]
    /\ tries \in [Requests -> 0..MaxRetries + 1]
    /\ stage \in [Workers -> {"idle", "do", "backoff", "header", "copy", "send", "exited"}]
    /\ task \in [Workers -> Requests \cup {NoTask}]
    /\ outcome \in [Workers -> {"none", "nil", "error", "cancelled"}]
    /\ main \in {"serving", "closing", "drained", "overdue", "stopped"}
    /\ death \in {"none", "nil_response", "writer"}

\* No task is lost: a handler that waits has its task in the queue, at a
\* worker, or its result in the channel, also while the pool shuts down.
TaskAccounted ==
    \A r \in Requests : handler[r] = "waiting" =>
        r \in Queued \cup Worked \/ result[r] # "none"

\* Neither outcome comes too early.  A request that ends without an error was
\* answered with the upstream's status and whole body, and nothing else was
\* written to its client, save by the worker of another request whose client
\* had gone; one that ends with the upstream's error has used up every attempt,
\* or its copy failed after the header.
OutcomeEarned ==
    \A r \in Requests :
        /\ reply[r] = "nil" =>
              /\ head[r] = "upstream"
              /\ body[r] = "whole" \/ (body[r] = "foreign" /\ \E q \in Requests \ {r} : reply[q] = "cancelled")
        /\ result[r] = "error" => tries[r] = MaxRetries + 1 \/ head[r] # "none"

\* The worker writes to a ResponseWriter whose handler is no longer waiting
\* only if the client disconnected.
WriterShared ==
    \A w \in Workers : stage[w] \in {"header", "copy"} =>
        \/ handler[task[w]] = "waiting"
        \/ gone[task[w]] /\ reply[task[w]] = "cancelled"

\* When ShutDown returns nil every task that was queued has been worked off
\* and every handler still waiting has its result.
DrainedMeansDone ==
    main = "drained" =>
        /\ queue = <<>> /\ Worked = {}
        /\ \A r \in Requests : handler[r] = "waiting" => result[r] # "none"

\* Every request that reaches Forward ends, or is aborted by the shutdown,
\* while the process lives.  Only clients hold it up: its own, by not reading
\* the answer that is being written, or those of other requests, when such a
\* client holds every worker and the task is still in the queue.
EveryRequestEnds ==
    \A r \in Requests : []<>
        \/ handler[r] \in {"new", "returned", "aborted"} \/ ~Running
        \/ ErrorHeld(r) \/ \E w \in Workers : task[w] = r /\ CopyHeld(w)
        \/ r \in Queued /\ \A w \in Workers : CopyHeld(w)

\* Every worker comes back for the next task, whatever has become of the
\* handler of its last one; only a client that does not read keeps it.
WorkersComeBack ==
    \A w \in Workers : []<>(stage[w] \in {"idle", "exited"} \/ CopyHeld(w) \/ ~Running)

\* What the API documentation says of an upstream that fails: 502, and the
\* proxy serves on.
UpstreamErrorIs502 == death # "nil_response"

=============================================================================
