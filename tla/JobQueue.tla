------------------------------ MODULE JobQueue ------------------------------
(***************************************************************************)
(* The job queue (framework/queue/queue.go) on its in-process driver       *)
(* (drivers/memory.go) or its Redis driver (drivers/redis.go).             *)
(*                                                                         *)
(* Workers poll the queues in priority order, take the next ready payload, *)
(* run its job and bury or release it when the job fails.  Stop cancels    *)
(* the manager's context, which the Redis driver hands to every command    *)
(* and the memory driver ignores; the results of Dead and Release are      *)
(* thrown away.                                                            *)
(*                                                                         *)
(* A delay is the number of seconds left, which Second counts down.        *)
(***************************************************************************)
EXTENDS Integers, Sequences, FiniteSets, SequencesExt

CONSTANTS Job,           \* jobs, dispatched once each
          TypeOf,        \* job -> the name of its Go type
          Registry,      \* class names given to Register
          Queues,        \* Options.Queues, a sequence of names
          Worker,
          Drivers,       \* drivers to check: "memory", "redis"
          Delay,         \* delays passed to Dispatch
          MaxAttempts,   \* DispatchOpts.MaxAttempts
          MaxStops,      \* 1 if the manager may be stopped
          MaxCrashes,    \* bound on crashes of the worker process (Redis)
          NoJob

ASSUME JobQueueAssumption ==
  /\ DOMAIN TypeOf = Job /\ NoJob \notin Job
  /\ Drivers \subseteq {"memory", "redis"}
  /\ Delay \subseteq Nat
  /\ MaxAttempts \in Nat \ {0}
  /\ MaxStops \in {0, 1} /\ MaxCrashes \in Nat
  /\ Queues \in Seq(STRING) /\ Queues # << >>

VARIABLES driver,     \* the driver the manager was given, fixed
          items,      \* queue -> payloads in line
          delayed,    \* queue -> the Redis sorted set of delayed payloads
          dead,       \* ids of the dead-lettered payloads, in order
          worker,     \* worker -> where it is, its queue, its payload
          stopped,    \* the manager's context is cancelled
          crashes,
          dispatched, \* jobs handed to Dispatch
          attempts,   \* job -> times its Handle was entered
          succeeded   \* jobs whose Handle returned nil

vars == <<driver, items, delayed, dead, worker, stopped, crashes, dispatched, attempts, succeeded>>

QueueName == Range(Queues)

\* The class Dispatch gives a payload: the verb %T of a pointer to a struct,
\* "*jobs.SendEmail".  A class is the sequence of its parts.
Class(j) == <<"*jobs", TypeOf[j]>>

\* The jobs Unmarshal cannot rebuild.
Unknown == {j \in Job : Class(j) \notin Registry}

Payload == [id : Job, Attempts : Nat, wait : Nat]
NoPayload == [id |-> NoJob, Attempts |-> 0, wait |-> 0]
Idle == [pc |-> "wait", q |-> 1, p |-> NoPayload]

TypeOK ==
  /\ driver \in Drivers
  /\ \A q \in QueueName : items[q] \in Seq(Payload) /\ delayed[q] \subseteq Payload
  /\ dead \in Seq(Job)
  /\ \A w \in Worker :
       /\ worker[w].pc \in {"wait", "promote", "pop", "process", "handle", "bury", "release", "exited"}
       /\ worker[w].q \in 1..Len(Queues)
       /\ worker[w].p \in Payload \cup {NoPayload}
  /\ stopped \in BOOLEAN /\ crashes \in 0..MaxCrashes
  /\ dispatched \subseteq Job /\ succeeded \subseteq dispatched
  /\ attempts \in [Job -> 0..MaxAttempts]

Init ==
  /\ driver \in Drivers
  /\ items = [q \in QueueName |-> << >>]
  /\ delayed = [q \in QueueName |-> {}]
  /\ dead = << >>
  /\ worker = [w \in Worker |-> Idle]
  /\ stopped = FALSE /\ crashes = 0
  /\ dispatched = {} /\ succeeded = {}
  /\ attempts = [j \in Job |-> 0]

----------------------------------------------------------------------------
(* The drivers *)

\* Commands that carry the manager's context reach Redis until it is cancelled.
Reachable == driver = "memory" \/ ~stopped

\* Push: the memory driver has one list, Redis a list and a sorted set.
Push(q, p) ==
  IF driver = "redis" /\ p.wait > 0
  THEN /\ delayed' = [delayed EXCEPT ![q] = @ \cup {p}]
       /\ UNCHANGED items
  ELSE /\ items' = [items EXCEPT ![q] = Append(@, p)]
       /\ UNCHANGED delayed

\* The positions of the payloads that Pop may take: the first that is ready.
ReadyAt(q) == {i \in 1..Len(items[q]) : items[q][i].wait = 0}
FirstReady(q) == CHOOSE i \in ReadyAt(q) : \A j \in ReadyAt(q) : i <= j

\* promoteScript, one atomic step of Redis.  Payloads that are due at the same
\* second come in the order of their encoding.
PromoteDue(q) ==
  LET due == {p \in delayed[q] : p.wait = 0} IN
  /\ items' = [items EXCEPT ![q] = @ \o SetToSeq(due)]
  /\ delayed' = [delayed EXCEPT ![q] = @ \ due]

----------------------------------------------------------------------------
(* The manager *)

\* Dispatch, with the caller's own context.
Dispatch(j, q, delay) ==
  /\ j \notin dispatched
  /\ dispatched' = dispatched \cup {j}
  /\ Push(q, [id |-> j, Attempts |-> 0, wait |-> delay])
  /\ UNCHANGED <<driver, dead, worker, stopped, crashes, attempts, succeeded>>

Goto(w, pc) == worker' = [worker EXCEPT ![w].pc = pc]

\* Where a worker starts a Pop: the Redis driver promotes first.
PopStart == IF driver = "redis" THEN "promote" ELSE "pop"

\* The ticker fires: processAll from the first queue.
Poll(w) ==
  /\ worker[w].pc = "wait"
  /\ worker' = [worker EXCEPT ![w] = [pc |-> PopStart, q |-> 1, p |-> NoPayload]]
  /\ UNCHANGED <<driver, items, delayed, dead, stopped, crashes, dispatched, attempts, succeeded>>

\* The other branch of the worker's select.
Exit(w) ==
  /\ worker[w].pc = "wait" /\ stopped
  /\ Goto(w, "exited")
  /\ UNCHANGED <<driver, items, delayed, dead, stopped, crashes, dispatched, attempts, succeeded>>

\* Pop of the Redis driver: promoteDelayed, whose error is ignored.
Promote(w) ==
  /\ worker[w].pc = "promote"
  /\ IF Reachable THEN PromoteDue(Queues[worker[w].q]) ELSE UNCHANGED <<items, delayed>>
  /\ Goto(w, "pop")
  /\ UNCHANGED <<driver, dead, stopped, crashes, dispatched, attempts, succeeded>>

\* Pop takes the payload (RPOP, or the first ready one of the memory driver).
PopSome(w) ==
  LET q == Queues[worker[w].q] IN
  /\ worker[w].pc = "pop" /\ Reachable /\ ReadyAt(q) # {}
  /\ items' = [items EXCEPT ![q] = RemoveAt(@, FirstReady(q))]
  /\ worker' = [worker EXCEPT ![w].pc = "process", ![w].p = items[q][FirstReady(q)]]
  /\ UNCHANGED <<driver, delayed, dead, stopped, crashes, dispatched, attempts, succeeded>>

\* Mutant of PopNone: after the last queue the first one again, without the ticker.
PopNoneRestart(w) ==
  /\ worker[w].pc = "pop" /\ ~(Reachable /\ ReadyAt(Queues[worker[w].q]) # {})
  /\ worker' = [worker EXCEPT ![w] =
                  [pc |-> PopStart, q |-> IF @.q < Len(Queues) THEN @.q + 1 ELSE 1, p |-> NoPayload]]
  /\ UNCHANGED <<driver, items, delayed, dead, stopped, crashes, dispatched, attempts, succeeded>>

\* Nothing ready, or an error: the next queue, after the last one the ticker.
PopNone(w) ==
  /\ worker[w].pc = "pop" /\ ~(Reachable /\ ReadyAt(Queues[worker[w].q]) # {})
  /\ worker' = [worker EXCEPT ![w] =
                  IF @.q < Len(Queues) THEN [pc |-> PopStart, q |-> @.q + 1, p |-> NoPayload]
                  ELSE Idle]
  /\ UNCHANGED <<driver, items, delayed, dead, stopped, crashes, dispatched, attempts, succeeded>>

\* process: count the attempt, rebuild the job, bury it if its class is unknown.
Process(w) ==
  LET j == worker[w].p.id IN
  /\ worker[w].pc = "process"
  /\ worker' = [worker EXCEPT ![w].p.Attempts = @ + 1,
                              ![w].pc = IF j \in Unknown THEN "bury" ELSE "handle"]
  /\ attempts' = IF j \in Unknown THEN attempts ELSE [attempts EXCEPT ![j] = @ + 1]
  /\ UNCHANGED <<driver, items, delayed, dead, stopped, crashes, dispatched, succeeded>>

\* Back to the queue's loop: the same queue again.
Again(w) == worker' = [worker EXCEPT ![w] = [pc |-> PopStart, q |-> @.q, p |-> NoPayload]]

\* safeHandle returns nil.
Succeed(w) ==
  /\ worker[w].pc = "handle"
  /\ succeeded' = succeeded \cup {worker[w].p.id}
  /\ Again(w)
  /\ UNCHANGED <<driver, items, delayed, dead, stopped, crashes, dispatched, attempts>>

\* Mutant of Exhausted: one attempt too many.
ExhaustedLate(p) == p.Attempts > MaxAttempts

Exhausted(p) == p.Attempts >= MaxAttempts

\* safeHandle returns an error, or turned a panic into one.
Fail(w) ==
  /\ worker[w].pc = "handle"
  /\ Goto(w, IF Exhausted(worker[w].p) THEN "bury" ELSE "release")
  /\ UNCHANGED <<driver, items, delayed, dead, stopped, crashes, dispatched, attempts, succeeded>>

\* driver.Dead; an error loses the payload.
Bury(w) ==
  /\ worker[w].pc = "bury"
  /\ dead' = IF Reachable THEN Append(dead, worker[w].p.id) ELSE dead
  /\ Again(w)
  /\ UNCHANGED <<driver, items, delayed, stopped, crashes, dispatched, attempts, succeeded>>

\* Mutant of Release: the payload is not pushed again.
ReleaseDropped(w) ==
  /\ worker[w].pc = "release"
  /\ UNCHANGED <<items, delayed>>
  /\ Again(w)
  /\ UNCHANGED <<driver, dead, stopped, crashes, dispatched, attempts, succeeded>>

\* driver.Release with a backoff of 2^attempts seconds; an error loses the payload.
Release(w) ==
  /\ worker[w].pc = "release"
  /\ IF Reachable
     THEN Push(Queues[worker[w].q], [worker[w].p EXCEPT !.wait = 2^worker[w].p.Attempts])
     ELSE UNCHANGED <<items, delayed>>
  /\ Again(w)
  /\ UNCHANGED <<driver, dead, stopped, crashes, dispatched, attempts, succeeded>>

\* Stop cancels the context; it then waits for the workers.
Stop ==
  /\ ~stopped /\ MaxStops = 1
  /\ stopped' = TRUE
  /\ UNCHANGED <<driver, items, delayed, dead, worker, crashes, dispatched, attempts, succeeded>>

\* The worker process dies and is started again; Redis keeps its keys.
Crash ==
  /\ driver = "redis" /\ crashes < MaxCrashes
  /\ crashes' = crashes + 1
  /\ worker' = [w \in Worker |-> Idle]
  /\ stopped' = FALSE
  /\ UNCHANGED <<driver, items, delayed, dead, dispatched, attempts, succeeded>>

\* A second passes.
Earlier(p) == [p EXCEPT !.wait = IF @ > 0 THEN @ - 1 ELSE 0]

Waiting(q) == {p \in delayed[q] \cup Range(items[q]) : p.wait > 0}

Second ==
  /\ \E q \in QueueName : Waiting(q) # {}
  /\ items' = [q \in QueueName |-> [i \in 1..Len(items[q]) |-> Earlier(items[q][i])]]
  /\ delayed' = [q \in QueueName |-> {Earlier(p) : p \in delayed[q]}]
  /\ UNCHANGED <<driver, dead, worker, stopped, crashes, dispatched, attempts, succeeded>>

WorkerStep(w) ==
  \/ Poll(w) \/ Exit(w) \/ Promote(w) \/ PopSome(w) \/ PopNone(w) \/ Process(w)
  \/ Succeed(w) \/ Fail(w) \/ Bury(w) \/ Release(w)

Next ==
  \/ \E j \in Job, q \in QueueName, delay \in Delay : Dispatch(j, q, delay)
  \/ \E w \in Worker : WorkerStep(w)
  \/ Stop \/ Crash \/ Second

\* Workers run and time passes.  A worker at its select with both branches
\* ready picks one at random, so it does not ignore the cancellation for ever.
Fairness ==
  /\ \A w \in Worker : WF_vars(WorkerStep(w)) /\ SF_vars(Exit(w))
  /\ WF_vars(Second)

Spec == Init /\ [][Next]_vars /\ Fairness

----------------------------------------------------------------------------
(* Properties *)

\* Where a job is: in line or delayed, in the hands of a worker, buried or done.
QueuePlaces(q, j) ==
  {<<"line", q, i>> : i \in {i \in 1..Len(items[q]) : items[q][i].id = j}}
  \cup {<<"delayed", q, p>> : p \in {p \in delayed[q] : p.id = j}}

Places(j) ==
  (UNION {QueuePlaces(q, j) : q \in QueueName})
  \cup {<<"held", w>> : w \in {w \in Worker : worker[w].p.id = j}}
  \cup {<<"dead", i>> : i \in {i \in 1..Len(dead) : dead[i] = j}}
  \cup {<<"done", i>> : i \in succeeded \cap {j}}

\* "a delayed job is enqueued exactly once" (drivers/redis.go:44): no worker
\* ever holds a job that another one holds or that is still in line.
NoDuplicate == \A j \in Job : \A x, y \in Places(j) : x = y

\* Every dispatched job is in line, running, done or dead-lettered.
Accounted == \A j \in dispatched : Places(j) # {}

\* The manager has been neither stopped nor killed.
Undisturbed == ~stopped /\ crashes = 0

\* No job gets lost: with the memory driver not even while the manager stops, with
\* Redis as long as it is neither stopped nor killed between Pop and Release.
NoJobLost == driver = "memory" \/ Undisturbed => Accounted

\* "Stop gracefully drains the workers" (queue.go:117).
DrainKeepsJobs == stopped => Accounted

\* A job is dead-lettered when it used up its attempts, not before, or when it
\* could never run; a job that succeeded is not dead-lettered and not run again.
DeadOnlyWhenExhausted ==
  \A i \in 1..Len(dead) :
    /\ dead[i] \in Unknown \/ attempts[dead[i]] = MaxAttempts
    /\ dead[i] \notin succeeded

\* Every job is settled in the end: it succeeds or it is dead-lettered, unless
\* the manager is stopped or killed before.
Settles ==
  \A j \in Job : j \in dispatched ~> \/ j \in succeeded
                                     \/ \E i \in 1..Len(dead) : dead[i] = j
                                     \/ ~Undisturbed

\* Stop returns: every worker leaves its loop, unless the process dies first.
StopReturns == stopped ~> ~stopped \/ \A w \in Worker : worker[w].pc = "exited"

\* Every dispatched job is in exactly one place, waiting, held, succeeded or
\* dead, and dead only after its last attempt, as far as the driver promises
\* it (queue.go 76-177, drivers/redis.go 40-103, drivers/memory.go 24-59).
JobsAccounted == NoDuplicate /\ DeadOnlyWhenExhausted /\ NoJobLost
=============================================================================
