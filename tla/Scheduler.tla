------------------------------ MODULE Scheduler ------------------------------
(***************************************************************************)
(* The scheduler (framework/scheduler/scheduler.go) on top of the cron     *)
(* library, which is external: every entry whose time has come runs in a   *)
(* goroutine of its own until the engine is stopped.                       *)
(***************************************************************************)
EXTENDS Integers, FiniteSets

CONSTANTS Task,       \* scheduled jobs
          Tick,       \* goroutines the cron engine can have at work
          MaxStarts   \* bound on calls of Start

ASSUME SchedulerAssumption == Task # {} /\ MaxStarts \in Nat

VARIABLES jobs,       \* jobs given to Every
          cron,       \* job -> its entries in the engine
          started,    \* calls of Start so far
          engine,     \* the engine fires
          cancelled,  \* the scheduler's context
          running,    \* job -> its flag
          tick        \* goroutine -> [pc, job]

schedVars == <<jobs, cron, started, engine, cancelled, running, tick>>

FreeTick == [pc |-> "free", job |-> CHOOSE t \in Task : TRUE]

SchedTypeOK ==
  /\ jobs \subseteq Task
  /\ cron \in [Task -> 0..MaxStarts] /\ started \in 0..MaxStarts
  /\ engine \in BOOLEAN /\ cancelled \in BOOLEAN
  /\ running \in [Task -> BOOLEAN]
  /\ tick \in [Tick -> [pc : {"free", "enter", "run", "leave"}, job : Task]]

SchedInit ==
  /\ jobs = {} /\ cron = [t \in Task |-> 0] /\ started = 0
  /\ engine = FALSE /\ cancelled = FALSE
  /\ running = [t \in Task |-> FALSE]
  /\ tick = [g \in Tick |-> FreeTick]

\* Every (Daily and Hourly end in it).
Every(t) ==
  /\ t \notin jobs
  /\ jobs' = jobs \cup {t}
  /\ UNCHANGED <<cron, started, engine, cancelled, running, tick>>

\* Start: one entry per job, once more on every call.
StartAll ==
  /\ started < MaxStarts
  /\ started' = started + 1
  /\ cron' = [t \in Task |-> IF t \in jobs THEN cron[t] + 1 ELSE cron[t]]
  /\ engine' = TRUE
  /\ UNCHANGED <<jobs, cancelled, running, tick>>

\* Start meets a job with an invalid expression: the jobs before it stay registered
\* and the engine is not started.
StartFails ==
  /\ started < MaxStarts /\ jobs # {}
  /\ started' = started + 1
  /\ \E before \in (SUBSET jobs) \ {jobs} :
       cron' = [t \in Task |-> IF t \in before THEN cron[t] + 1 ELSE cron[t]]
  /\ UNCHANGED <<jobs, engine, cancelled, running, tick>>

\* Stop: the running jobs' contexts end and the engine fires no more.  A later Start
\* makes it fire again, the context stays cancelled.
StopScheduler ==
  /\ engine \/ ~cancelled
  /\ engine' = FALSE /\ cancelled' = TRUE
  /\ UNCHANGED <<jobs, cron, started, running, tick>>

\* The engine fires an entry of job t.
Fire(g, t) ==
  /\ engine /\ cron[t] > 0
  /\ tick[g].pc = "free"
  /\ tick' = [tick EXCEPT ![g] = [pc |-> "enter", job |-> t]]
  /\ UNCHANGED <<jobs, cron, started, engine, cancelled, running>>

\* Mutant of Enter: the flag is set without being tested.
EnterUnguarded(g) ==
  /\ tick[g].pc = "enter"
  /\ tick' = [tick EXCEPT ![g].pc = "run"]
  /\ running' = [running EXCEPT ![tick[g].job] = TRUE]
  /\ UNCHANGED <<jobs, cron, started, engine, cancelled>>

\* run: the compare-and-swap on the flag, then fn; a run in progress makes this
\* one a skip.
Enter(g) ==
  LET t == tick[g].job IN
  /\ tick[g].pc = "enter"
  /\ tick' = [tick EXCEPT ![g] = IF running[t] THEN FreeTick ELSE [@ EXCEPT !.pc = "run"]]
  /\ running' = [running EXCEPT ![t] = TRUE]
  /\ UNCHANGED <<jobs, cron, started, engine, cancelled>>

\* fn returns, with an error or without.
Return(g) ==
  /\ tick[g].pc = "run"
  /\ tick' = [tick EXCEPT ![g].pc = "leave"]
  /\ UNCHANGED <<jobs, cron, started, engine, cancelled, running>>

\* fn panics; the deferred recover lets the deferred reset run as after a return.
Panic(g) ==
  /\ tick[g].pc = "run"
  /\ tick' = [tick EXCEPT ![g].pc = "leave"]
  /\ UNCHANGED <<jobs, cron, started, engine, cancelled, running>>

\* The deferred reset of the flag.
Leave(g) ==
  /\ tick[g].pc = "leave"
  /\ tick' = [tick EXCEPT ![g] = FreeTick]
  /\ running' = [running EXCEPT ![tick[g].job] = FALSE]
  /\ UNCHANGED <<jobs, cron, started, engine, cancelled>>

Running(g) == Enter(g) \/ Return(g) \/ Panic(g) \/ Leave(g)

SchedNext ==
  \/ \E t \in Task : Every(t) \/ \E g \in Tick : Fire(g, t)
  \/ StartAll \/ StartFails \/ StopScheduler
  \/ \E g \in Tick : Running(g)

\* Goroutines run, and fn heeds its context, which has a timeout.
SchedFairness == \A g \in Tick : WF_schedVars(Running(g))

SchedSpec == SchedInit /\ [][SchedNext]_schedVars /\ SchedFairness

----------------------------------------------------------------------------
(* Properties *)

Inside(t) == {g \in Tick : tick[g].pc \in {"run", "leave"} /\ tick[g].job = t}

\* No job overlaps with itself, also when Start was called twice and two entries
\* fire together; and the flag is up only while a run is inside, so that a job
\* is never skipped for ever.
NoSelfOverlap == \A t \in Task : Cardinality(Inside(t)) = (IF running[t] THEN 1 ELSE 0)

\* A run that errs, panics or outlives Stop gives the flag back.
FlagComesDown == \A t \in Task : running[t] ~> ~running[t]
=============================================================================
