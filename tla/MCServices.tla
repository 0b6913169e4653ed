------------------------------ MODULE MCServices ------------------------------
(***************************************************************************)
(* The job queue, the timeout middleware, the scheduler, the store's       *)
(* shutdown and restart and the health endpoint share no state.  A         *)
(* behaviour of this module is a behaviour of one of them, chosen at the   *)
(* start; the others rest.                                                 *)
(***************************************************************************)
EXTENDS MCJobQueue, Timeout, Scheduler, StoreLifecycle, Health

VARIABLE part

servicesVars == <<part, vars, timeoutVars, schedVars, lifeVars, healthVars>>

Part == {"queue", "timeout", "scheduler", "store", "health"}

ServicesTypeOK ==
  TypeOK /\ TimeoutTypeOK /\ SchedTypeOK /\ LifeTypeOK /\ HealthTypeOK

ServicesInit ==
  /\ part \in Part
  /\ Init /\ TimeoutInit /\ SchedInit /\ LifeInit /\ HealthInit
  /\ part = "queue" \/ driver = "memory"
  /\ part = "store" \/ (gossiping /\ callers = Caller)
  /\ part = "health" \/ heeds

QueueStep(A) ==
  part = "queue" /\ A /\ UNCHANGED <<part, timeoutVars, schedVars, lifeVars, healthVars>>
TimeoutStep(A) ==
  part = "timeout" /\ A /\ UNCHANGED <<part, vars, schedVars, lifeVars, healthVars>>
SchedStep(A) ==
  part = "scheduler" /\ A /\ UNCHANGED <<part, vars, timeoutVars, lifeVars, healthVars>>
StoreStep(A) ==
  part = "store" /\ A /\ UNCHANGED <<part, vars, timeoutVars, schedVars, healthVars>>
HealthStep(A) ==
  part = "health" /\ A /\ UNCHANGED <<part, vars, timeoutVars, schedVars, lifeVars>>

ServicesNext ==
  \/ QueueStep(Next) \/ TimeoutStep(TimeoutNext) \/ SchedStep(SchedNext)
  \/ StoreStep(LifeNext) \/ HealthStep(HealthNext)

\* The fairness of each part, for the part that runs.
ServicesFairness ==
  /\ \A w \in Worker : /\ WF_servicesVars(QueueStep(WorkerStep(w)))
                       /\ SF_servicesVars(QueueStep(Exit(w)))
  /\ WF_servicesVars(QueueStep(Second))
  /\ WF_servicesVars(TimeoutStep(Middleware))
  /\ \A g \in Tick : WF_servicesVars(SchedStep(Running(g)))
  /\ WF_servicesVars(StoreStep(KernelStep))
  /\ \A c \in Caller : WF_servicesVars(StoreStep(ShutdownStep(c)))
  /\ WF_servicesVars(HealthStep(Report))
  /\ \A i \in 1..MaxChecks : WF_servicesVars(HealthStep(heeds /\ AnyReturns(i)))

ServicesSpec == ServicesInit /\ [][ServicesNext]_servicesVars /\ ServicesFairness

\* Nothing hangs: jobs settle and Stop returns (queue.go 108-177), a request is
\* answered by its deadline (timeout.go 38-74), a job's running flag comes down
\* even after a panic (scheduler.go 111-137), a signalled process exits
\* (http/kernel.go 84-133) and a health probe is answered (health.go 61-144).
ServicesFinish ==
  StopReturns /\ Settles /\ Answered /\ FlagComesDown /\ SignalEnds /\ ProbeAnswered
=============================================================================
