--------------------------- MODULE ServicesProofs ---------------------------
(***************************************************************************)
(* What the services guarantee for every handler, schedule, set of checks, *)
(* set of jobs and store: the timeout middleware answers whole, the        *)
(* scheduler never runs a job twice at once, a health answer tells the     *)
(* truth, the job queue neither doubles nor loses a job, and an orderly    *)
(* exit leaves the store's entries to the next process.                    *)
(***************************************************************************)
EXTENDS Timeout, Scheduler, Health, JobQueue, StoreLifecycle, SequenceTheorems, FiniteSetTheorems,
        WellFoundedInduction, TLAPS

----------------------------------------------------------------------------
(* The timeout middleware *)

\* Until the middleware leaves its select the buffer mirrors what the handler
\* wrote, and the real writer is untouched.
Mirrors ==
  /\ real = NoOutput /\ ~tw.timedOut
  /\ response.committed = tw.wroteHeader
  /\ tw.buf = wrote.body
  /\ IF tw.wroteHeader THEN tw.status = wrote.status ELSE wrote = NoOutput
  /\ tw.wroteHeader => wrote.status # 0

TimeoutInv ==
  /\ TimeoutTypeOK
  /\ wrote.body \in Seq(1..MaxWrites)
  /\ mw = "select" => Mirrors
  /\ WholeAnswer

LEMMA TimeoutTypes ==
  /\ NoOutput \in Output /\ Answer503 \in Output
  /\ \A s \in Code, b \in Seq(1..MaxWrites) : [status |-> s, body |-> b] \in Output
<1>1. 0 \in 0..MaxWrites /\ 1..MaxWrites \subseteq 0..MaxWrites
  BY TimeoutAssumption
<1>2. << >> \in Seq(0..MaxWrites) /\ <<0>> \in Seq(0..MaxWrites)
  BY <1>1
<1>3. Seq(1..MaxWrites) \subseteq Seq(0..MaxWrites)
  BY <1>1, SeqMonotonic
<1> QED
  BY <1>2, <1>3 DEF Output, NoOutput, Answer503

LEMMA TimeoutInitInv == TimeoutInit => TimeoutInv
<1> SUFFICES ASSUME TimeoutInit PROVE TimeoutInv
  OBVIOUS
<1>1. TimeoutTypeOK
  <2>1. 200 \in Code /\ << >> \in Seq(1..MaxWrites)
    BY TimeoutAssumption
  <2>2. /\ response = [status |-> 200, committed |-> FALSE]
        /\ tw = [status |-> 200, wroteHeader |-> FALSE, buf |-> << >>, timedOut |-> FALSE]
        /\ wrote = NoOutput /\ real = NoOutput
    BY DEF TimeoutInit, Wrapped
  <2>3. response \in [status : Code, committed : BOOLEAN]
    BY <2>1, <2>2
  <2>4. tw \in TimeoutWriter
    BY <2>1, <2>2 DEF TimeoutWriter
  <2> QED
    BY <2>2, <2>3, <2>4, TimeoutTypes DEF TimeoutInit, TimeoutTypeOK
<1>2. wrote.body \in Seq(1..MaxWrites)
  BY DEF TimeoutInit, NoOutput
<1>3. Mirrors
  BY DEF TimeoutInit, Mirrors, NoOutput, Wrapped
<1>4. WholeAnswer
  BY DEF TimeoutInit, WholeAnswer
<1> QED
  BY <1>1, <1>2, <1>3, <1>4 DEF TimeoutInv

\* WriteHeader and Write of the timeoutWriter.
LEMMA WriterCalls ==
  ASSUME NEW w \in TimeoutWriter
  PROVE  /\ \A code \in Code :
              LET h == HeaderTo(w, code) IN
              /\ h \in TimeoutWriter /\ h.buf = w.buf /\ h.timedOut = w.timedOut
              /\ ~w.timedOut /\ ~w.wroteHeader => h.wroteHeader /\ h.status = code
         /\ \A chunk \in 1..MaxWrites :
              LET b == BufferTo(w, chunk) IN
              /\ b \in TimeoutWriter
              /\ b.wroteHeader = w.wroteHeader /\ b.status = w.status /\ b.timedOut = w.timedOut
              /\ ~w.timedOut => b.buf = Append(w.buf, chunk)
<1>1. ASSUME NEW code \in Code
      PROVE  LET h == HeaderTo(w, code) IN
             /\ h \in TimeoutWriter /\ h.buf = w.buf /\ h.timedOut = w.timedOut
             /\ ~w.timedOut /\ ~w.wroteHeader => h.wroteHeader /\ h.status = code
  <2>1. CASE w.timedOut \/ w.wroteHeader
    BY <2>1 DEF HeaderTo
  <2>2. CASE ~(w.timedOut \/ w.wroteHeader)
    <3>1. HeaderTo(w, code) = [w EXCEPT !.status = code, !.wroteHeader = TRUE]
      BY <2>2 DEF HeaderTo
    <3> QED
      BY <3>1 DEF TimeoutWriter
  <2> QED
    BY <2>1, <2>2
<1>2. ASSUME NEW chunk \in 1..MaxWrites
      PROVE  LET b == BufferTo(w, chunk) IN
             /\ b \in TimeoutWriter
             /\ b.wroteHeader = w.wroteHeader /\ b.status = w.status /\ b.timedOut = w.timedOut
             /\ ~w.timedOut => b.buf = Append(w.buf, chunk)
  <2>1. CASE w.timedOut
    BY <2>1 DEF BufferTo
  <2>2. CASE ~w.timedOut
    <3>1. BufferTo(w, chunk) = [w EXCEPT !.buf = Append(w.buf, chunk)]
      BY <2>2 DEF BufferTo
    <3>2. Append(w.buf, chunk) \in Seq(1..MaxWrites)
      BY DEF TimeoutWriter
    <3> QED
      BY <3>1, <3>2 DEF TimeoutWriter
  <2> QED
    BY <2>1, <2>2
<1> QED
  BY <1>1, <1>2

\* Commit on a live buffer sets status and header once.
LEMMA CommitEffect ==
  ASSUME TimeoutInv, NEW code \in Code
  PROVE  /\ Commit(code).response \in [status : Code, committed : BOOLEAN]
         /\ Commit(code).tw \in TimeoutWriter
         /\ Commit(code).response.committed
         /\ Commit(code).tw.buf = tw.buf /\ Commit(code).tw.timedOut = tw.timedOut
         /\ mw = "select" =>
              /\ Commit(code).tw.wroteHeader
              /\ Commit(code).tw.status = IF wrote.status = 0 THEN code ELSE wrote.status
<1>1. CASE response.committed
  BY <1>1 DEF TimeoutInv, TimeoutTypeOK, Mirrors, Commit
<1>2. CASE ~response.committed
  <2>1. /\ Commit(code).response = [status |-> code, committed |-> TRUE]
        /\ Commit(code).tw = HeaderTo(tw, code)
    BY <1>2 DEF Commit
  <2>2. mw = "select" => ~tw.wroteHeader /\ ~tw.timedOut /\ wrote.status = 0
    BY <1>2 DEF TimeoutInv, Mirrors, NoOutput
  <2> QED
    BY <2>1, <2>2, WriterCalls DEF TimeoutInv, TimeoutTypeOK
<1> QED
  BY <1>1, <1>2

LEMMA TimeoutStep == TimeoutInv /\ [TimeoutNext]_timeoutVars => TimeoutInv'
<1> SUFFICES ASSUME TimeoutInv, [TimeoutNext]_timeoutVars PROVE TimeoutInv'
  OBVIOUS
<1> USE DEF TimeoutInv
<1>1. ASSUME NEW code \in Code, HandlerWriteHeader(code) PROVE TimeoutInv'
  <2>1. response.committed' /\ ~response.committed
    BY <1>1, CommitEffect DEF HandlerWriteHeader
  <2>2. wrote' \in Output /\ wrote'.status = code /\ wrote'.body = wrote.body /\ code # 0
    BY <1>1, TimeoutAssumption DEF HandlerWriteHeader, Output, TimeoutTypeOK
  <2>3. TimeoutTypeOK'
    BY <1>1, <2>2, CommitEffect DEF HandlerWriteHeader, TimeoutTypeOK
  <2>4. mw' = "select" => Mirrors'
    <3> SUFFICES ASSUME mw = "select" PROVE Mirrors'
      BY <1>1 DEF HandlerWriteHeader
    <3>1. wrote.status = 0
      BY <2>1 DEF Mirrors, NoOutput
    <3> QED
      BY <1>1, <2>1, <2>2, <3>1, CommitEffect DEF HandlerWriteHeader, Mirrors
  <2>5. WholeAnswer'
    BY <1>1 DEF HandlerWriteHeader, WholeAnswer
  <2> QED
    BY <2>2, <2>3, <2>4, <2>5
<1>2. CASE HandlerWrite
  <2> DEFINE chunk == Len(wrote.body) + 1
             c == Commit(200)
  <2>1. chunk \in 1..MaxWrites /\ 200 \in Code
    BY <1>2, TimeoutAssumption DEF HandlerWrite
  <2>2. Append(wrote.body, chunk) \in Seq(1..MaxWrites)
    BY <2>1
  <2> HIDE DEF chunk
  <2>3. /\ wrote' = [status |-> IF wrote.status = 0 THEN 200 ELSE wrote.status,
                     body |-> Append(wrote.body, chunk)]
        /\ wrote' \in Output
    <3>1. wrote.status \in Code \cup {0, 503}
      BY DEF TimeoutTypeOK, Output
    <3>2. Append(wrote.body, chunk) \in Seq(0..MaxWrites)
      <4>1. 1..MaxWrites \subseteq 0..MaxWrites
        BY TimeoutAssumption
      <4> QED
        BY <2>2, <4>1, SeqMonotonic
    <3> QED
      BY <1>2, <2>1, <3>1, <3>2 DEF HandlerWrite, Output, chunk
  <2>4. tw' = BufferTo(c.tw, chunk) /\ response' = c.response
    BY <1>2 DEF HandlerWrite, chunk
  <2>5. TimeoutTypeOK'
    <3>1. tw' \in TimeoutWriter
      BY <2>1, <2>4, CommitEffect, WriterCalls
    <3> QED
      BY <1>2, <2>1, <2>3, <2>4, <3>1, CommitEffect DEF HandlerWrite, TimeoutTypeOK
  <2>6. mw' = "select" => Mirrors'
    <3> SUFFICES ASSUME mw = "select" PROVE Mirrors'
      BY <1>2 DEF HandlerWrite
    <3>1. Mirrors /\ ~c.tw.timedOut /\ c.tw.wroteHeader /\ c.response.committed
      BY <2>1, CommitEffect DEF Mirrors
    <3>2. /\ tw'.buf = Append(tw.buf, chunk) /\ ~tw'.timedOut /\ tw'.wroteHeader
          /\ tw'.status = IF wrote.status = 0 THEN 200 ELSE wrote.status
      <4>1. /\ c.tw \in TimeoutWriter /\ c.tw.buf = tw.buf
            /\ c.tw.status = IF wrote.status = 0 THEN 200 ELSE wrote.status
        BY <2>1, CommitEffect
      <4> HIDE DEF c
      <4>2. LET b == BufferTo(c.tw, chunk) IN
            /\ b.wroteHeader = c.tw.wroteHeader /\ b.status = c.tw.status
            /\ b.timedOut = c.tw.timedOut /\ b.buf = Append(c.tw.buf, chunk)
        BY <2>1, <3>1, <4>1, WriterCalls
      <4> QED
        BY <2>4, <3>1, <4>1, <4>2
    <3>3. /\ wrote'.status = IF wrote.status = 0 THEN 200 ELSE wrote.status
          /\ wrote'.body = Append(wrote.body, chunk)
      BY <2>3
    <3>4. real' = real /\ (response.committed)'
      BY <1>2, <2>4, <3>1 DEF HandlerWrite
    <3> QED
      BY <3>1, <3>2, <3>3, <3>4 DEF Mirrors
  <2>7. WholeAnswer'
    BY <1>2 DEF HandlerWrite, WholeAnswer
  <2> QED
    BY <2>2, <2>3, <2>5, <2>6, <2>7
<1>3. CASE HandlerReturn \/ HandlerPanic \/ DeadlinePasses \/ UNCHANGED timeoutVars
  BY <1>3 DEF HandlerReturn, HandlerPanic, DeadlinePasses, timeoutVars, TimeoutTypeOK, Mirrors,
              WholeAnswer
<1>4. CASE SelectDone
  <2>1. Mirrors
    BY <1>4 DEF SelectDone
  <2>2. real' = wrote
    <3>1. CASE tw.wroteHeader
      BY <1>4, <2>1, <3>1 DEF SelectDone, Mirrors, TimeoutTypeOK, Output
    <3>2. CASE ~tw.wroteHeader
      BY <1>4, <2>1, <3>2 DEF SelectDone, Mirrors
    <3> QED
      BY <3>1, <3>2
  <2>3. TimeoutTypeOK'
    <3>1. response' \in [status : Code, committed : BOOLEAN]
      BY <1>4, TimeoutAssumption DEF SelectDone, TimeoutTypeOK, TimeoutWriter, Wrapped
    <3> QED
      BY <1>4, <2>2, <3>1 DEF SelectDone, TimeoutTypeOK
  <2> QED
    BY <1>4, <2>2, <2>3 DEF SelectDone, WholeAnswer
<1>5. CASE SelectExpired
  <2>1. tw' \in TimeoutWriter
    BY <1>5 DEF SelectExpired, TimeoutTypeOK, TimeoutWriter
  <2> QED
    BY <1>5, <2>1 DEF SelectExpired, TimeoutTypeOK, WholeAnswer
<1>6. CASE SendTimeout
  BY <1>6, TimeoutTypes DEF SendTimeout, TimeoutTypeOK, WholeAnswer
<1> QED
  BY <1>1, <1>2, <1>3, <1>4, <1>5, <1>6 DEF TimeoutNext

\* The client gets the handler's whole output or the 503, whatever the handler
\* does before and after the deadline (timeout.go 38-74).
THEOREM TimeoutAnswersWhole == TimeoutSpec => []WholeAnswer
<1>1. TimeoutInv => WholeAnswer
  BY DEF TimeoutInv
<1> QED
  BY <1>1, TimeoutInitInv, TimeoutStep, PTL DEF TimeoutSpec
----------------------------------------------------------------------------
(* The scheduler *)

IsInside(g) == tick[g].pc \in {"run", "leave"}

\* The flag of a job is up exactly while one goroutine is inside its run.
SchedInv ==
  /\ SchedTypeOK
  /\ \A t \in Task : cron[t] <= started
  /\ \A g \in Tick : IsInside(g) => running[tick[g].job]
  /\ \A g, h \in Tick : IsInside(g) /\ IsInside(h) /\ tick[g].job = tick[h].job => g = h
  /\ \A t \in Task : running[t] => \E g \in Tick : IsInside(g) /\ tick[g].job = t

LEMMA FreeTickType ==
  FreeTick \in [pc : {"free", "enter", "run", "leave"}, job : Task] /\ FreeTick.pc = "free"
BY SchedulerAssumption DEF FreeTick

LEMMA SchedInitInv == SchedInit => SchedInv
<1> SUFFICES ASSUME SchedInit PROVE SchedInv
  OBVIOUS
<1>1. SchedTypeOK
  <2>1. tick \in [Tick -> [pc : {"free", "enter", "run", "leave"}, job : Task]]
    BY FreeTickType DEF SchedInit
  <2>2. cron \in [Task -> 0..MaxStarts] /\ started \in 0..MaxStarts
    BY SchedulerAssumption DEF SchedInit
  <2>3. running \in [Task -> BOOLEAN]
    BY DEF SchedInit
  <2>4. jobs \subseteq Task /\ engine \in BOOLEAN /\ cancelled \in BOOLEAN
    BY DEF SchedInit
  <2> QED
    BY <2>1, <2>2, <2>3, <2>4 DEF SchedTypeOK
<1>2. \A g \in Tick : ~IsInside(g)
  BY FreeTickType DEF SchedInit, IsInside
<1> QED
  BY <1>1, <1>2, SchedulerAssumption DEF SchedInit, SchedInv

\* A step of the engine's users and of the engine itself: no goroutine enters or
\* leaves a run.
LEMMA SchedOutside ==
  ASSUME SchedInv, SchedTypeOK', running' = running,
         \A t \in Task : (cron[t] <= started)',
         \A g \in Tick : (IsInside(g))' <=> IsInside(g),
         \A g \in Tick : IsInside(g) => tick'[g].job = tick[g].job
  PROVE  SchedInv'
<1>1. ASSUME NEW g \in Tick, (IsInside(g))' PROVE running'[tick'[g].job]
  <2>1. IsInside(g) /\ tick'[g].job = tick[g].job
    BY <1>1
  <2>2. running[tick[g].job]
    BY <2>1 DEF SchedInv
  <2> QED
    BY <2>1, <2>2
<1>2. \A g, h \in Tick : (IsInside(g))' /\ (IsInside(h))' /\ tick'[g].job = tick'[h].job => g = h
  BY DEF SchedInv
<1>3. \A t \in Task : running'[t] => \E g \in Tick : (IsInside(g))' /\ tick'[g].job = t
  BY DEF SchedInv
<1> QED
  BY <1>1, <1>2, <1>3 DEF SchedInv

LEMMA SchedNextInv == SchedInv /\ [SchedNext]_schedVars => SchedInv'
<1> SUFFICES ASSUME SchedInv, [SchedNext]_schedVars PROVE SchedInv'
  OBVIOUS
<1>0. SchedTypeOK
  BY DEF SchedInv
<1>1. ASSUME NEW t \in Task, Every(t) PROVE SchedInv'
  BY <1>1 DEF Every, SchedInv, SchedTypeOK, IsInside
<1>2. ASSUME NEW t \in Task, NEW g \in Tick, Fire(g, t) PROVE SchedInv'
  <2>1. SchedTypeOK'
    BY <1>0, <1>2 DEF Fire, SchedTypeOK
  <2>2. ~IsInside(g) /\ ~(IsInside(g))'
    BY <1>0, <1>2 DEF Fire, SchedTypeOK, IsInside
  <2>3. \A h \in Tick \ {g} : tick'[h] = tick[h]
    BY <1>0, <1>2 DEF Fire, SchedTypeOK
  <2> QED
    BY <1>2, <2>1, <2>2, <2>3, SchedOutside DEF Fire, SchedInv, IsInside
<1>3. CASE StartAll
  <2>1. started \in Nat /\ started' = started + 1 /\ started' \in 0..MaxStarts
    BY <1>0, <1>3, SchedulerAssumption DEF StartAll, SchedTypeOK
  <2>2. \A t \in Task : cron'[t] \in 0..MaxStarts /\ cron'[t] <= started'
    BY <1>0, <1>3, <2>1, SchedulerAssumption DEF StartAll, SchedTypeOK, SchedInv
  <2>3. SchedTypeOK'
    BY <1>0, <1>3, <2>1, <2>2 DEF StartAll, SchedTypeOK
  <2> QED
    BY <1>3, <2>2, <2>3, SchedOutside DEF StartAll, IsInside
<1>4. CASE StartFails
  <2>1. started \in Nat /\ started' = started + 1 /\ started' \in 0..MaxStarts
    BY <1>0, <1>4, SchedulerAssumption DEF StartFails, SchedTypeOK
  <2>2. PICK before \in SUBSET jobs :
          cron' = [t \in Task |-> IF t \in before THEN cron[t] + 1 ELSE cron[t]]
    BY <1>4 DEF StartFails
  <2>3. \A t \in Task : cron'[t] \in 0..MaxStarts /\ cron'[t] <= started'
    BY <1>0, <2>1, <2>2, SchedulerAssumption DEF SchedTypeOK, SchedInv
  <2>4. SchedTypeOK'
    BY <1>0, <1>4, <2>1, <2>2, <2>3 DEF StartFails, SchedTypeOK
  <2> QED
    BY <1>4, <2>3, <2>4, SchedOutside DEF StartFails, IsInside
<1>5. CASE StopScheduler
  BY <1>5 DEF StopScheduler, SchedInv, SchedTypeOK, IsInside
<1>6. ASSUME NEW g \in Tick, Enter(g) PROVE SchedInv'
  <2> DEFINE t == tick[g].job
  <2>1. t \in Task /\ ~IsInside(g)
    BY <1>0, <1>6 DEF SchedTypeOK, Enter, IsInside
  <2>2. \A h \in Tick \ {g} : tick'[h] = tick[h]
    BY <1>0, <1>6 DEF Enter, SchedTypeOK
  <2>3. CASE running[t]
    <3>1. tick' = [tick EXCEPT ![g] = FreeTick] /\ running' = running
      BY <1>0, <1>6, <2>1, <2>3 DEF Enter, SchedTypeOK
    <3>2. SchedTypeOK'
      BY <1>0, <1>6, <3>1, FreeTickType DEF Enter, SchedTypeOK
    <3>3. ~(IsInside(g))'
      BY <1>0, <3>1, FreeTickType DEF IsInside, SchedTypeOK
    <3> QED
      BY <1>6, <2>1, <2>2, <3>1, <3>2, <3>3, SchedOutside DEF Enter, SchedInv, IsInside
  <2>4. CASE ~running[t]
    <3>1. /\ tick' = [tick EXCEPT ![g] = [tick[g] EXCEPT !.pc = "run"]]
          /\ running' = [running EXCEPT ![t] = TRUE]
      BY <1>6, <2>4 DEF Enter
    <3>2. tick'[g].pc = "run" /\ tick'[g].job = t
      BY <1>0, <3>1 DEF SchedTypeOK
    <3>3. SchedTypeOK'
      BY <1>0, <1>6, <3>1 DEF Enter, SchedTypeOK
    <3>4. \A h \in Tick : IsInside(h) => tick[h].job # t
      BY <2>4 DEF SchedInv
    <3>5. \A h \in Tick \ {g} : (IsInside(h))' <=> IsInside(h)
      BY <2>2 DEF IsInside
    <3>6. (IsInside(g))'
      BY <3>2 DEF IsInside
    <3>7. \A u \in Task : running'[u] <=> u = t \/ running[u]
      BY <1>0, <3>1 DEF SchedTypeOK
    <3>8. \A h \in Tick : (IsInside(h))' => running'[tick'[h].job]
      BY <1>0, <2>1, <2>2, <3>2, <3>5, <3>7 DEF SchedInv, SchedTypeOK
    <3>9. \A h, i \in Tick : (IsInside(h))' /\ (IsInside(i))' /\ tick'[h].job = tick'[i].job => h = i
      BY <2>2, <3>2, <3>4, <3>5 DEF SchedInv
    <3>10. \A u \in Task : running'[u] => \E h \in Tick : (IsInside(h))' /\ tick'[h].job = u
      BY <2>1, <2>2, <3>2, <3>5, <3>6, <3>7 DEF SchedInv
    <3> QED
      BY <1>6, <3>3, <3>8, <3>9, <3>10 DEF SchedInv, Enter
  <2> QED
    BY <2>3, <2>4
<1>7. ASSUME NEW g \in Tick, Return(g) \/ Panic(g) PROVE SchedInv'
  <2>1. tick' = [tick EXCEPT ![g].pc = "leave"] /\ tick[g].pc = "run"
    BY <1>7 DEF Return, Panic
  <2>2. SchedTypeOK'
    BY <1>0, <1>7, <2>1 DEF Return, Panic, SchedTypeOK
  <2>3. \A h \in Tick : tick'[h].job = tick[h].job /\ ((IsInside(h))' <=> IsInside(h))
    BY <1>0, <2>1 DEF SchedTypeOK, IsInside
  <2> QED
    BY <1>7, <2>2, <2>3, SchedOutside DEF Return, Panic, SchedInv
<1>8. ASSUME NEW g \in Tick, Leave(g) PROVE SchedInv'
  <2> DEFINE t == tick[g].job
  <2>1. t \in Task /\ IsInside(g)
    BY <1>0, <1>8 DEF SchedTypeOK, Leave, IsInside
  <2>2. \A h \in Tick \ {g} : tick'[h] = tick[h]
    BY <1>0, <1>8 DEF Leave, SchedTypeOK
  <2>3. tick'[g] = FreeTick
    BY <1>0, <1>8 DEF Leave, SchedTypeOK
  <2>4. SchedTypeOK'
    BY <1>0, <1>8, FreeTickType DEF Leave, SchedTypeOK
  <2>5. \A h \in Tick : (IsInside(h))' <=> IsInside(h) /\ h # g
    BY <2>2, <2>3, FreeTickType DEF IsInside
  <2>6. \A u \in Task : running'[u] <=> u # t /\ running[u]
    BY <1>0, <1>8 DEF Leave, SchedTypeOK
  <2>7. \A h \in Tick : IsInside(h) /\ h # g => tick[h].job # t
    BY <2>1 DEF SchedInv
  <2>8. \A h \in Tick : (IsInside(h))' => running'[tick'[h].job]
    BY <1>0, <2>2, <2>5, <2>6, <2>7 DEF SchedInv, SchedTypeOK
  <2>9. \A u \in Task : running'[u] => \E h \in Tick : (IsInside(h))' /\ tick'[h].job = u
    BY <2>2, <2>5, <2>6 DEF SchedInv
  <2>10. \A h, i \in Tick : (IsInside(h))' /\ (IsInside(i))' /\ tick'[h].job = tick'[i].job => h = i
    BY <2>2, <2>5 DEF SchedInv
  <2> QED
    BY <1>8, <2>4, <2>8, <2>9, <2>10 DEF SchedInv, Leave
<1>9. CASE UNCHANGED schedVars
  BY <1>9 DEF schedVars, SchedInv, SchedTypeOK, IsInside
<1> QED
  BY <1>1, <1>2, <1>3, <1>4, <1>5, <1>6, <1>7, <1>8, <1>9 DEF SchedNext, Running

\* A job never overlaps with itself and its flag is up only while it runs,
\* whatever fires, panics or is started twice (scheduler.go 108-137).
THEOREM SchedulerNoOverlap == SchedSpec => []NoSelfOverlap
<1>1. SchedInv => NoSelfOverlap
  <2> SUFFICES ASSUME SchedInv, NEW t \in Task
               PROVE  Cardinality(Inside(t)) = (IF running[t] THEN 1 ELSE 0)
    BY DEF NoSelfOverlap
  <2>1. CASE running[t]
    <3>1. PICK g \in Tick : IsInside(g) /\ tick[g].job = t
      BY <2>1 DEF SchedInv
    <3>2. Inside(t) = {g}
      BY <3>1 DEF SchedInv, Inside, IsInside
    <3> QED
      BY <2>1, <3>2, FS_Singleton
  <2>2. CASE ~running[t]
    <3>1. Inside(t) = {}
      BY <2>2 DEF SchedInv, Inside, IsInside
    <3> QED
      BY <2>2, <3>1, FS_EmptySet
  <2> QED
    BY <2>1, <2>2
<1> QED
  BY <1>1, SchedInitInv, SchedNextInv, PTL DEF SchedSpec
----------------------------------------------------------------------------
(* The health endpoint *)

\* The checks Run copied have different names.
DistinctNames == \A i, j \in 1..Len(checking) : checks[i] = checks[j] => i = j

\* The positions whose goroutine has stored its result.
Returned == {i \in 1..Len(checking) : checking[i] # "todo"}

\* The map has the returned checks' names and, if names differ, their results;
\* an answer was made when all were back.
HealthInv ==
  /\ checks \in Seq(CheckName)
  /\ checking \in Seq(HealthStatus \cup {"todo"}) /\ Len(checking) <= Len(checks)
  /\ probe \in {"idle", "running", "answered"}
  /\ probe = "idle" => checking = << >>
  /\ DOMAIN results = {checks[i] : i \in Returned}
  /\ \A n \in DOMAIN results : results[n] \in HealthStatus
  /\ DistinctNames => \A i \in Returned : results[checks[i]] = checking[i]
  /\ probe = "answered" =>
       /\ AllBack
       /\ report.says = results /\ report.status = Overall(results)
       /\ report.code = IF Overall(results) = "fail" THEN 503 ELSE 200

LEMMA HealthInitInv == HealthInit => HealthInv
<1> SUFFICES ASSUME HealthInit PROVE HealthInv
  OBVIOUS
<1>1. checks = << >> /\ checking = << >> /\ results = << >> /\ probe = "idle"
  BY DEF HealthInit
<1>2. Len(checking) = 0 /\ Returned = {} /\ DOMAIN results = {}
  BY <1>1 DEF Returned
<1> QED
  BY <1>1, <1>2 DEF HealthInv

\* A step that leaves the probe alone, and the names of the checks it copied.
LEMMA HealthOutside ==
  ASSUME HealthInv, UNCHANGED <<probe, checking, results, report>>,
         checks' \in Seq(CheckName), Len(checking) <= Len(checks'),
         \A i \in 1..Len(checking) : checks'[i] = checks[i]
  PROVE  HealthInv'
<1>1. Returned' = Returned /\ (DistinctNames' <=> DistinctNames) /\ (AllBack' <=> AllBack)
  BY DEF Returned, DistinctNames, AllBack
<1>2. {checks[i] : i \in Returned}' = {checks[i] : i \in Returned}
  BY <1>1 DEF Returned
<1>3. \A i \in Returned : checks'[i] = checks[i]
  BY DEF Returned
<1> QED
  BY <1>1, <1>2, <1>3 DEF HealthInv

LEMMA HealthNextInv == HealthInv /\ [HealthNext]_healthVars => HealthInv'
<1> SUFFICES ASSUME HealthInv, [HealthNext]_healthVars PROVE HealthInv'
  OBVIOUS
<1>0. /\ checks \in Seq(CheckName) /\ Len(checks) \in Nat
      /\ checking \in Seq(HealthStatus \cup {"todo"}) /\ Len(checking) \in Nat
      /\ Len(checking) <= Len(checks) /\ DOMAIN checking = 1..Len(checking)
  BY DEF HealthInv
<1>1. ASSUME NEW n \in CheckName, RegisterCheck(n) PROVE HealthInv'
  <2>1. checks' = Append(checks, n) /\ checks' \in Seq(CheckName)
    BY <1>0, <1>1 DEF RegisterCheck
  <2>2. Len(checks') = Len(checks) + 1 /\ \A i \in 1..Len(checks) : checks'[i] = checks[i]
    BY <1>0, <2>1, AppendProperties
  <2>3. Len(checking) <= Len(checks') /\ \A i \in 1..Len(checking) : checks'[i] = checks[i]
    BY <1>0, <2>2
  <2> QED
    BY <1>1, <2>1, <2>3, HealthOutside DEF RegisterCheck
<1>2. CASE RunChecks
  <2>1. checking' = [i \in 1..Len(checks) |-> "todo"]
    BY <1>0, <1>2 DEF RunChecks
  <2>2. checking' \in Seq(HealthStatus \cup {"todo"}) /\ Len(checking') = Len(checks)
    BY <1>0, <2>1
  <2>3. Returned' = {}
    BY <2>1, <2>2 DEF Returned
  <2>4. Returned = {}
    BY <1>2 DEF RunChecks, HealthInv, Returned
  <2> QED
    BY <1>0, <1>2, <2>2, <2>3, <2>4 DEF RunChecks, HealthInv
<1>3. ASSUME NEW i \in 1..MaxChecks, NEW st \in HealthStatus, CheckReturns(i, st) PROVE HealthInv'
  <2>1. /\ i \in 1..Len(checking) /\ checking[i] = "todo" /\ probe = "running"
        /\ checking' = [checking EXCEPT ![i] = st] /\ results' = Stored(checks[i], st)
    BY <1>0, <1>3 DEF CheckReturns, ResultName
  <2>2. /\ checking' \in Seq(HealthStatus \cup {"todo"}) /\ Len(checking') = Len(checking)
        /\ \A j \in 1..Len(checking) : checking'[j] = IF j = i THEN st ELSE checking[j]
    BY <1>0, <2>1
  <2>3. st # "todo"
    BY DEF HealthStatus
  <2>4. Returned' = Returned \cup {i} /\ i \notin Returned
    BY <2>1, <2>2, <2>3 DEF Returned
  <2>5. /\ DOMAIN results' = DOMAIN results \cup {checks[i]}
        /\ \A n \in DOMAIN results' : results'[n] = IF n = checks[i] THEN st ELSE results[n]
    BY <2>1 DEF Stored
  <2>6. DOMAIN results' = {checks[j] : j \in Returned'}
    BY <2>4, <2>5 DEF HealthInv
  <2>7. \A n \in DOMAIN results' : results'[n] \in HealthStatus
    BY <2>5 DEF HealthInv
  <2>8. ASSUME DistinctNames', NEW j \in Returned' PROVE results'[checks[j]] = checking'[j]
    <3>1. CASE j = i
      BY <2>1, <2>2, <2>5, <3>1
    <3>2. CASE j # i
      <4>1. j \in Returned /\ j \in 1..Len(checking) /\ DistinctNames
        BY <1>3, <2>2, <2>4, <2>8, <3>2 DEF Returned, DistinctNames, CheckReturns
      <4>2. checks[j] # checks[i] /\ checks[j] \in DOMAIN results
        BY <2>1, <3>2, <4>1 DEF DistinctNames, HealthInv
      <4> QED
        BY <2>2, <2>5, <3>2, <4>1, <4>2 DEF HealthInv
    <3> QED
      BY <3>1, <3>2
  <2> QED
    BY <1>0, <1>3, <2>1, <2>2, <2>6, <2>7, <2>8 DEF HealthInv, CheckReturns
<1>4. CASE Report
  <2>1. AllBack' /\ Returned' = Returned /\ (DistinctNames' <=> DistinctNames)
    BY <1>4 DEF Report, AllBack, Returned, DistinctNames
  <2>2. /\ report'.says = results /\ report'.status = Overall(results)
        /\ report'.code = IF Overall(results) = "fail" THEN 503 ELSE 200
    BY <1>4 DEF Report
  <2> QED
    BY <1>4, <2>1, <2>2 DEF Report, HealthInv
<1>5. CASE NextProbe
  <2>1. checking' = << >> /\ results' = << >> /\ probe' = "idle" /\ checks' = checks
    BY <1>5 DEF NextProbe
  <2>2. /\ Len(checking') = 0 /\ checking' \in Seq(HealthStatus \cup {"todo"})
        /\ Returned' = {} /\ DOMAIN results' = {}
    BY <2>1 DEF Returned
  <2> QED
    BY <1>0, <2>1, <2>2 DEF HealthInv
<1>6. CASE UNCHANGED healthVars
  BY <1>0, <1>6, HealthOutside DEF healthVars
<1> QED
  BY <1>1, <1>2, <1>3, <1>4, <1>5, <1>6 DEF HealthNext, AnyReturns

LEMMA HealthInvTruth == HealthInv => HealthTruth
<1> SUFFICES ASSUME HealthInv, probe = "answered",
                    IsInjective(SubSeq(checks, 1, Len(checking)))
             PROVE  /\ DOMAIN report.says = {checks[i] : i \in DOMAIN checking}
                    /\ \A i \in DOMAIN checking : report.says[checks[i]] = checking[i]
                    /\ (\E i \in DOMAIN checking : checking[i] = "fail") => report.code = 503
                    /\ (\A i \in DOMAIN checking : checking[i] = "pass") => report.code = 200
                    /\ report.status = "pass" <=> \A i \in DOMAIN checking : checking[i] = "pass"
  BY DEF HealthTruth
<1> DEFINE n == Len(checking)
<1>1. /\ checks \in Seq(CheckName) /\ n \in Nat /\ n <= Len(checks) /\ DOMAIN checking = 1..n
      /\ report.says = results /\ report.status = Overall(results)
      /\ report.code = IF Overall(results) = "fail" THEN 503 ELSE 200
  BY DEF HealthInv
<1>2. DistinctNames
  <2>1. /\ Len(SubSeq(checks, 1, n)) = n
        /\ \A i \in 1..n : SubSeq(checks, 1, n)[i] = checks[i]
    BY <1>1
  <2>2. DOMAIN SubSeq(checks, 1, n) = 1..n
    BY <1>1, <2>1
  <2> QED
    BY <2>1, <2>2 DEF IsInjective, DistinctNames
<1>3. Returned = 1..n
  BY <1>1 DEF HealthInv, AllBack, Returned
<1>4. DOMAIN results = {checks[i] : i \in 1..n} /\ \A i \in 1..n : results[checks[i]] = checking[i]
  BY <1>2, <1>3 DEF HealthInv
<1>5. {results[m] : m \in DOMAIN results} = {checking[i] : i \in 1..n}
  BY <1>4
<1>6. \A i \in 1..n : checking[i] \in HealthStatus
  BY <1>1 DEF HealthInv, AllBack
<1>7. Overall(results) = "fail" <=> \E i \in 1..n : checking[i] = "fail"
  BY <1>5 DEF Overall
<1>8. Overall(results) = "pass" <=> \A i \in 1..n : checking[i] = "pass"
  BY <1>5, <1>6 DEF Overall, HealthStatus
<1>9. DOMAIN report.says = {checks[i] : i \in DOMAIN checking}
  BY <1>1, <1>4
<1>10. \A i \in DOMAIN checking : report.says[checks[i]] = checking[i]
  BY <1>1, <1>4
<1>11. /\ (\E i \in DOMAIN checking : checking[i] = "fail") => report.code = 503
       /\ (\A i \in DOMAIN checking : checking[i] = "pass") => report.code = 200
  BY <1>1, <1>7, <1>8
<1>12. report.status = "pass" <=> \A i \in DOMAIN checking : checking[i] = "pass"
  BY <1>1, <1>8
<1> QED
  BY <1>9, <1>10, <1>11, <1>12

\* An answer speaks of every check Run copied with the result it returned, and
\* is 503 if one failed and 200 if all passed, in whatever order the goroutines
\* finish and whatever is registered meanwhile (health.go 61-144).
THEOREM HealthTellsTruth == HealthSpec => []HealthTruth
BY HealthInitInv, HealthNextInv, HealthInvTruth, PTL DEF HealthSpec

----------------------------------------------------------------------------
(* The job queue.  A job is in one place: the ids in line, delayed, held,  *)
(* buried and done are disjoint, and within each an id occurs once.  What  *)
(* a payload says of its attempts is what the job has had, which makes a   *)
(* burial come neither early nor late.                                     *)

Pay == [id : Job, Attempts : Nat, wait : Int]
HoldPC == {"process", "handle", "bury", "release"}
FreePC == {"wait", "promote", "pop", "exited"}
WorkerRec ==
  [pc : FreePC, q : 1..Len(Queues), p : {NoPayload}] \cup [pc : HoldPC, q : 1..Len(Queues), p : Pay]

LineTypes(it) == it \in [QueueName -> Seq(Pay)]
SetTypes(de) == de \in [QueueName -> SUBSET Pay] /\ \A q \in QueueName : IsFiniteSet(de[q])

LineIds(it) == {j \in Job : \E q \in QueueName : \E i \in 1..Len(it[q]) : it[q][i].id = j}
SetIds(de) == {j \in Job : \E q \in QueueName : \E p \in de[q] : p.id = j}
HeldIds(wk) == {j \in Job : \E w \in Worker : wk[w].p.id = j}
DeadIds(dd) == {j \in Job : \E i \in 1..Len(dd) : dd[i] = j}

LineOnce(it) ==
  \A q, r \in QueueName : \A i \in 1..Len(it[q]), k \in 1..Len(it[r]) :
    it[q][i].id = it[r][k].id => q = r /\ i = k
SetOnce(de) ==
  \A q, r \in QueueName : \A p \in de[q], o \in de[r] : p.id = o.id => q = r /\ p = o
HeldOnce(wk) ==
  \A w, v \in Worker : wk[w].p.id \in Job /\ wk[w].p.id = wk[v].p.id => w = v
DeadOnce(dd) == \A i, k \in 1..Len(dd) : dd[i] = dd[k] => i = k

\* A payload that waits has attempts left, and its job had as many as it says.
Fresh(p, at) == p.Attempts < MaxAttempts /\ (p.id \notin Unknown => at[p.id] = p.Attempts)

LineFresh(it, at) == \A q \in QueueName : \A i \in 1..Len(it[q]) : Fresh(it[q][i], at)
SetFresh(de, at) == \A q \in QueueName : \A p \in de[q] : Fresh(p, at)
HeldRight(o, at) ==
  /\ o.pc \in {"process", "release"} => Fresh(o.p, at)
  /\ o.pc = "handle" => /\ o.p.id \notin Unknown /\ o.p.Attempts <= MaxAttempts
                        /\ at[o.p.id] = o.p.Attempts
  /\ o.pc = "bury" => o.p.id \in Unknown \/ at[o.p.id] = MaxAttempts
DeadRight(dd, at) == \A i \in 1..Len(dd) : dd[i] \in Unknown \/ at[dd[i]] = MaxAttempts

\* The queues, the workers and the dead letters, each by itself.
QueueGood(it, de, at) ==
  /\ LineTypes(it) /\ LineOnce(it) /\ LineFresh(it, at)
  /\ SetTypes(de) /\ SetOnce(de) /\ SetFresh(de, at)
  /\ \A j \in LineIds(it) : j \notin SetIds(de)
QueueIds(it, de) == LineIds(it) \cup SetIds(de)

WorkGood(wk, at) ==
  wk \in [Worker -> WorkerRec] /\ HeldOnce(wk) /\ \A w \in Worker : HeldRight(wk[w], at)

DeadGood(dd, at) == dd \in Seq(Job) /\ DeadOnce(dd) /\ DeadRight(dd, at)

Apart(Q, H, D, E) ==
  \A j \in Job : /\ j \in Q => j \notin H /\ j \notin D /\ j \notin E
                 /\ j \in H => j \notin D /\ j \notin E
                 /\ j \in D => j \notin E

AllIds == QueueIds(items, delayed) \cup HeldIds(worker) \cup DeadIds(dead) \cup succeeded

KeptInv ==
  /\ AllIds \subseteq dispatched
  /\ driver = "memory" \/ (~stopped /\ crashes = 0) => dispatched \subseteq AllIds
  /\ \A j \in Job : j \notin dispatched => attempts[j] = 0

JobInv ==
  /\ driver \in {"memory", "redis"} /\ stopped \in BOOLEAN /\ crashes \in Nat
  /\ dispatched \subseteq Job /\ succeeded \subseteq Job /\ attempts \in [Job -> Nat]
  /\ QueueGood(items, delayed, attempts)
  /\ WorkGood(worker, attempts)
  /\ DeadGood(dead, attempts)
  /\ Apart(QueueIds(items, delayed), HeldIds(worker), DeadIds(dead), succeeded)
  /\ KeptInv

LEMMA InPlaces ==
  ASSUME NEW j \in Job, NEW x \in Places(j)
  PROVE  \/ \E q \in QueueName : \E i \in 1..Len(items[q]) : items[q][i].id = j /\ x = <<"line", q, i>>
         \/ \E q \in QueueName : \E p \in delayed[q] : p.id = j /\ x = <<"delayed", q, p>>
         \/ \E w \in Worker : worker[w].p.id = j /\ x = <<"held", w>>
         \/ \E i \in 1..Len(dead) : dead[i] = j /\ x = <<"dead", i>>
         \/ j \in succeeded /\ x = <<"done", j>>
<1>1. \/ x \in UNION {QueuePlaces(q, j) : q \in QueueName}
      \/ x \in {<<"held", w>> : w \in {w \in Worker : worker[w].p.id = j}}
      \/ x \in {<<"dead", i>> : i \in {i \in 1..Len(dead) : dead[i] = j}}
      \/ x \in {<<"done", i>> : i \in succeeded \cap {j}}
  BY Zenon DEF Places
<1>2. CASE x \in UNION {QueuePlaces(q, j) : q \in QueueName}
  <2>1. PICK q \in QueueName : x \in QueuePlaces(q, j)
    BY <1>2
  <2> QED BY <2>1, Zenon DEF QueuePlaces
<1>3. CASE x \in {<<"held", w>> : w \in {w \in Worker : worker[w].p.id = j}}
  BY <1>3, Zenon
<1>4. CASE x \in {<<"dead", i>> : i \in {i \in 1..Len(dead) : dead[i] = j}}
  BY <1>4, Zenon
<1>5. CASE x \in {<<"done", i>> : i \in succeeded \cap {j}}
  BY <1>5, Zenon
<1> QED BY <1>1, <1>2, <1>3, <1>4, <1>5

LEMMA QueuedPlace ==
  ASSUME NEW j, NEW q \in QueueName, NEW x \in QueuePlaces(q, j)
  PROVE  x \in Places(j)
<1>1. x \in UNION {QueuePlaces(r, j) : r \in QueueName}
  OBVIOUS
<1> QED BY <1>1, Zenon DEF Places

LEMMA JobInvSuffices == JobInv => JobsAccounted
<1> SUFFICES ASSUME JobInv PROVE JobsAccounted
  OBVIOUS
<1>1. NoDuplicate
  <2> SUFFICES ASSUME NEW j \in Job, NEW x \in Places(j), NEW y \in Places(j) PROVE x = y
    BY DEF NoDuplicate
  <2>0. /\ LineOnce(items) /\ SetOnce(delayed) /\ HeldOnce(worker) /\ DeadOnce(dead)
        /\ \A i \in LineIds(items) : i \notin SetIds(delayed)
        /\ Apart(QueueIds(items, delayed), HeldIds(worker), DeadIds(dead), succeeded)
    BY DEF JobInv, QueueGood, WorkGood, DeadGood
  <2>1. CASE j \in LineIds(items)
    <3>1. j \notin SetIds(delayed) /\ j \notin HeldIds(worker) /\ j \notin DeadIds(dead) /\ j \notin succeeded
      BY <2>0, <2>1 DEF Apart, QueueIds
    <3>2. \E q \in QueueName : \E i \in 1..Len(items[q]) : items[q][i].id = j /\ x = <<"line", q, i>>
      BY <3>1, InPlaces DEF SetIds, HeldIds, DeadIds
    <3>3. \E q \in QueueName : \E i \in 1..Len(items[q]) : items[q][i].id = j /\ y = <<"line", q, i>>
      BY <3>1, InPlaces DEF SetIds, HeldIds, DeadIds
    <3> QED BY <2>0, <3>2, <3>3 DEF LineOnce
  <2>2. CASE j \in SetIds(delayed)
    <3>1. j \notin LineIds(items) /\ j \notin HeldIds(worker) /\ j \notin DeadIds(dead) /\ j \notin succeeded
      BY <2>0, <2>2 DEF Apart, QueueIds
    <3>2. \E q \in QueueName : \E p \in delayed[q] : p.id = j /\ x = <<"delayed", q, p>>
      BY <3>1, InPlaces DEF LineIds, HeldIds, DeadIds
    <3>3. \E q \in QueueName : \E p \in delayed[q] : p.id = j /\ y = <<"delayed", q, p>>
      BY <3>1, InPlaces DEF LineIds, HeldIds, DeadIds
    <3> QED BY <2>0, <3>2, <3>3 DEF SetOnce
  <2>3. CASE j \in HeldIds(worker)
    <3>1. j \notin LineIds(items) /\ j \notin SetIds(delayed) /\ j \notin DeadIds(dead) /\ j \notin succeeded
      BY <2>0, <2>3 DEF Apart, QueueIds
    <3>2. \E w \in Worker : worker[w].p.id = j /\ x = <<"held", w>>
      BY <3>1, InPlaces DEF LineIds, SetIds, DeadIds
    <3>3. \E w \in Worker : worker[w].p.id = j /\ y = <<"held", w>>
      BY <3>1, InPlaces DEF LineIds, SetIds, DeadIds
    <3> QED BY <2>0, <3>2, <3>3 DEF HeldOnce
  <2>4. CASE j \in DeadIds(dead)
    <3>1. j \notin LineIds(items) /\ j \notin SetIds(delayed) /\ j \notin HeldIds(worker) /\ j \notin succeeded
      BY <2>0, <2>4 DEF Apart, QueueIds
    <3>2. \E i \in 1..Len(dead) : dead[i] = j /\ x = <<"dead", i>>
      BY <3>1, InPlaces DEF LineIds, SetIds, HeldIds
    <3>3. \E i \in 1..Len(dead) : dead[i] = j /\ y = <<"dead", i>>
      BY <3>1, InPlaces DEF LineIds, SetIds, HeldIds
    <3> QED BY <2>0, <3>2, <3>3 DEF DeadOnce
  <2>5. CASE j \notin LineIds(items) /\ j \notin SetIds(delayed) /\ j \notin HeldIds(worker) /\ j \notin DeadIds(dead)
    <3>1. x = <<"done", j>>
      BY <2>5, InPlaces DEF LineIds, SetIds, HeldIds, DeadIds
    <3>2. y = <<"done", j>>
      BY <2>5, InPlaces DEF LineIds, SetIds, HeldIds, DeadIds
    <3> QED BY <3>1, <3>2
  <2> QED BY <2>1, <2>2, <2>3, <2>4, <2>5
<1>2. DeadOnlyWhenExhausted
  <2> SUFFICES ASSUME NEW i \in 1..Len(dead)
               PROVE  (dead[i] \in Unknown \/ attempts[dead[i]] = MaxAttempts) /\ dead[i] \notin succeeded
    BY DEF DeadOnlyWhenExhausted
  <2>1. dead[i] \in Job
    BY DEF JobInv, DeadGood
  <2>2. dead[i] \in DeadIds(dead)
    BY <2>1 DEF DeadIds
  <2>3. dead[i] \notin succeeded
    BY <2>1, <2>2 DEF JobInv, Apart
  <2> QED BY <2>3 DEF JobInv, DeadGood, DeadRight
<1>3. NoJobLost
  <2> SUFFICES ASSUME driver = "memory" \/ Undisturbed, NEW j \in dispatched PROVE Places(j) # {}
    BY DEF NoJobLost, Accounted
  <2>1. j \in AllIds /\ j \in Job
    BY DEF JobInv, KeptInv, Undisturbed
  <2>2. CASE j \in LineIds(items)
    <3>0. PICK q \in QueueName : \E i \in 1..Len(items[q]) : items[q][i].id = j
      BY <2>2 DEF LineIds
    <3>1. PICK i \in 1..Len(items[q]) : items[q][i].id = j
      BY <3>0
    <3>2. <<"line", q, i>> \in QueuePlaces(q, j)
      BY <3>1, Zenon DEF QueuePlaces
    <3> QED BY <3>2, QueuedPlace
  <2>3. CASE j \in SetIds(delayed)
    <3>0. PICK q \in QueueName : \E p \in delayed[q] : p.id = j
      BY <2>3 DEF SetIds
    <3>1. PICK p \in delayed[q] : p.id = j
      BY <3>0
    <3>2. <<"delayed", q, p>> \in QueuePlaces(q, j)
      BY <3>1, Zenon DEF QueuePlaces
    <3> QED BY <3>2, QueuedPlace
  <2>4. CASE j \in HeldIds(worker)
    <3>1. PICK w \in Worker : worker[w].p.id = j
      BY <2>4 DEF HeldIds
    <3>2. <<"held", w>> \in Places(j)
      BY <3>1, Zenon DEF Places
    <3> QED BY <3>2
  <2>5. CASE j \in DeadIds(dead)
    <3>1. PICK i \in 1..Len(dead) : dead[i] = j
      BY <2>5 DEF DeadIds
    <3>2. <<"dead", i>> \in Places(j)
      BY <3>1, Zenon DEF Places
    <3> QED BY <3>2
  <2>6. CASE j \in succeeded
    <3>1. <<"done", j>> \in Places(j)
      BY <2>6, Zenon DEF Places
    <3> QED BY <3>1
  <2> QED BY <2>1, <2>2, <2>3, <2>4, <2>5, <2>6 DEF AllIds, QueueIds
<1> QED BY <1>1, <1>2, <1>3 DEF JobsAccounted

----------------------------------------------------------------------------
(* What the drivers do to the payloads in line *)

LEMMA RemovedAt ==
  ASSUME NEW S, NEW s \in Seq(S), NEW k \in 1..Len(s)
  PROVE  /\ RemoveAt(s, k) \in Seq(S) /\ Len(RemoveAt(s, k)) = Len(s) - 1
         /\ \A i \in 1..(Len(s) - 1) : RemoveAt(s, k)[i] = IF i < k THEN s[i] ELSE s[i + 1]
<1> DEFINE a == SubSeq(s, 1, k - 1)
           b == SubSeq(s, k + 1, Len(s))
<1>0. Len(s) \in Nat /\ k \in Nat /\ k >= 1 /\ k <= Len(s)
  OBVIOUS
<1>1. a \in Seq(S) /\ Len(a) = k - 1 /\ \A i \in 1..(k - 1) : a[i] = s[i]
  <2>1. \A i \in 1..(k - 1) : s[i] \in S
    BY <1>0
  <2>2. 1 \in Int /\ k - 1 \in Int
    BY <1>0
  <2>3. /\ SubSeq(s, 1, k - 1) \in Seq(S)
        /\ Len(SubSeq(s, 1, k - 1)) = IF 1 <= k - 1 THEN (k - 1) - 1 + 1 ELSE 0
        /\ \A i \in 1..((k - 1) - 1 + 1) : SubSeq(s, 1, k - 1)[i] = s[1 + i - 1]
    BY <2>1, <2>2, SubSeqProperties
  <2> QED BY <1>0, <2>3
<1>2. b \in Seq(S) /\ Len(b) = Len(s) - k /\ \A i \in 1..(Len(s) - k) : b[i] = s[k + i]
  <2>1. \A i \in (k + 1)..Len(s) : s[i] \in S
    BY <1>0
  <2>2. k + 1 \in Int /\ Len(s) \in Int
    BY <1>0
  <2>3. /\ SubSeq(s, k + 1, Len(s)) \in Seq(S)
        /\ Len(SubSeq(s, k + 1, Len(s))) = IF k + 1 <= Len(s) THEN Len(s) - (k + 1) + 1 ELSE 0
        /\ \A i \in 1..(Len(s) - (k + 1) + 1) : SubSeq(s, k + 1, Len(s))[i] = s[(k + 1) + i - 1]
    BY <2>1, <2>2, SubSeqProperties
  <2>4. \A i \in 1..(Len(s) - k) : (k + 1) + i - 1 = k + i /\ i \in 1..(Len(s) - (k + 1) + 1)
    BY <1>0
  <2> QED BY <1>0, <2>3, <2>4
<1>3. RemoveAt(s, k) = a \o b
  BY DEF RemoveAt
<1> HIDE DEF a, b
<1>4. /\ a \o b \in Seq(S) /\ Len(a \o b) = Len(a) + Len(b)
      /\ \A i \in 1..(Len(a) + Len(b)) : (a \o b)[i] = IF i <= Len(a) THEN a[i] ELSE b[i - Len(a)]
  BY <1>1, <1>2, ConcatProperties
<1>5. ASSUME NEW i \in 1..(Len(s) - 1) PROVE (a \o b)[i] = IF i < k THEN s[i] ELSE s[i + 1]
  <2>1. CASE i < k
    BY <1>0, <1>1, <1>2, <1>4, <2>1
  <2>2. CASE ~(i < k)
    <3>1. i - (k - 1) \in 1..(Len(s) - k) /\ k + (i - (k - 1)) = i + 1
      BY <1>0, <2>2
    <3>2. i \in 1..(Len(a) + Len(b)) /\ ~(i <= Len(a)) /\ i - Len(a) = i - (k - 1)
      BY <1>0, <1>1, <1>2, <2>2
    <3>3. (a \o b)[i] = b[i - (k - 1)]
      BY <1>4, <3>2
    <3>4. b[i - (k - 1)] = s[i + 1]
      BY <1>2, <3>1
    <3> QED BY <2>2, <3>3, <3>4
  <2> QED BY <2>1, <2>2
<1> QED BY <1>0, <1>1, <1>2, <1>3, <1>4, <1>5

\* The sequence s has the elements of S, each of them once.
Lists(s, S, T) ==
  /\ s \in Seq(T) /\ Len(s) \in Nat
  /\ \A i \in 1..Len(s) : s[i] \in S
  /\ \A i, k \in 1..Len(s) : s[i] = s[k] => i = k
  /\ \A x \in S : \E i \in 1..Len(s) : s[i] = x

LEMMA SetListed ==
  ASSUME NEW T, NEW S, S \subseteq T, IsFiniteSet(S)
  PROVE  Lists(SetToSeq(S), S, T)
<1> DEFINE n == Cardinality(S)
           f == SetToSeq(S)
<1>1. n \in Nat /\ ExistsBijection(1..n, S)
  BY FS_CardinalityType
<1>2. \E g \in [1..n -> S] : IsInjective(g)
  BY <1>1 DEF ExistsBijection, Bijection, Injection
<1>3. f \in [1..n -> S] /\ IsInjective(f)
  BY <1>2 DEF SetToSeq
<1>4. f \in Injection(1..n, S)
  BY <1>3 DEF Injection
<1> HIDE DEF f
<1>5. Cardinality(1..n) = n
  BY <1>1, FS_Interval
<1>6. f \in Surjection(1..n, S)
  <2> HIDE DEF n
  <2>1. n = Cardinality(S)
    BY DEF n
  <2> QED BY <1>4, <1>5, <2>1, FS_Injection
<1>7. \A x \in S : \E i \in 1..n : f[i] = x
  BY <1>6 DEF Surjection
<1> HIDE DEF n
<1>8. f \in [1..n -> T]
  BY <1>3
<1>9. f \in Seq(T) /\ Len(f) = n
  BY <1>1, <1>8
<1>10. \A i, k \in 1..n : f[i] = f[k] => i = k
  BY <1>3 DEF IsInjective
<1> QED BY <1>1, <1>3, <1>7, <1>9, <1>10 DEF f, Lists

\* A payload comes to the end of a line.
LineGains(it, new, p, at) ==
  /\ LineTypes(new) /\ LineOnce(new) /\ LineFresh(new, at)
  /\ \A j : j \in LineIds(new) <=> j \in LineIds(it) \/ j = p.id

LEMMA Appended ==
  ASSUME NEW it, LineTypes(it), LineOnce(it), NEW at, LineFresh(it, at), NEW q \in QueueName,
         NEW p \in Pay, p.id \notin LineIds(it), Fresh(p, at),
         NEW new, new = [it EXCEPT ![q] = Append(it[q], p)]
  PROVE  LineGains(it, new, p, at)
<1> DEFINE s == Append(it[q], p)
           n == Len(it[q])
<1>0. p.id \in Job
  BY DEF Pay
<1>1. it \in [QueueName -> Seq(Pay)] /\ it[q] \in Seq(Pay) /\ n \in Nat
  BY DEF LineTypes
<1>2. s \in Seq(Pay) /\ Len(s) = n + 1 /\ s[n + 1] = p /\ \A i \in 1..n : s[i] = it[q][i]
  BY <1>1, AppendProperties
<1>3a. new = [it EXCEPT ![q] = s]
  OBVIOUS
<1> HIDE DEF s
<1>3. new[q] = s /\ \A r \in QueueName : r # q => new[r] = it[r]
  BY <1>1, <1>3a
<1>4. LineTypes(new)
  BY <1>1, <1>2, <1>3a DEF LineTypes
\* Where an entry of the new lines comes from.
<1>5. ASSUME NEW r \in QueueName, NEW i \in 1..Len(new[r])
      PROVE  \/ r = q /\ i = n + 1 /\ new[r][i] = p
             \/ i \in 1..Len(it[r]) /\ new[r][i] = it[r][i] /\ it[r][i].id \in LineIds(it)
  <2>1. CASE r = q /\ i = n + 1
    BY <1>2, <1>3, <2>1
  <2>2. CASE ~(r = q /\ i = n + 1)
    <3>1. i \in 1..Len(it[r]) /\ new[r][i] = it[r][i]
      BY <1>1, <1>2, <1>3, <2>2
    <3>2. it[r][i] \in Pay
      BY <1>1, <3>1
    <3> QED BY <3>1, <3>2 DEF LineIds, Pay
  <2> QED BY <2>1, <2>2
<1>6. \A r \in QueueName : \A i \in 1..Len(it[r]) : i \in 1..Len(new[r]) /\ new[r][i] = it[r][i]
  BY <1>1, <1>2, <1>3
<1>7. n + 1 \in 1..Len(new[q]) /\ new[q][n + 1] = p
  BY <1>1, <1>2, <1>3
<1>8. LineOnce(new)
  <2> SUFFICES ASSUME NEW q1 \in QueueName, NEW q2 \in QueueName,
                      NEW i \in 1..Len(new[q1]), NEW k \in 1..Len(new[q2]),
                      new[q1][i].id = new[q2][k].id
               PROVE  q1 = q2 /\ i = k
    BY DEF LineOnce
  <2>1. \/ q1 = q /\ i = n + 1 /\ new[q1][i] = p
        \/ i \in 1..Len(it[q1]) /\ new[q1][i] = it[q1][i] /\ it[q1][i].id \in LineIds(it)
    BY <1>5
  <2>2. \/ q2 = q /\ k = n + 1 /\ new[q2][k] = p
        \/ k \in 1..Len(it[q2]) /\ new[q2][k] = it[q2][k] /\ it[q2][k].id \in LineIds(it)
    BY <1>5
  <2> QED BY <2>1, <2>2 DEF LineOnce
<1>9. LineFresh(new, at)
  BY <1>5 DEF LineFresh
<1>10. ASSUME NEW j \in LineIds(new) PROVE j \in LineIds(it) \cup {p.id}
  <2>1. PICK r \in QueueName : \E i \in 1..Len(new[r]) : new[r][i].id = j
    BY DEF LineIds
  <2> QED BY <1>5, <2>1
<1>11. LineIds(it) \subseteq LineIds(new)
  BY <1>6 DEF LineIds
<1>12. p.id \in LineIds(new)
  BY <1>0, <1>7 DEF LineIds
<1> QED BY <1>4, <1>8, <1>9, <1>10, <1>11, <1>12 DEF LineGains

\* A payload is taken out of a line.
LEMMA Taken ==
  ASSUME NEW it, LineTypes(it), LineOnce(it), NEW at, LineFresh(it, at), NEW q \in QueueName,
         NEW m \in 1..Len(it[q])
  PROVE  LET new == [it EXCEPT ![q] = RemoveAt(it[q], m)] IN
         /\ LineTypes(new) /\ LineOnce(new) /\ LineFresh(new, at)
         /\ LineIds(new) = LineIds(it) \ {it[q][m].id}
<1> DEFINE s == RemoveAt(it[q], m)
           new == [it EXCEPT ![q] = s]
           n == Len(it[q])
           Src(r, i) == IF r = q /\ i >= m THEN i + 1 ELSE i
<1>1. it \in [QueueName -> Seq(Pay)] /\ it[q] \in Seq(Pay) /\ n \in Nat
      /\ \A r \in QueueName : Len(it[r]) \in Nat
  BY DEF LineTypes
<1>2. s \in Seq(Pay) /\ Len(s) = n - 1 /\ \A i \in 1..(n - 1) : s[i] = IF i < m THEN it[q][i] ELSE it[q][i + 1]
  BY <1>1, RemovedAt
<1> HIDE DEF s
<1>3. new[q] = s /\ \A r \in QueueName : r # q => new[r] = it[r]
  BY <1>1
<1>4. LineTypes(new)
  BY <1>1, <1>2 DEF LineTypes
<1> HIDE DEF new
<1>5. ASSUME NEW r \in QueueName, NEW i \in 1..Len(new[r])
      PROVE  /\ Src(r, i) \in 1..Len(it[r]) /\ new[r][i] = it[r][Src(r, i)]
             /\ ~(r = q /\ Src(r, i) = m)
  <2>1. CASE r = q
    BY <1>1, <1>2, <1>3, <2>1
  <2>2. CASE r # q
    BY <1>3, <2>2
  <2> QED BY <2>1, <2>2
<1>6. ASSUME NEW r \in QueueName, NEW i \in 1..Len(it[r]), ~(r = q /\ i = m)
      PROVE  \E k \in 1..Len(new[r]) : new[r][k] = it[r][i]
  <2>1. CASE r # q
    BY <1>3, <2>1
  <2>2. CASE r = q /\ i < m
    <3>1. i \in 1..(n - 1) /\ i \in 1..Len(new[r])
      BY <1>1, <1>2, <1>3, <2>2
    <3> QED BY <1>2, <1>3, <2>2, <3>1
  <2>3. CASE r = q /\ i > m
    <3>1. i - 1 \in 1..(n - 1) /\ i - 1 \in 1..Len(new[r]) /\ ~(i - 1 < m) /\ (i - 1) + 1 = i
      BY <1>1, <1>2, <1>3, <2>3
    <3> QED BY <1>2, <1>3, <2>3, <3>1
  <2> QED BY <1>6, <2>1, <2>2, <2>3
<1>7. LineOnce(new)
  <2> SUFFICES ASSUME NEW q1 \in QueueName, NEW q2 \in QueueName,
                      NEW i \in 1..Len(new[q1]), NEW k \in 1..Len(new[q2]),
                      new[q1][i].id = new[q2][k].id
               PROVE  q1 = q2 /\ i = k
    BY DEF LineOnce
  <2>0. i \in Nat /\ k \in Nat
    OBVIOUS
  <2>1. Src(q1, i) \in 1..Len(it[q1]) /\ new[q1][i] = it[q1][Src(q1, i)]
    BY <1>5
  <2>2. Src(q2, k) \in 1..Len(it[q2]) /\ new[q2][k] = it[q2][Src(q2, k)]
    BY <1>5
  <2>3. q1 = q2 /\ Src(q1, i) = Src(q2, k)
    <3> HIDE DEF Src
    <3> QED BY <2>1, <2>2 DEF LineOnce
  <2> QED BY <2>0, <2>3
<1>8. LineFresh(new, at)
  <2> SUFFICES ASSUME NEW r \in QueueName, NEW i \in 1..Len(new[r]) PROVE Fresh(new[r][i], at)
    BY DEF LineFresh
  <2>1. Src(r, i) \in 1..Len(it[r]) /\ new[r][i] = it[r][Src(r, i)]
    BY <1>5
  <2> HIDE DEF Src
  <2> QED BY <2>1 DEF LineFresh
<1>9. ASSUME NEW j \in LineIds(new) PROVE j \in LineIds(it) \ {it[q][m].id}
  <2>1. PICK r \in QueueName : \E i \in 1..Len(new[r]) : new[r][i].id = j
    BY DEF LineIds
  <2>2. PICK i \in 1..Len(new[r]) : new[r][i].id = j
    BY <2>1
  <2> DEFINE k == Src(r, i)
  <2>3. k \in 1..Len(it[r]) /\ it[r][k].id = j /\ ~(r = q /\ k = m)
    BY <1>5, <2>2
  <2> HIDE DEF k
  <2>4. j # it[q][m].id
    BY <2>3 DEF LineOnce
  <2>5. j \in LineIds(it)
    BY <2>3 DEF LineIds
  <2> QED BY <2>4, <2>5
<1>10. ASSUME NEW j \in LineIds(it), j # it[q][m].id PROVE j \in LineIds(new)
  <2>1. PICK r \in QueueName : \E i \in 1..Len(it[r]) : it[r][i].id = j
    BY DEF LineIds
  <2>2. PICK i \in 1..Len(it[r]) : it[r][i].id = j
    BY <2>1
  <2>3. ~(r = q /\ i = m)
    BY <1>10, <2>2
  <2>4. \E k \in 1..Len(new[r]) : new[r][k] = it[r][i]
    BY <1>6, <2>3
  <2> QED BY <2>2, <2>4 DEF LineIds
<1> QED BY <1>4, <1>7, <1>8, <1>9, <1>10 DEF new, s

\* Redis moves the payloads that are due to the end of the line, all at once.
LEMMA Promoted ==
  ASSUME NEW it, NEW de, NEW at, NEW q \in QueueName,
         LineTypes(it), LineOnce(it), LineFresh(it, at), SetTypes(de), SetOnce(de), SetFresh(de, at),
         \A j \in LineIds(it) : j \notin SetIds(de), NEW due \in SUBSET de[q]
  PROVE  LET new == [it EXCEPT ![q] = it[q] \o SetToSeq(due)]
             waiting == [de EXCEPT ![q] = de[q] \ due]
         IN /\ LineTypes(new) /\ LineOnce(new) /\ LineFresh(new, at)
            /\ SetTypes(waiting) /\ SetOnce(waiting) /\ SetFresh(waiting, at)
            /\ LineIds(new) \cup SetIds(waiting) = LineIds(it) \cup SetIds(de)
            /\ \A j \in LineIds(new) : j \notin SetIds(waiting)
<1> DEFINE s == SetToSeq(due)
           u == it[q] \o s
           new == [it EXCEPT ![q] = u]
           waiting == [de EXCEPT ![q] = de[q] \ due]
           n == Len(it[q])
<1>1. it \in [QueueName -> Seq(Pay)] /\ it[q] \in Seq(Pay) /\ n \in Nat
  BY DEF LineTypes
<1>2. de \in [QueueName -> SUBSET Pay] /\ IsFiniteSet(de[q]) /\ due \in SUBSET Pay /\ de[q] \subseteq Pay
  BY DEF SetTypes
<1>3. IsFiniteSet(due) /\ IsFiniteSet(de[q] \ due)
  BY <1>2, FS_Subset
<1>4. /\ s \in Seq(Pay) /\ Len(s) \in Nat /\ \A i \in 1..Len(s) : s[i] \in due
      /\ \A i, k \in 1..Len(s) : s[i] = s[k] => i = k
      /\ \A x \in due : \E i \in 1..Len(s) : s[i] = x
  <2>1. Lists(SetToSeq(due), due, Pay)
    BY <1>2, <1>3, SetListed
  <2> QED BY <2>1 DEF Lists
<1> HIDE DEF s
<1>5. /\ u \in Seq(Pay) /\ Len(u) = n + Len(s)
      /\ \A i \in 1..(n + Len(s)) : u[i] = IF i <= n THEN it[q][i] ELSE s[i - n]
  BY <1>1, <1>4, ConcatProperties
<1> HIDE DEF u
<1>6. new[q] = u /\ \A r \in QueueName : r # q => new[r] = it[r]
  BY <1>1
<1>7. waiting[q] = de[q] \ due /\ \A r \in QueueName : r # q => waiting[r] = de[r]
  BY <1>2
<1>8. LineTypes(new)
  BY <1>1, <1>5 DEF LineTypes
<1>9. SetTypes(waiting)
  BY <1>2, <1>3 DEF SetTypes
<1> HIDE DEF new, waiting
<1>10. \A r \in QueueName : waiting[r] \subseteq de[r]
  BY <1>7
<1>11. SetOnce(waiting) /\ SetFresh(waiting, at)
  BY <1>10 DEF SetOnce, SetFresh
<1>12. ASSUME NEW p \in Pay PROVE p.id \in Job
  BY DEF Pay
<1>13. ASSUME NEW r \in QueueName, NEW i \in 1..Len(new[r])
       PROVE  \/ /\ i \in 1..Len(it[r]) /\ new[r][i] = it[r][i] /\ it[r][i].id \in LineIds(it)
              \/ /\ r = q /\ i - n \in 1..Len(s) /\ new[r][i] = s[i - n]
                 /\ s[i - n] \in due /\ s[i - n].id \in SetIds(de)
  <2>1. CASE r = q /\ i > n
    <3>1. i - n \in 1..Len(s) /\ new[r][i] = s[i - n]
      BY <1>1, <1>4, <1>5, <1>6, <2>1
    <3>2. s[i - n] \in due /\ s[i - n] \in de[q] /\ s[i - n] \in Pay
      BY <1>2, <1>4, <3>1
    <3>3. s[i - n].id \in SetIds(de)
      BY <1>12, <3>2 DEF SetIds
    <3> QED BY <2>1, <3>1, <3>2, <3>3
  <2>2. CASE ~(r = q /\ i > n)
    <3>1. i \in 1..Len(it[r]) /\ new[r][i] = it[r][i]
      BY <1>1, <1>4, <1>5, <1>6, <2>2
    <3>2. it[r][i] \in Pay
      BY <1>1, <3>1
    <3> QED BY <1>12, <3>1, <3>2 DEF LineIds
  <2> QED BY <2>1, <2>2
<1>14. LineOnce(new)
  <2> SUFFICES ASSUME NEW q1 \in QueueName, NEW q2 \in QueueName,
                      NEW i \in 1..Len(new[q1]), NEW k \in 1..Len(new[q2]),
                      new[q1][i].id = new[q2][k].id
               PROVE  q1 = q2 /\ i = k
    BY DEF LineOnce
  <2>0. i \in Nat /\ k \in Nat
    OBVIOUS
  <2>1. \/ /\ i \in 1..Len(it[q1]) /\ new[q1][i] = it[q1][i] /\ it[q1][i].id \in LineIds(it)
        \/ /\ q1 = q /\ i - n \in 1..Len(s) /\ new[q1][i] = s[i - n]
           /\ s[i - n] \in due /\ s[i - n].id \in SetIds(de)
    BY <1>13
  <2>2. \/ /\ k \in 1..Len(it[q2]) /\ new[q2][k] = it[q2][k] /\ it[q2][k].id \in LineIds(it)
        \/ /\ q2 = q /\ k - n \in 1..Len(s) /\ new[q2][k] = s[k - n]
           /\ s[k - n] \in due /\ s[k - n].id \in SetIds(de)
    BY <1>13
  <2>3. CASE i \in 1..Len(it[q1]) /\ new[q1][i] = it[q1][i] /\ it[q1][i].id \in LineIds(it)
    <3>1. k \in 1..Len(it[q2]) /\ new[q2][k] = it[q2][k]
      BY <2>2, <2>3
    <3> QED BY <2>3, <3>1 DEF LineOnce
  <2>4. CASE /\ q1 = q /\ i - n \in 1..Len(s) /\ new[q1][i] = s[i - n]
             /\ s[i - n] \in due /\ s[i - n].id \in SetIds(de)
    <3>1. q2 = q /\ k - n \in 1..Len(s) /\ new[q2][k] = s[k - n] /\ s[k - n] \in due
      BY <2>2, <2>4
    <3>2. s[i - n] = s[k - n]
      BY <2>4, <3>1 DEF SetOnce
    <3>3. i - n = k - n
      BY <1>4, <2>4, <3>1, <3>2
    <3> QED BY <1>1, <2>0, <2>4, <3>1, <3>3
  <2> QED BY <2>1, <2>3, <2>4
<1>15. LineFresh(new, at)
  <2> SUFFICES ASSUME NEW r \in QueueName, NEW i \in 1..Len(new[r]) PROVE Fresh(new[r][i], at)
    BY DEF LineFresh
  <2>1. \/ i \in 1..Len(it[r]) /\ new[r][i] = it[r][i]
        \/ \E x \in due : new[r][i] = x
    BY <1>13
  <2> QED BY <2>1 DEF LineFresh, SetFresh
<1>16. ASSUME NEW j \in LineIds(new) PROVE (j \in LineIds(it) \/ j \in SetIds(de)) /\ j \notin SetIds(waiting)
  <2>1. PICK r \in QueueName : \E i \in 1..Len(new[r]) : new[r][i].id = j
    BY DEF LineIds
  <2>2. PICK i \in 1..Len(new[r]) : new[r][i].id = j
    BY <2>1
  <2>3. CASE j \in LineIds(it)
    BY <1>10, <2>3 DEF SetIds
  <2>4. CASE j \notin LineIds(it)
    <3>1. s[i - n] \in due /\ s[i - n].id = j /\ s[i - n].id \in SetIds(de)
      BY <1>13, <2>2, <2>4
    <3>2. j \notin SetIds(waiting)
      <4> SUFFICES ASSUME NEW c \in QueueName, NEW p \in waiting[c], p.id = j PROVE FALSE
        BY DEF SetIds
      <4>1. c = q /\ p = s[i - n]
        BY <1>10, <3>1 DEF SetOnce
      <4> QED BY <1>7, <3>1, <4>1
    <3> QED BY <3>1, <3>2
  <2> QED BY <2>3, <2>4
<1>17. SetIds(waiting) \subseteq SetIds(de)
  BY <1>10 DEF SetIds
<1>18. ASSUME NEW j \in LineIds(it) PROVE j \in LineIds(new)
  <2>1. PICK r \in QueueName : \E i \in 1..Len(it[r]) : it[r][i].id = j
    BY DEF LineIds
  <2>2. PICK i \in 1..Len(it[r]) : it[r][i].id = j
    BY <2>1
  <2>3. i \in 1..Len(new[r]) /\ new[r][i] = it[r][i]
    <3>1. CASE r # q
      BY <1>6, <3>1
    <3>2. CASE r = q
      <4>1. i \in 1..(n + Len(s)) /\ i <= n
        BY <1>1, <1>4, <3>2
      <4> QED BY <1>5, <1>6, <3>2, <4>1
    <3> QED BY <3>1, <3>2
  <2> QED BY <2>2, <2>3 DEF LineIds
<1>19. ASSUME NEW j \in SetIds(de), j \notin SetIds(waiting) PROVE j \in LineIds(new)
  <2>1. PICK r \in QueueName : \E p \in de[r] : p.id = j
    BY DEF SetIds
  <2>2. PICK p \in de[r] : p.id = j
    BY <2>1
  <2>3. p \notin waiting[r] /\ j \in Job
    BY <1>19, <2>2 DEF SetIds
  <2>4. r = q /\ p \in due
    BY <1>7, <2>3
  <2>5. PICK i \in 1..Len(s) : s[i] = p
    BY <1>4, <2>4
  <2>6. n + i \in 1..Len(u) /\ n + i \in 1..(n + Len(s)) /\ ~(n + i <= n) /\ (n + i) - n = i
    BY <1>1, <1>4, <1>5
  <2>7. u[n + i] = p
    BY <1>5, <2>5, <2>6
  <2> QED BY <1>6, <2>2, <2>3, <2>4, <2>6, <2>7 DEF LineIds
<1>20. LineIds(new) \cup SetIds(waiting) = LineIds(it) \cup SetIds(de)
  BY <1>16, <1>17, <1>18, <1>19
<1> QED BY <1>8, <1>9, <1>11, <1>14, <1>15, <1>16, <1>20 DEF new, waiting, u, s

LEMMA EarlierIs ==
  ASSUME NEW p \in Pay
  PROVE  Earlier(p) \in Pay /\ Earlier(p).id = p.id /\ Earlier(p).Attempts = p.Attempts
BY DEF Earlier, Pay

\* A second passes.
LEMMA AgedLines ==
  ASSUME NEW it, LineTypes(it), LineOnce(it), NEW at, LineFresh(it, at)
  PROVE  LET new == [q \in QueueName |-> [i \in 1..Len(it[q]) |-> Earlier(it[q][i])]] IN
         LineTypes(new) /\ LineOnce(new) /\ LineFresh(new, at) /\ LineIds(new) = LineIds(it)
<1> DEFINE new == [q \in QueueName |-> [i \in 1..Len(it[q]) |-> Earlier(it[q][i])]]
<1>1. ASSUME NEW q \in QueueName PROVE it[q] \in Seq(Pay) /\ Len(it[q]) \in Nat
  BY DEF LineTypes
<1>2. ASSUME NEW q \in QueueName, NEW i \in 1..Len(it[q])
      PROVE  /\ Earlier(it[q][i]) \in Pay /\ Earlier(it[q][i]).id = it[q][i].id
             /\ Earlier(it[q][i]).Attempts = it[q][i].Attempts
  BY <1>1, EarlierIs
<1>3. ASSUME NEW q \in QueueName
      PROVE  /\ new[q] \in Seq(Pay) /\ Len(new[q]) = Len(it[q])
             /\ \A i \in 1..Len(it[q]) : new[q][i] = Earlier(it[q][i])
  <2> DEFINE f == [i \in 1..Len(it[q]) |-> Earlier(it[q][i])]
  <2>1. f \in [1..Len(it[q]) -> Pay]
    BY <1>2
  <2>2. new[q] = f
    OBVIOUS
  <2>3. \A i \in 1..Len(it[q]) : f[i] = Earlier(it[q][i])
    OBVIOUS
  <2> HIDE DEF f
  <2>4. f \in Seq(Pay) /\ Len(f) = Len(it[q])
    BY <1>1, <2>1
  <2> QED BY <2>2, <2>3, <2>4
<1>4. LineTypes(new)
  BY <1>3 DEF LineTypes
<1> HIDE DEF new
<1>5. ASSUME NEW q \in QueueName
      PROVE  \A i \in 1..Len(it[q]) : new[q][i].id = it[q][i].id /\ new[q][i].Attempts = it[q][i].Attempts
  BY <1>2, <1>3
<1>6. LineOnce(new)
  BY <1>3, <1>5 DEF LineOnce
<1>7. LineFresh(new, at)
  BY <1>3, <1>5 DEF LineFresh, Fresh
<1>8. LineIds(new) = LineIds(it)
  BY <1>3, <1>5 DEF LineIds
<1> QED BY <1>4, <1>6, <1>7, <1>8 DEF new

LEMMA AgedSets ==
  ASSUME NEW de, SetTypes(de), SetOnce(de), NEW at, SetFresh(de, at)
  PROVE  LET new == [q \in QueueName |-> {Earlier(p) : p \in de[q]}] IN
         SetTypes(new) /\ SetOnce(new) /\ SetFresh(new, at) /\ SetIds(new) = SetIds(de)
<1> DEFINE new == [q \in QueueName |-> {Earlier(p) : p \in de[q]}]
<1>1. ASSUME NEW q \in QueueName PROVE de[q] \subseteq Pay /\ IsFiniteSet(de[q])
  BY DEF SetTypes
<1>2. ASSUME NEW q \in QueueName, NEW p \in de[q]
      PROVE  Earlier(p) \in Pay /\ Earlier(p).id = p.id /\ Earlier(p).Attempts = p.Attempts
  BY <1>1, EarlierIs
<1>3. ASSUME NEW q \in QueueName PROVE new[q] \subseteq Pay /\ IsFiniteSet(new[q])
  <2> DEFINE f == [p \in de[q] |-> Earlier(p)]
  <2>1. f \in Surjection(de[q], new[q])
    BY DEF Surjection
  <2>2. IsFiniteSet(new[q])
    BY <1>1, <2>1, FS_Surjection
  <2> QED BY <1>2, <2>2
<1>4. SetTypes(new)
  BY <1>3 DEF SetTypes
<1>5. \A q \in QueueName : \A x \in new[q] : \E p \in de[q] : x = Earlier(p)
  OBVIOUS
<1>6. \A q \in QueueName : \A p \in de[q] : Earlier(p) \in new[q]
  OBVIOUS
<1> HIDE DEF new
<1>7. SetOnce(new)
  <2> SUFFICES ASSUME NEW q \in QueueName, NEW r \in QueueName, NEW x \in new[q], NEW y \in new[r], x.id = y.id
               PROVE  q = r /\ x = y
    BY DEF SetOnce
  <2>1. PICK p \in de[q] : x = Earlier(p)
    BY <1>5
  <2>2. PICK o \in de[r] : y = Earlier(o)
    BY <1>5
  <2>3. p.id = o.id
    BY <1>2, <2>1, <2>2
  <2>4. q = r /\ p = o
    BY <2>3 DEF SetOnce
  <2> QED BY <2>1, <2>2, <2>4
<1>8. SetFresh(new, at)
  <2> SUFFICES ASSUME NEW q \in QueueName, NEW x \in new[q] PROVE Fresh(x, at)
    BY DEF SetFresh
  <2>1. PICK p \in de[q] : x = Earlier(p)
    BY <1>5
  <2> QED BY <1>2, <2>1 DEF SetFresh, Fresh
<1>9. SetIds(new) = SetIds(de)
  <2>1. ASSUME NEW j \in SetIds(new) PROVE j \in SetIds(de)
    <3>1. PICK q \in QueueName : \E x \in new[q] : x.id = j
      BY DEF SetIds
    <3>2. PICK p \in de[q] : p.id = j
      BY <1>2, <1>5, <3>1
    <3> QED BY <3>2 DEF SetIds
  <2>2. ASSUME NEW j \in SetIds(de) PROVE j \in SetIds(new)
    <3>1. PICK q \in QueueName : \E p \in de[q] : p.id = j
      BY DEF SetIds
    <3>2. \E x \in new[q] : x.id = j
      BY <1>2, <1>6, <3>1
    <3> QED BY <3>2 DEF SetIds
  <2> QED BY <2>1, <2>2
<1> QED BY <1>4, <1>7, <1>8, <1>9 DEF new

\* A payload is delayed: what becomes of the sets.
SetGains(de, new, p, at) ==
  /\ SetTypes(new) /\ SetOnce(new) /\ SetFresh(new, at)
  /\ \A j : j \in SetIds(new) <=> j \in SetIds(de) \/ j = p.id

LEMMA Delayed ==
  ASSUME NEW de, SetTypes(de), SetOnce(de), NEW at, SetFresh(de, at), NEW q \in QueueName,
         NEW p \in Pay, p.id \notin SetIds(de), Fresh(p, at),
         NEW new, new = [de EXCEPT ![q] = de[q] \cup {p}]
  PROVE  SetGains(de, new, p, at)
<1>0. p.id \in Job
  BY DEF Pay
<1>1. de \in [QueueName -> SUBSET Pay] /\ IsFiniteSet(de[q])
  BY DEF SetTypes
<1>2. new[q] = de[q] \cup {p} /\ \A r \in QueueName : r # q => new[r] = de[r]
  BY <1>1
<1>3. IsFiniteSet(de[q] \cup {p})
  BY <1>1, FS_AddElement
<1>4. SetTypes(new)
  BY <1>1, <1>3 DEF SetTypes
<1>5. \A r \in QueueName : de[r] \subseteq new[r] /\ \A x \in new[r] : x \in de[r] \/ (r = q /\ x = p)
  BY <1>2
<1>6. \A r \in QueueName : \A x \in de[r] : x.id # p.id
  BY <1>0 DEF SetIds
<1>7. SetOnce(new)
  BY <1>5, <1>6 DEF SetOnce
<1>8. SetFresh(new, at)
  BY <1>5 DEF SetFresh
<1>9. \A j : j \in SetIds(new) <=> j \in SetIds(de) \/ j = p.id
  BY <1>0, <1>2, <1>5 DEF SetIds
<1> QED BY <1>4, <1>7, <1>8, <1>9 DEF SetGains

----------------------------------------------------------------------------
(* The steps *)

LEMMA JobInit == Init => JobInv
<1> SUFFICES ASSUME Init PROVE JobInv
  OBVIOUS
<1>1. NoPayload.id = NoJob /\ NoJob \notin Job /\ MaxAttempts \in Nat
  BY JobQueueAssumption DEF NoPayload
<1>2. 1 \in 1..Len(Queues)
  BY JobQueueAssumption
<1>3. Idle \in WorkerRec /\ Idle.p = NoPayload /\ Idle.pc = "wait"
  BY <1>2 DEF Idle, WorkerRec, FreePC
<1>4. WorkGood(worker, attempts)
  BY <1>1, <1>3 DEF Init, WorkGood, HeldOnce, HeldRight
<1>5. \A q \in QueueName : items[q] = << >> /\ delayed[q] = {} /\ IsFiniteSet(delayed[q])
  BY FS_EmptySet DEF Init
<1>6. LineTypes(items) /\ SetTypes(delayed)
  BY FS_EmptySet DEF Init, LineTypes, SetTypes
<1>7. LineOnce(items) /\ LineFresh(items, attempts) /\ LineIds(items) = {}
  BY <1>5 DEF LineOnce, LineFresh, LineIds
<1>8. SetOnce(delayed) /\ SetFresh(delayed, attempts) /\ SetIds(delayed) = {}
  BY <1>5 DEF SetOnce, SetFresh, SetIds
<1>9. QueueGood(items, delayed, attempts) /\ QueueIds(items, delayed) = {}
  BY <1>6, <1>7, <1>8 DEF QueueGood, QueueIds
<1>10. HeldIds(worker) = {}
  BY <1>1, <1>3 DEF Init, HeldIds
<1>11. DeadGood(dead, attempts) /\ DeadIds(dead) = {}
  BY DEF Init, DeadGood, DeadOnce, DeadRight, DeadIds
<1>12. Apart(QueueIds(items, delayed), HeldIds(worker), DeadIds(dead), succeeded)
  BY <1>9, <1>10, <1>11 DEF Init, Apart
<1>13. AllIds = {}
  BY <1>9, <1>10, <1>11 DEF AllIds, Init
<1>14. KeptInv
  BY <1>13 DEF KeptInv, Init
<1> QED BY <1>4, <1>9, <1>11, <1>12, <1>14, JobQueueAssumption DEF JobInv, Init

\* What a worker is, by where it is.
LEMMA WorkerAt ==
  ASSUME JobInv, NEW w \in Worker
  PROVE  /\ worker[w] \in WorkerRec /\ worker[w].q \in 1..Len(Queues)
         /\ Queues[worker[w].q] \in QueueName
         /\ worker[w].pc \in FreePC => worker[w].p = NoPayload /\ worker[w].p.id \notin Job
         /\ worker[w].pc \in HoldPC =>
              worker[w].p \in Pay /\ worker[w].p.id \in Job /\ worker[w].p.id \in HeldIds(worker)
         /\ HeldRight(worker[w], attempts)
<1>1. worker[w] \in WorkerRec /\ HeldRight(worker[w], attempts)
  BY DEF JobInv, WorkGood
<1>2. worker[w].q \in 1..Len(Queues)
  BY <1>1 DEF WorkerRec
<1>3. Queues[worker[w].q] \in QueueName
  BY <1>2, JobQueueAssumption DEF QueueName, Range
<1>4. NoPayload.id \notin Job
  BY JobQueueAssumption DEF NoPayload
<1>5. worker[w].pc \in FreePC => worker[w].p = NoPayload
  BY <1>1 DEF WorkerRec, FreePC, HoldPC
<1>6. worker[w].pc \in HoldPC => worker[w].p \in Pay
  BY <1>1 DEF WorkerRec, FreePC, HoldPC
<1>7. worker[w].p \in Pay => worker[w].p.id \in Job
  BY DEF Pay
<1> QED BY <1>1, <1>2, <1>3, <1>4, <1>5, <1>6, <1>7 DEF HeldIds

\* One worker moves on: it keeps its job, lets go of it or takes one nobody holds.
LEMMA WorkerMoved ==
  ASSUME JobInv, NEW w \in Worker, NEW o \in WorkerRec, NEW at, HeldRight(o, at),
         worker' = [worker EXCEPT ![w] = o],
         o.p.id \in Job /\ o.p.id # worker[w].p.id => o.p.id \notin HeldIds(worker),
         \A v \in Worker : v # w => HeldRight(worker[v], at)
  PROVE  /\ WorkGood(worker', at)
         /\ \A j \in Job : j \in HeldIds(worker') <=>
              j = o.p.id \/ (j \in HeldIds(worker) /\ j # worker[w].p.id)
<1>1. worker \in [Worker -> WorkerRec] /\ HeldOnce(worker)
  BY DEF JobInv, WorkGood
<1>2. worker'[w] = o /\ worker' \in [Worker -> WorkerRec]
      /\ \A v \in Worker : v # w => worker'[v] = worker[v]
  BY <1>1
<1>3. HeldOnce(worker')
  BY <1>1, <1>2 DEF HeldOnce, HeldIds
<1>4. ASSUME NEW j \in Job
      PROVE  j \in HeldIds(worker') <=> j = o.p.id \/ (j \in HeldIds(worker) /\ j # worker[w].p.id)
  BY <1>1, <1>2 DEF HeldOnce, HeldIds
<1> QED BY <1>2, <1>3, <1>4 DEF WorkGood

LEMMA PopStartIs == PopStart \in FreePC
BY DEF PopStart, FreePC

LEMMA FreeRec ==
  ASSUME NEW pc \in FreePC, NEW i \in 1..Len(Queues), NEW at
  PROVE  LET o == [pc |-> pc, q |-> i, p |-> NoPayload] IN
         o \in WorkerRec /\ HeldRight(o, at) /\ o.p.id \notin Job
BY JobQueueAssumption DEF WorkerRec, HeldRight, FreePC, NoPayload

\* A worker without a job moves on.
LEMMA FreeMoves ==
  ASSUME JobInv, NEW w \in Worker, worker[w].pc \in FreePC, NEW pc \in FreePC, NEW i \in 1..Len(Queues),
         worker' = [worker EXCEPT ![w] = [pc |-> pc, q |-> i, p |-> NoPayload]]
  PROVE  WorkGood(worker', attempts) /\ HeldIds(worker') = HeldIds(worker)
<1> DEFINE o == [pc |-> pc, q |-> i, p |-> NoPayload]
<1>1. o \in WorkerRec /\ HeldRight(o, attempts) /\ o.p.id \notin Job
  BY FreeRec
<1>2. worker[w].p.id \notin Job /\ \A v \in Worker : HeldRight(worker[v], attempts)
  BY WorkerAt
<1>3. worker' = [worker EXCEPT ![w] = o]
  OBVIOUS
<1> HIDE DEF o
<1>4. /\ WorkGood(worker', attempts)
      /\ \A j \in Job : j \in HeldIds(worker') <=>
           j = o.p.id \/ (j \in HeldIds(worker) /\ j # worker[w].p.id)
  BY <1>1, <1>2, <1>3, WorkerMoved
<1>5. HeldIds(worker') \subseteq Job /\ HeldIds(worker) \subseteq Job
  BY DEF HeldIds
<1> QED BY <1>1, <1>2, <1>4, <1>5

\* A worker lets go of its job and looks into its queue again.
LEMMA LetGo ==
  ASSUME JobInv, NEW w \in Worker, worker[w].pc \in HoldPC, Again(w)
  PROVE  WorkGood(worker', attempts) /\ HeldIds(worker') = HeldIds(worker) \ {worker[w].p.id}
<1> DEFINE o == [pc |-> PopStart, q |-> worker[w].q, p |-> NoPayload]
<1>1. o \in WorkerRec /\ HeldRight(o, attempts) /\ o.p.id \notin Job
  BY FreeRec, PopStartIs, WorkerAt
<1>2. \A v \in Worker : HeldRight(worker[v], attempts)
  BY WorkerAt
<1>3. worker' = [worker EXCEPT ![w] = o]
  BY DEF Again
<1> HIDE DEF o
<1>4. /\ WorkGood(worker', attempts)
      /\ \A j \in Job : j \in HeldIds(worker') <=>
           j = o.p.id \/ (j \in HeldIds(worker) /\ j # worker[w].p.id)
  BY <1>1, <1>2, <1>3, WorkerMoved
<1>5. HeldIds(worker') \subseteq Job /\ HeldIds(worker) \subseteq Job
  BY DEF HeldIds
<1> QED BY <1>1, <1>4, <1>5

LEMMA Pushed ==
  ASSUME JobInv, NEW q \in QueueName, NEW p \in Pay, p.id \notin QueueIds(items, delayed),
         Fresh(p, attempts), Push(q, p)
  PROVE  /\ QueueGood(items', delayed', attempts)
         /\ QueueIds(items', delayed') = QueueIds(items, delayed) \cup {p.id}
<1>0. QueueGood(items, delayed, attempts) /\ p.id \in Job
  BY DEF JobInv, Pay
<1>1. CASE driver = "redis" /\ p.wait > 0
  <2> DEFINE new == [delayed EXCEPT ![q] = delayed[q] \cup {p}]
  <2>1. delayed' = new /\ items' = items
    BY <1>1 DEF Push
  <2>2. SetGains(delayed, new, p, attempts)
    <3>1. SetTypes(delayed) /\ SetOnce(delayed) /\ SetFresh(delayed, attempts) /\ p.id \notin SetIds(delayed)
      BY <1>0 DEF QueueGood, QueueIds
    <3>2. new = [delayed EXCEPT ![q] = delayed[q] \cup {p}]
      OBVIOUS
    <3> HIDE DEF new
    <3> QED BY <3>1, <3>2, Delayed
  <2> HIDE DEF new
  <2> QED BY <1>0, <2>1, <2>2 DEF QueueGood, QueueIds, SetGains
<1>2. CASE ~(driver = "redis" /\ p.wait > 0)
  <2> DEFINE new == [items EXCEPT ![q] = Append(items[q], p)]
  <2>1. items' = new /\ delayed' = delayed
    BY <1>2 DEF Push
  <2>2. LineGains(items, new, p, attempts)
    <3>1. LineTypes(items) /\ LineOnce(items) /\ LineFresh(items, attempts) /\ p.id \notin LineIds(items)
      BY <1>0 DEF QueueGood, QueueIds
    <3>2. new = [items EXCEPT ![q] = Append(items[q], p)]
      OBVIOUS
    <3> HIDE DEF new
    <3> QED BY <3>1, <3>2, Appended
  <2> HIDE DEF new
  <2> QED BY <1>0, <2>1, <2>2 DEF QueueGood, QueueIds, LineGains
<1> QED BY <1>1, <1>2

LEMMA IdsAreJobs ==
  ASSUME NEW it, NEW de, NEW wk, NEW dd
  PROVE  QueueIds(it, de) \subseteq Job /\ HeldIds(wk) \subseteq Job /\ DeadIds(dd) \subseteq Job
BY DEF QueueIds, LineIds, SetIds, HeldIds, DeadIds

\* The parts of the invariant after a step make the invariant.
LEMMA Assembled ==
  ASSUME JobInv, driver' = driver, stopped' \in BOOLEAN, crashes' \in Nat,
         dispatched' \subseteq Job, succeeded' \subseteq Job, attempts' \in [Job -> Nat],
         QueueGood(items', delayed', attempts'), WorkGood(worker', attempts'), DeadGood(dead', attempts'),
         Apart(QueueIds(items', delayed'), HeldIds(worker'), DeadIds(dead'), succeeded'),
         QueueIds(items', delayed') \cup HeldIds(worker') \cup DeadIds(dead') \cup succeeded' \subseteq dispatched',
         driver = "memory" \/ (~stopped' /\ crashes' = 0) =>
           dispatched' \subseteq QueueIds(items', delayed') \cup HeldIds(worker') \cup DeadIds(dead') \cup succeeded',
         \A j \in Job : j \notin dispatched' => attempts'[j] = 0
  PROVE  JobInv'
<1>1. KeptInv'
  BY DEF KeptInv, AllIds
<1> QED BY <1>1 DEF JobInv

\* What the invariant says of the sets of ids.
LEMMA Disassembled ==
  ASSUME JobInv
  PROVE  /\ driver \in {"memory", "redis"} /\ stopped \in BOOLEAN /\ crashes \in Nat
         /\ dispatched \subseteq Job /\ succeeded \subseteq Job /\ attempts \in [Job -> Nat]
         /\ QueueGood(items, delayed, attempts) /\ WorkGood(worker, attempts) /\ DeadGood(dead, attempts)
         /\ Apart(QueueIds(items, delayed), HeldIds(worker), DeadIds(dead), succeeded)
         /\ QueueIds(items, delayed) \cup HeldIds(worker) \cup DeadIds(dead) \cup succeeded \subseteq dispatched
         /\ driver = "memory" \/ (~stopped /\ crashes = 0) =>
              dispatched \subseteq QueueIds(items, delayed) \cup HeldIds(worker) \cup DeadIds(dead) \cup succeeded
         /\ \A j \in Job : j \notin dispatched => attempts[j] = 0
BY DEF JobInv, KeptInv, AllIds

\* A step that moves no job from one place to another.
LEMMA NothingMoves ==
  ASSUME JobInv, UNCHANGED <<driver, crashes, dispatched, attempts, succeeded, dead>>,
         stopped' \in BOOLEAN, stopped => stopped',
         QueueGood(items', delayed', attempts), WorkGood(worker', attempts),
         QueueIds(items', delayed') = QueueIds(items, delayed), HeldIds(worker') = HeldIds(worker)
  PROVE  JobInv'
<1>1. attempts' = attempts /\ dead' = dead /\ succeeded' = succeeded /\ dispatched' = dispatched
      /\ crashes' = crashes /\ driver' = driver
  OBVIOUS
<1>2. QueueGood(items', delayed', attempts') /\ WorkGood(worker', attempts') /\ DeadGood(dead', attempts')
  BY <1>1, Disassembled
<1>3. /\ Apart(QueueIds(items', delayed'), HeldIds(worker'), DeadIds(dead'), succeeded')
      /\ QueueIds(items', delayed') \cup HeldIds(worker') \cup DeadIds(dead') \cup succeeded' \subseteq dispatched'
      /\ driver = "memory" \/ (~stopped' /\ crashes' = 0) =>
           dispatched' \subseteq QueueIds(items', delayed') \cup HeldIds(worker') \cup DeadIds(dead') \cup succeeded'
  BY <1>1, Disassembled
<1> QED BY <1>1, <1>2, <1>3, Disassembled, Assembled

LEMMA PollStep == ASSUME JobInv, NEW w \in Worker, Poll(w) PROVE JobInv'
<1>1. worker[w].pc \in FreePC /\ 1 \in 1..Len(Queues)
  BY JobQueueAssumption DEF Poll, FreePC
<1>2. worker' = [worker EXCEPT ![w] = [pc |-> PopStart, q |-> 1, p |-> NoPayload]]
  BY DEF Poll
<1>3. WorkGood(worker', attempts) /\ HeldIds(worker') = HeldIds(worker)
  BY <1>1, <1>2, PopStartIs, FreeMoves
<1> QED BY <1>3, Disassembled, NothingMoves DEF Poll

LEMMA ExitStep == ASSUME JobInv, NEW w \in Worker, Exit(w) PROVE JobInv'
<1>1. worker[w].pc \in FreePC /\ "exited" \in FreePC
  BY DEF Exit, FreePC
<1>2. worker[w].q \in 1..Len(Queues) /\ worker[w].p = NoPayload /\ worker[w] \in WorkerRec
      /\ worker \in [Worker -> WorkerRec]
  BY <1>1, WorkerAt DEF JobInv, WorkGood
<1>3. [worker[w] EXCEPT !.pc = "exited"] = [pc |-> "exited", q |-> worker[w].q, p |-> NoPayload]
  BY <1>2 DEF WorkerRec
<1>4. worker' = [worker EXCEPT ![w] = [worker[w] EXCEPT !.pc = "exited"]]
  BY DEF Exit, Goto
<1>5. WorkGood(worker', attempts) /\ HeldIds(worker') = HeldIds(worker)
  BY <1>1, <1>2, <1>3, <1>4, FreeMoves
<1> QED BY <1>5, Disassembled, NothingMoves DEF Exit

LEMMA PopNoneStep == ASSUME JobInv, NEW w \in Worker, PopNone(w) PROVE JobInv'
<1> DEFINE more == worker[w].q < Len(Queues)
           pc == IF more THEN PopStart ELSE "wait"
           i == IF more THEN worker[w].q + 1 ELSE 1
<1>1. worker[w].pc \in FreePC /\ worker[w].q \in 1..Len(Queues) /\ Len(Queues) \in Nat
  BY WorkerAt, JobQueueAssumption DEF PopNone, FreePC
<1>2. pc \in FreePC
  BY PopStartIs DEF FreePC
<1>3. i \in 1..Len(Queues)
  BY <1>1
<1>4. worker' = [worker EXCEPT ![w] = [pc |-> pc, q |-> i, p |-> NoPayload]]
  BY DEF PopNone, Idle
<1> HIDE DEF pc, i
<1>5. WorkGood(worker', attempts) /\ HeldIds(worker') = HeldIds(worker)
  BY <1>1, <1>2, <1>3, <1>4, FreeMoves
<1> QED BY <1>5, Disassembled, NothingMoves DEF PopNone

LEMMA StopStep == ASSUME JobInv, Stop PROVE JobInv'
<1>1. items' = items /\ delayed' = delayed /\ worker' = worker /\ stopped' = TRUE
  BY DEF Stop
<1> QED BY <1>1, Disassembled, NothingMoves DEF Stop

LEMMA SecondStep == ASSUME JobInv, Second PROVE JobInv'
<1> DEFINE it == [q \in QueueName |-> [i \in 1..Len(items[q]) |-> Earlier(items[q][i])]]
           de == [q \in QueueName |-> {Earlier(p) : p \in delayed[q]}]
<1>1. /\ LineTypes(items) /\ LineOnce(items) /\ LineFresh(items, attempts)
      /\ SetTypes(delayed) /\ SetOnce(delayed) /\ SetFresh(delayed, attempts)
      /\ \A j \in LineIds(items) : j \notin SetIds(delayed)
  BY Disassembled DEF QueueGood
<1>2. LineTypes(it) /\ LineOnce(it) /\ LineFresh(it, attempts) /\ LineIds(it) = LineIds(items)
  BY <1>1, AgedLines
<1>3. SetTypes(de) /\ SetOnce(de) /\ SetFresh(de, attempts) /\ SetIds(de) = SetIds(delayed)
  BY <1>1, AgedSets
<1>4. items' = it /\ delayed' = de /\ worker' = worker
  BY DEF Second
<1> HIDE DEF it, de
<1>5. QueueGood(items', delayed', attempts) /\ QueueIds(items', delayed') = QueueIds(items, delayed)
  BY <1>1, <1>2, <1>3, <1>4 DEF QueueGood, QueueIds
<1> QED BY <1>4, <1>5, Disassembled, NothingMoves DEF Second

\* A set of natural numbers has a least element.
LEMMA LeastNat ==
  ASSUME NEW S, S \subseteq Nat, S # {}
  PROVE  \E i \in S : \A k \in S : i <= k
<1>1. PICK i \in S : \A k \in S : ~(<<k, i>> \in OpToRel(<, Nat))
  BY WFMin, NatLessThanWellFounded
<1>2. \A k \in S : ~(k < i)
  BY <1>1 DEF OpToRel
<1> QED BY <1>2

LEMMA DispatchStep ==
  ASSUME JobInv, NEW j \in Job, NEW q \in QueueName, NEW delay \in Delay, Dispatch(j, q, delay)
  PROVE  JobInv'
<1> DEFINE p == [id |-> j, Attempts |-> 0, wait |-> delay]
           Q == QueueIds(items, delayed)
           H == HeldIds(worker)
           D == DeadIds(dead)
<1>1. delay \in Int /\ MaxAttempts \in Nat /\ MaxAttempts > 0
  BY JobQueueAssumption
<1>2. p \in Pay /\ p.id = j /\ p.Attempts = 0
  BY <1>1 DEF Pay
<1>3. j \notin dispatched /\ dispatched' = dispatched \cup {j} /\ Push(q, p)
      /\ UNCHANGED <<driver, dead, worker, stopped, crashes, attempts, succeeded>>
  BY DEF Dispatch
<1>4. j \notin Q /\ j \notin H /\ j \notin D /\ j \notin succeeded /\ attempts[j] = 0
  BY <1>3, Disassembled
<1>5. Fresh(p, attempts)
  BY <1>1, <1>2, <1>4 DEF Fresh
<1> HIDE DEF p
<1>6. QueueGood(items', delayed', attempts) /\ QueueIds(items', delayed') = Q \cup {j}
  <2>1. p.id \notin QueueIds(items, delayed)
    BY <1>2, <1>4
  <2>2. /\ QueueGood(items', delayed', attempts)
        /\ QueueIds(items', delayed') = QueueIds(items, delayed) \cup {p.id}
    BY <1>2, <1>3, <1>5, <2>1, Pushed
  <2> QED BY <1>2, <2>2
<1>7. Q \subseteq Job /\ H \subseteq Job /\ D \subseteq Job
  BY IdsAreJobs
<1>8. /\ Apart(Q, H, D, succeeded)
      /\ Q \cup H \cup D \cup succeeded \subseteq dispatched
      /\ driver = "memory" \/ (~stopped /\ crashes = 0) => dispatched \subseteq Q \cup H \cup D \cup succeeded
      /\ dispatched \subseteq Job
      /\ WorkGood(worker, attempts) /\ DeadGood(dead, attempts)
      /\ \A i \in Job : i \notin dispatched => attempts[i] = 0
  BY Disassembled
<1>9. H = HeldIds(worker') /\ D = DeadIds(dead') /\ WorkGood(worker', attempts') /\ DeadGood(dead', attempts')
      /\ QueueGood(items', delayed', attempts')
  BY <1>3, <1>6, <1>8
<1> HIDE DEF Q, H, D
<1>10. Apart(Q \cup {j}, H, D, succeeded)
  BY <1>4, <1>8 DEF Apart
<1>11. /\ (Q \cup {j}) \cup H \cup D \cup succeeded \subseteq dispatched'
       /\ driver = "memory" \/ (~stopped /\ crashes = 0) => dispatched' \subseteq (Q \cup {j}) \cup H \cup D \cup succeeded
       /\ \A i \in Job : i \notin dispatched' => attempts[i] = 0
       /\ dispatched' \subseteq Job
  BY <1>3, <1>8
<1> QED BY <1>3, <1>6, <1>9, <1>10, <1>11, Disassembled, Assembled

LEMMA PromoteStep == ASSUME JobInv, NEW w \in Worker, Promote(w) PROVE JobInv'
<1> DEFINE q == Queues[worker[w].q]
           due == {p \in delayed[q] : p.wait = 0}
           new == [items EXCEPT ![q] = items[q] \o SetToSeq(due)]
           waiting == [delayed EXCEPT ![q] = delayed[q] \ due]
<1>1. worker[w].pc = "promote" /\ worker[w].pc \in FreePC /\ "pop" \in FreePC
  BY DEF Promote, FreePC
<1>2. worker[w].q \in 1..Len(Queues) /\ worker[w].p = NoPayload /\ worker[w] \in WorkerRec
      /\ worker \in [Worker -> WorkerRec] /\ q \in QueueName
  BY <1>1, WorkerAt DEF JobInv, WorkGood
<1>3. [worker[w] EXCEPT !.pc = "pop"] = [pc |-> "pop", q |-> worker[w].q, p |-> NoPayload]
  BY <1>2 DEF WorkerRec
<1>4. worker' = [worker EXCEPT ![w] = [worker[w] EXCEPT !.pc = "pop"]]
  BY DEF Promote, Goto
<1>5. WorkGood(worker', attempts) /\ HeldIds(worker') = HeldIds(worker)
  BY <1>1, <1>2, <1>3, <1>4, FreeMoves
<1>6. QueueGood(items', delayed', attempts) /\ QueueIds(items', delayed') = QueueIds(items, delayed)
  <2>1. CASE Reachable
    <3>1. items' = new /\ delayed' = waiting
      BY <2>1 DEF Promote, PromoteDue
    <3>2. due \in SUBSET delayed[q]
      OBVIOUS
    <3>3. /\ LineTypes(items) /\ LineOnce(items) /\ LineFresh(items, attempts)
          /\ SetTypes(delayed) /\ SetOnce(delayed) /\ SetFresh(delayed, attempts)
          /\ \A j \in LineIds(items) : j \notin SetIds(delayed)
      BY Disassembled DEF QueueGood
    <3> HIDE DEF due, q
    <3>4. /\ LineTypes(new) /\ LineOnce(new) /\ LineFresh(new, attempts)
          /\ SetTypes(waiting) /\ SetOnce(waiting) /\ SetFresh(waiting, attempts)
          /\ LineIds(new) \cup SetIds(waiting) = LineIds(items) \cup SetIds(delayed)
          /\ \A j \in LineIds(new) : j \notin SetIds(waiting)
      BY <1>2, <3>2, <3>3, Promoted
    <3> HIDE DEF new, waiting
    <3> QED BY <3>1, <3>4 DEF QueueGood, QueueIds
  <2>2. CASE ~Reachable
    <3>1. items' = items /\ delayed' = delayed
      BY <2>2 DEF Promote
    <3> QED BY <3>1, Disassembled
  <2> QED BY <2>1, <2>2
<1> QED BY <1>5, <1>6, Disassembled, NothingMoves DEF Promote

LEMMA WorkerWith ==
  ASSUME NEW r \in WorkerRec, NEW pc, NEW p
  PROVE  [[r EXCEPT !.pc = pc] EXCEPT !.p = p] = [pc |-> pc, q |-> r.q, p |-> p]
<1>1. r = [pc |-> r.pc, q |-> r.q, p |-> r.p]
  BY DEF WorkerRec
<1>2. [r EXCEPT !.pc = pc] = [pc |-> pc, q |-> r.q, p |-> r.p]
  BY <1>1
<1>3. [[pc |-> pc, q |-> r.q, p |-> r.p] EXCEPT !.p = p] = [pc |-> pc, q |-> r.q, p |-> p]
  OBVIOUS
<1> QED BY <1>2, <1>3

LEMMA PopSomeStep == ASSUME JobInv, NEW w \in Worker, PopSome(w) PROVE JobInv'
<1> DEFINE q == Queues[worker[w].q]
           m == FirstReady(q)
           new == [items EXCEPT ![q] = RemoveAt(items[q], m)]
           p == items[q][m]
           o == [pc |-> "process", q |-> worker[w].q, p |-> p]
           Q == QueueIds(items, delayed)
           H == HeldIds(worker)
           D == DeadIds(dead)
<1>1. worker[w].pc = "pop" /\ worker[w].pc \in FreePC /\ ReadyAt(q) # {}
      /\ UNCHANGED <<driver, delayed, dead, stopped, crashes, dispatched, attempts, succeeded>>
  BY DEF PopSome, FreePC
<1>2. worker[w].q \in 1..Len(Queues) /\ worker[w].p.id \notin Job /\ worker[w] \in WorkerRec
      /\ worker \in [Worker -> WorkerRec] /\ q \in QueueName
      /\ \A v \in Worker : HeldRight(worker[v], attempts)
  BY <1>1, WorkerAt DEF JobInv, WorkGood
<1>3. LineTypes(items) /\ LineOnce(items) /\ LineFresh(items, attempts)
      /\ SetTypes(delayed) /\ SetOnce(delayed) /\ SetFresh(delayed, attempts)
      /\ \A j \in LineIds(items) : j \notin SetIds(delayed)
  BY Disassembled DEF QueueGood
<1>4. items[q] \in Seq(Pay) /\ Len(items[q]) \in Nat
  BY <1>2, <1>3 DEF LineTypes
<1>5. m \in 1..Len(items[q])
  <2>1. ReadyAt(q) \subseteq Nat /\ ReadyAt(q) \subseteq 1..Len(items[q])
    BY <1>4 DEF ReadyAt
  <2>2. \E i \in ReadyAt(q) : \A k \in ReadyAt(q) : i <= k
    BY <1>1, <2>1, LeastNat
  <2>3. m \in ReadyAt(q)
    BY <2>2 DEF FirstReady
  <2> QED BY <2>1, <2>3
<1>6. items' = new
  BY DEF PopSome
<1>7. worker' = [worker EXCEPT ![w] = o]
  <2>1. worker' = [worker EXCEPT ![w].pc = "process", ![w].p = p]
    BY DEF PopSome
  <2>2. [[worker[w] EXCEPT !.pc = "process"] EXCEPT !.p = p] = o
    BY <1>2, WorkerWith
  <2> QED BY <1>2, <2>1, <2>2
<1> HIDE DEF m, q
<1>8. p \in Pay /\ p.id \in Job /\ p.id \in LineIds(items) /\ Fresh(p, attempts)
  <2>1. p \in Pay
    BY <1>4, <1>5
  <2>2. p.id \in Job
    BY <2>1 DEF Pay
  <2>3. Fresh(p, attempts)
    BY <1>2, <1>3, <1>5 DEF LineFresh
  <2> QED BY <1>2, <1>5, <2>1, <2>2, <2>3 DEF LineIds
<1>9. LineTypes(new) /\ LineOnce(new) /\ LineFresh(new, attempts) /\ LineIds(new) = LineIds(items) \ {p.id}
  BY <1>2, <1>3, <1>5, Taken
<1> HIDE DEF new, p
<1>10. o \in WorkerRec /\ o.p = p /\ o.pc = "process"
  BY <1>2, <1>8 DEF WorkerRec, HoldPC
<1>11. HeldRight(o, attempts)
  BY <1>8, <1>10 DEF HeldRight
<1> HIDE DEF o
<1>12. p.id \notin SetIds(delayed) /\ p.id \in Q /\ p.id \notin H /\ p.id \notin D /\ p.id \notin succeeded
  BY <1>3, <1>8, Disassembled DEF QueueIds, Apart
<1>13. /\ WorkGood(worker', attempts)
       /\ \A j \in Job : j \in HeldIds(worker') <=> j = o.p.id \/ (j \in HeldIds(worker) /\ j # worker[w].p.id)
  BY <1>2, <1>7, <1>8, <1>10, <1>11, <1>12, WorkerMoved
<1>14. HeldIds(worker') \subseteq Job /\ Q \subseteq Job /\ H \subseteq Job /\ D \subseteq Job
  BY IdsAreJobs
<1>15. HeldIds(worker') = H \cup {p.id}
  BY <1>2, <1>8, <1>10, <1>13, <1>14
<1>16. QueueGood(items', delayed', attempts)
  BY <1>1, <1>3, <1>6, <1>9 DEF QueueGood
<1>17. QueueIds(items', delayed') = Q \ {p.id}
  BY <1>1, <1>6, <1>9, <1>12 DEF QueueIds
<1>18. /\ Apart(Q, H, D, succeeded)
       /\ Q \cup H \cup D \cup succeeded \subseteq dispatched
       /\ driver = "memory" \/ (~stopped /\ crashes = 0) => dispatched \subseteq Q \cup H \cup D \cup succeeded
       /\ DeadGood(dead, attempts)
  BY Disassembled
<1>19. D = DeadIds(dead') /\ WorkGood(worker', attempts') /\ DeadGood(dead', attempts')
       /\ QueueGood(items', delayed', attempts')
  BY <1>1, <1>13, <1>16, <1>18
<1> HIDE DEF Q, H, D
<1>20. Apart(Q \ {p.id}, H \cup {p.id}, D, succeeded)
  BY <1>12, <1>18 DEF Apart
<1>21. /\ (Q \ {p.id}) \cup (H \cup {p.id}) \cup D \cup succeeded \subseteq dispatched
       /\ driver = "memory" \/ (~stopped /\ crashes = 0) =>
            dispatched \subseteq (Q \ {p.id}) \cup (H \cup {p.id}) \cup D \cup succeeded
  BY <1>12, <1>18
<1> QED BY <1>1, <1>15, <1>17, <1>19, <1>20, <1>21, Disassembled, Assembled

\* An attempt at job j says nothing of the other jobs.
LEMMA OthersAttempts ==
  ASSUME JobInv, NEW j \in Job, NEW at, \A i \in Job : i # j => at[i] = attempts[i],
         j \notin QueueIds(items, delayed), j \notin DeadIds(dead)
  PROVE  QueueGood(items, delayed, at) /\ DeadGood(dead, at)
<1>1. QueueGood(items, delayed, attempts) /\ DeadGood(dead, attempts)
  BY Disassembled
<1>2. LineFresh(items, at)
  <2> SUFFICES ASSUME NEW q \in QueueName, NEW i \in 1..Len(items[q]) PROVE Fresh(items[q][i], at)
    BY DEF LineFresh
  <2>1. items[q][i] \in Pay /\ Fresh(items[q][i], attempts)
    BY <1>1 DEF QueueGood, LineTypes, LineFresh
  <2>2. items[q][i].id \in Job
    BY <2>1 DEF Pay
  <2>3. items[q][i].id # j
    BY <2>2 DEF QueueIds, LineIds
  <2> QED BY <2>1, <2>2, <2>3 DEF Fresh
<1>3. SetFresh(delayed, at)
  <2> SUFFICES ASSUME NEW q \in QueueName, NEW p \in delayed[q] PROVE Fresh(p, at)
    BY DEF SetFresh
  <2>1. p \in Pay /\ Fresh(p, attempts)
    BY <1>1 DEF QueueGood, SetTypes, SetFresh
  <2>2. p.id \in Job
    BY <2>1 DEF Pay
  <2>3. p.id # j
    BY <2>2 DEF QueueIds, SetIds
  <2> QED BY <2>1, <2>2, <2>3 DEF Fresh
<1>4. DeadRight(dead, at)
  <2> SUFFICES ASSUME NEW i \in 1..Len(dead) PROVE dead[i] \in Unknown \/ at[dead[i]] = MaxAttempts
    BY DEF DeadRight
  <2>1. dead[i] \in Job /\ (dead[i] \in Unknown \/ attempts[dead[i]] = MaxAttempts)
    BY <1>1 DEF DeadGood, DeadRight
  <2>2. dead[i] # j
    BY DEF DeadIds
  <2> QED BY <2>1, <2>2
<1> QED BY <1>1, <1>2, <1>3, <1>4 DEF QueueGood, DeadGood

LEMMA ProcessStep == ASSUME JobInv, NEW w \in Worker, Process(w) PROVE JobInv'
<1> DEFINE p == worker[w].p
           j == p.id
           pc == IF j \in Unknown THEN "bury" ELSE "handle"
           r == [p EXCEPT !.Attempts = @ + 1]
           o == [pc |-> pc, q |-> worker[w].q, p |-> r]
<1>1. worker[w].pc = "process" /\ worker[w].pc \in HoldPC
      /\ UNCHANGED <<driver, items, delayed, dead, stopped, crashes, dispatched, succeeded>>
      /\ attempts' = IF j \in Unknown THEN attempts ELSE [attempts EXCEPT ![j] = @ + 1]
  BY DEF Process, HoldPC
<1>2. worker[w] \in WorkerRec /\ worker[w].q \in 1..Len(Queues) /\ p \in Pay /\ j \in Job /\ j \in HeldIds(worker)
      /\ HeldRight(worker[w], attempts)
  BY <1>1, WorkerAt
<1>3. Fresh(p, attempts) /\ worker \in [Worker -> WorkerRec]
  BY <1>1, <1>2, Disassembled DEF HeldRight, WorkGood
<1>4. p.Attempts \in Nat /\ MaxAttempts \in Nat /\ p.Attempts < MaxAttempts
      /\ (j \notin Unknown => attempts[j] = p.Attempts) /\ attempts \in [Job -> Nat]
  BY <1>2, <1>3, JobQueueAssumption, Disassembled DEF Fresh, Pay
<1>5. attempts' \in [Job -> Nat] /\ \A i \in Job : i # j => attempts'[i] = attempts[i]
  BY <1>1, <1>2, <1>4
<1>6. j \notin Unknown => attempts'[j] = p.Attempts + 1
  BY <1>1, <1>2, <1>4
<1>7. worker' = [worker EXCEPT ![w] = o]
  <2>1. worker' = [worker EXCEPT ![w] = [[worker[w] EXCEPT !.p.Attempts = worker[w].p.Attempts + 1] EXCEPT !.pc = pc]]
    BY <1>3 DEF Process
  <2>2. worker[w] = [pc |-> worker[w].pc, q |-> worker[w].q, p |-> worker[w].p]
    BY <1>2 DEF WorkerRec
  <2>3. [[worker[w] EXCEPT !.p.Attempts = worker[w].p.Attempts + 1] EXCEPT !.pc = pc] = o
    <3> HIDE DEF pc
    <3>1. [worker[w] EXCEPT !.p.Attempts = worker[w].p.Attempts + 1] = [pc |-> worker[w].pc, q |-> worker[w].q, p |-> r]
      BY <2>2
    <3>2. [[pc |-> worker[w].pc, q |-> worker[w].q, p |-> r] EXCEPT !.pc = pc] = o
      OBVIOUS
    <3> QED BY <3>1, <3>2
  <2> QED BY <2>1, <2>3
<1>8. r \in Pay /\ r.id = j /\ r.Attempts = p.Attempts + 1
  BY <1>2, <1>4 DEF Pay
<1> HIDE DEF r
<1>9. pc \in HoldPC /\ (pc = "bury" => j \in Unknown) /\ (pc = "handle" => j \notin Unknown)
      /\ pc \notin {"process", "release"}
  BY DEF HoldPC
<1> HIDE DEF pc
<1>10. o \in WorkerRec /\ o.p = r /\ o.pc = pc
  BY <1>2, <1>8, <1>9 DEF WorkerRec
<1> HIDE DEF o
<1>11. HeldRight(o, attempts')
  BY <1>4, <1>6, <1>8, <1>9, <1>10 DEF HeldRight
<1>12. ASSUME NEW v \in Worker, v # w PROVE HeldRight(worker[v], attempts')
  <2>1. HeldRight(worker[v], attempts) /\ (worker[v].pc \in HoldPC => worker[v].p.id \in Job)
    BY WorkerAt
  <2>2. worker[v].p.id # j
    BY <1>2, <1>12, Disassembled DEF WorkGood, HeldOnce
  <2>3. CASE worker[v].pc \in HoldPC
    BY <1>5, <2>1, <2>2, <2>3 DEF HeldRight, Fresh
  <2>4. CASE worker[v].pc \notin HoldPC
    BY <2>4 DEF HeldRight, HoldPC
  <2> QED BY <2>3, <2>4
<1>13. /\ WorkGood(worker', attempts')
       /\ \A i \in Job : i \in HeldIds(worker') <=> i = o.p.id \/ (i \in HeldIds(worker) /\ i # worker[w].p.id)
  BY <1>7, <1>8, <1>10, <1>11, <1>12, WorkerMoved
<1>14. HeldIds(worker') \subseteq Job /\ HeldIds(worker) \subseteq Job
  BY IdsAreJobs
<1>15. HeldIds(worker') = HeldIds(worker)
  BY <1>2, <1>8, <1>10, <1>13, <1>14
<1>16. j \notin QueueIds(items, delayed) /\ j \notin DeadIds(dead) /\ j \in dispatched
  BY <1>2, Disassembled DEF Apart
<1>17. QueueGood(items, delayed, attempts') /\ DeadGood(dead, attempts')
  BY <1>2, <1>5, <1>16, OthersAttempts
<1>18. \A i \in Job : i \notin dispatched => attempts'[i] = 0
  BY <1>5, <1>16, Disassembled
<1>19. QueueGood(items', delayed', attempts') /\ DeadGood(dead', attempts')
       /\ QueueIds(items', delayed') = QueueIds(items, delayed) /\ DeadIds(dead') = DeadIds(dead)
  BY <1>1, <1>17
<1>20. driver' = driver /\ stopped' = stopped /\ crashes' = crashes /\ dispatched' = dispatched /\ succeeded' = succeeded
  BY <1>1
<1>21. /\ Apart(QueueIds(items', delayed'), HeldIds(worker'), DeadIds(dead'), succeeded')
       /\ QueueIds(items', delayed') \cup HeldIds(worker') \cup DeadIds(dead') \cup succeeded' \subseteq dispatched'
       /\ driver = "memory" \/ (~stopped' /\ crashes' = 0) =>
            dispatched' \subseteq QueueIds(items', delayed') \cup HeldIds(worker') \cup DeadIds(dead') \cup succeeded'
       /\ \A i \in Job : i \notin dispatched' => attempts'[i] = 0
  BY <1>15, <1>18, <1>19, <1>20, Disassembled
<1> QED BY <1>5, <1>13, <1>19, <1>20, <1>21, Disassembled, Assembled

LEMMA FailStep == ASSUME JobInv, NEW w \in Worker, Fail(w) PROVE JobInv'
<1> DEFINE p == worker[w].p
           pc == IF Exhausted(p) THEN "bury" ELSE "release"
           o == [pc |-> pc, q |-> worker[w].q, p |-> p]
<1>1. worker[w].pc = "handle" /\ worker[w].pc \in HoldPC
  BY DEF Fail, HoldPC
<1>2. worker[w] \in WorkerRec /\ worker[w].q \in 1..Len(Queues) /\ p \in Pay /\ p.id \in Job /\ p.id \in HeldIds(worker)
      /\ \A v \in Worker : HeldRight(worker[v], attempts)
  BY <1>1, WorkerAt
<1>3. p.id \notin Unknown /\ p.Attempts <= MaxAttempts /\ attempts[p.id] = p.Attempts
      /\ p.Attempts \in Nat /\ MaxAttempts \in Nat
  BY <1>1, <1>2, JobQueueAssumption DEF HeldRight, Pay
<1>4. worker' = [worker EXCEPT ![w] = o]
  <2>1. worker[w] = [pc |-> worker[w].pc, q |-> worker[w].q, p |-> worker[w].p]
    BY <1>2 DEF WorkerRec
  <2>2. [worker[w] EXCEPT !.pc = pc] = o
    BY <2>1
  <2>3. worker' = [worker EXCEPT ![w] = [worker[w] EXCEPT !.pc = pc]]
    BY DEF Fail, Goto
  <2> QED BY <2>2, <2>3
<1>5. pc \in HoldPC /\ (pc = "bury" => p.Attempts >= MaxAttempts) /\ (pc = "release" => ~(p.Attempts >= MaxAttempts))
      /\ pc \notin {"process", "handle"}
  BY DEF HoldPC, Exhausted
<1> HIDE DEF pc
<1>6. o \in WorkerRec /\ o.p = p /\ o.pc = pc
  BY <1>2, <1>5 DEF WorkerRec
<1> HIDE DEF o
<1>7. HeldRight(o, attempts)
  BY <1>3, <1>5, <1>6 DEF HeldRight, Fresh
<1>8. /\ WorkGood(worker', attempts)
      /\ \A j \in Job : j \in HeldIds(worker') <=> j = o.p.id \/ (j \in HeldIds(worker) /\ j # worker[w].p.id)
  BY <1>2, <1>4, <1>6, <1>7, WorkerMoved
<1>9. HeldIds(worker') \subseteq Job /\ HeldIds(worker) \subseteq Job
  BY IdsAreJobs
<1>10. HeldIds(worker') = HeldIds(worker)
  BY <1>2, <1>6, <1>8, <1>9
<1>11. items' = items /\ delayed' = delayed /\ UNCHANGED <<driver, crashes, dispatched, attempts, succeeded, dead, stopped>>
  BY DEF Fail
<1> QED BY <1>8, <1>10, <1>11, Disassembled, NothingMoves

\* A worker that lets go of its job leaves everything else to the step.
LEMMA LettingGo ==
  ASSUME JobInv, NEW w \in Worker, worker[w].pc \in HoldPC, Again(w)
  PROVE  /\ worker[w].p.id \in Job /\ worker[w].p.id \in HeldIds(worker)
         /\ worker[w].p.id \notin QueueIds(items, delayed) /\ worker[w].p.id \notin DeadIds(dead)
         /\ worker[w].p.id \notin succeeded /\ worker[w].p.id \in dispatched
         /\ WorkGood(worker', attempts) /\ HeldIds(worker') = HeldIds(worker) \ {worker[w].p.id}
<1>1. worker[w].p.id \in Job /\ worker[w].p.id \in HeldIds(worker)
  BY WorkerAt
<1> QED BY <1>1, LetGo, Disassembled DEF Apart

LEMMA SucceedStep == ASSUME JobInv, NEW w \in Worker, Succeed(w) PROVE JobInv'
<1> DEFINE j == worker[w].p.id
           Q == QueueIds(items, delayed)
           H == HeldIds(worker)
           D == DeadIds(dead)
<1>1. worker[w].pc \in HoldPC /\ Again(w) /\ succeeded' = succeeded \cup {j}
      /\ UNCHANGED <<driver, items, delayed, dead, stopped, crashes, dispatched, attempts>>
  BY DEF Succeed, HoldPC
<1>2. j \in Job /\ j \in H /\ j \notin Q /\ j \notin D /\ j \notin succeeded /\ j \in dispatched
      /\ WorkGood(worker', attempts) /\ HeldIds(worker') = H \ {j}
  BY <1>1, LettingGo
<1>3. /\ Apart(Q, H, D, succeeded)
      /\ Q \cup H \cup D \cup succeeded \subseteq dispatched
      /\ driver = "memory" \/ (~stopped /\ crashes = 0) => dispatched \subseteq Q \cup H \cup D \cup succeeded
      /\ DeadGood(dead, attempts) /\ QueueGood(items, delayed, attempts)
  BY Disassembled
<1>4. Q = QueueIds(items', delayed') /\ D = DeadIds(dead') /\ WorkGood(worker', attempts')
      /\ DeadGood(dead', attempts') /\ QueueGood(items', delayed', attempts')
  BY <1>1, <1>2, <1>3
<1> HIDE DEF j, Q, H, D
<1>5. Apart(Q, H \ {j}, D, succeeded \cup {j})
  BY <1>2, <1>3 DEF Apart
<1>6. /\ Q \cup (H \ {j}) \cup D \cup (succeeded \cup {j}) \subseteq dispatched
      /\ driver = "memory" \/ (~stopped /\ crashes = 0) =>
           dispatched \subseteq Q \cup (H \ {j}) \cup D \cup (succeeded \cup {j})
      /\ succeeded \cup {j} \subseteq Job
  BY <1>2, <1>3, Disassembled
<1> QED BY <1>1, <1>2, <1>4, <1>5, <1>6, Disassembled, Assembled

\* A job goes to the dead letters.
LEMMA Buried ==
  ASSUME NEW dd, NEW at, DeadGood(dd, at), NEW j \in Job, j \notin DeadIds(dd),
         j \in Unknown \/ at[j] = MaxAttempts
  PROVE  DeadGood(Append(dd, j), at) /\ DeadIds(Append(dd, j)) = DeadIds(dd) \cup {j}
<1> DEFINE s == Append(dd, j)
           n == Len(dd)
<1>1. dd \in Seq(Job) /\ DeadOnce(dd) /\ DeadRight(dd, at) /\ n \in Nat
  BY DEF DeadGood
<1>2. s \in Seq(Job) /\ Len(s) = n + 1 /\ s[n + 1] = j /\ \A i \in 1..n : s[i] = dd[i]
  BY <1>1, AppendProperties
<1> HIDE DEF s
<1>3. \A i \in 1..n : dd[i] # j
  BY DEF DeadIds
<1>4. \A i \in 1..Len(s) : i \in 1..n \/ i = n + 1
  BY <1>1, <1>2
<1>5. DeadOnce(s)
  BY <1>1, <1>2, <1>3, <1>4 DEF DeadOnce
<1>6. DeadRight(s, at)
  BY <1>1, <1>2, <1>4 DEF DeadRight
<1>7. \A i \in 1..n : i \in 1..Len(s)
  BY <1>1, <1>2
<1>8. n + 1 \in 1..Len(s)
  BY <1>1, <1>2
<1>9. DeadIds(s) = DeadIds(dd) \cup {j}
  BY <1>2, <1>4, <1>7, <1>8 DEF DeadIds
<1> QED BY <1>2, <1>5, <1>6, <1>9 DEF DeadGood, s

LEMMA BuryStep == ASSUME JobInv, NEW w \in Worker, Bury(w) PROVE JobInv'
<1> DEFINE j == worker[w].p.id
           Q == QueueIds(items, delayed)
           H == HeldIds(worker)
           D == DeadIds(dead)
<1>1. worker[w].pc = "bury" /\ worker[w].pc \in HoldPC /\ Again(w)
      /\ dead' = (IF Reachable THEN Append(dead, j) ELSE dead)
      /\ UNCHANGED <<driver, items, delayed, succeeded, stopped, crashes, dispatched, attempts>>
  BY DEF Bury, HoldPC
<1>2. j \in Job /\ j \in H /\ j \notin Q /\ j \notin D /\ j \notin succeeded /\ j \in dispatched
      /\ WorkGood(worker', attempts) /\ HeldIds(worker') = H \ {j}
  BY <1>1, LettingGo
<1>3. j \in Unknown \/ attempts[j] = MaxAttempts
  BY <1>1, WorkerAt DEF HeldRight
<1>4. /\ Apart(Q, H, D, succeeded)
      /\ Q \cup H \cup D \cup succeeded \subseteq dispatched
      /\ driver = "memory" \/ (~stopped /\ crashes = 0) => dispatched \subseteq Q \cup H \cup D \cup succeeded
      /\ DeadGood(dead, attempts) /\ QueueGood(items, delayed, attempts)
  BY Disassembled
<1>5. Q = QueueIds(items', delayed') /\ WorkGood(worker', attempts') /\ QueueGood(items', delayed', attempts')
  BY <1>1, <1>2, <1>4
<1> HIDE DEF j, Q, H
<1>6. CASE Reachable
  <2>1. DeadGood(dead', attempts') /\ DeadIds(dead') = D \cup {j}
    BY <1>1, <1>2, <1>3, <1>4, <1>6, Buried
  <2> HIDE DEF D
  <2>2. Apart(Q, H \ {j}, D \cup {j}, succeeded)
    BY <1>2, <1>4 DEF Apart
  <2>3. /\ Q \cup (H \ {j}) \cup (D \cup {j}) \cup succeeded \subseteq dispatched
        /\ driver = "memory" \/ (~stopped /\ crashes = 0) =>
             dispatched \subseteq Q \cup (H \ {j}) \cup (D \cup {j}) \cup succeeded
    BY <1>2, <1>4
  <2> QED BY <1>1, <1>2, <1>5, <2>1, <2>2, <2>3, Disassembled, Assembled
<1>7. CASE ~Reachable
  <2>1. DeadGood(dead', attempts') /\ DeadIds(dead') = D
    BY <1>1, <1>4, <1>7
  <2> HIDE DEF D
  <2>2. Apart(Q, H \ {j}, D, succeeded)
    BY <1>2, <1>4 DEF Apart
  <2>3. /\ Q \cup (H \ {j}) \cup D \cup succeeded \subseteq dispatched
        /\ ~(driver = "memory" \/ (~stopped /\ crashes = 0))
    BY <1>2, <1>4, <1>7 DEF Reachable
  <2> QED BY <1>1, <1>2, <1>5, <2>1, <2>2, <2>3, Disassembled, Assembled
<1> QED BY <1>6, <1>7

LEMMA ReleaseStep == ASSUME JobInv, NEW w \in Worker, Release(w) PROVE JobInv'
<1> DEFINE p == worker[w].p
           j == p.id
           q == Queues[worker[w].q]
           r == [p EXCEPT !.wait = 2^p.Attempts]
           Q == QueueIds(items, delayed)
           H == HeldIds(worker)
           D == DeadIds(dead)
<1>1. worker[w].pc = "release" /\ worker[w].pc \in HoldPC /\ Again(w)
      /\ UNCHANGED <<driver, dead, succeeded, stopped, crashes, dispatched, attempts>>
  BY DEF Release, HoldPC
<1>2. j \in Job /\ j \in H /\ j \notin Q /\ j \notin D /\ j \notin succeeded /\ j \in dispatched
      /\ WorkGood(worker', attempts) /\ HeldIds(worker') = H \ {j}
  BY <1>1, LettingGo
<1>3. p \in Pay /\ q \in QueueName /\ Fresh(p, attempts)
  BY <1>1, WorkerAt DEF HeldRight
<1>4. /\ Apart(Q, H, D, succeeded)
      /\ Q \cup H \cup D \cup succeeded \subseteq dispatched
      /\ driver = "memory" \/ (~stopped /\ crashes = 0) => dispatched \subseteq Q \cup H \cup D \cup succeeded
      /\ DeadGood(dead, attempts) /\ QueueGood(items, delayed, attempts)
  BY Disassembled
<1>5. D = DeadIds(dead') /\ WorkGood(worker', attempts') /\ DeadGood(dead', attempts')
  BY <1>1, <1>2, <1>4
<1>6. CASE Reachable
  <2>1. Push(q, r)
    BY <1>6 DEF Release
  <2>2. 2^p.Attempts \in Int
    <3>1. p.Attempts \in Nat
      BY <1>3 DEF Pay
    <3> QED BY <3>1
  <2>3. r \in Pay /\ r.id = j /\ r.Attempts = p.Attempts
    BY <1>3, <2>2 DEF Pay
  <2>4. Fresh(r, attempts)
    BY <1>3, <2>3 DEF Fresh
  <2> HIDE DEF r, q
  <2>5. QueueGood(items', delayed', attempts) /\ QueueIds(items', delayed') = Q \cup {j}
    <3>1. r.id \notin QueueIds(items, delayed)
      BY <1>2, <2>3
    <3>2. /\ QueueGood(items', delayed', attempts)
          /\ QueueIds(items', delayed') = QueueIds(items, delayed) \cup {r.id}
      BY <1>3, <2>1, <2>3, <2>4, <3>1, Pushed
    <3> QED BY <2>3, <3>2
  <2>6. QueueGood(items', delayed', attempts')
    BY <1>1, <2>5
  <2> HIDE DEF j, Q, H, D
  <2>7. Apart(Q \cup {j}, H \ {j}, D, succeeded)
    BY <1>2, <1>4 DEF Apart
  <2>8. /\ (Q \cup {j}) \cup (H \ {j}) \cup D \cup succeeded \subseteq dispatched
        /\ driver = "memory" \/ (~stopped /\ crashes = 0) =>
             dispatched \subseteq (Q \cup {j}) \cup (H \ {j}) \cup D \cup succeeded
    BY <1>2, <1>4
  <2> QED BY <1>1, <1>2, <1>5, <2>5, <2>6, <2>7, <2>8, Disassembled, Assembled
<1>7. CASE ~Reachable
  <2>1. items' = items /\ delayed' = delayed
    BY <1>7 DEF Release
  <2>2. Q = QueueIds(items', delayed') /\ QueueGood(items', delayed', attempts')
    BY <1>1, <1>4, <2>1
  <2> HIDE DEF j, Q, H, D
  <2>3. Apart(Q, H \ {j}, D, succeeded)
    BY <1>2, <1>4 DEF Apart
  <2>4. /\ Q \cup (H \ {j}) \cup D \cup succeeded \subseteq dispatched
        /\ ~(driver = "memory" \/ (~stopped /\ crashes = 0))
    BY <1>2, <1>4, <1>7 DEF Reachable
  <2> QED BY <1>1, <1>2, <1>5, <2>2, <2>3, <2>4, Disassembled, Assembled
<1> QED BY <1>6, <1>7

LEMMA CrashStep == ASSUME JobInv, Crash PROVE JobInv'
<1>1. driver = "redis" /\ worker' = [w \in Worker |-> Idle] /\ stopped' = FALSE /\ crashes' = crashes + 1
      /\ UNCHANGED <<driver, items, delayed, dead, dispatched, attempts, succeeded>>
  BY DEF Crash
<1>2. NoPayload.id = NoJob /\ NoJob \notin Job /\ 1 \in 1..Len(Queues)
  BY JobQueueAssumption DEF NoPayload
<1>3. Idle \in WorkerRec /\ Idle.p = NoPayload /\ Idle.pc = "wait"
  BY <1>2 DEF Idle, WorkerRec, FreePC
<1>4. \A w \in Worker : worker'[w] = Idle
  BY <1>1
<1>5. WorkGood(worker', attempts)
  BY <1>1, <1>2, <1>3 DEF WorkGood, HeldOnce, HeldRight
<1>6. HeldIds(worker') = {}
  BY <1>2, <1>3, <1>4 DEF HeldIds
<1>7. QueueGood(items', delayed', attempts') /\ WorkGood(worker', attempts') /\ DeadGood(dead', attempts')
      /\ QueueIds(items', delayed') = QueueIds(items, delayed) /\ DeadIds(dead') = DeadIds(dead)
  BY <1>1, <1>5, Disassembled
<1>8. Apart(QueueIds(items, delayed), {}, DeadIds(dead), succeeded)
  BY Disassembled DEF Apart
<1>9. QueueIds(items, delayed) \cup {} \cup DeadIds(dead) \cup succeeded \subseteq dispatched
  BY Disassembled
<1>10. crashes' \in Nat /\ crashes' # 0
  BY <1>1, Disassembled
<1> QED BY <1>1, <1>6, <1>7, <1>8, <1>9, <1>10, Disassembled, Assembled

LEMMA JobStep == JobInv /\ [Next]_vars => JobInv'
<1> SUFFICES ASSUME JobInv, [Next]_vars PROVE JobInv'
  OBVIOUS
<1>1. ASSUME NEW j \in Job, NEW q \in QueueName, NEW delay \in Delay, Dispatch(j, q, delay) PROVE JobInv'
  BY <1>1, DispatchStep
<1>2. ASSUME NEW w \in Worker, WorkerStep(w) PROVE JobInv'
  BY <1>2, PollStep, ExitStep, PromoteStep, PopSomeStep, PopNoneStep, ProcessStep, SucceedStep, FailStep,
     BuryStep, ReleaseStep DEF WorkerStep
<1>3. CASE UNCHANGED vars
  <2>1. items' = items /\ delayed' = delayed /\ worker' = worker
        /\ UNCHANGED <<driver, crashes, dispatched, attempts, succeeded, dead, stopped>>
    BY <1>3 DEF vars
  <2> QED BY <2>1, Disassembled, NothingMoves
<1> QED BY <1>1, <1>2, <1>3, StopStep, CrashStep, SecondStep DEF Next

\* No job is held twice or held and still in line, none is lost while the
\* driver can be reached, and a job is dead-lettered after its last attempt and
\* not before, whatever the jobs, the queues, the workers, the driver, the
\* number of attempts and the crashes (queue.go 76-177).
THEOREM JobsKept == Spec => []JobsAccounted
<1>1. Init => JobInv
  BY JobInit
<1>2. JobInv /\ [Next]_vars => JobInv'
  BY JobStep
<1>3. JobInv => JobsAccounted
  BY JobInvSuffices
<1> QED BY <1>1, <1>2, <1>3, PTL DEF Spec

----------------------------------------------------------------------------
(* The store over restarts.  From the moment Serve has returned, what is   *)
(* in memory, what main's Shutdown collects and what it leaves on disk all *)
(* follow the entries there were then.                                     *)

\* An entry of entries that is still alive at time t.
LiveAt(e, t) == e.exp = 0 \/ t <= e.exp

Entry == [value : StoredValue, exp : 0..MaxNow]

\* The entries new, taken at or before time t, are the ones of old that are alive
\* at t; peers' writes may have taken places.
FollowsAt(new, old, t) ==
  \A k \in StoreKey :
    \/ k \in DOMAIN new /\ new[k].value = "remote" /\ new[k].exp = 0
    \/ /\ k \in DOMAIN new => k \in DOMAIN old /\ new[k] = old[k]
       /\ k \in DOMAIN old /\ LiveAt(old[k], t) => k \in DOMAIN new

OnlyMain == callers = {"main"}
Orderly == left.how = "orderly"

\* What holds once Serve has returned in time and main alone calls Shutdown.
Exiting ==
  /\ call["watch"].pc = "idle"
  /\ proc = "served" => ~serving /\ FollowsAt(rows, left.rows, now)
  /\ call["main"].pc \in {"collected", "done"} => FollowsAt(call["main"].rows, left.rows, now)
  /\ call["main"].pc = "done" /\ Encodable(left.rows) =>
       disk = [readable |-> TRUE, rows |-> call["main"].rows]
  /\ proc = "off" => call["main"].pc = "done"

LifeInv ==
  /\ LifeTypeOK
  /\ OnlyMain => call["watch"].pc = "idle"
  /\ proc \in {"serving", "draining"} => call["main"].pc = "idle"
  /\ OnlyMain /\ Orderly /\ proc \in {"served", "off"} => Exiting

LEMMA EntriesIs ==
  ASSUME NEW es \in Entries
  PROVE  /\ DOMAIN es \subseteq StoreKey
         /\ \A k \in DOMAIN es : es[k] \in Entry
         /\ es = [k \in DOMAIN es |-> es[k]]
<1>1. PICK S \in SUBSET StoreKey : es \in [S -> Entry]
  BY DEF Entries, Entry
<1> QED
  BY <1>1

LEMMA InEntries ==
  ASSUME NEW S \in SUBSET StoreKey, NEW es \in [S -> Entry]
  PROVE  es \in Entries
  BY DEF Entries, Entry

LEMMA NoEntries == << >> \in Entries
<1>1. << >> = [k \in {} |-> k] /\ [k \in {} |-> k] \in [{} -> Entry]
  OBVIOUS
<1> QED
  BY <1>1, InEntries

LEMMA UnexpiredIs ==
  ASSUME NEW es \in Entries
  PROVE  /\ Unexpired(es) \in Entries
         /\ DOMAIN Unexpired(es) = {k \in DOMAIN es : LiveAt(es[k], now)}
         /\ \A k \in DOMAIN Unexpired(es) : Unexpired(es)[k] = es[k]
<1> DEFINE S == {k \in DOMAIN es : es[k].exp = 0 \/ now <= es[k].exp}
<1>1. Unexpired(es) = [k \in S |-> es[k]]
  BY DEF Unexpired
<1>2. S \in SUBSET StoreKey /\ \A k \in S : es[k] \in Entry
  BY EntriesIs
<1>3. [k \in S |-> es[k]] \in [S -> Entry]
  BY <1>2
<1>4. S = {k \in DOMAIN es : LiveAt(es[k], now)}
  BY DEF LiveAt
<1> HIDE DEF S
<1> QED
  BY <1>1, <1>2, <1>3, <1>4, InEntries

LEMMA PutIs ==
  ASSUME rows \in Entries, NEW k \in StoreKey, NEW e \in Entry
  PROVE  /\ Put(k, e) \in Entries /\ DOMAIN Put(k, e) = DOMAIN rows \union {k} /\ Put(k, e)[k] = e
         /\ \A j \in DOMAIN rows \ {k} : Put(k, e)[j] = rows[j]
<1> DEFINE S == DOMAIN rows \union {k}
<1>1. Put(k, e) = [j \in S |-> IF j = k THEN e ELSE rows[j]]
  BY DEF Put
<1>2. S \in SUBSET StoreKey /\ \A j \in DOMAIN rows : rows[j] \in Entry
  BY EntriesIs
<1>3. Put(k, e) \in [S -> Entry]
  BY <1>1, <1>2
<1> QED
  BY <1>1, <1>2, <1>3, InEntries

LEMMA DroppedIs ==
  ASSUME NEW es \in Entries, NEW k \in StoreKey
  PROVE  [j \in DOMAIN es \ {k} |-> es[j]] \in Entries
<1>1. DOMAIN es \ {k} \in SUBSET StoreKey /\ \A j \in DOMAIN es : es[j] \in Entry
  BY EntriesIs
<1>2. [j \in DOMAIN es \ {k} |-> es[j]] \in [DOMAIN es \ {k} -> Entry]
  BY <1>1
<1> QED
  BY <1>1, <1>2, InEntries

CallState == [pc : {"idle", "cancelled", "stopped", "created", "collected", "done"}, rows : Entries]

LEMMA LifeInit_Inv == LifeInit => LifeInv
<1> SUFFICES ASSUME LifeInit PROVE LifeInv
  OBVIOUS
<1>1. NoCall \in CallState /\ NoFile \in [readable : BOOLEAN, rows : Entries]
  BY NoEntries DEF NoCall, NoFile, CallState
<1>2. call \in [Caller -> CallState] /\ call["watch"].pc = "idle" /\ call["main"].pc = "idle"
  BY <1>1 DEF LifeInit, NoCall, Caller
<1>3. left \in [how : {"never", "orderly", "forced"}, rows : Entries] /\ left.how = "never"
  BY NoEntries DEF LifeInit
<1>4. boots \in 0..MaxBoots /\ writes \in 0..MaxChanges /\ now \in 1..MaxNow
  BY LifeAssumption DEF LifeInit
<1>5. callers \subseteq Caller
  BY DEF LifeInit
<1>6. LifeTypeOK
  BY <1>1, <1>2, <1>3, <1>4, <1>5, NoEntries DEF LifeInit, LifeTypeOK, CallState
<1> QED
  BY <1>2, <1>3, <1>6 DEF LifeInit, LifeInv, Orderly

LEMMA ServingStep ==
  ASSUME LifeInv, LifeTypeOK', proc' \in {"serving", "draining", "panicked"},
         call'["main"].pc = "idle", OnlyMain' => call'["watch"].pc = "idle"
  PROVE  LifeInv'
  BY DEF LifeInv

LEMMA Boot_Inv == ASSUME LifeInv, Boot PROVE LifeInv'
<1>1. NoCall \in CallState
  BY NoEntries DEF NoCall, CallState
<1>2. call' \in [Caller -> CallState] /\ call'["watch"].pc = "idle" /\ call'["main"].pc = "idle"
  BY <1>1 DEF Boot, Caller, NoCall
<1>3. disk.rows \in Entries
  BY DEF LifeInv, LifeTypeOK
<1>4. rows' \in Entries
  BY <1>3, NoEntries, UnexpiredIs DEF Boot, LoadSnapshot
<1>5. boots' \in 0..MaxBoots
  BY LifeAssumption DEF Boot, LifeInv, LifeTypeOK
<1>6. LifeTypeOK'
  BY <1>2, <1>4, <1>5 DEF Boot, LifeInv, LifeTypeOK, CallState
<1> QED
  BY <1>2, <1>6, ServingStep DEF Boot

LEMMA RequestBegins_Inv == ASSUME LifeInv, RequestBegins PROVE LifeInv'
<1>1. LifeTypeOK'
  BY DEF RequestBegins, LifeInv, LifeTypeOK
<1> QED
  BY <1>1, ServingStep DEF RequestBegins, LifeInv, OnlyMain

LEMMA RequestEnds_Inv == ASSUME LifeInv, RequestEnds PROVE LifeInv'
<1>1. LifeTypeOK'
  BY DEF RequestEnds, LifeInv, LifeTypeOK
<1> QED
  BY <1>1 DEF RequestEnds, LifeInv, OnlyMain, Orderly, Exiting, FollowsAt, LiveAt, Encodable

LEMMA Signal_Inv == ASSUME LifeInv, Signal PROVE LifeInv'
<1>1. LifeTypeOK'
  BY DEF Signal, LifeInv, LifeTypeOK
<1> QED
  BY <1>1, ServingStep DEF Signal, LifeInv, OnlyMain

LEMMA Drained_Inv == ASSUME LifeInv, Drained PROVE LifeInv'
<1>1. left' \in [how : {"never", "orderly", "forced"}, rows : Entries] /\ left'.rows = rows
  BY DEF Drained, LifeInv, LifeTypeOK
<1>2. LifeTypeOK'
  BY <1>1 DEF Drained, LifeInv, LifeTypeOK
<1>3. call["main"].pc = "idle"
  BY DEF Drained, LifeInv
<1>4. FollowsAt(rows', left'.rows, now')
  BY <1>1 DEF Drained, FollowsAt
<1>5. OnlyMain' => Exiting'
  BY <1>3, <1>4 DEF Drained, LifeInv, Exiting, OnlyMain
<1> QED
  BY <1>2, <1>5 DEF Drained, LifeInv, OnlyMain

LEMMA DrainTimeout_Inv == ASSUME LifeInv, DrainTimeout PROVE LifeInv'
<1>1. left' \in [how : {"never", "orderly", "forced"}, rows : Entries] /\ left'.how = "forced"
  BY DEF DrainTimeout, LifeInv, LifeTypeOK
<1>2. LifeTypeOK'
  BY <1>1 DEF DrainTimeout, LifeInv, LifeTypeOK
<1> QED
  BY <1>1, <1>2 DEF DrainTimeout, LifeInv, OnlyMain, Orderly

LEMMA MainReturns_Inv == ASSUME LifeInv, MainReturns PROVE LifeInv'
<1>1. LifeTypeOK'
  BY DEF MainReturns, LifeInv, LifeTypeOK
<1>2. OnlyMain => call["main"].pc = "done"
  BY DEF MainReturns, OnlyMain
<1>3. OnlyMain /\ Orderly => Exiting
  BY DEF MainReturns, LifeInv
<1>4. OnlyMain /\ Orderly => Exiting'
  BY <1>2, <1>3 DEF MainReturns, Exiting, FollowsAt, LiveAt, Encodable
<1> QED
  BY <1>1, <1>4 DEF MainReturns, LifeInv, OnlyMain, Orderly

LEMMA ProcessDies_Inv == ASSUME LifeInv, ProcessDies PROVE LifeInv'
<1>1. left' \in [how : {"never", "orderly", "forced"}, rows : Entries] /\ left'.how = "forced"
  BY DEF ProcessDies, LifeInv, LifeTypeOK
<1>2. LifeTypeOK'
  BY <1>1 DEF ProcessDies, LifeInv, LifeTypeOK
<1> QED
  BY <1>1, <1>2 DEF ProcessDies, LifeInv, OnlyMain, Orderly

\* Entries die with the time and never come back.
LEMMA FollowsLater ==
  ASSUME NEW new, NEW old \in Entries, NEW t \in Nat, NEW u \in Nat, t <= u, FollowsAt(new, old, t)
  PROVE  FollowsAt(new, old, u)
<1>1. \A k \in DOMAIN old : LiveAt(old[k], u) => LiveAt(old[k], t)
  BY EntriesIs, LifeAssumption DEF LiveAt, Entry
<1> QED
  BY <1>1 DEF FollowsAt

LEMMA Clock_Inv == ASSUME LifeInv, Clock PROVE LifeInv'
<1>1. now' \in 1..MaxNow /\ now \in Nat /\ now' \in Nat /\ now <= now'
  BY LifeAssumption DEF Clock, LifeInv, LifeTypeOK
<1>2. LifeTypeOK'
  BY <1>1 DEF Clock, LifeInv, LifeTypeOK
<1>3. left.rows \in Entries
  BY DEF LifeInv, LifeTypeOK
<1>4. ASSUME NEW new, FollowsAt(new, left.rows, now) PROVE FollowsAt(new, left'.rows, now')
  BY <1>1, <1>3, <1>4, FollowsLater DEF Clock
<1>5. ASSUME Exiting PROVE Exiting'
  BY <1>4, <1>5 DEF Clock, Exiting, Encodable
<1> QED
  BY <1>2, <1>5 DEF Clock, LifeInv, OnlyMain, Orderly

\* A write, by a request or by a peer.
LEMMA Change_Inv ==
  ASSUME LifeInv, ProcessAlive, NEW new \in Entries, Change(new),
         OnlyMain /\ Orderly /\ proc = "served" => FollowsAt(new, left.rows, now)
  PROVE  LifeInv'
<1>1. writes' \in 0..MaxChanges
  BY LifeAssumption DEF Change, LifeInv, LifeTypeOK
<1>2. LifeTypeOK'
  BY <1>1 DEF Change, LifeInv, LifeTypeOK
<1>3. proc # "off"
  BY DEF ProcessAlive
<1>4. OnlyMain /\ Orderly /\ proc = "served" => Exiting'
  <2> SUFFICES ASSUME OnlyMain, Orderly, proc = "served" PROVE Exiting'
    OBVIOUS
  <2>1. Exiting
    BY DEF LifeInv
  <2> QED
    BY <2>1 DEF Change, Exiting, Encodable
<1> QED
  BY <1>2, <1>3, <1>4 DEF Change, LifeInv, OnlyMain, Orderly

\* No request is being handled once Serve has returned in time.
LEMMA NoLateRequest ==
  ASSUME LifeInv, serving PROVE ~(OnlyMain /\ Orderly /\ proc = "served")
  BY DEF LifeInv, Exiting

LEMMA Set_Inv ==
  ASSUME LifeInv, NEW k \in StoreKey, NEW v \in StoredValue, NEW exp \in 0..MaxNow, Set(k, v, exp)
  PROVE  LifeInv'
<1>1. [value |-> v, exp |-> exp] \in Entry
  BY DEF Entry
<1>2. Put(k, [value |-> v, exp |-> exp]) \in Entries
  BY <1>1, PutIs DEF LifeInv, LifeTypeOK
<1> QED
  BY <1>2, NoLateRequest, Change_Inv DEF Set

LEMMA Delete_Inv == ASSUME LifeInv, NEW k \in StoreKey, Delete(k) PROVE LifeInv'
<1>1. [j \in DOMAIN rows \ {k} |-> rows[j]] \in Entries
  BY DroppedIs DEF LifeInv, LifeTypeOK
<1> QED
  BY <1>1, NoLateRequest, Change_Inv DEF Delete

LEMMA RemoteSet_Inv == ASSUME LifeInv, NEW k \in StoreKey, RemoteSet(k) PROVE LifeInv'
<1> DEFINE e == [value |-> "remote", exp |-> 0]
<1>1. e \in Entry /\ e.value = "remote" /\ e.exp = 0
  BY LifeAssumption DEF Entry, StoredValue
<1>2. rows \in Entries
  BY DEF LifeInv, LifeTypeOK
<1> HIDE DEF e
<1>3. /\ Put(k, e) \in Entries /\ DOMAIN Put(k, e) = DOMAIN rows \union {k} /\ Put(k, e)[k] = e
      /\ \A j \in DOMAIN rows \ {k} : Put(k, e)[j] = rows[j]
  BY <1>1, <1>2, PutIs
<1>4. OnlyMain /\ Orderly /\ proc = "served" => FollowsAt(Put(k, e), left.rows, now)
  <2> SUFFICES ASSUME OnlyMain, Orderly, proc = "served" PROVE FollowsAt(Put(k, e), left.rows, now)
    OBVIOUS
  <2>1. FollowsAt(rows, left.rows, now)
    BY DEF LifeInv, Exiting
  <2> QED
    BY <2>1, <1>1, <1>3 DEF FollowsAt
<1>5. ProcessAlive /\ Change(Put(k, e))
  BY DEF RemoteSet, e
<1> QED
  BY <1>3, <1>4, <1>5, Change_Inv

----------------------------------------------------------------------------

LEMMA CallMoves ==
  ASSUME LifeInv, NEW c \in Caller, NEW from, NEW to \in {"cancelled", "stopped", "created", "done"},
         At(c, from, to)
  PROVE  /\ call' \in [Caller -> CallState]
         /\ call'[c].pc = to /\ call'[c].rows = call[c].rows
         /\ \A d \in Caller \ {c} : call'[d] = call[d]
<1>1. call \in [Caller -> CallState]
  BY DEF LifeInv, LifeTypeOK, CallState
<1>2. call' = [call EXCEPT ![c].pc = to]
  BY DEF At
<1>3. [call[c] EXCEPT !.pc = to] \in CallState
  BY <1>1 DEF CallState
<1> QED
  BY <1>1, <1>2, <1>3 DEF CallState

\* Only main can be past the start if it alone calls Shutdown, and only after
\* Serve.
LEMMA CallerIs ==
  ASSUME LifeInv, ProcessAlive, NEW c \in Caller, call[c].pc # "idle"
  PROVE  OnlyMain => c = "main" /\ proc = "served"
  BY DEF LifeInv, Caller, ProcessAlive, LifeTypeOK

LEMMA Cancel_Inv == ASSUME LifeInv, NEW c \in Caller, Cancel(c) PROVE LifeInv'
<1>1. At(c, "idle", "cancelled")
  BY DEF Cancel
<1>2. /\ call' \in [Caller -> CallState]
      /\ call'[c].pc = "cancelled" /\ call'[c].rows = call[c].rows
      /\ \A d \in Caller \ {c} : call'[d] = call[d]
  BY <1>1, CallMoves
<1>3. LifeTypeOK'
  BY <1>2 DEF Cancel, At, LifeInv, LifeTypeOK, CallState
<1>4. OnlyMain => c = "main" /\ proc = "served"
  BY DEF Cancel, OnlyMain, Caller
<1>5. proc \in {"serving", "draining"} => c # "main"
  BY DEF Cancel, Caller
<1>6. ASSUME OnlyMain, Orderly, Exiting PROVE Exiting'
  BY <1>2, <1>4, <1>6 DEF Cancel, At, Exiting, Caller, FollowsAt, LiveAt
<1> QED
  BY <1>2, <1>3, <1>4, <1>5, <1>6 DEF Cancel, At, LifeInv, OnlyMain, Orderly, Caller

LEMMA StopGossip_Inv == ASSUME LifeInv, NEW c \in Caller, StopGossip(c) PROVE LifeInv'
<1>1. At(c, "cancelled", "stopped") /\ call[c].pc = "cancelled" /\ ProcessAlive
  BY DEF StopGossip, At
<1>2. /\ call' \in [Caller -> CallState]
      /\ call'[c].pc = "stopped" /\ call'[c].rows = call[c].rows
      /\ \A d \in Caller \ {c} : call'[d] = call[d]
  BY <1>1, CallMoves
<1>3. LifeTypeOK'
  BY <1>2 DEF StopGossip, At, LifeInv, LifeTypeOK, CallState
<1>4. OnlyMain => c = "main" /\ proc = "served"
  BY <1>1, CallerIs
<1>5. proc' \in {proc, "panicked"}
  BY DEF StopGossip
<1>6. ASSUME OnlyMain, Orderly, Exiting, proc' = proc PROVE Exiting'
  BY <1>2, <1>4, <1>6 DEF StopGossip, At, Exiting, Caller, FollowsAt, LiveAt
<1>7. proc \in {"serving", "draining"} => c # "main"
  BY <1>1 DEF LifeInv
<1> QED
  BY <1>2, <1>3, <1>4, <1>5, <1>6, <1>7 DEF StopGossip, At, LifeInv, OnlyMain, Orderly, Caller

LEMMA CreateFile_Inv == ASSUME LifeInv, NEW c \in Caller, CreateFile(c) PROVE LifeInv'
<1>1. At(c, "stopped", "created") /\ call[c].pc = "stopped" /\ ProcessAlive
  BY DEF CreateFile, At
<1>2. /\ call' \in [Caller -> CallState]
      /\ call'[c].pc = "created" /\ call'[c].rows = call[c].rows
      /\ \A d \in Caller \ {c} : call'[d] = call[d]
  BY <1>1, CallMoves
<1>3. LifeTypeOK'
  BY <1>2, NoEntries DEF CreateFile, At, LifeInv, LifeTypeOK, CallState, NoFile
<1>4. OnlyMain => c = "main" /\ proc = "served"
  BY <1>1, CallerIs
<1>6. ASSUME OnlyMain, Orderly, Exiting PROVE Exiting'
  BY <1>2, <1>4, <1>6 DEF CreateFile, At, Exiting, Caller, FollowsAt, LiveAt
<1>7. proc \in {"serving", "draining"} => c # "main"
  BY <1>1 DEF LifeInv
<1> QED
  BY <1>2, <1>3, <1>4, <1>6, <1>7 DEF CreateFile, At, LifeInv, OnlyMain, Orderly, Caller

\* What is alive among entries that follow others follows them too.
LEMMA UnexpiredFollows ==
  ASSUME NEW es \in Entries, NEW old \in Entries, FollowsAt(es, old, now)
  PROVE  FollowsAt(Unexpired(es), old, now)
<1>1. /\ DOMAIN Unexpired(es) = {k \in DOMAIN es : LiveAt(es[k], now)}
      /\ \A k \in DOMAIN Unexpired(es) : Unexpired(es)[k] = es[k]
  BY UnexpiredIs
<1> QED
  BY <1>1 DEF FollowsAt, LiveAt

LEMMA Collect_Inv == ASSUME LifeInv, NEW c \in Caller, Collect(c) PROVE LifeInv'
<1>1. call[c].pc = "created" /\ ProcessAlive /\ rows \in Entries /\ left.rows \in Entries
  BY DEF Collect, LifeInv, LifeTypeOK
<1>2. [pc |-> "collected", rows |-> Unexpired(rows)] \in CallState
  BY <1>1, UnexpiredIs DEF CallState
<1>3. /\ call' \in [Caller -> CallState]
      /\ call'[c].pc = "collected" /\ call'[c].rows = Unexpired(rows)
      /\ \A d \in Caller \ {c} : call'[d] = call[d]
  BY <1>2 DEF Collect, LifeInv, LifeTypeOK, CallState
<1>4. LifeTypeOK'
  BY <1>3 DEF Collect, LifeInv, LifeTypeOK, CallState
<1>5. OnlyMain => c = "main" /\ proc = "served"
  BY <1>1, CallerIs
<1>6. ASSUME OnlyMain, Orderly, Exiting PROVE Exiting'
  <2>1. FollowsAt(Unexpired(rows), left.rows, now)
    BY <1>1, <1>5, <1>6, UnexpiredFollows DEF Exiting
  <2> QED
    BY <2>1, <1>3, <1>5, <1>6 DEF Collect, Exiting, Caller, FollowsAt, LiveAt
<1>7. proc \in {"serving", "draining"} => c # "main"
  BY <1>1 DEF LifeInv
<1> QED
  BY <1>3, <1>4, <1>5, <1>6, <1>7 DEF Collect, LifeInv, OnlyMain, Orderly, Caller

LEMMA FollowsEncodable ==
  ASSUME NEW es \in Entries, NEW old \in Entries, FollowsAt(es, old, now), Encodable(old)
  PROVE  Encodable(es)
<1>1. DOMAIN es \subseteq StoreKey
  BY EntriesIs
<1> QED
  BY <1>1 DEF FollowsAt, Encodable

LEMMA Encode_Inv == ASSUME LifeInv, NEW c \in Caller, Encode(c) PROVE LifeInv'
<1> DEFINE written == IF Encodable(call[c].rows) THEN [readable |-> TRUE, rows |-> call[c].rows] ELSE NoFile
<1>1. At(c, "collected", "done") /\ call[c].pc = "collected" /\ ProcessAlive
  BY DEF Encode, At
<1>2. /\ call' \in [Caller -> CallState]
      /\ call'[c].pc = "done" /\ call'[c].rows = call[c].rows
      /\ \A d \in Caller \ {c} : call'[d] = call[d]
  BY <1>1, CallMoves
<1>3. call[c].rows \in Entries /\ left.rows \in Entries
  BY DEF LifeInv, LifeTypeOK
<1>4. disk' \in {written} \union (IF Overlapping(c) THEN {NoFile} ELSE {})
  BY DEF Encode
<1>5. disk' \in [readable : BOOLEAN, rows : Entries]
  <2>1. disk' = [readable |-> TRUE, rows |-> call[c].rows] \/ disk' = NoFile
    BY <1>4, Zenon
  <2>2. NoFile \in [readable : BOOLEAN, rows : Entries]
    BY NoEntries DEF NoFile
  <2>3. [readable |-> TRUE, rows |-> call[c].rows] \in [readable : BOOLEAN, rows : Entries]
    BY <1>3
  <2> QED
    BY <2>1, <2>2, <2>3
<1>6. LifeTypeOK'
  BY <1>2, <1>5 DEF Encode, At, LifeInv, LifeTypeOK, CallState
<1>7. OnlyMain => c = "main" /\ proc = "served"
  BY <1>1, CallerIs
<1>8. ASSUME OnlyMain, Orderly, Exiting PROVE Exiting'
  <2>1. call["watch"].pc = "idle" /\ Caller \ {c} = {"watch"}
    BY <1>7, <1>8 DEF Exiting, Caller
  <2>2. ~Overlapping(c)
    BY <2>1 DEF Overlapping
  <2>3. disk' = written
    BY <2>2, <1>4, Zenon
  <2>4. FollowsAt(call[c].rows, left.rows, now)
    BY <1>1, <1>7, <1>8 DEF Exiting
  <2>5. Encodable(left.rows) => disk' = [readable |-> TRUE, rows |-> call[c].rows]
    BY <2>3, <2>4, <1>3, FollowsEncodable
  <2> QED
    BY <2>4, <2>5, <1>2, <1>7, <1>8 DEF Encode, At, Exiting, Caller, FollowsAt, LiveAt, Encodable
<1>9. proc \in {"serving", "draining"} => c # "main"
  BY <1>1 DEF LifeInv
<1> HIDE DEF written
<1> QED
  BY <1>2, <1>6, <1>7, <1>8, <1>9 DEF Encode, At, LifeInv, OnlyMain, Orderly, Caller

LEMMA LifeNext_Inv == LifeInv /\ [LifeNext]_lifeVars => LifeInv'
<1> SUFFICES ASSUME LifeInv, [LifeNext]_lifeVars PROVE LifeInv'
  OBVIOUS
<1>1. ASSUME NEW k \in StoreKey,
             Set(k, "plain", 0) \/ Set(k, "plain", now) \/ Set(k, "custom", 0) \/ Delete(k) \/ RemoteSet(k)
      PROVE  LifeInv'
  <2>1. 0 \in 0..MaxNow /\ now \in 0..MaxNow
    BY LifeAssumption DEF LifeInv, LifeTypeOK
  <2>2. "plain" \in StoredValue /\ "custom" \in StoredValue
    BY DEF StoredValue
  <2> QED
    BY <1>1, <2>1, <2>2, Set_Inv, Delete_Inv, RemoteSet_Inv
<1>2. CASE UNCHANGED lifeVars
  BY <1>2 DEF lifeVars, LifeInv, LifeTypeOK, OnlyMain, Orderly, Exiting, FollowsAt, LiveAt, Encodable
<1> QED
  BY <1>1, <1>2, Boot_Inv, RequestBegins_Inv, RequestEnds_Inv, Signal_Inv, Drained_Inv, DrainTimeout_Inv,
     MainReturns_Inv, ProcessDies_Inv, Clock_Inv, Cancel_Inv, StopGossip_Inv, CreateFile_Inv,
     Collect_Inv, Encode_Inv
     DEF LifeNext

\* What a start finds, in a state of the invariant.
LEMMA BootRestores ==
  ASSUME LifeInv, Boot, callers = {"main"}, left.how = "orderly", Encodable(left.rows), NEW k \in StoreKey
  PROVE  LET was == Unexpired(left.rows) IN
         \/ k \in DOMAIN rows' /\ rows'[k].value = "remote"
         \/ (k \in DOMAIN was <=> k \in DOMAIN rows') /\ (k \in DOMAIN was => rows'[k] = was[k])
<1> DEFINE kept == call["main"].rows
           was == Unexpired(left.rows)
<1>1. Exiting /\ proc = "off" /\ call["main"].pc = "done"
  BY DEF LifeInv, OnlyMain, Orderly, Boot, Exiting
<1>2. disk = [readable |-> TRUE, rows |-> kept] /\ FollowsAt(kept, left.rows, now)
  BY <1>1 DEF Exiting
<1>3. rows' = Unexpired(kept)
  BY <1>2 DEF Boot, LoadSnapshot
<1>4. kept \in Entries /\ left.rows \in Entries
  BY DEF LifeInv, LifeTypeOK, Caller
<1>5. /\ DOMAIN rows' = {j \in DOMAIN kept : LiveAt(kept[j], now)}
      /\ \A j \in DOMAIN rows' : rows'[j] = kept[j]
  BY <1>3, <1>4, UnexpiredIs
<1>6. /\ DOMAIN was = {j \in DOMAIN left.rows : LiveAt(left.rows[j], now)}
      /\ \A j \in DOMAIN was : was[j] = left.rows[j]
  BY <1>4, UnexpiredIs
<1> HIDE DEF kept, was
<1>7. \/ k \in DOMAIN kept /\ kept[k].value = "remote" /\ kept[k].exp = 0
      \/ /\ k \in DOMAIN kept => k \in DOMAIN left.rows /\ kept[k] = left.rows[k]
         /\ k \in DOMAIN left.rows /\ LiveAt(left.rows[k], now) => k \in DOMAIN kept
  BY <1>2 DEF FollowsAt
<1>8. CASE k \in DOMAIN kept /\ kept[k].value = "remote" /\ kept[k].exp = 0
  BY <1>5, <1>8 DEF LiveAt
<1>9. CASE /\ k \in DOMAIN kept => k \in DOMAIN left.rows /\ kept[k] = left.rows[k]
           /\ k \in DOMAIN left.rows /\ LiveAt(left.rows[k], now) => k \in DOMAIN kept
  BY <1>5, <1>6, <1>9 DEF was
<1> QED
  BY <1>7, <1>8, <1>9 DEF was

\* However often the process is started, signalled and killed, and whatever its
\* requests and its peers write: a process that drained in time and whose main
\* then called Shutdown leaves its successor every unexpired entry and nothing
\* but peers' writes besides (store.go 365-377, 475-530, kernel.go 110-140).
THEOREM SnapshotSurvives == LifeSpec => SnapshotRestores
<1>1. LifeInv /\ [LifeNext]_lifeVars =>
        [ Boot /\ callers = {"main"} /\ left.how = "orderly" /\ Encodable(left.rows) =>
            LET was == Unexpired(left.rows) IN
            \A k \in StoreKey :
              \/ k \in DOMAIN rows' /\ rows'[k].value = "remote"
              \/ (k \in DOMAIN was <=> k \in DOMAIN rows') /\ (k \in DOMAIN was => rows'[k] = was[k])
        ]_lifeVars
  <2> SUFFICES ASSUME LifeInv, Boot, callers = {"main"}, left.how = "orderly", Encodable(left.rows),
                      NEW k \in StoreKey
               PROVE  LET was == Unexpired(left.rows) IN
                      \/ k \in DOMAIN rows' /\ rows'[k].value = "remote"
                      \/ (k \in DOMAIN was <=> k \in DOMAIN rows') /\ (k \in DOMAIN was => rows'[k] = was[k])
    BY Zenon
  <2> QED
    BY BootRestores, Zenon
<1> QED
  BY <1>1, LifeInit_Inv, LifeNext_Inv, PTL DEF LifeSpec, SnapshotRestores
=============================================================================
