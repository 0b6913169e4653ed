------------------------------- MODULE Timeout -------------------------------
(***************************************************************************)
(* The timeout middleware (framework/middleware/timeout.go): the handler   *)
(* in a goroutine of its own, writing through the shared Response          *)
(* (framework/http/response.go) into a buffer, against the deadline.       *)
(*                                                                         *)
(* What a handler writes is a sequence of numbered chunks.                 *)
(***************************************************************************)
EXTENDS Integers, Sequences

CONSTANTS Code,        \* status codes a handler may set, 200 among them
          MaxWrites    \* bound on the chunks of a handler

\* net/http panics on the code 0.
ASSUME TimeoutAssumption == 200 \in Code /\ {0, 503} \cap Code = {} /\ MaxWrites \in Nat

VARIABLES handler,    \* the handler: running, returned or panicked
          wrote,      \* the status it sent first (0: none) and its chunks
          response,   \* the shared Response: status, committed
          tw,         \* the timeoutWriter
          expired,    \* ctx.Done() is closed
          mw,         \* the middleware: in its select, about to send 503, returned
          real        \* what went to the real writer

timeoutVars == <<handler, wrote, response, tw, expired, mw, real>>

NoOutput == [status |-> 0, body |-> << >>]
Answer503 == [status |-> 503, body |-> <<0>>]
Output == [status : Code \cup {0, 503}, body : Seq(0..MaxWrites)]

TimeoutWriter ==
  [status : Code, wroteHeader : BOOLEAN, buf : Seq(1..MaxWrites), timedOut : BOOLEAN]

TimeoutTypeOK ==
  /\ handler \in {"running", "returned", "panicked"}
  /\ wrote \in Output /\ real \in Output
  /\ response \in [status : Code, committed : BOOLEAN]
  /\ tw \in TimeoutWriter
  /\ expired \in BOOLEAN
  /\ mw \in {"select", "answer", "returned"}

\* The Response after Wrap.
Wrapped == [status |-> 200, committed |-> FALSE]

TimeoutInit ==
  /\ handler = "running" /\ wrote = NoOutput
  /\ response = Wrapped
  /\ tw = [status |-> 200, wroteHeader |-> FALSE, buf |-> << >>, timedOut |-> FALSE]
  /\ expired = FALSE /\ mw = "select" /\ real = NoOutput

\* timeoutWriter.WriteHeader
HeaderTo(w, code) ==
  IF w.timedOut \/ w.wroteHeader THEN w ELSE [w EXCEPT !.status = code, !.wroteHeader = TRUE]

\* Response.WriteHeader on the buffer: only the first call counts.
Commit(code) ==
  IF response.committed THEN [response |-> response, tw |-> tw]
  ELSE [response |-> [status |-> code, committed |-> TRUE], tw |-> HeaderTo(tw, code)]

\* The handler sets a status.
HandlerWriteHeader(code) ==
  /\ handler = "running"
  /\ ~response.committed
  /\ response' = Commit(code).response
  /\ tw' = Commit(code).tw
  /\ wrote' = [wrote EXCEPT !.status = code]
  /\ UNCHANGED <<handler, expired, mw, real>>

\* timeoutWriter.Write: dropped once the deadline has answered.
BufferTo(w, chunk) == IF w.timedOut THEN w ELSE [w EXCEPT !.buf = Append(@, chunk)]

\* The handler writes a chunk; the first one commits 200.
HandlerWrite ==
  LET chunk == Len(wrote.body) + 1 IN
  /\ handler = "running" /\ chunk <= MaxWrites
  /\ response' = Commit(200).response
  /\ tw' = BufferTo(Commit(200).tw, chunk)
  /\ wrote' = [status |-> IF wrote.status = 0 THEN 200 ELSE wrote.status,
               body |-> Append(wrote.body, chunk)]
  /\ UNCHANGED <<handler, expired, mw, real>>

HandlerReturn ==
  /\ handler = "running"
  /\ handler' = "returned"
  /\ UNCHANGED <<wrote, response, tw, expired, mw, real>>

\* A panic in the handler's goroutine has no recover above it: the process dies.
HandlerPanic ==
  /\ handler = "running"
  /\ handler' = "panicked"
  /\ UNCHANGED <<wrote, response, tw, expired, mw, real>>

\* The deadline, or the client going away.
DeadlinePasses ==
  /\ ~expired
  /\ expired' = TRUE
  /\ UNCHANGED <<handler, wrote, response, tw, mw, real>>

\* Mutant of SelectDone: the buffer is flushed at the deadline.
SelectDoneEarly ==
  /\ mw = "select" /\ (handler = "returned" \/ expired)
  /\ mw' = "returned"
  /\ real' = IF tw.wroteHeader THEN [status |-> tw.status, body |-> tw.buf] ELSE real
  /\ response' = IF tw.wroteHeader THEN [status |-> tw.status, committed |-> TRUE] ELSE Wrapped
  /\ UNCHANGED <<handler, wrote, tw, expired>>

\* The handler's result is there: its buffered output goes to the real writer.
SelectDone ==
  /\ mw = "select" /\ handler = "returned"
  /\ mw' = "returned"
  /\ real' = IF tw.wroteHeader THEN [status |-> tw.status, body |-> tw.buf] ELSE real
  /\ response' = IF tw.wroteHeader THEN [status |-> tw.status, committed |-> TRUE] ELSE Wrapped
  /\ UNCHANGED <<handler, wrote, tw, expired>>

\* The other branch: the buffer is dead from here on.
SelectExpired ==
  /\ mw = "select" /\ expired
  /\ mw' = "answer"
  /\ tw' = [tw EXCEPT !.timedOut = TRUE]
  /\ UNCHANGED <<handler, wrote, response, expired, real>>

\* 503, straight to the real writer; the Response stays on the buffer.
SendTimeout ==
  /\ mw = "answer"
  /\ mw' = "returned"
  /\ real' = Answer503
  /\ UNCHANGED <<handler, wrote, response, tw, expired>>

Alive == handler # "panicked"

TimeoutNext ==
  /\ Alive
  /\ \/ \E code \in Code : HandlerWriteHeader(code)
     \/ HandlerWrite \/ HandlerReturn \/ HandlerPanic
     \/ DeadlinePasses \/ SelectDone \/ SelectExpired \/ SendTimeout

Middleware == Alive /\ (SelectDone \/ SelectExpired \/ SendTimeout)

\* The middleware's goroutine runs; the handler may hang.
TimeoutFairness == WF_timeoutVars(Middleware)

TimeoutSpec == TimeoutInit /\ [][TimeoutNext]_timeoutVars /\ TimeoutFairness

----------------------------------------------------------------------------
(* Properties *)

\* "the handler goroutine and the timeout path never write to the underlying
\* ResponseWriter concurrently" (timeout.go:19): the client gets the handler's
\* whole output or the 503, and nothing is added to either later.
WholeAnswer ==
  mw = "returned" => real = Answer503 \/ (handler = "returned" /\ real = wrote)

\* "if the handler has not finished by then, responds 503" (timeout.go:13): once the
\* deadline has passed the request is answered, although its handler hangs.
Answered == expired ~> mw = "returned" \/ ~Alive
=============================================================================
