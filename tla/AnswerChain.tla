---------------------------- MODULE AnswerChain ----------------------------
(***************************************************************************)
(* The answer to one request under the Logger, Recovery and Compress       *)
(* middlewares (framework/middleware), from the handler's first write to   *)
(* the end of ServeHTTP: the Response that counts and commits, the gzip    *)
(* writer that decides at the first header whether to compress, and the    *)
(* router's error handler, which writes when every middleware has          *)
(* returned.  A body is a sequence of documents.  net/http is external.    *)
(***************************************************************************)
EXTENDS Integers, Sequences, SequencesExt

CONSTANTS
  Chains,   \* middlewares, outermost first
  MaxDocs   \* bound on the documents a handler writes

ASSUME AnswerAssumption ==
  /\ \A ch \in Chains : ch \in Seq({"logger", "recovery", "compress"}) /\ IsInjective(ch)
  /\ MaxDocs \in Nat

VARIABLES
  around,   \* the middlewares of the request's route
  at,       \* the middleware about to be left; one more: the handler, 0: the router
  outcome,  \* what the handler, then each middleware hands to its caller
  result,   \* what the handler returned
  meant,    \* reference: the handler's first status and its documents
  out,      \* Response, gzipWriter and the wire
  logged    \* what Logger recorded: status and whether it was committed

answerVars == <<around, at, outcome, result, meant, out, logged>>

\* A handler returns nil, an HTTPError ("err"), another error ("fault"), or panics.
Outcome == {"running", "ok", "err", "fault", "panic"}
Status == {200, 204, 404, 422, 500}

\* A handler may serve a body it encoded itself; the wire is labelled with the
\* headers there are when the status is sent.
NewOut(wrap) ==
  [committed |-> FALSE, status |-> 200, wrapped |-> wrap,
   wroteHeader |-> FALSE, compress |-> FALSE, gz |-> "nil", finished |-> FALSE,
   ctype |-> "", encoded |-> FALSE, early |-> FALSE,
   sent |-> 0, label |-> "none", plain |-> <<>>, zipped |-> <<>>, died |-> FALSE]

---------------------------------------------------------------------------
(* The server's ResponseWriter: one status, no body for 204.               *)

ServerHeader(s, code) ==
  IF s.sent # 0 THEN s
  ELSE [s EXCEPT !.sent = code,
                 !.label = IF s.encoded THEN "own" ELSE IF s.compress THEN "gzip" ELSE "none"]
ServerWrite(s, doc) ==
  LET t == ServerHeader(s, 200) IN
  IF t.sent = 204 THEN t ELSE [t EXCEPT !.plain = Append(@, doc)]

---------------------------------------------------------------------------
(* gzipWriter.                                                             *)

ShouldCompress(ctype) == ctype \in {"", "json"}

Decide(s, code) ==
  IF code = 204 \/ s.encoded \/ ~ShouldCompress(s.ctype) THEN s
  ELSE [s EXCEPT !.compress = TRUE, !.gz = "open"]

GzipHeader(s, code) ==
  IF s.wroteHeader THEN s
  ELSE ServerHeader([Decide(s, code) EXCEPT !.wroteHeader = TRUE], code)

\* A write to a gzip.Writer that close has given back is a nil dereference.
GzipWrite(s, doc) ==
  LET t == GzipHeader(s, 200) IN
  CASE ~t.compress -> ServerWrite(t, doc)
    [] t.compress /\ t.gz = "open" -> [t EXCEPT !.zipped = Append(@, doc)]
    [] t.compress /\ t.gz = "nil" -> [t EXCEPT !.died = TRUE]

\* Mutant of GzipClose: the stream stays open.
NeverCloses(s) == s

GzipClose(s) == IF s.gz = "open" THEN [s EXCEPT !.gz = "nil", !.finished = TRUE] ELSE s

---------------------------------------------------------------------------
(* Response and the Context's helpers.                                     *)

ResponseHeader(s, code) ==
  IF s.committed THEN s
  ELSE [(IF s.wrapped THEN GzipHeader(s, code) ELSE ServerHeader(s, code))
          EXCEPT !.status = code, !.committed = TRUE]

ResponseWrite(s, doc) ==
  LET t == ResponseHeader(s, 200) IN
  IF t.wrapped THEN GzipWrite(t, doc) ELSE ServerWrite(t, doc)

\* Flush reaches the server, which sends the status 200 if it has none yet.
ResponseFlush(s) == [ServerHeader(s, 200) EXCEPT !.early = s.sent = 0]

JSON(s, code, doc) == ResponseWrite(ResponseHeader([s EXCEPT !.ctype = "json"], code), doc)

---------------------------------------------------------------------------
AnswerTypeOK ==
  /\ around \in Chains /\ at \in -1..(Len(around) + 1)
  /\ {outcome, result} \subseteq Outcome
  /\ out.status \in Status /\ out.sent \in Status \union {0} /\ out.gz \in {"nil", "open"}
  /\ logged.status \in Status \union {0} /\ Len(meant.docs) <= MaxDocs

\* The way in: only Compress does anything, if the client accepts gzip.
AnswerInit ==
  /\ around \in Chains /\ at = Len(around) + 1
  /\ outcome = "running" /\ result = "running"
  /\ meant = [status |-> 0, docs |-> <<>>]
  /\ \E accepts \in BOOLEAN : out = NewOut(accepts /\ Contains(around, "compress"))
  /\ logged = [status |-> 0, committed |-> FALSE]

InHandler == at = Len(around) + 1

HandlerHeaders(ctype, encoded) ==
  /\ InHandler /\ ~out.committed /\ out.ctype = "" /\ ~out.encoded
  /\ out' = [out EXCEPT !.ctype = ctype, !.encoded = encoded]
  /\ UNCHANGED <<around, at, outcome, result, meant, logged>>

HandlerStatus(code) ==
  /\ InHandler /\ out' = ResponseHeader(out, code)
  /\ meant' = [meant EXCEPT !.status = IF @ = 0 THEN code ELSE @]
  /\ UNCHANGED <<around, at, outcome, result, logged>>

HandlerWrite ==
  /\ InHandler /\ Len(meant.docs) < MaxDocs
  /\ LET doc == Len(meant.docs) + 1 IN
     /\ out' = ResponseWrite(out, doc)
     /\ meant' = [status |-> IF meant.status = 0 THEN 200 ELSE meant.status, docs |-> Append(meant.docs, doc)]
  /\ UNCHANGED <<around, at, outcome, result, logged>>

HandlerFlush ==
  /\ InHandler /\ ~out.early /\ out' = ResponseFlush(out)
  /\ UNCHANGED <<around, at, outcome, result, meant, logged>>

HandlerReturns(how) ==
  /\ InHandler /\ at' = Len(around) /\ outcome' = how /\ result' = how
  /\ UNCHANGED <<around, meant, out, logged>>

\* Context.Validate answers 422 itself and returns validation.Errors as well.
Validate ==
  /\ InHandler /\ meant.status = 0
  /\ out' = JSON(out, 422, 1) /\ meant' = [status |-> 422, docs |-> <<1>>]
  /\ at' = Len(around) /\ outcome' = "fault" /\ result' = "fault"
  /\ UNCHANGED <<around, logged>>

---------------------------------------------------------------------------
(* The way out.                                                            *)

Leaving(mw) == at \in 1..Len(around) /\ around[at] = mw /\ at' = at - 1

\* A panic passes Logger by.
LeaveLogger ==
  /\ Leaving("logger")
  /\ logged' = IF outcome = "panic" THEN logged ELSE [status |-> out.status, committed |-> out.committed]
  /\ UNCHANGED <<around, outcome, result, meant, out>>

Recovered(s) == IF s.committed THEN s ELSE JSON(s, 500, "error")
LeaveRecovery ==
  /\ Leaving("recovery")
  /\ out' = IF outcome = "panic" THEN Recovered(out) ELSE out
  /\ outcome' = IF outcome # "panic" THEN outcome ELSE IF out'.died THEN "panic" ELSE "ok"
  /\ UNCHANGED <<around, result, meant, logged>>

LeaveCompress ==
  /\ Leaving("compress") /\ out' = GzipClose(out)
  /\ UNCHANGED <<around, outcome, result, meant, logged>>

\* The code of an HTTPError, 500 for every other error.
ErrorCode(how) == IF how = "err" THEN 404 ELSE 500

\* The router's error handler does not look at what was sent; net/http cuts the
\* connection after a panic and sends an empty 200 if nothing was written.
ErrorHandler(s, how) == JSON(s, ErrorCode(how), "error")
EndRequest ==
  /\ at = 0 /\ at' = -1
  /\ out' = CASE outcome \in {"err", "fault"} -> ErrorHandler(out, outcome)
              [] outcome = "panic" -> [out EXCEPT !.died = TRUE]
              [] outcome = "ok" -> ServerHeader(out, 200)
  /\ UNCHANGED <<around, outcome, result, meant, logged>>

AnswerNext ==
  \/ \E ct \in {"", "json", "image"}, own \in BOOLEAN : HandlerHeaders(ct, own)
  \/ \E code \in {200, 204} : HandlerStatus(code)
  \/ HandlerWrite \/ HandlerFlush \/ Validate
  \/ \E how \in Outcome \ {"running"} : HandlerReturns(how)
  \/ LeaveLogger \/ LeaveRecovery \/ LeaveCompress \/ EndRequest

AnswerSpec == AnswerInit /\ [][AnswerNext]_answerVars

---------------------------------------------------------------------------
(* Properties.                                                             *)

\* What the client makes of the bytes, given the label on them.
Readable(s) ==
  /\ ~s.died
  /\ IF s.label = "gzip" THEN s.finished /\ s.plain = <<>> ELSE s.zipped = <<>>
Reads(s, docs) == Readable(s) /\ docs = IF s.label = "gzip" THEN s.zipped ELSE s.plain

\* What a handler that returns nil wrote is what the client reads, under the
\* first status it gave, in every order of the middlewares: the body is gzipped
\* to its end if and only if Content-Encoding says so (compress.go 48-50).  A
\* handler that flushes before it writes is excepted: the label comes too late.
HandlerAnswer ==
  at = -1 /\ result = "ok" /\ ~out.early =>
    /\ out.sent = (IF meant.status = 0 THEN 200 ELSE meant.status)
    /\ Reads(out, IF out.sent = 204 THEN <<>> ELSE meant.docs)

\* Middleware a runs inside middleware b.
Inside(a, b) == \E i, j \in DOMAIN around : i > j /\ around[i] = a /\ around[j] = b

\* A handler that fails before it has answered is answered for, with an error
\* document the client can read (router.go 231-233, recovery.go 48-52), unless
\* it is written after Compress has returned: then nothing closes the stream.
ErrorAnswer ==
  at = -1 /\ meant.status = 0 /\ ~out.early /\ ~out.encoded =>
    /\ result \in {"err", "fault"} /\ ~out.wrapped =>
         out.sent = ErrorCode(result) /\ Reads(out, <<"error">>)
    /\ result = "panic" /\ Contains(around, "recovery") /\ (out.wrapped => Inside("recovery", "compress")) =>
         out.sent = 500 /\ Reads(out, <<"error">>)

\* The status Logger records is the one that was sent, if one was by then
\* (logger.go 42-59); the error handler answers after Logger has looked.
LoggedStatus ==
  at = -1 /\ logged.committed /\ ~out.early => logged.status = out.sent

\* In every order of the middlewares: the client reads what a handler that
\* returns nil wrote; it reads an error document if the handler fails before it
\* writes and no gzip stream is begun after Compress has returned; and a status
\* committed before Logger looks is the one it records (compress.go 18-118,
\* recovery.go 22-55, router.go 225-234, logger.go 21-60).  Nothing is said of an
\* error or panic after the answer has begun (ValidationAnswer is about one of
\* these), of a Recovery outside Compress, whose answer cannot be read, and of a
\* status the error handler sends after Logger has recorded another.
AnswerExact == HandlerAnswer /\ ErrorAnswer /\ LoggedStatus

\* "Returns a structured `422` on failure automatically" (docs/routing.md 121):
\* the client reads the 422 that Validate wrote, and nothing else.
ValidationAnswer ==
  at = -1 /\ meant.status = 422 /\ ~out.early => out.sent = 422 /\ Reads(out, meant.docs)
=============================================================================
