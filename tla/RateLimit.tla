------------------------------ MODULE RateLimit ------------------------------
(***************************************************************************)
(* The sliding-window rate limiter (framework/middleware/ratelimit.go):    *)
(* requests that look a key's window up and count in it later, and the     *)
(* cleanup goroutine that removes empty windows from the map in between.   *)
(*                                                                         *)
(* A window object is known by the number of its creation; the map holds   *)
(* that number, 0 for a key without a window.  What a window holds is the  *)
(* set of its timestamps: nothing in the code depends on their order, and  *)
(* a number tells those taken at the same time apart.                      *)
(***************************************************************************)
EXTENDS Integers, Sequences, FiniteSets

CONSTANTS RateKey,
          Request,      \* goroutines that serve requests
          Limit, Window,  \* RateLimitConfig: Max requests in Window units of time
          MaxRequests,  \* bound on requests
          MaxTime       \* bound on time

ASSUME RateAssumption ==
  /\ RateKey # {}
  /\ Limit \in Nat \ {0} /\ Window \in Nat \ {0} /\ MaxRequests \in Nat /\ MaxTime \in Nat

VARIABLES entries,   \* key -> its window in the map, or 0
          windows,   \* window -> its timestamps
          req,       \* request -> where it is
          time,
          allowed,   \* key -> the timestamps of the requests let through
          astray,    \* keys whose window was removed while a request held it
          asked      \* number of requests so far

rateVars == <<entries, windows, req, time, allowed, astray, asked>>

Stamp == [n : Nat, at : Nat]

NoRequest == [pc |-> "idle", goal |-> "allow", key |-> CHOOSE k \in RateKey : TRUE, entry |-> 0]

RateTypeOK ==
  /\ entries \in [RateKey -> 0..Len(windows)]
  /\ windows \in Seq(SUBSET Stamp) /\ \A e \in 1..Len(windows) : Cardinality(windows[e]) <= Limit
  /\ req \in [Request -> [pc : {"idle", "create", "allow", "lookup"}, goal : {"allow", "remaining"},
                          key : RateKey, entry : 0..Len(windows)]]
  /\ time \in 0..MaxTime /\ asked \in 0..MaxRequests
  /\ \A k \in RateKey : allowed[k] \subseteq Stamp /\ \A s \in allowed[k] : s.at <= time
  /\ astray \subseteq RateKey

RateInit ==
  /\ entries = [k \in RateKey |-> 0]
  /\ windows = << >>
  /\ req = [r \in Request |-> NoRequest]
  /\ time = 0 /\ asked = 0
  /\ allowed = [k \in RateKey |-> {}] /\ astray = {}

\* The timestamps after the cutoff.
Valid(ts) == {s \in ts : s.at > time - Window}

\* getOrCreate, under the read lock; Remaining needs nothing more if it finds a
\* window.
Found(r, k, goal) ==
  req' = [req EXCEPT ![r] =
    IF entries[k] = 0 THEN [pc |-> "create", goal |-> goal, key |-> k, entry |-> 0]
    ELSE IF goal = "allow" THEN [pc |-> "allow", goal |-> goal, key |-> k, entry |-> entries[k]]
    ELSE NoRequest]

\* A request enters Allow.
Arrive(r, k) ==
  /\ req[r].pc = "idle" /\ asked < MaxRequests
  /\ asked' = asked + 1
  /\ Found(r, k, "allow")
  /\ UNCHANGED <<entries, windows, time, allowed, astray>>

\* Mutant of Create: the map is not looked at again under the write lock.
CreateBlind(r) ==
  LET k == req[r].key
      e == Len(windows) + 1
  IN
  /\ req[r].pc = "create"
  /\ windows' = Append(windows, {})
  /\ entries' = [entries EXCEPT ![k] = e]
  /\ req' = [req EXCEPT ![r] = IF @.goal = "allow" THEN [@ EXCEPT !.pc = "allow", !.entry = e] ELSE NoRequest]
  /\ UNCHANGED <<time, allowed, astray, asked>>

\* getOrCreate, under the write lock: another request may have been faster.
Create(r) ==
  LET k == req[r].key
      e == IF entries[k] = 0 THEN Len(windows) + 1 ELSE entries[k]
  IN
  /\ req[r].pc = "create"
  /\ windows' = IF entries[k] = 0 THEN Append(windows, {}) ELSE windows
  /\ entries' = [entries EXCEPT ![k] = e]
  /\ req' = [req EXCEPT ![r] = IF @.goal = "allow" THEN [@ EXCEPT !.pc = "allow", !.entry = e] ELSE NoRequest]
  /\ UNCHANGED <<time, allowed, astray, asked>>

\* Mutant of Permitted: one request too many.
PermittedLate(ts) == Cardinality(ts) <= Limit

Permitted(ts) == Cardinality(ts) < Limit

\* Allow forgets what left the window before it counts.
Evicted(ts) == Valid(ts)

\* Allow, under the window's mutex.
Allow(r) ==
  LET k == req[r].key
      e == req[r].entry
      ts == Evicted(windows[e])
      now == [n |-> Cardinality(allowed[k]) + 1, at |-> time]
  IN
  /\ req[r].pc = "allow"
  /\ windows' = [windows EXCEPT ![e] = IF Permitted(ts) THEN ts \cup {now} ELSE ts]
  /\ allowed' = IF Permitted(ts) THEN [allowed EXCEPT ![k] = @ \cup {now}] ELSE allowed
  /\ req' = [req EXCEPT ![r] = IF Permitted(ts) THEN [@ EXCEPT !.pc = "lookup"] ELSE NoRequest]
  /\ UNCHANGED <<entries, time, astray, asked>>

\* Remaining, for the response header: it may create the window once more.
Remaining(r) ==
  /\ req[r].pc = "lookup"
  /\ Found(r, req[r].key, "remaining")
  /\ UNCHANGED <<entries, windows, time, allowed, astray, asked>>

\* One pass of cleanup, under the map's lock: empty windows leave the map, also
\* when a request has found one and is about to count in it.
Removed == {k \in RateKey : entries[k] # 0 /\ Valid(windows[entries[k]]) = {}}

Cleanup ==
  /\ \E k \in RateKey : entries[k] # 0 /\ (k \in Removed \/ Valid(windows[entries[k]]) # windows[entries[k]])
  /\ windows' = [e \in 1..Len(windows) |->
                   IF \E k \in RateKey : entries[k] = e THEN Valid(windows[e]) ELSE windows[e]]
  /\ entries' = [k \in RateKey |-> IF k \in Removed THEN 0 ELSE entries[k]]
  /\ astray' = astray \cup {k \in Removed : \E r \in Request :
                               req[r].pc = "allow" /\ req[r].entry = entries[k]}
  /\ UNCHANGED <<req, time, allowed, asked>>

Elapse ==
  /\ time < MaxTime
  /\ time' = time + 1
  /\ UNCHANGED <<entries, windows, req, allowed, astray, asked>>

RateNext ==
  \/ \E r \in Request : Create(r) \/ Allow(r) \/ Remaining(r) \/ \E k \in RateKey : Arrive(r, k)
  \/ Cleanup \/ Elapse

RateSpec == RateInit /\ [][RateNext]_rateVars

----------------------------------------------------------------------------
(* Properties *)

\* The requests of key k let through in the window that ends at t.
LetThrough(k, t) == Cardinality({s \in allowed[k] : s.at > t - Window /\ s.at <= t})

\* "Max is the maximum number of requests allowed in the window"
\* (ratelimit.go:15), whatever requests create the window at the same time;
\* unless cleanup took the window away from a request that had just found it.
LimitHolds == \A k \in RateKey \ astray : \A t \in 0..MaxTime : LetThrough(k, t) <= Limit
=============================================================================
