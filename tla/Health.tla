------------------------------- MODULE Health -------------------------------
(***************************************************************************)
(* The health endpoint (framework/health): Run copies the registered       *)
(* checks, starts a goroutine for each and waits for all of them; checks   *)
(* are registered meanwhile.  A check may hang, the context it is given    *)
(* ends after ten seconds and nothing else does.                           *)
(***************************************************************************)
EXTENDS Naturals, Sequences, SequencesExt

CONSTANTS
  CheckName,  \* names checks are registered under
  MaxChecks   \* bound on registered checks

ASSUME HealthAssumption == MaxChecks \in Nat

VARIABLES
  checks,    \* Registry.checks: the names, in order
  probe,     \* "idle", "running", "answered"
  checking,   \* the copy Run works on: position -> "todo", or the status returned
  results,   \* the map from names to results
  heeds,     \* the checks give up when their context ends
  report     \* the answer: its status, the HTTP code, what it says per name

healthVars == <<checks, probe, checking, results, heeds, report>>

HealthStatus == {"pass", "warn", "fail"}
NoReport == [status |-> "none", code |-> 0, says |-> <<>>]

HealthTypeOK ==
  /\ checks \in Seq(CheckName) /\ Len(checks) <= MaxChecks
  /\ probe \in {"idle", "running", "answered"} /\ Len(checking) <= Len(checks)
  /\ DOMAIN results \subseteq CheckName /\ heeds \in BOOLEAN
  /\ report.status \in HealthStatus \union {"none"} /\ report.code \in {0, 200, 503}

HealthInit ==
  /\ checks = <<>> /\ probe = "idle" /\ checking = <<>> /\ results = <<>>
  /\ heeds \in BOOLEAN /\ report = NoReport

RegisterCheck(n) ==
  /\ Len(checks) < MaxChecks /\ checks' = Append(checks, n)
  /\ UNCHANGED <<probe, checking, results, heeds, report>>

\* Handler and DetailedHandler call Run; it copies the checks under the lock.
RunChecks ==
  /\ probe = "idle" /\ probe' = "running"
  /\ checking' = [i \in DOMAIN checks |-> "todo"]
  /\ UNCHANGED <<checks, results, heeds, report>>

\* Mutant of ResultName: every goroutine uses the loop's variable.
LoopVariable(i) == checks[Len(checking)]

\* c.Name: the goroutine has a variable of its own (c := c).
ResultName(i) == checks[i]

\* A check returns and its goroutine stores the result under the check's name.
Stored(n, st) == [m \in DOMAIN results \union {n} |-> IF m = n THEN st ELSE results[m]]
CheckReturns(i, st) ==
  /\ probe = "running" /\ i \in DOMAIN checking /\ checking[i] = "todo"
  /\ checking' = [checking EXCEPT ![i] = st]
  /\ results' = Stored(ResultName(i), st)
  /\ UNCHANGED <<checks, probe, heeds, report>>

\* The worst status wins, in whatever order the map is walked.
Overall(res) ==
  LET all == {res[n] : n \in DOMAIN res} IN
  IF "fail" \in all THEN "fail" ELSE IF "warn" \in all THEN "warn" ELSE "pass"

\* wg.Wait
AllBack == \A i \in DOMAIN checking : checking[i] # "todo"

\* Behind it: the overall status and writeHealth's code.
Report ==
  /\ probe = "running" /\ AllBack
  /\ probe' = "answered"
  /\ LET st == Overall(results) IN
     report' = [status |-> st, code |-> IF st = "fail" THEN 503 ELSE 200, says |-> results]
  /\ UNCHANGED <<checks, checking, results, heeds>>

NextProbe ==
  /\ probe = "answered" /\ probe' = "idle"
  /\ checking' = <<>> /\ results' = <<>> /\ report' = NoReport
  /\ UNCHANGED <<checks, heeds>>

AnyReturns(i) == \E st \in HealthStatus : CheckReturns(i, st)

HealthNext ==
  \/ \E n \in CheckName : RegisterCheck(n)
  \/ RunChecks \/ Report \/ NextProbe
  \/ \E i \in 1..MaxChecks : AnyReturns(i)

\* The handler's goroutine runs, and a check that heeds its context returns; one
\* that does not may hang.
HealthFairness ==
  WF_healthVars(Report) /\ \A i \in 1..MaxChecks : WF_healthVars(heeds /\ AnyReturns(i))

HealthSpec == HealthInit /\ [][HealthNext]_healthVars /\ HealthFairness

---------------------------------------------------------------------------
\* "all checks" (health.go 61, 101-104): an answer speaks of every check that was
\* registered when it began and of no other, with the result that check
\* returned; it is 503 if one of them failed and 200 if all of them passed, in
\* whatever order they returned.  What a warning is answered with is left open:
\* "200 if all checks pass, 503 otherwise" (health.go 103), but the code sends
\* 200.  Two checks of
\* one name share an entry and are excepted.
HealthTruth ==
  probe = "answered" /\ IsInjective(SubSeq(checks, 1, Len(checking))) =>
    /\ DOMAIN report.says = {checks[i] : i \in DOMAIN checking}
    /\ \A i \in DOMAIN checking : report.says[checks[i]] = checking[i]
    /\ (\E i \in DOMAIN checking : checking[i] = "fail") => report.code = 503
    /\ (\A i \in DOMAIN checking : checking[i] = "pass") => report.code = 200
    /\ report.status = "pass" <=> \A i \in DOMAIN checking : checking[i] = "pass"

\* A probe is answered, if its checks heed their context (health.go 85, 107).
ProbeAnswered == (probe = "running" /\ heeds) ~> (probe = "answered")
=============================================================================
