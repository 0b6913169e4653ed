----------------------------- MODULE MCJobQueue -----------------------------
(* JobQueue for TLC. *)
EXTENDS JobQueue

HighLow == <<"high", "low">>
OneQueue == <<"default">>

\* j3 has a type nobody registered.
MCTypeOf == [j \in Job |-> IF j = "j3" THEN "Forgotten" ELSE "SendWelcomeEmail"]
ByVerb == {<<"*jobs", "SendWelcomeEmail">>}
=============================================================================
