---------------------------- MODULE RecentEvents ----------------------------
(***************************************************************************)
(* What a channel's event buffer promises (framework/realtime/resume.go,   *)
(* "retaining the last maxSize events"): the sequence of the events that   *)
(* were pushed last, oldest first.                                         *)
(***************************************************************************)
EXTENDS Sequences, Integers

CONSTANTS Event, Cap

VARIABLE recent

Init == recent = << >>

\* A push appends; when Cap events are there already, the oldest one goes.
Push(e) ==
  recent' = IF Len(recent) < Cap THEN Append(recent, e) ELSE Append(Tail(recent), e)

Next == \E e \in Event : Push(e)

Spec == Init /\ [][Next]_recent
=============================================================================
