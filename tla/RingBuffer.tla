----------------------------- MODULE RingBuffer -----------------------------
(***************************************************************************)
(* The ring of one channel's recent events (framework/realtime/resume.go,  *)
(* ringBuffer).  push and since run under the ring's mutex, so each is one *)
(* step; since changes nothing and is an operator here.                    *)
(***************************************************************************)
EXTENDS Integers, Sequences, FiniteSets

CONSTANTS Event,   \* events: records with an ID and a Ts
          Cap,     \* capacity (512 in the code)
          Nil      \* an empty slot

ASSUME RingAssumption == Cap \in Nat \ {0} /\ Nil \notin Event

VARIABLES events, start, count

ringVars == <<events, start, count>>

RingTypeOK ==
  /\ events \in [0..Cap-1 -> Event \cup {Nil}]
  /\ start \in 0..Cap-1
  /\ count \in 0..Cap

RingInit ==
  /\ events = [i \in 0..Cap-1 |-> Nil]
  /\ start = 0
  /\ count = 0

\* The array index of the i-th event, counted from the oldest.
Slot(i) == (start + i) % Cap

\* Mutant of Push: one slot behind the first free one.
PushTooFar(e) ==
  /\ events' = [events EXCEPT ![Slot(count + 1)] = e]
  /\ start' = IF count = Cap THEN (start + 1) % Cap ELSE start
  /\ count' = IF count = Cap THEN count ELSE count + 1

\* Mutant of Push: the oldest event is overwritten and stays the first.
PushKeepsStart(e) ==
  /\ events' = [events EXCEPT ![Slot(count)] = e]
  /\ count' = IF count = Cap THEN count ELSE count + 1
  /\ start' = start

\* push: the slot behind the newest event, which is the oldest one's when the
\* ring is full.
Push(e) ==
  /\ events' = [events EXCEPT ![Slot(count)] = e]
  /\ start' = IF count = Cap THEN (start + 1) % Cap ELSE start
  /\ count' = IF count = Cap THEN count ELSE count + 1

RingNext == \E e \in Event : Push(e)

RingSpec == RingInit /\ [][RingNext]_ringVars

----------------------------------------------------------------------------
(* Reading *)

\* The events since walks over.
Contents == [i \in 1..count |-> events[Slot(i - 1)]]

\* Outside the age window; an event without Ts never is.
TooOld(e, cutoff) == e.Ts > 0 /\ e.Ts < cutoff

\* One turn of the loop of since, and what it has collected after i turns.
Collect(window, e, cutoff) ==
  IF e = Nil \/ TooOld(e, cutoff) THEN window ELSE Append(window, e)

Collected(cutoff) ==
  LET window[i \in 0..count] ==
        IF i = 0 THEN <<>> ELSE Collect(window[i - 1], events[Slot(i - 1)], cutoff)
  IN  window

Window(cutoff) == Collected(cutoff)[count]

\* Mutant of Since: the event the client already has is replayed too.
SinceInclusive(last, cutoff) ==
  LET w == Window(cutoff)
      markers == {i \in 1..Len(w) : w[i].ID = last}
      markerAt == CHOOSE i \in markers : \A j \in markers : j <= i
  IN  IF markers = {} THEN w ELSE SubSeq(w, markerAt, Len(w))

\* since: what follows the last event with that ID in the window, the whole
\* window if there is none.
Since(last, cutoff) ==
  LET w == Window(cutoff)
      markers == {i \in 1..Len(w) : w[i].ID = last}
      markerAt == CHOOSE i \in markers : \A j \in markers : j <= i
  IN  IF markers = {} THEN w ELSE SubSeq(w, markerAt + 1, Len(w))

----------------------------------------------------------------------------
(* Properties *)

\* The slots in use are the ones from start on; no other slot is read.
RingOK ==
  /\ RingTypeOK
  /\ \A i \in 0..Cap-1 : i < count => events[Slot(i)] # Nil

\* The positions of the events a client that saw `last` still has to get: in the
\* age window, with no in-window event `last` at or after them.
Wanted(last, cutoff) ==
  {j \in 1..count :
     /\ ~TooOld(Contents[j], cutoff)
     /\ \A k \in j..count : TooOld(Contents[k], cutoff) \/ Contents[k].ID # last}

\* since returns exactly those events, in order, for every marker and cutoff: the
\* event it puts at place i is the i-th of those the client has to get, although
\* IDs come back and times go backwards (resume.go 87-121).
SinceReplaysRest ==
  \A last \in {e.ID : e \in Event}, cutoff \in {e.Ts + 1 : e \in Event} :
    LET wanted == Wanted(last, cutoff)
        replayed == Since(last, cutoff)
    IN  /\ Len(replayed) = Cardinality(wanted)
        /\ \A j \in wanted : replayed[Cardinality({k \in wanted : k <= j})] = Contents[j]

\* The ring implements the sequence of the last Cap events.
Recent == INSTANCE RecentEvents WITH recent <- Contents

ImplementsRecent == Recent!Spec
=============================================================================
