---------------------------- MODULE VectorClock ----------------------------
(***************************************************************************)
(* framework/memory/clock.go: the vector clock of one store and the        *)
(* last-write-wins comparison of two stamped writes.                       *)
(*                                                                         *)
(* A node identifier is a string that the code only compares with ">"; it  *)
(* is modelled by the positive rank of that string.  Rank 0 stands for the *)
(* empty identifier of the zero ClockValue{}.  A Go map answers 0 for an   *)
(* absent lane, so a vector is a total function on Node.                   *)
(***************************************************************************)
EXTENDS Integers

CONSTANT Node

ASSUME NodeAssumption == Node \subseteq Nat \ {0}

Vector == [Node -> Nat]

ClockValue == [NodeID : Node \cup {0}, TS : Nat, Vector : Vector]

\* ClockValue{}: what the Redis adapter and a snapshot put on an entry.
ZeroClock == [NodeID |-> 0, TS |-> 0, Vector |-> [n \in Node |-> 0]]

\* The state of a VectorClock object: its lanes and its atomic counter.
Clock == [clocks : Vector, localTS : Nat]

NewVectorClock == [clocks |-> [n \in Node |-> 0], localTS |-> 0]

----------------------------------------------------------------------------
\* Tick, first half: the atomic increment, outside the mutex.
TickAdd(vc) == [vc EXCEPT !.localTS = @ + 1]

\* Mutant of TickStamp: the lane is not written before the snapshot.
TickStampNoLane(self, vc, ts) == vc

\* Tick, second half: under the mutex the lane takes the counter value this
\* goroutine drew, which need not be the counter's current value.
TickStamp(self, vc, ts) == [vc EXCEPT !.clocks[self] = ts]

\* The ClockValue Tick returns, from the clock TickStamp left.
Stamped(self, vc, ts) == [NodeID |-> self, TS |-> ts, Vector |-> vc.clocks]

----------------------------------------------------------------------------

MergeLanes(local, received) ==
  [n \in Node |-> IF received[n] > local[n] THEN received[n] ELSE local[n]]

\* Merge: the lanes first, then "advance our own clock if received is ahead",
\* tested against the lanes that were just raised.
Merge(self, vc, received) ==
  LET lanes == MergeLanes(vc.clocks, received.Vector)
      ahead == received.Vector[self] > lanes[self]
  IN  [clocks  |-> IF ahead THEN [lanes EXCEPT ![self] = received.Vector[self]]
                            ELSE lanes,
       localTS |-> IF ahead THEN received.Vector[self] ELSE vc.localTS]

----------------------------------------------------------------------------
\* v is greater than w in some lane.
Ahead(v, w) == \E n \in Node : v[n] > w[n]

\* v is at least w in every lane and greater in one.
Dominates(v, w) == Ahead(v, w) /\ ~Ahead(w, v)

\* The deterministic tie-break of two writes neither of which dominates.
TieBreak(cv, other) ==
  \/ cv.TS > other.TS
  \/ cv.TS = other.TS /\ cv.NodeID > other.NodeID

\* Mutant of After: the tie-break stops at the timestamp.
AfterByTSOnly(cv, other) ==
  \/ Dominates(cv.Vector, other.Vector)
  \/ /\ Ahead(cv.Vector, other.Vector) <=> Ahead(other.Vector, cv.Vector)
     /\ cv.TS > other.TS

\* After: cv wins against other.
After(cv, other) ==
  \/ Dominates(cv.Vector, other.Vector)
  \/ /\ Ahead(cv.Vector, other.Vector) <=> Ahead(other.Vector, cv.Vector)
     /\ TieBreak(cv, other)

----------------------------------------------------------------------------
(* What the operators compute, for every set of nodes *)

\* Merge raises the lanes and leaves the counter alone: the branch that would
\* advance it compares with lanes that were already raised.
LEMMA MergeValue ==
  ASSUME NEW n \in Node, NEW v \in Clock, NEW cv \in ClockValue
  PROVE  Merge(n, v, cv) = [clocks |-> MergeLanes(v.clocks, cv.Vector), localTS |-> v.localTS]
<1> DEFINE lanes == MergeLanes(v.clocks, cv.Vector)
<1>1. lanes[n] = IF cv.Vector[n] > v.clocks[n] THEN cv.Vector[n] ELSE v.clocks[n]
  BY DEF MergeLanes
<1>2. cv.Vector[n] \in Nat /\ v.clocks[n] \in Nat
  BY DEF Clock, ClockValue, Vector
<1>3. ~(cv.Vector[n] > lanes[n])
  BY <1>1, <1>2
<1> QED
  BY <1>3 DEF Merge

LEMMA MergeLanesValue ==
  ASSUME NEW v \in Vector, NEW w \in Vector
  PROVE  /\ MergeLanes(v, w) \in Vector
         /\ \A m \in Node : /\ MergeLanes(v, w)[m] >= v[m]
                            /\ MergeLanes(v, w)[m] >= w[m]
                            /\ MergeLanes(v, w)[m] \in {v[m], w[m]}
BY DEF MergeLanes, Vector

LEMMA ClockValueFields ==
  ASSUME NEW cv \in ClockValue
  PROVE  cv.NodeID \in Nat /\ cv.TS \in Nat /\ cv.Vector \in Vector
<1>1. cv.NodeID \in Node \cup {0} /\ cv.TS \in Nat /\ cv.Vector \in Vector
  BY DEF ClockValue
<1>2. CASE cv.NodeID \in Node
  BY <1>1, <1>2, NodeAssumption
<1>3. CASE cv.NodeID = 0
  BY <1>1, <1>3
<1> QED
  BY <1>1, <1>2, <1>3

\* Of two clock values at most one wins.
LEMMA AfterAsymmetric ==
  ASSUME NEW a \in ClockValue, NEW b \in ClockValue, After(a, b)
  PROVE  ~After(b, a)
<1>1. a.TS \in Nat /\ b.TS \in Nat /\ a.NodeID \in Nat /\ b.NodeID \in Nat
  BY ClockValueFields
<1>2. TieBreak(a, b) => ~TieBreak(b, a)
  BY <1>1 DEF TieBreak
<1> QED
  BY <1>2 DEF After, Dominates

\* Two values with different timestamps or origins have a winner.
LEMMA AfterTotal ==
  ASSUME NEW a \in ClockValue, NEW b \in ClockValue,
         a.TS # b.TS \/ a.NodeID # b.NodeID
  PROVE  After(a, b) \/ After(b, a)
<1>1. a.TS \in Nat /\ b.TS \in Nat /\ a.NodeID \in Nat /\ b.NodeID \in Nat
  BY ClockValueFields
<1>2. TieBreak(a, b) \/ TieBreak(b, a)
  BY <1>1 DEF TieBreak
<1> QED
  BY <1>2 DEF After, Dominates
=============================================================================
