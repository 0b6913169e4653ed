------------------------- MODULE ClockHistoryProofs -------------------------
(***************************************************************************)
(* What the vector clocks guarantee for every cluster, every number of     *)
(* goroutines and every bound: After respects causality, no timestamp is   *)
(* given twice, and any two writes have exactly one winner.                *)
(***************************************************************************)
EXTENDS ClockHistory, TLAPS

----------------------------------------------------------------------------
(* Types *)

LEMMA TypeInit == Init => TypeOK
BY DEF Init, TypeOK, NewVectorClock, Clock, Vector

LEMMA TypeStep == TypeOK /\ [Next]_vars => TypeOK'
<1> SUFFICES ASSUME TypeOK, [Next]_vars PROVE TypeOK'
  OBVIOUS
<1>1. ASSUME NEW p \in Proc, BeginTick(p) PROVE TypeOK'
  <2>1. Home[p] \in Node
    BY ProcAssumption
  <2>2. vc[Home[p]] \in Clock /\ vc[Home[p]].localTS \in Nat
    BY <2>1 DEF TypeOK, Clock
  <2>3. TickAdd(vc[Home[p]]) \in Clock
    BY <2>2 DEF TickAdd, Clock
  <2> QED
    BY <1>1, <2>1, <2>2, <2>3 DEF BeginTick, TypeOK
<1>2. ASSUME NEW p \in Proc, EndTick(p) PROVE TypeOK'
  <2> DEFINE n == Home[p]
             sv == TickStamp(n, vc[n], drawn[p])
             cv == Stamped(n, sv, drawn[p])
  <2>1. n \in Node /\ drawn[p] \in Nat
    BY ProcAssumption DEF TypeOK
  <2>2. sv \in Clock
    BY <2>1 DEF TypeOK, TickStamp, Clock, Vector
  <2>3. cv \in ClockValue
    BY <2>1, <2>2 DEF Stamped, ClockValue, Clock
  <2>4. [clock |-> cv, past |-> past[p]] \in Write
    BY <2>3 DEF Write, TypeOK
  <2> HIDE DEF sv, cv
  <2>5. /\ vc' = [vc EXCEPT ![n] = sv] /\ known' = [known EXCEPT ![n] = @ \cup {cv}]
        /\ issued' = issued \cup {[clock |-> cv, past |-> past[p]]}
        /\ drawn' = [drawn EXCEPT ![p] = 0] /\ past' = past
    BY <1>2 DEF EndTick, sv, cv
  <2> QED
    BY <2>1, <2>2, <2>3, <2>4, <2>5 DEF TypeOK
<1>3. ASSUME NEW n \in Node, NEW w \in issued, Receive(n, w) PROVE TypeOK'
  <2>1. w.clock \in ClockValue /\ vc[n] \in Clock
    BY DEF TypeOK, Write
  <2>2. Merge(n, vc[n], w.clock) \in Clock
    BY <2>1, MergeValue, MergeLanesValue DEF Clock, ClockValue
  <2> QED
    BY <1>3, <2>1, <2>2 DEF Receive, TypeOK
<1>4. CASE UNCHANGED vars
  BY <1>4 DEF vars, TypeOK
<1> QED
  BY <1>1, <1>2, <1>3, <1>4 DEF Next

\* The clocks, the timestamps Ticks in progress drew and the clock values issued
\* stay well formed through every interleaving of Tick and Merge.
THEOREM ClockTypeOK == Spec => []TypeOK
<1>1. Init => TypeOK
  BY TypeInit
<1>2. TypeOK /\ [Next]_vars => TypeOK'
  BY TypeStep
<1> QED
  BY <1>1, <1>2, PTL DEF Spec

----------------------------------------------------------------------------
(* What one step does to the lanes and the counters *)

LEMMA HomeIsNode == \A p \in Proc : Home[p] \in Node
BY ProcAssumption

LEMMA ClockFields ==
  ASSUME TypeOK, NEW n \in Node
  PROVE  /\ vc[n].localTS \in Nat
         /\ vc[n].clocks \in Vector
         /\ \A m \in Node : vc[n].clocks[m] \in Nat
BY DEF TypeOK, Clock, Vector

LEMMA BeginTickEffect ==
  ASSUME TypeOK, NEW p \in Proc, BeginTick(p)
  PROVE  /\ \A k \in Node : vc'[k].clocks = vc[k].clocks
         /\ \A k \in Node : vc'[k].localTS =
                IF k = Home[p] THEN vc[k].localTS + 1 ELSE vc[k].localTS
         /\ drawn' = [drawn EXCEPT ![p] = vc[Home[p]].localTS + 1]
         /\ past' = [past EXCEPT ![p] = known[Home[p]]]
         /\ known' = known /\ issued' = issued
<1>1. Home[p] \in Node
  BY HomeIsNode
<1>2. vc' = [vc EXCEPT ![Home[p]] = TickAdd(vc[Home[p]])]
  BY DEF BeginTick
<1>3. \A k \in Node : vc'[k] = IF k = Home[p] THEN TickAdd(vc[k]) ELSE vc[k]
  BY <1>1, <1>2 DEF TypeOK
<1>4. \A k \in Node : /\ TickAdd(vc[k]).clocks = vc[k].clocks
                      /\ TickAdd(vc[k]).localTS = vc[k].localTS + 1
  BY DEF TickAdd, TypeOK, Clock
<1>5. /\ \A k \in Node : vc'[k].clocks = vc[k].clocks
      /\ \A k \in Node : vc'[k].localTS =
             IF k = Home[p] THEN vc[k].localTS + 1 ELSE vc[k].localTS
  BY <1>3, <1>4
<1> QED
  BY <1>5 DEF BeginTick

LEMMA EndTickEffect ==
  ASSUME TypeOK, NEW p \in Proc, EndTick(p)
  PROVE  \E cv \in ClockValue :
         /\ cv.NodeID = Home[p] /\ cv.TS = drawn[p]
         /\ cv.Vector[Home[p]] = drawn[p]
         /\ \A m \in Node \ {Home[p]} : cv.Vector[m] = vc[Home[p]].clocks[m]
         /\ \A k \in Node : vc'[k].localTS = vc[k].localTS
         /\ \A k, m \in Node : vc'[k].clocks[m] =
                IF k = Home[p] /\ m = k THEN drawn[p] ELSE vc[k].clocks[m]
         /\ drawn[p] # 0
         /\ drawn' = [drawn EXCEPT ![p] = 0]
         /\ past' = past
         /\ known' = [known EXCEPT ![Home[p]] = known[Home[p]] \cup {cv}]
         /\ issued' = issued \cup {[clock |-> cv, past |-> past[p]]}
<1> DEFINE n == Home[p]
           sv == TickStamp(n, vc[n], drawn[p])
           cv == Stamped(n, sv, drawn[p])
<1>1. n \in Node /\ drawn[p] \in Nat /\ vc[n] \in Clock
  BY HomeIsNode DEF TypeOK
<1>2. sv \in Clock /\ sv.localTS = vc[n].localTS
      /\ \A m \in Node : sv.clocks[m] = IF m = n THEN drawn[p] ELSE vc[n].clocks[m]
  BY <1>1 DEF TickStamp, Clock, Vector
<1>3. cv \in ClockValue /\ cv.NodeID = n /\ cv.TS = drawn[p] /\ cv.Vector = sv.clocks
  BY <1>1, <1>2 DEF Stamped, ClockValue, Clock
<1> HIDE DEF sv, cv
<1>4. /\ drawn[p] # 0
      /\ vc' = [vc EXCEPT ![n] = sv] /\ known' = [known EXCEPT ![n] = known[n] \cup {cv}]
      /\ issued' = issued \cup {[clock |-> cv, past |-> past[p]]}
      /\ drawn' = [drawn EXCEPT ![p] = 0] /\ past' = past
  BY DEF EndTick, sv, cv
<1>5. \A k \in Node : vc'[k] = IF k = n THEN sv ELSE vc[k]
  BY <1>1, <1>4 DEF TypeOK
<1>6. /\ \A k \in Node : vc'[k].localTS = vc[k].localTS
      /\ \A k, m \in Node : vc'[k].clocks[m] =
             IF k = n /\ m = k THEN drawn[p] ELSE vc[k].clocks[m]
  BY <1>2, <1>5
<1>7. cv.Vector[n] = drawn[p] /\ \A m \in Node \ {n} : cv.Vector[m] = vc[n].clocks[m]
  BY <1>1, <1>2, <1>3
<1> QED
  BY <1>3, <1>4, <1>6, <1>7

LEMMA ReceiveEffect ==
  ASSUME TypeOK, NEW n \in Node, NEW w \in issued, Receive(n, w)
  PROVE  /\ \A k \in Node : vc'[k].localTS = vc[k].localTS
         /\ \A k, m \in Node : /\ vc'[k].clocks[m] \in Nat
                               /\ vc'[k].clocks[m] >= vc[k].clocks[m]
                               /\ vc'[k].clocks[m] \in {vc[k].clocks[m], w.clock.Vector[m]}
         /\ \A m \in Node : vc'[n].clocks[m] >= w.clock.Vector[m]
         /\ known' = [known EXCEPT ![n] = known[n] \cup {w.clock}]
         /\ drawn' = drawn /\ past' = past /\ issued' = issued
<1>1. w.clock \in ClockValue /\ vc[n] \in Clock
  BY DEF TypeOK, Write
<1>2. w.clock.Vector \in Vector /\ vc[n].clocks \in Vector /\ vc[n].localTS \in Nat
  BY <1>1 DEF Clock, ClockValue
<1> DEFINE ml == MergeLanes(vc[n].clocks, w.clock.Vector)
<1>3. /\ ml \in Vector
      /\ \A m \in Node : /\ ml[m] >= vc[n].clocks[m]
                         /\ ml[m] >= w.clock.Vector[m]
                         /\ ml[m] \in {vc[n].clocks[m], w.clock.Vector[m]}
  BY <1>2, MergeLanesValue
<1>4. vc' = [vc EXCEPT ![n] = [clocks |-> ml, localTS |-> vc[n].localTS]]
  BY <1>1, MergeValue DEF Receive
<1> HIDE DEF ml
<1>5. \A k \in Node : vc'[k] = IF k = n THEN [clocks |-> ml, localTS |-> vc[n].localTS] ELSE vc[k]
  BY <1>4 DEF TypeOK
<1>6. \A k, m \in Node : vc[k].clocks[m] \in Nat
  BY ClockFields
<1>7. \A m \in Node : ml[m] \in Nat
  BY <1>3 DEF Vector
<1>8. known' = [known EXCEPT ![n] = known[n] \cup {w.clock}]
      /\ drawn' = drawn /\ past' = past /\ issued' = issued
  BY DEF Receive
<1>9. \A k \in Node : vc'[k].localTS = vc[k].localTS
  BY <1>5
<1>10. \A k, m \in Node : vc'[k].clocks[m] = IF k = n THEN ml[m] ELSE vc[k].clocks[m]
  BY <1>5
<1> QED
  BY <1>3, <1>6, <1>7, <1>8, <1>9, <1>10

----------------------------------------------------------------------------
(* The inductive invariant: what a clock value says of a node never exceeds *)
(* that node's counter, what a node knows is below its lanes, and a Tick in *)
(* progress drew a timestamp above everything its node knew.                *)

LanesBelowCounters ==
  /\ \A n, m \in Node : vc[n].clocks[m] <= vc[m].localTS
  /\ \A w \in issued, m \in Node : w.clock.Vector[m] <= vc[m].localTS

\* The lanes of node n, its own left aside, cover the clock value c.
Covers(n, c) == \A m \in Node \ {n} : c.Vector[m] <= vc[n].clocks[m]

KnownCovered ==
  \A n \in Node : \A c \in known[n] : Covers(n, c) /\ c.Vector[n] <= vc[n].localTS

DrawnAbovePast ==
  \A p \in Proc : drawn[p] # 0 =>
    /\ drawn[p] <= vc[Home[p]].localTS
    /\ \A c \in past[p] : Covers(Home[p], c) /\ c.Vector[Home[p]] < drawn[p]

CausalInv == TypeOK /\ LanesBelowCounters /\ KnownCovered /\ DrawnAbovePast /\ CausalityRespected

\* Timestamps: an issued one is not above the counter, and a drawn one is in no
\* other hand.
IssuedBelowCounters ==
  \A w \in issued : /\ w.clock.NodeID \in Node
                    /\ w.clock.TS <= vc[w.clock.NodeID].localTS

DrawnIsFresh ==
  \A p \in Proc : drawn[p] # 0 =>
    /\ drawn[p] <= vc[Home[p]].localTS
    /\ \A w \in issued : w.clock.NodeID = Home[p] => w.clock.TS # drawn[p]
    /\ \A q \in Proc \ {p} : Home[q] = Home[p] => drawn[q] # drawn[p]

UniqueInv == TypeOK /\ IssuedBelowCounters /\ DrawnIsFresh /\ TimestampsUnique

\* A clock value that covers c in every lane and exceeds it in one wins.
LEMMA CoveringWins ==
  ASSUME NEW cv \in ClockValue, NEW c \in ClockValue, NEW n \in Node,
         \A m \in Node \ {n} : c.Vector[m] <= cv.Vector[m],
         c.Vector[n] < cv.Vector[n]
  PROVE  After(cv, c)
<1>1. \A m \in Node : c.Vector[m] \in Nat /\ cv.Vector[m] \in Nat
  BY DEF ClockValue, Vector
<1>2. ASSUME NEW m \in Node PROVE ~(c.Vector[m] > cv.Vector[m])
  <2>1. c.Vector[m] <= cv.Vector[m]
    <3>1. CASE m = n
      BY <1>1, <3>1
    <3>2. CASE m # n
      BY <3>2
    <3> QED
      BY <3>1, <3>2
  <2>2. c.Vector[m] \in Nat /\ cv.Vector[m] \in Nat
    BY <1>1
  <2> QED
    BY <2>1, <2>2
<1>3. cv.Vector[n] > c.Vector[n]
  BY <1>1
<1> QED
  BY <1>2, <1>3 DEF After, Dominates, Ahead

LEMMA VectorLanes ==
  ASSUME TypeOK
  PROVE  /\ \A w \in issued : w.clock \in ClockValue /\ w.past \subseteq ClockValue
         /\ \A w \in issued, m \in Node : w.clock.Vector[m] \in Nat
         /\ \A n \in Node : \A c \in known[n] : \A m \in Node : c.Vector[m] \in Nat
         /\ \A p \in Proc : \A c \in past[p] :
               c \in ClockValue /\ \A m \in Node : c.Vector[m] \in Nat
         /\ \A p \in Proc : drawn[p] \in Nat
         /\ \A n, m \in Node : vc[n].clocks[m] \in Nat /\ vc[n].localTS \in Nat
<1>1. \A c \in ClockValue : \A m \in Node : c.Vector[m] \in Nat
  BY DEF ClockValue, Vector
<1>2. \A w \in issued : w.clock \in ClockValue /\ w.past \subseteq ClockValue
  BY DEF TypeOK, Write
<1>3. /\ \A n \in Node : known[n] \subseteq ClockValue
      /\ \A p \in Proc : past[p] \subseteq ClockValue /\ drawn[p] \in Nat
  BY DEF TypeOK
<1> QED
  BY <1>1, <1>2, <1>3, ClockFields

LEMMA CausalBegin ==
  ASSUME CausalInv, NEW p \in Proc, BeginTick(p)
  PROVE  LanesBelowCounters' /\ KnownCovered' /\ DrawnAbovePast' /\ CausalityRespected'
<1> DEFINE h == Home[p]
<1>1. h \in Node /\ TypeOK
  BY HomeIsNode DEF CausalInv
<1>2. /\ \A k \in Node : vc'[k].clocks = vc[k].clocks
      /\ \A k \in Node : vc'[k].localTS = IF k = h THEN vc[k].localTS + 1 ELSE vc[k].localTS
      /\ drawn' = [drawn EXCEPT ![p] = vc[h].localTS + 1]
      /\ past' = [past EXCEPT ![p] = known[h]]
      /\ known' = known /\ issued' = issued
  BY <1>1, BeginTickEffect
<1>3. \A k \in Node : vc[k].localTS \in Nat /\ vc'[k].localTS \in Nat
                    /\ vc'[k].localTS >= vc[k].localTS
  BY <1>1, <1>2, VectorLanes
<1>4. LanesBelowCounters'
  BY <1>1, <1>2, <1>3, VectorLanes DEF CausalInv, LanesBelowCounters
<1>5. \A n \in Node : \A c : Covers(n, c) => Covers(n, c)'
  BY <1>2 DEF Covers
<1>6. KnownCovered'
  BY <1>1, <1>2, <1>3, <1>5, VectorLanes DEF CausalInv, KnownCovered
<1>7. ASSUME NEW q \in Proc, drawn'[q] # 0
      PROVE  /\ drawn'[q] <= vc'[Home[q]].localTS
             /\ \A c \in past'[q] : Covers(Home[q], c)' /\ c.Vector[Home[q]] < drawn'[q]
  <2>1. CASE q = p
    <3>1. drawn'[q] = vc[h].localTS + 1 /\ past'[q] = known[h]
      BY <1>1, <1>2, <2>1 DEF TypeOK
    <3>2. \A c \in known[h] : Covers(h, c) /\ c.Vector[h] <= vc[h].localTS /\ c.Vector[h] \in Nat
      BY <1>1, VectorLanes DEF CausalInv, KnownCovered
    <3> QED
      BY <1>1, <1>2, <1>3, <1>5, <2>1, <3>1, <3>2
  <2>2. CASE q # p
    <3>1. drawn'[q] = drawn[q] /\ past'[q] = past[q] /\ Home[q] \in Node
      BY <1>1, <1>2, <2>2, HomeIsNode DEF TypeOK
    <3>2. /\ drawn[q] <= vc[Home[q]].localTS
          /\ \A c \in past[q] : Covers(Home[q], c) /\ c.Vector[Home[q]] < drawn[q]
      BY <1>7, <3>1 DEF CausalInv, DrawnAbovePast
    <3>3. drawn[q] \in Nat
      BY <1>1 DEF TypeOK
    <3> QED
      BY <1>3, <1>5, <3>1, <3>2, <3>3
  <2> QED
    BY <2>1, <2>2
<1>8. DrawnAbovePast'
  BY <1>7 DEF DrawnAbovePast
<1>9. CausalityRespected'
  BY <1>2 DEF CausalInv, CausalityRespected
<1> QED
  BY <1>4, <1>6, <1>8, <1>9

LEMMA CausalEnd ==
  ASSUME CausalInv, NEW p \in Proc, EndTick(p)
  PROVE  LanesBelowCounters' /\ KnownCovered' /\ DrawnAbovePast' /\ CausalityRespected'
<1> DEFINE h == Home[p]
<1>1. h \in Node /\ TypeOK
  BY HomeIsNode DEF CausalInv
<1>2. PICK cv \in ClockValue :
         /\ cv.NodeID = h /\ cv.TS = drawn[p]
         /\ cv.Vector[h] = drawn[p]
         /\ \A m \in Node \ {h} : cv.Vector[m] = vc[h].clocks[m]
         /\ \A k \in Node : vc'[k].localTS = vc[k].localTS
         /\ \A k, m \in Node : vc'[k].clocks[m] =
                IF k = h /\ m = k THEN drawn[p] ELSE vc[k].clocks[m]
         /\ drawn[p] # 0
         /\ drawn' = [drawn EXCEPT ![p] = 0]
         /\ past' = past
         /\ known' = [known EXCEPT ![h] = known[h] \cup {cv}]
         /\ issued' = issued \cup {[clock |-> cv, past |-> past[p]]}
  BY <1>1, EndTickEffect
<1> DEFINE new == [clock |-> cv, past |-> past[p]]
<1>3. new.clock = cv /\ new.past = past[p] /\ \A w \in issued' : w \in issued \/ w = new
  BY <1>2
<1>4. /\ drawn[p] <= vc[h].localTS
      /\ \A c \in past[p] : Covers(h, c) /\ c.Vector[h] < drawn[p]
  BY <1>2 DEF CausalInv, DrawnAbovePast
<1>5. LanesBelowCounters'
  <2>1. \A k, m \in Node : vc'[k].clocks[m] <= vc'[m].localTS
    BY <1>1, <1>2, <1>4 DEF CausalInv, LanesBelowCounters
  <2>2. \A m \in Node : cv.Vector[m] <= vc[m].localTS
    BY <1>1, <1>2, <1>4 DEF CausalInv, LanesBelowCounters
  <2>3. ASSUME NEW w \in issued', NEW m \in Node PROVE w.clock.Vector[m] <= vc'[m].localTS
    <3>1. CASE w \in issued
      BY <1>2, <3>1 DEF CausalInv, LanesBelowCounters
    <3>2. CASE w = new
      BY <1>2, <1>3, <2>2, <3>2
    <3> QED
      BY <1>3, <3>1, <3>2
  <2> QED
    BY <2>1, <2>3 DEF LanesBelowCounters
<1>6. \A n \in Node : \A c : Covers(n, c) => Covers(n, c)'
  BY <1>2 DEF Covers
<1>7. KnownCovered'
  <2>1. ASSUME NEW n \in Node, NEW c \in known'[n]
        PROVE  Covers(n, c)' /\ c.Vector[n] <= vc'[n].localTS
    <3>1. CASE c \in known[n]
      BY <1>2, <1>6, <3>1 DEF CausalInv, KnownCovered
    <3>2. CASE n = h /\ c = cv
      <4>1. \A m \in Node \ {h} : cv.Vector[m] <= vc'[h].clocks[m]
        BY <1>1, <1>2, VectorLanes
      <4> QED
        BY <1>1, <1>2, <1>4, <3>2, <4>1 DEF Covers
    <3>3. c \in known[n] \/ (n = h /\ c = cv)
      BY <1>1, <1>2 DEF TypeOK
    <3> QED
      BY <3>1, <3>2, <3>3
  <2> QED
    BY <2>1 DEF KnownCovered
<1>8. DrawnAbovePast'
  <2>1. ASSUME NEW q \in Proc, drawn'[q] # 0
        PROVE  /\ drawn'[q] <= vc'[Home[q]].localTS
               /\ \A c \in past'[q] : Covers(Home[q], c)' /\ c.Vector[Home[q]] < drawn'[q]
    <3>1. drawn'[q] = drawn[q] /\ past'[q] = past[q] /\ Home[q] \in Node
      BY <1>1, <1>2, <2>1, HomeIsNode DEF TypeOK
    <3> QED
      BY <1>2, <1>6, <2>1, <3>1 DEF CausalInv, DrawnAbovePast
  <2> QED
    BY <2>1 DEF DrawnAbovePast
<1>9. CausalityRespected'
  <2>1. ASSUME NEW c \in past[p] PROVE After(cv, c)
    <3>1. c \in ClockValue /\ Covers(h, c) /\ c.Vector[h] < cv.Vector[h]
      BY <1>1, <1>2, <1>4, VectorLanes
    <3>2. \A m \in Node \ {h} : c.Vector[m] <= cv.Vector[m]
      BY <1>1, <1>2, <3>1 DEF Covers
    <3> QED
      BY <1>1, <3>1, <3>2, CoveringWins
  <2>2. ASSUME NEW w \in issued', NEW c \in w.past PROVE After(w.clock, c)
    BY <1>3, <2>1, <2>2 DEF CausalInv, CausalityRespected
  <2> QED
    BY <2>2 DEF CausalityRespected
<1> QED
  BY <1>5, <1>7, <1>8, <1>9

LEMMA CausalReceive ==
  ASSUME CausalInv, NEW n \in Node, NEW w \in issued, Receive(n, w)
  PROVE  LanesBelowCounters' /\ KnownCovered' /\ DrawnAbovePast' /\ CausalityRespected'
<1>1. TypeOK
  BY DEF CausalInv
<1>2. /\ \A k \in Node : vc'[k].localTS = vc[k].localTS
      /\ \A k, m \in Node : /\ vc'[k].clocks[m] \in Nat
                            /\ vc'[k].clocks[m] >= vc[k].clocks[m]
                            /\ vc'[k].clocks[m] \in {vc[k].clocks[m], w.clock.Vector[m]}
      /\ \A m \in Node : vc'[n].clocks[m] >= w.clock.Vector[m]
      /\ known' = [known EXCEPT ![n] = known[n] \cup {w.clock}]
      /\ drawn' = drawn /\ past' = past /\ issued' = issued
  BY <1>1, ReceiveEffect
<1>3. LanesBelowCounters'
  BY <1>2 DEF CausalInv, LanesBelowCounters
<1>4. ASSUME NEW k \in Node, NEW c, Covers(k, c), \A m \in Node : c.Vector[m] \in Nat
      PROVE  Covers(k, c)'
  BY <1>1, <1>2, <1>4, VectorLanes DEF Covers
<1>5. ASSUME NEW k \in Node, NEW c \in known'[k]
      PROVE  Covers(k, c)' /\ c.Vector[k] <= vc'[k].localTS
  <2>1. CASE c \in known[k]
    BY <1>1, <1>2, <1>4, <2>1, VectorLanes DEF CausalInv, KnownCovered
  <2>2. CASE k = n /\ c = w.clock
    <3>1. \A m \in Node \ {n} : w.clock.Vector[m] <= vc'[n].clocks[m]
      BY <1>1, <1>2, VectorLanes
    <3>2. w.clock.Vector[n] <= vc[n].localTS
      BY DEF CausalInv, LanesBelowCounters
    <3> QED
      BY <1>2, <2>2, <3>1, <3>2 DEF Covers
  <2>3. c \in known[k] \/ (k = n /\ c = w.clock)
    BY <1>1, <1>2 DEF TypeOK
  <2> QED
    BY <2>1, <2>2, <2>3
<1>6. KnownCovered'
  BY <1>5 DEF KnownCovered
<1>7. DrawnAbovePast'
  BY <1>1, <1>2, <1>4, HomeIsNode, VectorLanes DEF CausalInv, DrawnAbovePast
<1>8. CausalityRespected'
  BY <1>2 DEF CausalInv, CausalityRespected
<1> QED
  BY <1>3, <1>6, <1>7, <1>8

\* A write issued at a node that knew another write wins against it, whatever
\* the number of nodes, of goroutines per node and of writes: Tick being two
\* steps, and the lane falling back when Ticks overlap, does no harm.
THEOREM Causality == Spec => []CausalityRespected
<1>1. Init => CausalInv
  <2>1. Init => TypeOK
    BY TypeInit
  <2>2. Init => LanesBelowCounters /\ KnownCovered /\ DrawnAbovePast /\ CausalityRespected
    BY DEF Init, LanesBelowCounters, KnownCovered, DrawnAbovePast, CausalityRespected,
           NewVectorClock
  <2> QED
    BY <2>1, <2>2 DEF CausalInv
<1>2. CausalInv /\ [Next]_vars => CausalInv'
  <2> SUFFICES ASSUME CausalInv, [Next]_vars PROVE CausalInv'
    OBVIOUS
  <2>1. TypeOK'
    BY TypeStep DEF CausalInv
  <2>2. ASSUME UNCHANGED vars PROVE CausalInv'
    BY <2>2 DEF vars, CausalInv, TypeOK, LanesBelowCounters, KnownCovered, DrawnAbovePast,
                CausalityRespected, Covers
  <2>3. ASSUME Next PROVE LanesBelowCounters' /\ KnownCovered' /\ DrawnAbovePast'
                          /\ CausalityRespected'
    BY <2>3, CausalBegin, CausalEnd, CausalReceive DEF Next
  <2> QED
    BY <2>1, <2>2, <2>3 DEF CausalInv
<1>3. CausalInv => CausalityRespected
  BY DEF CausalInv
<1> QED
  BY <1>1, <1>2, <1>3, PTL DEF Spec

----------------------------------------------------------------------------
(* Timestamps *)

LEMMA IssuedFields ==
  ASSUME TypeOK
  PROVE  \A w \in issued : w.clock.TS \in Nat /\ w.clock \in ClockValue
<1>1. \A w \in issued : w.clock \in ClockValue
  BY DEF TypeOK, Write
<1> QED
  BY <1>1, ClockValueFields

LEMMA UniqueBegin ==
  ASSUME UniqueInv, NEW p \in Proc, BeginTick(p)
  PROVE  IssuedBelowCounters' /\ DrawnIsFresh' /\ TimestampsUnique'
<1> DEFINE h == Home[p]
<1>1. h \in Node /\ TypeOK
  BY HomeIsNode DEF UniqueInv
<1>2. /\ \A k \in Node : vc'[k].localTS = IF k = h THEN vc[k].localTS + 1 ELSE vc[k].localTS
      /\ drawn' = [drawn EXCEPT ![p] = vc[h].localTS + 1]
      /\ issued' = issued
  BY <1>1, BeginTickEffect
<1>3. \A k \in Node : vc[k].localTS \in Nat /\ vc'[k].localTS \in Nat
                    /\ vc'[k].localTS >= vc[k].localTS
  BY <1>1, <1>2, ClockFields
<1>4. \A w \in issued : /\ w.clock.TS \in Nat /\ w.clock.NodeID \in Node
                        /\ w.clock.TS <= vc[w.clock.NodeID].localTS
  BY <1>1, IssuedFields DEF UniqueInv, IssuedBelowCounters
<1>5. IssuedBelowCounters'
  BY <1>2, <1>3, <1>4 DEF IssuedBelowCounters
<1>6. \A q \in Proc : /\ Home[q] \in Node /\ drawn[q] \in Nat
                      /\ drawn[q] <= vc[Home[q]].localTS
  <2>1. \A q \in Proc : Home[q] \in Node /\ drawn[q] \in Nat
    BY <1>1, HomeIsNode DEF TypeOK
  <2>2. \A q \in Proc : drawn[q] # 0 => drawn[q] <= vc[Home[q]].localTS
    BY DEF UniqueInv, DrawnIsFresh
  <2> QED
    BY <1>3, <2>1, <2>2
<1>7. drawn'[p] = vc[h].localTS + 1 /\ \A q \in Proc \ {p} : drawn'[q] = drawn[q]
  BY <1>1, <1>2 DEF TypeOK
<1>8. ASSUME NEW q \in Proc, drawn'[q] # 0
      PROVE  /\ drawn'[q] <= vc'[Home[q]].localTS
             /\ \A w \in issued' : w.clock.NodeID = Home[q] => w.clock.TS # drawn'[q]
             /\ \A r \in Proc \ {q} : Home[r] = Home[q] => drawn'[r] # drawn'[q]
  <2>1. CASE q = p
    <3>1. drawn'[q] <= vc'[Home[q]].localTS
      BY <1>1, <1>2, <1>3, <1>7, <2>1
    <3>2. \A w \in issued' : w.clock.NodeID = Home[q] => w.clock.TS # drawn'[q]
      BY <1>1, <1>2, <1>3, <1>4, <1>7, <2>1
    <3>3. \A r \in Proc \ {q} : Home[r] = Home[q] => drawn'[r] # drawn'[q]
      BY <1>1, <1>3, <1>6, <1>7, <2>1
    <3> QED
      BY <3>1, <3>2, <3>3
  <2>2. CASE q # p
    <3>1. drawn'[q] = drawn[q]
      BY <1>7, <2>2
    <3>2. /\ drawn[q] <= vc[Home[q]].localTS
          /\ \A w \in issued : w.clock.NodeID = Home[q] => w.clock.TS # drawn[q]
          /\ \A r \in Proc \ {q} : Home[r] = Home[q] => drawn[r] # drawn[q]
      BY <1>8, <3>1 DEF UniqueInv, DrawnIsFresh
    <3>3. drawn'[q] <= vc'[Home[q]].localTS
      BY <1>3, <1>6, <3>1
    <3>4. ASSUME NEW r \in Proc \ {q}, Home[r] = Home[q] PROVE drawn'[r] # drawn'[q]
      <4>1. CASE r = p
        BY <1>1, <1>3, <1>6, <1>7, <3>1, <3>2, <3>4, <4>1
      <4>2. CASE r # p
        BY <1>7, <3>1, <3>2, <3>4, <4>2
      <4> QED
        BY <4>1, <4>2
    <3> QED
      BY <1>2, <3>1, <3>2, <3>3, <3>4
  <2> QED
    BY <2>1, <2>2
<1>9. DrawnIsFresh'
  BY <1>8 DEF DrawnIsFresh
<1>10. TimestampsUnique'
  BY <1>2 DEF UniqueInv, TimestampsUnique
<1> QED
  BY <1>5, <1>9, <1>10

LEMMA UniqueEnd ==
  ASSUME UniqueInv, NEW p \in Proc, EndTick(p)
  PROVE  IssuedBelowCounters' /\ DrawnIsFresh' /\ TimestampsUnique'
<1> DEFINE h == Home[p]
<1>1. h \in Node /\ TypeOK
  BY HomeIsNode DEF UniqueInv
<1>2. PICK cv \in ClockValue :
         /\ cv.NodeID = h /\ cv.TS = drawn[p]
         /\ \A k \in Node : vc'[k].localTS = vc[k].localTS
         /\ drawn[p] # 0
         /\ drawn' = [drawn EXCEPT ![p] = 0]
         /\ issued' = issued \cup {[clock |-> cv, past |-> past[p]]}
  BY <1>1, EndTickEffect
<1> DEFINE new == [clock |-> cv, past |-> past[p]]
<1>3. new.clock = cv /\ \A w \in issued' : w \in issued \/ w = new
  BY <1>2
<1>4. /\ drawn[p] <= vc[h].localTS
      /\ \A w \in issued : w.clock.NodeID = h => w.clock.TS # drawn[p]
      /\ \A q \in Proc \ {p} : Home[q] = h => drawn[q] # drawn[p]
  BY <1>2 DEF UniqueInv, DrawnIsFresh
<1>5. drawn'[p] = 0 /\ \A q \in Proc \ {p} : drawn'[q] = drawn[q]
  BY <1>1, <1>2 DEF TypeOK
<1>6. IssuedBelowCounters'
  BY <1>1, <1>2, <1>3, <1>4 DEF UniqueInv, IssuedBelowCounters
<1>7. ASSUME NEW q \in Proc, drawn'[q] # 0
      PROVE  /\ drawn'[q] <= vc'[Home[q]].localTS
             /\ \A w \in issued' : w.clock.NodeID = Home[q] => w.clock.TS # drawn'[q]
             /\ \A r \in Proc \ {q} : Home[r] = Home[q] => drawn'[r] # drawn'[q]
  <2>1. q # p /\ drawn'[q] = drawn[q] /\ Home[q] \in Node
    BY <1>5, <1>7, HomeIsNode
  <2>2. /\ drawn[q] <= vc[Home[q]].localTS
        /\ \A w \in issued : w.clock.NodeID = Home[q] => w.clock.TS # drawn[q]
        /\ \A r \in Proc \ {q} : Home[r] = Home[q] => drawn[r] # drawn[q]
    BY <1>7, <2>1 DEF UniqueInv, DrawnIsFresh
  <2>3. \A w \in issued' : w.clock.NodeID = Home[q] => w.clock.TS # drawn'[q]
    BY <1>2, <1>3, <1>4, <2>1, <2>2
  <2>4. \A r \in Proc \ {q} : Home[r] = Home[q] => drawn'[r] # drawn'[q]
    BY <1>5, <1>7, <2>1, <2>2
  <2> QED
    BY <1>2, <2>1, <2>2, <2>3, <2>4
<1>8. DrawnIsFresh'
  BY <1>7 DEF DrawnIsFresh
<1>9. ASSUME NEW v \in issued', NEW w \in issued',
             v.clock.NodeID = w.clock.NodeID, v.clock.TS = w.clock.TS
      PROVE  v = w
  <2>1. CASE v \in issued /\ w \in issued
    BY <1>9, <2>1 DEF UniqueInv, TimestampsUnique
  <2>2. CASE v = new /\ w \in issued
    BY <1>2, <1>3, <1>4, <1>9, <2>2
  <2>3. CASE v \in issued /\ w = new
    BY <1>2, <1>3, <1>4, <1>9, <2>3
  <2> QED
    BY <1>3, <2>1, <2>2, <2>3
<1>10. TimestampsUnique'
  BY <1>9 DEF TimestampsUnique
<1> QED
  BY <1>6, <1>8, <1>10

LEMMA UniqueReceive ==
  ASSUME UniqueInv, NEW n \in Node, NEW w \in issued, Receive(n, w)
  PROVE  IssuedBelowCounters' /\ DrawnIsFresh' /\ TimestampsUnique'
<1>1. TypeOK
  BY DEF UniqueInv
<1>2. /\ \A k \in Node : vc'[k].localTS = vc[k].localTS
      /\ drawn' = drawn /\ issued' = issued
  BY <1>1, ReceiveEffect
<1>3. IssuedBelowCounters'
  BY <1>2 DEF UniqueInv, IssuedBelowCounters
<1>4. DrawnIsFresh'
  BY <1>2, HomeIsNode DEF UniqueInv, DrawnIsFresh
<1>5. TimestampsUnique'
  BY <1>2 DEF UniqueInv, TimestampsUnique
<1> QED
  BY <1>3, <1>4, <1>5

LEMMA UniqueInvariant == Spec => []UniqueInv
<1>1. Init => UniqueInv
  <2>1. Init => TypeOK
    BY TypeInit
  <2>2. Init => IssuedBelowCounters /\ DrawnIsFresh /\ TimestampsUnique
    BY DEF Init, IssuedBelowCounters, DrawnIsFresh, TimestampsUnique
  <2> QED
    BY <2>1, <2>2 DEF UniqueInv
<1>2. UniqueInv /\ [Next]_vars => UniqueInv'
  <2> SUFFICES ASSUME UniqueInv, [Next]_vars PROVE UniqueInv'
    OBVIOUS
  <2>1. TypeOK'
    BY TypeStep DEF UniqueInv
  <2>2. ASSUME UNCHANGED vars PROVE UniqueInv'
    BY <2>2 DEF vars, UniqueInv, TypeOK, IssuedBelowCounters, DrawnIsFresh, TimestampsUnique
  <2>3. ASSUME Next PROVE IssuedBelowCounters' /\ DrawnIsFresh' /\ TimestampsUnique'
    BY <2>3, UniqueBegin, UniqueEnd, UniqueReceive DEF Next
  <2> QED
    BY <2>1, <2>2, <2>3 DEF UniqueInv
<1> QED
  BY <1>1, <1>2, PTL DEF Spec

\* No two Ticks of one node return the same timestamp, although the counter is
\* incremented outside the mutex and read by several goroutines.
THEOREM UniqueTimestamps == Spec => []TimestampsUnique
<1>1. UniqueInv => TimestampsUnique
  BY DEF UniqueInv
<1> QED
  BY <1>1, UniqueInvariant, PTL

\* Of two different writes After makes exactly one the winner: the tie-break by
\* timestamp and node is always decided, because timestamps are unique.
THEOREM OneWinner == Spec => []SingleWinner
<1>1. UniqueInv => SingleWinner
  <2> SUFFICES ASSUME UniqueInv, NEW v \in issued, NEW w \in issued, v.clock # w.clock
               PROVE  After(v.clock, w.clock) <=> ~After(w.clock, v.clock)
    BY DEF SingleWinner
  <2>1. v.clock \in ClockValue /\ w.clock \in ClockValue
    BY IssuedFields DEF UniqueInv
  <2>2. v.clock.TS # w.clock.TS \/ v.clock.NodeID # w.clock.NodeID
    BY DEF UniqueInv, TimestampsUnique
  <2>3. After(v.clock, w.clock) \/ After(w.clock, v.clock)
    BY <2>1, <2>2, AfterTotal
  <2>4. After(v.clock, w.clock) => ~After(w.clock, v.clock)
    BY <2>1, AfterAsymmetric
  <2> QED
    BY <2>3, <2>4
<1> QED
  BY <1>1, UniqueInvariant, PTL
=============================================================================
