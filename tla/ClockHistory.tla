---------------------------- MODULE ClockHistory ----------------------------
(***************************************************************************)
(* The vector clocks of a cluster at work (framework/memory/clock.go):     *)
(* goroutines draw timestamps with Tick, stores merge the clock values     *)
(* other stores issued.  Auxiliary state records what each clock value     *)
(* causally follows, so that the order After decides can be compared with  *)
(* the order in which the writes really happened.                          *)
(***************************************************************************)
EXTENDS VectorClock

CONSTANTS Proc,      \* goroutines that write
          Home,      \* the node a goroutine runs on
          MaxTS      \* bound on the writes of one node

ASSUME ProcAssumption == Home \in [Proc -> Node] /\ MaxTS \in Nat

VARIABLES vc,        \* node -> its VectorClock
          drawn,     \* goroutine -> timestamp drawn by its Tick in progress, or 0
          past,      \* goroutine -> clock values known at its node when Tick began
          known,     \* node -> clock values issued or merged there
          issued     \* what the Ticks returned: [clock, past]

vars == <<vc, drawn, past, known, issued>>

Write == [clock : ClockValue, past : SUBSET ClockValue]

TypeOK ==
  /\ vc \in [Node -> Clock]
  /\ drawn \in [Proc -> Nat]
  /\ past \in [Proc -> SUBSET ClockValue]
  /\ known \in [Node -> SUBSET ClockValue]
  /\ issued \subseteq Write

Init ==
  /\ vc = [n \in Node |-> NewVectorClock]
  /\ drawn = [p \in Proc |-> 0]
  /\ past = [p \in Proc |-> {}]
  /\ known = [n \in Node |-> {}]
  /\ issued = {}

\* A goroutine enters Tick: the atomic add.
BeginTick(p) ==
  LET n == Home[p] IN
  /\ drawn[p] = 0
  /\ vc[n].localTS < MaxTS
  /\ vc' = [vc EXCEPT ![n] = TickAdd(@)]
  /\ drawn' = [drawn EXCEPT ![p] = vc[n].localTS + 1]
  /\ past' = [past EXCEPT ![p] = known[n]]
  /\ UNCHANGED <<known, issued>>

\* The same goroutine under the mutex: it writes the lane and returns the value.
EndTick(p) ==
  LET n == Home[p]
      stampedVC == TickStamp(n, vc[n], drawn[p])
      cv == Stamped(n, stampedVC, drawn[p])
  IN
  /\ drawn[p] # 0
  /\ vc' = [vc EXCEPT ![n] = stampedVC]
  /\ known' = [known EXCEPT ![n] = @ \cup {cv}]
  /\ issued' = issued \cup {[clock |-> cv, past |-> past[p]]}
  /\ drawn' = [drawn EXCEPT ![p] = 0]
  /\ UNCHANGED past

\* Node n merges a clock value that some store issued.
Receive(n, w) ==
  /\ vc' = [vc EXCEPT ![n] = Merge(n, @, w.clock)]
  /\ known' = [known EXCEPT ![n] = @ \cup {w.clock}]
  /\ UNCHANGED <<drawn, past, issued>>

Next ==
  \/ \E p \in Proc : BeginTick(p) \/ EndTick(p)
  \/ \E n \in Node, w \in issued : Receive(n, w)

Spec == Init /\ [][Next]_vars

----------------------------------------------------------------------------
(* Properties *)

\* A write issued at a node that already knew another write wins against it:
\* After never contradicts causality, although Tick is two steps and the lane
\* of a node can fall back when two Ticks finish out of order.
CausalityRespected ==
  \A w \in issued : \A c \in w.past : After(w.clock, c)

\* Two different writes are ordered, one way only: the tie-break of After is
\* never left undecided between clock values the system really issues.
SingleWinner ==
  \A v, w \in issued :
    v.clock # w.clock => (After(v.clock, w.clock) <=> ~After(w.clock, v.clock))

\* No two Ticks of one node return the same timestamp.
TimestampsUnique ==
  \A v, w \in issued :
    /\ v.clock.NodeID = w.clock.NodeID
    /\ v.clock.TS = w.clock.TS
    => v = w
=============================================================================
