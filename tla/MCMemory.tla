------------------------------ MODULE MCMemory ------------------------------
(* OniMemory for TLC: the instances the .cfg files choose from. *)
EXTENDS OniMemory

TwoNodes == {1, 2}

\* Goroutines, and the node each one runs on.
TwoProcs == {"p", "q"}
AllOnNode1 == [p \in Proc |-> 1]
OnePerNode == [p \in Proc |-> IF p = "p" THEN 1 ELSE 2]

OneKey == {"k"}
OneVal == {[type |-> "int64", n |-> 1]}
TwoVals == {[type |-> "int64", n |-> 1], [type |-> "string", n |-> 1]}

NoTTL == {0}
ShortTTL == {0, 1}

\* A store without peers: two goroutines, every operation, a restart.
Local ==
  [transport |-> "none", connected |-> FALSE, home |-> AllOnNode1, callers |-> Proc, calls |-> Operation,
   max |-> [calls |-> 3, now |-> 2, drops |-> 0, restarts |-> 1]]

\* A goroutine on each of two nodes, a gossip connection that breaks once.
Peers(transport, connected, callers, ops) ==
  [transport |-> transport, connected |-> connected, home |-> OnePerNode, callers |-> callers, calls |-> ops,
   max |-> [calls |-> 3, now |-> 1, drops |-> 1, restarts |-> 0]]

\* No peers; both nodes write while the connections come up; one goroutine does:
\* sets over gossip, sets and deletes over Redis until they expire.
Deployments ==
  { Local, Peers("gossip", FALSE, Proc, {"set"}), Peers("gossip", TRUE, {"p"}, {"set", "get"}),
    [Peers("redis", TRUE, {"p"}, {"set", "delete", "get"}) EXCEPT !.max.now = 2] }

\* Both nodes write over connections that are up from the start.
Writers ==
  {[Peers("gossip", TRUE, Proc, {"set"}) EXCEPT !.max = [calls |-> 2, now |-> 0, drops |-> 0, restarts |-> 0]]}
=============================================================================
