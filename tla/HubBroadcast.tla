---------------------------- MODULE HubBroadcast ----------------------------
(***************************************************************************)
(* Broadcast over a cluster (framework/realtime/hub.go): the hub of every  *)
(* node pushes to its own connections and publishes on Oni Memory; every   *)
(* hub subscribes to the broadcasts of the others with a topic pattern.    *)
(*                                                                         *)
(* Oni Memory hands a published message to the local subscriptions and to  *)
(* every peer (store.go Publish, applyRemotePublish); one connection per   *)
(* node stands for all of them.  A channel is the sequence of segments of  *)
(* its name.                                                               *)
(***************************************************************************)
EXTENDS TopicMatch, FiniteSets

CONSTANTS Node, Channel,
          MaxEvents   \* bound on broadcasts

VARIABLES subs,   \* node -> channels its connection is subscribed to
          wire,   \* messages on their way: [id, ch, to]
          heard,  \* messages a hub's Memory subscription still has to handle
          got,    \* node -> ids queued on its connection, in order
          log     \* the broadcasts: [id, ch, at, reach], reach = nodes subscribed

vars == <<subs, wire, heard, got, log>>

Init ==
  /\ subs = [n \in Node |-> {}]
  /\ wire = {} /\ heard = {} /\ log = {}
  /\ got = [n \in Node |-> << >>]

\* The pattern of New: one segment, there is no "." in it.
MemorySub == <<"oni:broadcast:**">>

\* The topic "oni:broadcast:" + channel.
BroadcastTopic(ch) == <<"oni:broadcast:" \o Head(ch)>> \o Tail(ch)

\* PubSub.publish on node n: the hub's subscription gets the message on a match.
Hears(id, ch, n) ==
  IF TopicMatches(MemorySub, BroadcastTopic(ch)) THEN {[id |-> id, ch |-> ch, to |-> n]} ELSE {}

\* A connection subscribes (dispatch, EventTypeSubscribe).
Subscribe(n, ch) ==
  /\ ch \notin subs[n]
  /\ subs' = [subs EXCEPT ![n] = @ \cup {ch}]
  /\ UNCHANGED <<wire, heard, got, log>>

\* pushToChannel on node n.
Push(n, id, ch) == got' = [got EXCEPT ![n] = IF ch \in subs[n] THEN Append(@, id) ELSE @]

\* Broadcast: local connections, the local publish, the peers.
Broadcast(n, ch) ==
  LET id == Cardinality(log) + 1 IN
  /\ id <= MaxEvents
  /\ Push(n, id, ch)
  /\ heard' = heard \cup Hears(id, ch, n)
  /\ wire' = wire \cup {[id |-> id, ch |-> ch, to |-> m] : m \in Node \ {n}}
  /\ log' = log \cup {[id |-> id, ch |-> ch, at |-> n, reach |-> {m \in Node : ch \in subs[m]}]}
  /\ UNCHANGED subs

\* applyRemotePublish on the receiving node.
Arrive(m) ==
  /\ wire' = wire \ {m}
  /\ heard' = heard \cup Hears(m.id, m.ch, m.to)
  /\ UNCHANGED <<subs, got, log>>

\* handleRemoteBroadcast: to the local connections only.
HandleRemote(m) ==
  /\ heard' = heard \ {m}
  /\ Push(m.to, m.id, m.ch)
  /\ UNCHANGED <<subs, wire, log>>

Next ==
  \/ \E n \in Node, ch \in Channel : Subscribe(n, ch) \/ Broadcast(n, ch)
  \/ \E m \in wire : Arrive(m)
  \/ \E m \in heard : HandleRemote(m)

Spec == Init /\ [][Next]_vars

----------------------------------------------------------------------------
(* Properties *)

Count(n, id) == Cardinality({i \in 1..Len(got[n]) : got[n][i] = id})

\* "sends an event to all connections subscribed to channel, including
\* connections on other nodes (via Oni Memory pub/sub)" (hub.go:200).
ReachesPeers ==
  wire = {} /\ heard = {} => \A b \in log : \A n \in b.reach : Count(n, b.id) >= 1
=============================================================================
