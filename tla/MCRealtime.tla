----------------------------- MODULE MCRealtime -----------------------------
(***************************************************************************)
(* Parts of the memory and realtime layers for TLC, each checked by itself: *)
(* a behaviour is a behaviour of the part chosen at the start, and the      *)
(* others rest.                                                            *)
(*   clock     the vector clock and what it knows (ClockHistory)           *)
(*   pubsub    the store's local publish and subscribe (PubSub)            *)
(*   presence  connections from accept to cleanup (ConnPresence)           *)
(*   client    the client's subscriptions and reconnects (ClientSocket)    *)
(***************************************************************************)
EXTENDS ClockHistory, PubSub, ConnPresence, ClientSocket

VARIABLE part

rtVars == <<part, vars, pubsubVars, connVars, sockVars>>

\* Two nodes, two goroutines on the first.
MCNode == {1, 2}
MCProc == {"p1", "p2", "q"}
MCHome == [p \in MCProc |-> IF p = "q" THEN 2 ELSE 1]

MCPattern == {<<"user", "*">>, <<"*">>}
MCTopic == {<<"user", "login">>, <<"chat">>}

\* Two channels that share a key.
TwoRooms == {<<"room", ".", "1">>, <<"room", "_", "1">>}

ClockStep == part = "clock" /\ Next /\ UNCHANGED <<part, pubsubVars, connVars, sockVars>>
PubSubStep(A) == part = "pubsub" /\ A /\ UNCHANGED <<part, vars, connVars, sockVars>>
PresenceStep(A) == part = "presence" /\ A /\ UNCHANGED <<part, vars, pubsubVars, sockVars>>
ClientStep(A) == part = "client" /\ A /\ UNCHANGED <<part, vars, pubsubVars, connVars>>

RealtimeInit ==
  /\ part \in {"clock", "pubsub", "presence", "client"}
  /\ Init /\ PubSubInit /\ ConnInit /\ SockInit
  /\ part = "client" \/ hasHandler

RealtimeNext ==
  \/ ClockStep
  \/ PubSubStep(PubSubNext)
  \/ PresenceStep(ConnNext)
  \/ ClientStep(SockNext)

\* The fairness of each part, for the part that runs.
RealtimeFairness ==
  /\ \A p \in Publisher : WF_rtVars(PubSubStep(\E s \in Sub : Deliver(p, s)))
  /\ \A s \in Sub : /\ WF_rtVars(PubSubStep(CancelClose(s)))
                    /\ WF_rtVars(PubSubStep(Handle(s)))
                    /\ WF_rtVars(PubSubStep(Exit(s)))
  /\ \A c \in Conn : /\ WF_rtVars(PresenceStep(ConnLoops(c)))
                     /\ WF_rtVars(PresenceStep(WriterEnds(c)))
  /\ WF_rtVars(ClientStep(TimerFires))
  /\ WF_rtVars(ClientStep(ws = "closing" /\ OnClose))
  /\ WF_rtVars(ClientStep(OnOpen))

RealtimeSpec == RealtimeInit /\ [][RealtimeNext]_rtVars /\ RealtimeFairness

\* Everything begun in the realtime layer ends: an accepted message is handled
\* and a cancelled subscription's goroutine exits (pubsub.go 98-114), a
\* connection is cleaned up when its client is gone or the hub shuts down
\* (hub.go 169-196, 437-470; conn.go 131-189), and the client reconnects until
\* it is told not to (oni-socket.ts 184-253).
RealtimeFinishes == AcceptedIsHandled /\ CancelledExits /\ ConnCleanup /\ Reconnects
=============================================================================
