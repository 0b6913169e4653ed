---------------------------- MODULE ClientSocket ----------------------------
(***************************************************************************)
(* The connection and subscription state of the official client            *)
(* (client/oni-socket.ts): OniSocket with its reconnect timer and          *)
(* heartbeat, and the Channel objects the program holds, old ones          *)
(* included.  Event delivery and resume are in module EventResume.  One    *)
(* channel name is enough: nothing in the client relates two names.        *)
(* Frames to the server are a FIFO that a lost connection takes with it.   *)
(***************************************************************************)
EXTENDS Naturals, Sequences

CONSTANTS
  ChannelObj,    \* Channel objects, numbers in the order they are created
  MaxUses,   \* bound on the calls the program makes
  MaxLosses  \* bound on connections that are lost or cannot be made

ASSUME ClientAssumption == ChannelObj \subseteq Nat \ {0} /\ {MaxUses, MaxLosses} \subseteq Nat

VARIABLES
  ws,        \* readyState of the current WebSocket
  timer,     \* the reconnect timer is pending
  beat,      \* the heartbeat interval is running
  byUser,    \* closedByUser
  obj,       \* handle -> its listeners map and its subscribed flag
  registry,  \* channels.get(name): a handle, 0 if there is none
  wire,      \* frames sent and not yet read by the server
  serverSub, \* the server has this connection subscribed
  hasHandler,   \* the server has a handler for the channel
  misused,   \* a handle was used after its leave, or sent before it listened
  uses, losses

sockVars ==
  <<ws, timer, beat, byUser, obj, registry, wire, serverSub, hasHandler, misused, uses, losses>>

NoHandle == 0
\* types: the map has an entry; active: some listener is still in it.
NewChannel == [state |-> "made", types |-> FALSE, active |-> FALSE, subscribed |-> FALSE]
NotMade == [NewChannel EXCEPT !.state = "none"]

SockTypeOK ==
  /\ ws \in {"connecting", "open", "closing", "closed"}
  /\ {timer, beat, byUser, serverSub, hasHandler, misused} \subseteq BOOLEAN
  /\ obj \in [ChannelObj -> [state : {"none", "made", "left"}, types : BOOLEAN,
                         active : BOOLEAN, subscribed : BOOLEAN]]
  /\ registry \in ChannelObj \union {NoHandle}
  /\ wire \in Seq({"subscribe", "unsubscribe", "send"})
  /\ uses \in 0..MaxUses /\ losses \in 0..MaxLosses

\* new OniSocket connects at once.
SockInit ==
  /\ ws = "connecting" /\ timer = FALSE /\ beat = FALSE /\ byUser = FALSE
  /\ obj = [h \in ChannelObj |-> NotMade] /\ registry = NoHandle
  /\ wire = <<>> /\ serverSub = FALSE /\ hasHandler \in BOOLEAN
  /\ misused = FALSE /\ uses = 0 /\ losses = 0

StartHeartbeat == beat' = TRUE
StopHeartbeat == beat' = FALSE
Dropped == registry' = NoHandle

\* _send drops the frame unless the socket is open.
Sent(frames) == IF ws = "open" THEN wire \o frames ELSE wire

---------------------------------------------------------------------------
(* Calls of the program.                                                   *)

Use(A) ==
  /\ uses < MaxUses /\ uses' = uses + 1
  /\ A
  /\ UNCHANGED <<hasHandler, losses, timer>>

\* socket.channel(name): the registered object or a new one.
GetChannel(h) ==
  /\ registry = NoHandle /\ obj[h].state = "none"
  /\ \A g \in ChannelObj : g < h => obj[g].state # "none"
  /\ obj' = [obj EXCEPT ![h] = NewChannel] /\ registry' = h
  /\ UNCHANGED <<ws, beat, byUser, wire, serverSub, misused>>

\* ensureSubscribed sets the flag whether or not the frame could be sent.
Ensure(h, frames) ==
  IF obj[h].subscribed THEN Sent(frames) ELSE Sent(<<"subscribe">> \o frames)

On(h) ==
  /\ obj[h].state # "none"
  /\ obj' = [obj EXCEPT ![h].types = TRUE, ![h].active = TRUE, ![h].subscribed = TRUE]
  /\ wire' = Ensure(h, <<>>)
  /\ misused' = (misused \/ obj[h].state = "left")
  /\ UNCHANGED <<ws, beat, byUser, registry, serverSub>>

\* off empties the set of a type and leaves the type in the map.
Off(h) ==
  /\ obj[h].active
  /\ obj' = [obj EXCEPT ![h].active = FALSE]
  /\ UNCHANGED <<ws, beat, byUser, registry, wire, serverSub, misused>>

ChannelSend(h) ==
  /\ obj[h].state # "none"
  /\ obj' = [obj EXCEPT ![h].subscribed = TRUE]
  /\ wire' = Ensure(h, <<"send">>)
  /\ misused' = (misused \/ obj[h].state = "left" \/ ~obj[h].types)
  /\ UNCHANGED <<ws, beat, byUser, registry, serverSub>>

\* Mutant of Leave: the server is not told.
LeaveForgetsFrame(h) ==
  /\ obj[h].state # "none"
  /\ obj' = [obj EXCEPT ![h] = [NewChannel EXCEPT !.state = "left"]]
  /\ wire' = wire
  /\ Dropped
  /\ misused' = (misused \/ obj[h].state = "left")
  /\ UNCHANGED <<ws, beat, byUser, serverSub>>

\* leave drops whatever object is registered under the name.
Leave(h) ==
  /\ obj[h].state # "none"
  /\ obj' = [obj EXCEPT ![h] = [NewChannel EXCEPT !.state = "left"]]
  /\ wire' = IF obj[h].subscribed THEN Sent(<<"unsubscribe">>) ELSE wire
  /\ Dropped
  /\ misused' = (misused \/ obj[h].state = "left")
  /\ UNCHANGED <<ws, beat, byUser, serverSub>>

CloseSocket ==
  /\ byUser' = TRUE /\ StopHeartbeat
  /\ ws' = IF ws = "closed" THEN ws ELSE "closing"
  /\ UNCHANGED <<obj, registry, wire, serverSub, misused>>

---------------------------------------------------------------------------
(* Callbacks of the WebSocket and of the timer.                            *)

\* _resubscribe: a registered object with listeners subscribes again.
Resubscribes(h) == obj[h].types

OnOpen ==
  /\ ws = "connecting"
  /\ ws' = "open" /\ StartHeartbeat
  /\ LET again == registry # NoHandle /\ Resubscribes(registry) IN
     /\ wire' = IF again THEN <<"subscribe">> ELSE <<>>
     /\ obj' = IF again THEN [obj EXCEPT ![registry].subscribed = TRUE] ELSE obj
  /\ serverSub' = FALSE
  /\ UNCHANGED <<timer, byUser, registry, hasHandler, misused, uses, losses>>

\* The connection ends: the server, the network or the program closed it.
OnClose ==
  /\ ws # "closed" /\ (ws # "closing" => losses < MaxLosses)
  /\ losses' = IF ws = "closing" THEN losses ELSE losses + 1
  /\ ws' = "closed" /\ StopHeartbeat
  /\ timer' = ~byUser
  /\ wire' = <<>> /\ serverSub' = FALSE
  /\ UNCHANGED <<byUser, obj, registry, hasHandler, misused, uses>>

TimerFires ==
  /\ timer /\ timer' = FALSE
  /\ ws' = IF byUser THEN ws ELSE "connecting"
  /\ UNCHANGED <<beat, byUser, obj, registry, wire, serverSub, hasHandler, misused, uses, losses>>

\* The hub's dispatch: an event for a channel without a handler subscribes too.
ServerReads ==
  /\ wire # <<>>
  /\ wire' = Tail(wire)
  /\ serverSub' = CASE Head(wire) = "subscribe" -> TRUE
                    [] Head(wire) = "unsubscribe" -> FALSE
                    [] Head(wire) = "send" -> serverSub \/ ~hasHandler
  /\ UNCHANGED <<ws, timer, beat, byUser, obj, registry, hasHandler, misused, uses, losses>>

SockNext ==
  \/ \E h \in ChannelObj :
       \/ Use(GetChannel(h)) \/ Use(On(h)) \/ Use(Off(h)) \/ Use(ChannelSend(h)) \/ Use(Leave(h))
  \/ Use(CloseSocket)
  \/ OnOpen \/ OnClose \/ TimerFires \/ ServerReads

\* Timers fire, and an attempt to connect comes to an end; closing ends too.
SockFairness ==
  WF_sockVars(TimerFires) /\ WF_sockVars(ws = "closing" /\ OnClose) /\ WF_sockVars(OnOpen)

SockSpec == SockInit /\ [][SockNext]_sockVars /\ SockFairness

---------------------------------------------------------------------------
\* _dispatch: an event reaches the listeners of the registered object only.
Hears(h) == registry = h /\ obj[h].active /\ serverSub

\* Once the server has read what was sent it has the connection subscribed if
\* and only if the channel has listeners, however subscribing, leaving, coming
\* back and losing the connection interleave, and every listening object hears
\* it.  A program must not use an object after leave, which would drop its
\* successor from the registry, nor send before it listens: the flag that is
\* set then suppresses the subscription for good (oni-socket.ts 88-93, 105-136).
SubscriptionsAgree ==
  ws = "open" /\ wire = <<>> /\ ~misused =>
    /\ serverSub <=> registry # NoHandle /\ obj[registry].types
    /\ \A h \in ChannelObj : obj[h].active => Hears(h)

\* There is one connection at a time: a reconnect is only planned when the
\* socket is closed, pings are only sent on an open one, and after close() no
\* timer that was already pending opens it again (oni-socket.ts 177-182, 208-213,
\* 244-253).
ClosedForGood ==
  /\ timer => ws = "closed"
  /\ beat => ws = "open"
  /\ byUser => ws \in {"closing", "closed"}

\* A lost connection is made again as long as the program wants it.
Reconnects == ws = "closed" ~> ws = "open" \/ byUser

\* Client and server agree on the subscriptions, over at most one connection,
\* which close() ends for good (oni-socket.ts 88-136, 177-253).
ClientAgrees == SockTypeOK /\ SubscriptionsAgree /\ ClosedForGood
=============================================================================
