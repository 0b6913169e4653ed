------------------------------- MODULE PubSub -------------------------------
(***************************************************************************)
(* The publish/subscribe engine inside a store (framework/memory/          *)
(* pubsub.go): publishers, subscribers that come and go, and the delivery  *)
(* goroutine of each subscription.                                         *)
(*                                                                         *)
(* publish collects the matching subscribers under the read lock and then  *)
(* delivers to each one under that subscriber's own mutex; a cancel        *)
(* function removes the subscription and then closes its channel.  Both    *)
(* can meet in every order, and a cancel function may be called again.     *)
(***************************************************************************)
EXTENDS TopicMatch, FiniteSets, SequencesExt

CONSTANTS Sub,         \* subscriptions, in the order of their ids
          Publisher,   \* goroutines that publish
          Pattern,     \* patterns the callers subscribe to
          Topic,       \* topics the callers publish on
          ChanCap,         \* capacity of a subscription's channel (256 in the code)
          MaxPub,      \* bound on the messages of one publisher
          MaxCancel    \* bound on the calls of one cancel function

ASSUME PubSubAssumption ==
  /\ ChanCap \in Nat \ {0} /\ MaxPub \in Nat /\ MaxCancel \in Nat
  /\ \A t \in Pattern \cup Topic : t # << >>

Msg == [from : Publisher, n : 1..MaxPub]

VARIABLES subscribers,  \* subscription -> pattern, for those in the map
          sub,          \* subscription -> its subscriber object
          cancels,      \* subscription -> calls of its cancel function so far
          closing,      \* subscription -> cancel calls between delete and close
          pub,          \* publisher -> its publish in progress
          handled,      \* subscription -> messages its handler was called with
          panicked      \* a send on or a close of a closed channel happened

pubsubVars == <<subscribers, sub, cancels, closing, pub, handled, panicked>>

\* state: the delivery goroutine; closed: the flag; chanClosed: the channel.
Subscriber == [state : {"none", "running", "exited"}, buf : Seq(Msg),
               closed : BOOLEAN, chanClosed : BOOLEAN]

Publish == [n : 0..MaxPub, todo : SUBSET Sub]

PubSubTypeOK ==
  /\ DOMAIN subscribers \subseteq Sub
  /\ \A s \in DOMAIN subscribers : subscribers[s] \in Pattern
  /\ sub \in [Sub -> Subscriber] /\ \A s \in Sub : Len(sub[s].buf) <= ChanCap
  /\ cancels \in [Sub -> 0..MaxCancel]
  /\ closing \in [Sub -> 0..MaxCancel]
  /\ pub \in [Publisher -> Publish]
  /\ handled \in [Sub -> Seq(Msg)]
  /\ panicked \in BOOLEAN

PubSubInit ==
  /\ subscribers = << >>
  /\ sub = [s \in Sub |-> [state |-> "none", buf |-> << >>, closed |-> FALSE, chanClosed |-> FALSE]]
  /\ cancels = [s \in Sub |-> 0]
  /\ closing = [s \in Sub |-> 0]
  /\ pub = [p \in Publisher |-> [n |-> 0, todo |-> {}]]
  /\ handled = [s \in Sub |-> << >>]
  /\ panicked = FALSE

----------------------------------------------------------------------------
\* subscribe: the entry in the map and the delivery goroutine.
Subscribe(s, pattern) ==
  /\ sub[s].state = "none"
  /\ subscribers' = [t \in DOMAIN subscribers \cup {s} |->
                       IF t = s THEN pattern ELSE subscribers[t]]
  /\ sub' = [sub EXCEPT ![s].state = "running"]
  /\ UNCHANGED <<cancels, closing, pub, handled, panicked>>

\* publish, under the read lock: which subscriptions match.
Collect(p, topic) ==
  /\ pub[p].todo = {}
  /\ pub[p].n < MaxPub
  /\ pub' = [pub EXCEPT ![p] =
               [n    |-> @.n + 1,
                todo |-> {s \in DOMAIN subscribers : TopicMatches(subscribers[s], topic)}]]
  /\ UNCHANGED <<subscribers, sub, cancels, closing, handled, panicked>>

\* Mutant of Send: the closed flag is not consulted.
SendUnchecked(s, m) ==
  /\ panicked' = (panicked \/ sub[s].chanClosed)
  /\ sub' = [sub EXCEPT ![s].buf = IF Len(@) < ChanCap THEN Append(@, m) ELSE @]

\* deliver, under the subscriber's mutex: nothing once it is closed, otherwise
\* a send that never blocks and drops the message when the channel is full.
Send(s, m) ==
  /\ panicked' = (panicked \/ (~sub[s].closed /\ sub[s].chanClosed))
  /\ sub' = [sub EXCEPT ![s].buf =
               IF ~sub[s].closed /\ Len(@) < ChanCap THEN Append(@, m) ELSE @]

\* publish goes on with one of the subscriptions it collected.
Deliver(p, s) ==
  /\ s \in pub[p].todo
  /\ Send(s, [from |-> p, n |-> pub[p].n])
  /\ pub' = [pub EXCEPT ![p].todo = @ \ {s}]
  /\ UNCHANGED <<subscribers, cancels, closing, handled>>

\* A call of the cancel function: the map entry goes first.
CancelDelete(s) ==
  /\ sub[s].state # "none"
  /\ cancels[s] < MaxCancel
  /\ subscribers' = [t \in DOMAIN subscribers \ {s} |-> subscribers[t]]
  /\ cancels' = [cancels EXCEPT ![s] = @ + 1]
  /\ closing' = [closing EXCEPT ![s] = @ + 1]
  /\ UNCHANGED <<sub, pub, handled, panicked>>

\* close, under the subscriber's mutex.
Close(s) ==
  /\ panicked' = (panicked \/ (~sub[s].closed /\ sub[s].chanClosed))
  /\ sub' = [sub EXCEPT ![s].closed = TRUE, ![s].chanClosed = TRUE]

CancelClose(s) ==
  /\ closing[s] > 0
  /\ Close(s)
  /\ closing' = [closing EXCEPT ![s] = @ - 1]
  /\ UNCHANGED <<subscribers, cancels, pub, handled>>

\* Mutant of Handle: the newest message first.
HandleLast(s) ==
  /\ sub[s].state = "running" /\ sub[s].buf # << >>
  /\ handled' = [handled EXCEPT ![s] = Append(@, Last(sub[s].buf))]
  /\ sub' = [sub EXCEPT ![s].buf = Front(@)]
  /\ UNCHANGED <<subscribers, cancels, closing, pub, panicked>>

\* The delivery goroutine takes a message and calls the handler.  Ranging over
\* a closed channel still yields what it holds.
Handle(s) ==
  /\ sub[s].state = "running" /\ sub[s].buf # << >>
  /\ handled' = [handled EXCEPT ![s] = Append(@, Head(sub[s].buf))]
  /\ sub' = [sub EXCEPT ![s].buf = Tail(@)]
  /\ UNCHANGED <<subscribers, cancels, closing, pub, panicked>>

\* The range over the closed and empty channel ends.
Exit(s) ==
  /\ sub[s].state = "running" /\ sub[s].buf = << >> /\ sub[s].chanClosed
  /\ sub' = [sub EXCEPT ![s].state = "exited"]
  /\ UNCHANGED <<subscribers, cancels, closing, pub, handled, panicked>>

PubSubNext ==
  \/ \E s \in Sub, pattern \in Pattern : Subscribe(s, pattern)
  \/ \E p \in Publisher, topic \in Topic : Collect(p, topic)
  \/ \E p \in Publisher, s \in Sub : Deliver(p, s)
  \/ \E s \in Sub : CancelDelete(s) \/ CancelClose(s) \/ Handle(s) \/ Exit(s)

\* Goroutines that can run do.
PubSubFairness ==
  /\ \A p \in Publisher : WF_pubsubVars(\E s \in Sub : Deliver(p, s))
  /\ \A s \in Sub : WF_pubsubVars(CancelClose(s)) /\ WF_pubsubVars(Handle(s)) /\ WF_pubsubVars(Exit(s))

PubSubSpec == PubSubInit /\ [][PubSubNext]_pubsubVars /\ PubSubFairness

----------------------------------------------------------------------------
(* Properties *)

\* "it can never panic by sending on a closed channel" and "Safe to call
\* multiple times" (pubsub.go:30-48), whatever publishers and cancels race.
NoPanic == ~panicked

\* The handler of a subscription sees the messages of one publisher in the
\* order they were published, each at most once; drops may leave gaps.
PublisherOrder ==
  \A s \in Sub : \A i, j \in 1..Len(handled[s]) :
    i < j /\ handled[s][i].from = handled[s][j].from => handled[s][i].n < handled[s][j].n

\* Once a cancel call has returned no message enters the channel any more, even
\* from a publish that collected the subscription before.
Returned(s) == cancels[s] > closing[s]

NothingAfterCancel ==
  [][\A s \in Sub : Returned(s) => Len(sub'[s].buf) <= Len(sub[s].buf)]_pubsubVars

\* A message that a channel accepted is handled, also after the cancel.
Queued(s, m) == \E i \in 1..Len(sub[s].buf) : sub[s].buf[i] = m
WasHandled(s, m) == \E i \in 1..Len(handled[s]) : handled[s][i] = m

AcceptedIsHandled == \A s \in Sub, m \in Msg : Queued(s, m) ~> WasHandled(s, m)

\* A cancelled subscription does not leak its delivery goroutine.
CancelledExits == \A s \in Sub : closing[s] > 0 ~> sub[s].state = "exited"

\* Whatever publishes and cancels race, no send hits a closed channel, no
\* channel is closed twice (pubsub.go 30-57), and each handler sees a
\* publisher's messages in order and at most once (98-106).
DeliveryOK == PubSubTypeOK /\ NoPanic /\ PublisherOrder
=============================================================================
