----------------------------- MODULE EventResume -----------------------------
(***************************************************************************)
(* Realtime delivery with reconnect and resume: the hub (framework/        *)
(* realtime/hub.go, conn.go), its event buffer (resume.go) and one client  *)
(* of the official library (client/oni-socket.ts).                         *)
(*                                                                         *)
(* Broadcast draws an event ID, pushes the event into the channel's ring   *)
(* buffer, collects the subscribed connections and queues the event on     *)
(* each: four steps that other broadcasts, the connection's read loop and  *)
(* its loss can come between.  The client subscribes its channels again    *)
(* when the socket opens, then asks for a replay, and drops every event    *)
(* whose ID is not greater than the last one it saw.                       *)
(*                                                                         *)
(* The send queue and the socket are one FIFO.  The ring is the sequence   *)
(* of its last Size events (module RingBuffer); events do not reach        *)
(* maxAge.  System frames have id 0.                                       *)
(***************************************************************************)
EXTENDS Integers, Sequences, FiniteSets, SequencesExt

CONSTANTS Channel,     \* channels the client listens to
          Broadcaster,   \* goroutines that broadcast
          Size,        \* events a ring keeps (512 in the code)
          SendBuf,     \* capacity of a connection's send queue
          MaxEvents,   \* bound on broadcasts
          MaxDrops     \* bound on lost connections

ASSUME ResumeAssumption ==
  /\ IsFiniteSet(Channel)
  /\ Size \in Nat \ {0} /\ SendBuf \in Nat \ {0} /\ MaxEvents \in Nat /\ MaxDrops \in Nat

VARIABLES nextID,     \* eventCounter
          bcast,      \* publisher -> its Broadcast in progress
          buffer,     \* channel -> events of its ring, oldest first
          conn,       \* the client's connection on the hub
          inbox,      \* frames from the client the read loop has not read
          replay,     \* replayMissed in progress on the connection
          client,     \* the client's lastEventID and what its listeners got
          losses,
          subscribedOnce,  \* channels the hub once subscribed the client to
          due         \* events broadcast on such a channel since

resumeVars == <<nextID, bcast, buffer, conn, inbox, replay, client, losses, subscribedOnce, due>>

HubEvent == [id : 0..MaxEvents, ch : Channel \cup {"*"}]
Sys == [id |-> 0, ch |-> "*"]
NoReplay == [active |-> FALSE, since |-> 0, todo |-> {}, out |-> << >>]

ResumeTypeOK ==
  /\ nextID \in 0..MaxEvents
  /\ bcast \in [Broadcaster -> [pc : {"idle", "push", "collect", "send"}, e : HubEvent, epoch : Nat]]
  /\ \A ch \in Channel : buffer[ch] \in Seq(HubEvent) /\ Len(buffer[ch]) <= Size
  /\ conn.up \in BOOLEAN /\ conn.epoch \in Nat /\ conn.subs \subseteq Channel
  /\ conn.send \in Seq(HubEvent) /\ Len(conn.send) <= SendBuf
  /\ inbox \in Seq([type : {"subscribe", "resume"}, ch : Channel \cup {"*"}, id : 0..MaxEvents])
  /\ replay.active \in BOOLEAN /\ replay.since \in 0..MaxEvents
  /\ replay.todo \subseteq Channel /\ replay.out \in Seq(HubEvent)
  /\ client.last \in 0..MaxEvents /\ client.seen \in Seq(1..MaxEvents)
  /\ losses \in 0..MaxDrops
  /\ subscribedOnce \subseteq Channel /\ due \subseteq HubEvent

ResumeInit ==
  /\ nextID = 0
  /\ bcast = [p \in Broadcaster |-> [pc |-> "idle", e |-> Sys, epoch |-> 0]]
  /\ buffer = [ch \in Channel |-> << >>]
  /\ conn = [up |-> FALSE, epoch |-> 0, subs |-> {}, send |-> << >>]
  /\ inbox = << >>
  /\ replay = NoReplay
  /\ client = [last |-> 0, seen |-> << >>]
  /\ losses = 0
  /\ subscribedOnce = {} /\ due = {}

----------------------------------------------------------------------------
(* The hub *)

\* Conn.Send: queue a frame, drop it when the queue is full.
Queue(q, f) == IF Len(q) < SendBuf THEN Append(q, f) ELSE q

\* Broadcast: newEventID.
DrawID(p, ch) ==
  /\ bcast[p].pc = "idle"
  /\ nextID < MaxEvents
  /\ nextID' = nextID + 1
  /\ bcast' = [bcast EXCEPT ![p] = [pc |-> "push", e |-> [id |-> nextID + 1, ch |-> ch], epoch |-> 0]]
  /\ UNCHANGED <<buffer, conn, inbox, replay, client, losses, subscribedOnce, due>>

\* The ring after a push: the oldest event goes when it is full.
Pushed(ring, e) == IF Len(ring) < Size THEN Append(ring, e) ELSE Append(Tail(ring), e)

\* buffer.Push
BufferPush(p) ==
  LET e == bcast[p].e IN
  /\ bcast[p].pc = "push"
  /\ buffer' = [buffer EXCEPT ![e.ch] = Pushed(@, e)]
  /\ bcast' = [bcast EXCEPT ![p].pc = "collect"]
  /\ due' = IF e.ch \in subscribedOnce THEN due \cup {e} ELSE due
  /\ UNCHANGED <<nextID, conn, inbox, replay, client, losses, subscribedOnce>>

\* pushToChannel, under the read lock: is the connection there and subscribed?
CollectConns(p) ==
  /\ bcast[p].pc = "collect"
  /\ bcast' = [bcast EXCEPT ![p].pc = IF conn.up /\ bcast[p].e.ch \in conn.subs THEN "send" ELSE "idle",
                            ![p].epoch = conn.epoch]
  /\ UNCHANGED <<nextID, buffer, conn, inbox, replay, client, losses, subscribedOnce, due>>

\* pushToChannel: Send, to the connection it collected.
SendLive(p) ==
  /\ bcast[p].pc = "send"
  /\ conn' = IF conn.up /\ bcast[p].epoch = conn.epoch
             THEN [conn EXCEPT !.send = Queue(@, bcast[p].e)] ELSE conn
  /\ bcast' = [bcast EXCEPT ![p].pc = "idle"]
  /\ UNCHANGED <<nextID, buffer, inbox, replay, client, losses, subscribedOnce, due>>

\* The read loop dispatches the next frame: Subscribe and its ack, or a resume,
\* which starts replayMissed over the channels subscribed by then.
Dispatch ==
  /\ conn.up /\ inbox # << >> /\ ~replay.active
  /\ inbox' = Tail(inbox)
  /\ LET f == Head(inbox) IN
     \/ /\ f.type = "subscribe"
        /\ conn' = [conn EXCEPT !.subs = @ \cup {f.ch}, !.send = Queue(@, Sys)]
        /\ subscribedOnce' = subscribedOnce \cup {f.ch}
        /\ UNCHANGED replay
     \/ /\ f.type = "resume"
        /\ replay' = [active |-> TRUE, since |-> f.id, todo |-> conn.subs, out |-> << >>]
        /\ UNCHANGED <<conn, subscribedOnce>>
  /\ UNCHANGED <<nextID, bcast, buffer, client, losses, due>>

\* ringBuffer.since: what follows the marker, everything if it is not there.
BufferSince(ring, id) ==
  LET marker == {i \in 1..Len(ring) : ring[i].id = id} IN
  IF marker = {} THEN ring ELSE SubSeq(ring, (CHOOSE i \in marker : TRUE) + 1, Len(ring))

\* replayMissed goes on with one more channel.
ReplayChannel(ch) ==
  /\ replay.active /\ replay.out = << >> /\ ch \in replay.todo
  /\ replay' = [replay EXCEPT !.todo = @ \ {ch}, !.out = BufferSince(buffer[ch], replay.since)]
  /\ UNCHANGED <<nextID, bcast, buffer, conn, inbox, client, losses, subscribedOnce, due>>

ReplaySend ==
  /\ replay.active /\ replay.out # << >>
  /\ conn' = [conn EXCEPT !.send = Queue(@, Head(replay.out))]
  /\ replay' = [replay EXCEPT !.out = Tail(@)]
  /\ UNCHANGED <<nextID, bcast, buffer, inbox, client, losses, subscribedOnce, due>>

ReplayEnd ==
  /\ replay.active /\ replay.out = << >> /\ replay.todo = {}
  /\ replay' = NoReplay
  /\ UNCHANGED <<nextID, bcast, buffer, conn, inbox, client, losses, subscribedOnce, due>>

\* The connection is lost with what is queued either way; unregister.
ConnectionLost ==
  /\ conn.up /\ losses < MaxDrops
  /\ conn' = [conn EXCEPT !.up = FALSE, !.subs = {}, !.send = << >>]
  /\ inbox' = << >>
  /\ replay' = NoReplay
  /\ losses' = losses + 1
  /\ UNCHANGED <<nextID, bcast, buffer, client, subscribedOnce, due>>

----------------------------------------------------------------------------
(* The client *)

Subscribes == [i \in 1..Cardinality(Channel) |->
                 [type |-> "subscribe", ch |-> SetToSeq(Channel)[i], id |-> 0]]

Resume(last) == IF last = 0 THEN << >> ELSE <<[type |-> "resume", ch |-> "*", id |-> last]>>

\* connect and onopen; on the hub ServeHTTP registers the connection.  (It also
\* replays from the last_event_id of the URL, over no channel at all: the new
\* connection has not subscribed to any.)  The ack is the first frame back.
Open ==
  /\ ~conn.up
  /\ conn' = [up |-> TRUE, epoch |-> conn.epoch + 1, subs |-> {}, send |-> <<Sys>>]
  /\ inbox' = Subscribes \o Resume(client.last)
  /\ UNCHANGED <<nextID, bcast, buffer, replay, client, losses, subscribedOnce, due>>

\* Mutant of IsNew: an event with the last ID again is not a duplicate.
IsNewOrLast(id) == id >= client.last

\* Mutant of IsNew: one too many is taken for a duplicate.
IsNewAfterNext(id) == id > client.last + 1

\* onMessage: "anything not strictly greater than the last one we saw is a
\* duplicate and is dropped".
IsNew(id) == id > client.last

OnMessage ==
  /\ conn.up /\ conn.send # << >>
  /\ conn' = [conn EXCEPT !.send = Tail(@)]
  /\ LET f == Head(conn.send) IN
     client' = IF f.id # 0 /\ IsNew(f.id)
               THEN [last |-> f.id, seen |-> Append(client.seen, f.id)]
               ELSE client
  /\ UNCHANGED <<nextID, bcast, buffer, inbox, replay, losses, subscribedOnce, due>>

----------------------------------------------------------------------------
HubStep(p) == BufferPush(p) \/ CollectConns(p) \/ SendLive(p)
ConnStep == Dispatch \/ (\E ch \in Channel : ReplayChannel(ch)) \/ ReplaySend \/ ReplayEnd

ResumeNext ==
  \/ \E p \in Broadcaster : HubStep(p) \/ \E ch \in Channel : DrawID(p, ch)
  \/ ConnStep \/ ConnectionLost \/ Open \/ OnMessage

\* Goroutines and the client's event loop run, and the client reconnects.
ResumeFairness ==
  /\ \A p \in Broadcaster : WF_resumeVars(HubStep(p))
  /\ WF_resumeVars(ConnStep) /\ WF_resumeVars(Open) /\ WF_resumeVars(OnMessage)

ResumeSpec == ResumeInit /\ [][ResumeNext]_resumeVars /\ ResumeFairness

----------------------------------------------------------------------------
(* Properties *)

\* The listeners get every event at most once and in the order of the IDs,
\* whatever live deliveries and replays overlap.
AtMostOnceInOrder ==
  \A i, j \in 1..Len(client.seen) : i < j => client.seen[i] < client.seen[j]

\* The connection is up and everything under way has arrived.
Settled ==
  /\ conn.up /\ conn.send = << >> /\ inbox = << >> /\ ~replay.active
  /\ \A p \in Broadcaster : bcast[p].pc = "idle"

Seen(e) == \E i \in 1..Len(client.seen) : client.seen[i] = e.id
Buffered(e) == \E i \in 1..Len(buffer[e.ch]) : buffer[e.ch][i] = e

\* "reconnect/resume via last_event_id (no missed events)" (oni-socket.ts:13),
\* "no messages lost during brief disconnects" (resume.go:10): once the client
\* is back and all is quiet it has every event its subscriptions were due that
\* the ring still holds.
NoMissedEvents == Settled => \A e \in due : Buffered(e) => Seen(e)
=============================================================================
