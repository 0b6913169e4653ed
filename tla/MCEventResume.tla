---------------------------- MODULE MCEventResume ----------------------------
(* EventResume for TLC. *)
EXTENDS EventResume

\* A history variable: has every event so far been broadcast, and every
\* connection lost and opened, in circumstances in which resume keeps its promise?
VARIABLES calm, load

First == CHOOSE p \in Broadcaster : TRUE

\* Who broadcasts: one goroutine on both channels, or two on the first one.
Load ==
  \/ load = "channels" /\ \A p \in Broadcaster \ {First} : bcast'[p].pc = "idle"
  \/ load = "publishers" /\ \A p \in Broadcaster : bcast'[p].e.ch # "news"

AllIdle == \A p \in Broadcaster : bcast[p].pc = "idle"

\* A new event goes to a client that is connected and has caught up, or to one
\* that is cut off and has missed nothing on another channel.
CalmBroadcast ==
  /\ AllIdle
  /\ \/ Settled
     \/ /\ ~conn.up
        /\ \A e \in due, p \in Broadcaster : bcast'[p].pc = "push" => Seen(e) \/ e.ch = bcast'[p].e.ch

\* The client has seen an event before it is cut off, the hub is silent when it
\* comes back, and the send queue never fills.
CalmStep ==
  /\ Len(conn.send) < SendBuf
  /\ nextID' # nextID => CalmBroadcast
  /\ losses' # losses => client.last # 0
  /\ conn'.epoch # conn.epoch => AllIdle

HistoryInit == ResumeInit /\ calm = TRUE /\ load \in {"channels", "publishers"}
History == Load /\ calm' = (calm /\ CalmStep) /\ UNCHANGED load

HistorySpec == HistoryInit /\ [][ResumeNext /\ History]_<<resumeVars, calm, load>>

\* In a calm history a client that reconnected has every event of its channels
\* that the ring still holds: resubscribe, replay and the client's duplicate
\* filter together lose nothing (hub.go:403, resume.go:84, oni-socket.ts:197-230).
ResumeComplete == calm => NoMissedEvents

\* And it gets there: an event is seen, or pushed out of the ring, in the end.
ResumeDelivers ==
  \A id \in 1..MaxEvents :
    (\E e \in due : e.id = id) ~> ~calm \/ \A e \in due : e.id = id => Seen(e) \/ ~Buffered(e)

\* The hub broadcasts at any time; the client has seen an event before it is
\* cut off, so that it does ask for a replay.
LiveNext ==
  /\ \/ \E p \in Broadcaster : HubStep(p) \/ \E ch \in Channel : DrawID(p, ch)
     \/ ConnStep \/ OnMessage \/ Open
     \/ client.last # 0 /\ ConnectionLost
  /\ UNCHANGED <<calm, load>>

LiveSpec == HistoryInit /\ [][LiveNext]_<<resumeVars, calm, load>> /\ ResumeFairness

\* Replay and live delivery together never deliver twice or out of order, and
\* in a calm history they lose nothing that the ring still holds (hub.go
\* 393-409, conn.go 111-124, oni-socket.ts 217-242).
ResumeOK == ResumeTypeOK /\ AtMostOnceInOrder /\ ResumeComplete
=============================================================================
