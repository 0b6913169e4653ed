---------------------------- MODULE ConnPresence ----------------------------
(***************************************************************************)
(* The life of a WebSocket connection in the realtime hub, its two loops,  *)
(* and the presence entries it leaves in the store (framework/realtime:    *)
(* hub.go, conn.go, presence.go), on one node.  An entry is in the store   *)
(* from Join until Leave, LeaveAll or its time to live.                    *)
(***************************************************************************)
EXTENDS Naturals, Sequences, FiniteSets

CONSTANTS
  Conn,             \* connections, each made once
  PresenceChannel,  \* presence channels, as sequences of words and separators
  Hooks             \* outcomes of the connect hooks, a subset of {"ok", "fails"}

ASSUME ConnAssumption == IsFiniteSet(Conn) /\ Hooks \subseteq {"ok", "fails"}

VARIABLES
  phase,     \* where ServeHTTP and readLoop are
  sock,      \* the WebSocket: "open", "closed"
  writer,    \* writeLoop: "none", "running", "ended"
  cancelled, \* the connection's context is cancelled
  alive,     \* the client still answers
  connID,    \* the id drawn from the process-wide counter, 0 before
  counter,   \* connCounter
  subs,      \* channels each connection subscribed to
  present,   \* presence entries: key -> connection that wrote it
  lapsed,    \* <<connection, channel>> whose entry ran out of time, or went with another of its key
  hubUp      \* Shutdown has not been called

connVars ==
  <<phase, sock, writer, cancelled, alive, connID, counter, subs, present, lapsed, hubUp>>

---------------------------------------------------------------------------
(* Presence keys.                                                          *)

SanitizeChannel(ch) == [i \in DOMAIN ch |-> IF ch[i] \in {".", "/", " "} THEN "_" ELSE ch[i]]
PresenceKey(ch, id) == <<SanitizeChannel(ch), id>>

\* The channels that share an entry of c with ch: "a.b" and "a_b" have one key.
SharedEntry(c, ch) ==
  {<<c, other>> : other \in {o \in PresenceChannel : SanitizeChannel(o) = SanitizeChannel(ch)}}

\* Keys matching "oni:presence:<channel>:*".
Members(ch) == {present[k] : k \in {k \in DOMAIN present : k[1] = SanitizeChannel(ch)}}

With(key, c) == [k \in DOMAIN present \union {key} |-> IF k = key THEN c ELSE present[k]]
Without(keys) == [k \in DOMAIN present \ keys |-> present[k]]

---------------------------------------------------------------------------
ConnTypeOK ==
  /\ phase \in [Conn -> {"none", "hooks", "loops", "refused", "leaving", "closing", "gone"}]
  /\ sock \in [Conn -> {"open", "closed"}]
  /\ writer \in [Conn -> {"none", "running", "ended"}]
  /\ cancelled \in [Conn -> BOOLEAN] /\ alive \in [Conn -> BOOLEAN]
  /\ connID \in [Conn -> 0..Cardinality(Conn)] /\ counter \in 0..Cardinality(Conn)
  /\ subs \in [Conn -> SUBSET PresenceChannel]
  /\ \A k \in DOMAIN present : present[k] \in Conn
  /\ lapsed \subseteq Conn \X PresenceChannel /\ hubUp \in BOOLEAN

ConnInit ==
  /\ phase = [c \in Conn |-> "none"] /\ sock = [c \in Conn |-> "closed"]
  /\ writer = [c \in Conn |-> "none"] /\ cancelled = [c \in Conn |-> FALSE]
  /\ alive = [c \in Conn |-> FALSE] /\ connID = [c \in Conn |-> 0]
  /\ counter = 0 /\ subs = [c \in Conn |-> {}]
  /\ present = <<>> /\ lapsed = {} /\ hubUp = TRUE

\* ServeHTTP up to the hooks: upgrade, newConn, register.  Nothing asks whether
\* the hub is shut down.
Accept(c) ==
  /\ phase[c] = "none"
  /\ phase' = [phase EXCEPT ![c] = "hooks"]
  /\ sock' = [sock EXCEPT ![c] = "open"] /\ alive' = [alive EXCEPT ![c] = TRUE]
  /\ counter' = counter + 1
  /\ connID' = [connID EXCEPT ![c] = counter + 1]
  /\ UNCHANGED <<writer, cancelled, subs, present, lapsed, hubUp>>

\* A connect hook fails: the connection is unregistered and ServeHTTP returns;
\* the socket is not closed and the queued error is never written.
HookFails(c) ==
  /\ phase[c] = "hooks" /\ "fails" \in Hooks
  /\ phase' = [phase EXCEPT ![c] = "refused"]
  /\ UNCHANGED <<sock, writer, cancelled, alive, connID, counter, subs, present, lapsed, hubUp>>

StartLoops(c) ==
  /\ phase[c] = "hooks" /\ "ok" \in Hooks
  /\ phase' = [phase EXCEPT ![c] = "loops"]
  /\ writer' = [writer EXCEPT ![c] = "running"]
  /\ UNCHANGED <<sock, cancelled, alive, connID, counter, subs, present, lapsed, hubUp>>

\* dispatch of a subscribe the channel's handler allows, or of an event for a
\* channel without a handler: Subscribe, then updatePresence and Join.
SubscribeConn(c, ch) ==
  /\ phase[c] = "loops" /\ sock[c] = "open" /\ alive[c]
  /\ subs' = [subs EXCEPT ![c] = @ \union {ch}]
  /\ present' = With(PresenceKey(ch, connID[c]), c)
  /\ lapsed' = lapsed \ SharedEntry(c, ch)
  /\ UNCHANGED <<phase, sock, writer, cancelled, alive, connID, counter, hubUp>>

\* dispatch of an unsubscribe, whether the connection is subscribed or not:
\* Unsubscribe, then Leave.
UnsubscribeConn(c, ch) ==
  /\ phase[c] = "loops" /\ sock[c] = "open" /\ alive[c]
  /\ subs' = [subs EXCEPT ![c] = @ \ {ch}]
  /\ present' = Without({PresenceKey(ch, connID[c])})
  /\ lapsed' = (lapsed \union SharedEntry(c, ch)) \ {<<c, ch>>}
  /\ UNCHANGED <<phase, sock, writer, cancelled, alive, connID, counter, hubUp>>

\* Five minutes pass after a Join; nothing in the hub refreshes the entry.
PresenceExpires(c, ch) ==
  /\ PresenceKey(ch, connID[c]) \in DOMAIN present /\ present[PresenceKey(ch, connID[c])] = c
  /\ present' = Without({PresenceKey(ch, connID[c])})
  /\ lapsed' = lapsed \union SharedEntry(c, ch)
  /\ UNCHANGED <<phase, sock, writer, cancelled, alive, connID, counter, subs, hubUp>>

\* The client closes, or vanishes without a word.
ClientGoes(c) ==
  /\ alive[c]
  /\ alive' = [alive EXCEPT ![c] = FALSE]
  /\ UNCHANGED <<phase, sock, writer, cancelled, connID, counter, subs, present, lapsed, hubUp>>

\* readLoop: ReadMessage fails because the client closed, because pongWait has
\* passed without a pong, or because the socket is closed on this side.  The
\* deferred function unregisters, which first takes the connection out of the
\* map, then leaves all presence channels, and then cancels and closes.
ReadFails(c) ==
  /\ phase[c] = "loops" /\ (~alive[c] \/ sock[c] = "closed")
  /\ phase' = [phase EXCEPT ![c] = "leaving"]
  /\ UNCHANGED <<sock, writer, cancelled, alive, connID, counter, subs, present, lapsed, hubUp>>

\* Mutant of LeaveAll: the presence entries are left where they are.
NoLeave(c) ==
  /\ phase[c] = "leaving"
  /\ phase' = [phase EXCEPT ![c] = "closing"]
  /\ UNCHANGED <<sock, writer, cancelled, alive, connID, counter, subs, present, lapsed, hubUp>>

LeaveAll(c) ==
  /\ phase[c] = "leaving"
  /\ phase' = [phase EXCEPT ![c] = "closing"]
  /\ present' = Without({k \in DOMAIN present : k[2] = connID[c]})
  /\ UNCHANGED <<sock, writer, cancelled, alive, connID, counter, subs, lapsed, hubUp>>

ReaderEnds(c) ==
  /\ phase[c] = "closing"
  /\ phase' = [phase EXCEPT ![c] = "gone"]
  /\ cancelled' = [cancelled EXCEPT ![c] = TRUE] /\ sock' = [sock EXCEPT ![c] = "closed"]
  /\ UNCHANGED <<writer, alive, connID, counter, subs, present, lapsed, hubUp>>

\* Mutant of WriterEnds: writeLoop returns without closing the socket.
LeavesSocket(c) ==
  /\ writer[c] = "running" /\ (cancelled[c] \/ ~alive[c] \/ sock[c] = "closed")
  /\ writer' = [writer EXCEPT ![c] = "ended"]
  /\ UNCHANGED <<phase, sock, cancelled, alive, connID, counter, subs, present, lapsed, hubUp>>

\* writeLoop returns when the context is done or a write (an event or a ping)
\* fails, and closes the socket, which is what ends readLoop.
WriterEnds(c) ==
  /\ writer[c] = "running" /\ (cancelled[c] \/ ~alive[c] \/ sock[c] = "closed")
  /\ writer' = [writer EXCEPT ![c] = "ended"] /\ sock' = [sock EXCEPT ![c] = "closed"]
  /\ UNCHANGED <<phase, cancelled, alive, connID, counter, subs, present, lapsed, hubUp>>

Registered(c) == phase[c] \in {"hooks", "loops"}

\* Hub.Shutdown: every registered connection is closed by cancelling it.
Shutdown ==
  /\ hubUp
  /\ hubUp' = FALSE
  /\ cancelled' = [c \in Conn |-> cancelled[c] \/ Registered(c)]
  /\ UNCHANGED <<phase, sock, writer, alive, connID, counter, subs, present, lapsed>>

ConnLoops(c) == StartLoops(c) \/ HookFails(c) \/ ReadFails(c) \/ LeaveAll(c) \/ ReaderEnds(c)

ConnNext ==
  \/ \E c \in Conn :
       \/ Accept(c) \/ ConnLoops(c) \/ WriterEnds(c) \/ ClientGoes(c)
       \/ \E ch \in PresenceChannel : SubscribeConn(c, ch) \/ UnsubscribeConn(c, ch) \/ PresenceExpires(c, ch)
  \/ Shutdown

\* The goroutine that serves a connection and its writer keep running; the
\* read deadline ends a read from a client that no longer answers.
ConnFairness ==
  \A c \in Conn : WF_connVars(ConnLoops(c)) /\ WF_connVars(WriterEnds(c))

ConnSpec == ConnInit /\ [][ConnNext]_connVars /\ ConnFairness

---------------------------------------------------------------------------
\* No ghosts and no losses: the members of a channel are the connections
\* subscribed to it or to another channel of its key, except those that are just
\* leaving and those whose entry has outlived its five minutes or was removed
\* with a channel of the same key (presence.go 62-89, 115-121; hub.go 366-388).
PresenceExact ==
  \A ch \in PresenceChannel :
    /\ \A m \in Members(ch) : /\ phase[m] \in {"loops", "leaving"}
                              /\ \E other \in subs[m] : SanitizeChannel(other) = SanitizeChannel(ch)
    /\ \A c \in Conn : ch \in subs[c] /\ phase[c] = "loops" =>
         c \in Members(ch) \/ <<c, ch>> \in lapsed

\* A connection whose client is gone, or that a Shutdown found registered, ends
\* with its socket closed, out of the map and out of every channel.
ConnCleanup ==
  \A c \in Conn :
    (phase[c] = "loops" /\ ~alive[c]) \/ (Registered(c) /\ cancelled[c]) ~>
      \/ phase[c] = "refused"
      \/ phase[c] = "gone" /\ sock[c] = "closed" /\ \A ch \in PresenceChannel : c \notin Members(ch)

\* The hub's bookkeeping of a connection and the members that Presence lists
\* agree in every state (hub.go 141-196, 420-470; presence.go 60-131).
PresenceOK == ConnTypeOK /\ PresenceExact
=============================================================================
