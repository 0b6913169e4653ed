------------------------------ MODULE OniMemory ------------------------------
(***************************************************************************)
(* The Oni Memory store (framework/memory/store.go) on every node of a     *)
(* cluster, with the transport that replicates it: TCP gossip (gossip.go)  *)
(* or the Redis adapter (redis.go).                                        *)
(*                                                                         *)
(* Goroutines call Set, Get, Delete, Expire, IncrBy and CompareAndSwap.  A *)
(* step is what a goroutine does between two points where another one can  *)
(* get in: the atomic add of Tick, the critical section of the clock's     *)
(* mutex, a critical section of Store.mu, the hand-over to the transport.  *)
(* IncrBy and CompareAndSwap keep Store.mu locked across their Tick.       *)
(*                                                                         *)
(* Time is a counter; an entry without TTL has ExpiresAt = 0.  A value     *)
(* keeps its Go type, which JSON does not preserve, and a number.          *)
(***************************************************************************)
EXTENDS VectorClock

CONSTANTS Proc,         \* goroutines that call the store
          Key,
          Val,          \* values the callers store
          TTL,          \* TTLs the callers pass, 0 = no expiry
          Setups,       \* deployments to check: see Setup
          None          \* no entry, no key, no holder of the lock

Value == [type : {"int64", "float64", "string"}, n : Int]

\* How the store is deployed: its transport, whether the gossip connections are up
\* from the start, the node each goroutine runs on, who calls the store and with
\* which operations, and the bounds: on calls, on time, on broken connections and
\* on process restarts.
Operation == {"set", "get", "delete", "expire", "incr", "cas", "flush"}
Setup == [transport : {"none", "gossip", "redis"}, connected : BOOLEAN,
          home : [Proc -> Node], callers : SUBSET Proc, calls : SUBSET Operation,
          max : [calls : Nat, now : Nat, drops : Nat, restarts : Nat]]

ASSUME MemoryAssumption ==
  /\ Val \subseteq Value
  /\ TTL \subseteq Nat
  /\ Setups \subseteq Setup

Entry == [Value : Value, ExpiresAt : Nat, Clock : ClockValue]

ASSUME NoneAssumption ==
  /\ None \notin Key
  /\ None \notin Proc
  /\ None \notin Value
  /\ None \notin Entry

VARIABLES setup,     \* the deployment, fixed
          vc,        \* node -> the store's VectorClock
          data,      \* node -> key -> entry or None
          mu,        \* node -> goroutine that holds Store.mu across steps, or None
          op,        \* goroutine -> its call in progress
          conns,     \* pairs <<n, m>>: n has a gossip connection to m
          net,       \* deltas on their way
          sent,      \* number of broadcasts, which orders them
          now,       \* time
          calls, drops, restarts   \* what the bounds count

vars == <<setup, vc, data, mu, op, conns, net, sent, now, calls, drops, restarts>>
bounds == <<setup, calls, drops, restarts>>

Op == [pc : {"idle", "stamp", "store", "sync", "got", "evict"},
       call : {"none", "set", "delete", "get", "incr", "cas"},
       key : Key \cup {None}, val : Value \cup {None}, ttl : Nat, ts : Nat,
       entry : Entry \cup {None}, basis : Entry \cup {None}]

IdleOp == [pc |-> "idle", call |-> "none", key |-> None, val |-> None, ttl |-> 0,
           ts |-> 0, entry |-> None, basis |-> None]

Delta == [id : Nat, src : Node, dst : Node, Type : {"set", "delete"}, Key : Key,
          entry : Entry \cup {None}, merged : BOOLEAN]

TypeOK ==
  /\ setup \in Setups
  /\ vc \in [Node -> Clock]
  /\ data \in [Node -> [Key -> Entry \cup {None}]]
  /\ mu \in [Node -> Proc \cup {None}]
  /\ op \in [Proc -> Op]
  /\ conns \subseteq Node \X Node
  /\ net \subseteq Delta
  /\ sent \in Nat /\ now \in Nat
  /\ calls \in Nat /\ drops \in Nat /\ restarts \in Nat

Init ==
  /\ setup \in Setups
  /\ vc = [n \in Node |-> NewVectorClock]
  /\ data = [n \in Node |-> [k \in Key |-> None]]
  /\ mu = [n \in Node |-> None]
  /\ op = [p \in Proc |-> IdleOp]
  /\ conns = {c \in Node \X Node : setup.connected /\ c[1] # c[2]}
  /\ net = {}
  /\ sent = 0 /\ now = 0
  /\ calls = 0 /\ drops = 0 /\ restarts = 0

----------------------------------------------------------------------------
\* entry.expired
Expired(e, t) == e.ExpiresAt # 0 /\ t > e.ExpiresAt

Live(e) == e # None /\ ~Expired(e, now)

\* The ExpiresAt of a write made now: the zero time without a TTL.
Deadline(ttl) == IF ttl > 0 THEN now + ttl ELSE 0

\* A caller enters a call of the store.
Call(p, c) ==
  /\ op[p].pc = "idle"
  /\ p \in setup.callers /\ c \in setup.calls
  /\ calls < setup.max.calls
  /\ calls' = calls + 1
  /\ UNCHANGED <<setup, drops, restarts>>

\* Tick, first half, on the node of p: op remembers the timestamp drawn, and the
\* entry an atomic update was computed from.
DrawTimestamp(p, c, k, v, ttl, basis) ==
  LET n == setup.home[p] IN
  /\ vc' = [vc EXCEPT ![n] = TickAdd(@)]
  /\ op' = [op EXCEPT ![p] = [pc |-> "stamp", call |-> c, key |-> k, val |-> v,
                              ttl |-> ttl, ts |-> vc[n].localTS + 1, entry |-> None,
                              basis |-> basis]]

\* Tick, second half; the new entry is then built outside the store's lock by
\* Set, under it by IncrBy and CompareAndSwap.
EndTick(p) ==
  LET n == setup.home[p]
      stampedVC == TickStamp(n, vc[n], op[p].ts)
      e == [Value |-> op[p].val, ExpiresAt |-> Deadline(op[p].ttl),
            Clock |-> Stamped(n, stampedVC, op[p].ts)]
  IN
  /\ op[p].pc = "stamp"
  /\ vc' = [vc EXCEPT ![n] = stampedVC]
  /\ op' = [op EXCEPT ![p].pc = "store", ![p].entry = e]
  /\ UNCHANGED <<data, mu, conns, net, sent, now, bounds>>

\* Set: Tick comes first, without the lock.
SetBegin(p, k, v, ttl) ==
  /\ Call(p, "set")
  /\ DrawTimestamp(p, "set", k, v, ttl, None)
  /\ UNCHANGED <<data, mu, conns, net, sent, now>>

\* The critical section of Set: the entry is stored whatever the key holds.
SetStore(p) ==
  LET n == setup.home[p] IN
  /\ op[p].pc = "store" /\ op[p].call = "set"
  /\ mu[n] = None
  /\ data' = [data EXCEPT ![n][op[p].key] = op[p].entry]
  /\ op' = [op EXCEPT ![p].pc = "sync"]
  /\ UNCHANGED <<vc, mu, conns, net, sent, now, bounds>>

----------------------------------------------------------------------------
(* The transports *)

\* A value that went through encoding/json: numbers come back as float64.
JSON(v) == IF v.type = "int64" THEN [v EXCEPT !.type = "float64"] ELSE v

\* What the receiver will apply: gossip sends the entry with its clock, the
\* Redis delta has no clock and is applied with ClockValue{}.
Wire(e) ==
  IF e = None \/ setup.transport # "redis" THEN e
  ELSE [Value |-> JSON(e.Value), ExpiresAt |-> e.ExpiresAt, Clock |-> ZeroClock]

\* The peers a broadcast of n reaches: the nodes it is connected to, or with
\* Redis every subscriber, n itself included.
Receivers(n) ==
  CASE setup.transport = "gossip" -> {m \in Node : <<n, m>> \in conns}
    [] setup.transport = "redis"  -> Node
    [] OTHER                -> {}

Broadcast(n, type, k, e) ==
  /\ sent' = sent + 1
  /\ net' = net \cup {[id |-> sent + 1, src |-> n, dst |-> m, Type |-> type, Key |-> k,
                       entry |-> Wire(e), merged |-> FALSE] : m \in Receivers(n)}

\* The end of Set and of Delete: syncSet, syncDelete.  (The local notification
\* "key:"+key that Set makes before is PubSub.publish.)
Sync(p) ==
  /\ op[p].pc = "sync"
  /\ Broadcast(setup.home[p], op[p].call, op[p].key, op[p].entry)
  /\ op' = [op EXCEPT ![p] = IdleOp]
  /\ UNCHANGED <<vc, data, mu, conns, now, bounds>>

\* The receiver reads one delta after the other.  Gossip gives every send a
\* goroutine of its own, so a connection may carry the deltas in any order;
\* Redis delivers them in the order they were published.
Readable(d) ==
  CASE setup.transport = "gossip" ->
         /\ <<d.src, d.dst>> \in conns
         /\ \A o \in net : o.src = d.src /\ o.dst = d.dst => ~o.merged
    [] OTHER ->
         \A o \in net \ {d} : o.dst = d.dst => o.id > d.id

\* applyRemoteSet, first part: the clock merges what it received.
RemoteMerge(d) ==
  /\ d.Type = "set" /\ ~d.merged /\ Readable(d)
  /\ vc' = [vc EXCEPT ![d.dst] = Merge(d.dst, @, d.entry.Clock)]
  /\ net' = (net \ {d}) \cup {[d EXCEPT !.merged = TRUE]}
  /\ UNCHANGED <<data, mu, op, conns, sent, now, bounds>>

\* Mutant of RemoteWins: the comparison the wrong way round.
RemoteWinsIfOlder(existing, cv) == existing = None \/ ~After(cv, existing.Clock)

\* Last-write-wins: the existing entry stays only if it is newer.
RemoteWins(existing, cv) == existing = None \/ ~After(existing.Clock, cv)

\* applyRemoteSet, the critical section.
RemoteApply(d) ==
  /\ d.Type = "set" /\ d.merged
  /\ mu[d.dst] = None
  /\ data' = [data EXCEPT ![d.dst][d.Key] =
                IF RemoteWins(@, d.entry.Clock) THEN d.entry ELSE @]
  /\ net' = net \ {d}
  /\ UNCHANGED <<vc, mu, op, conns, sent, now, bounds>>

\* Mutant of RemoteDelete: the delta is read and the key stays.
RemoteDeleteIgnored(d) ==
  /\ d.Type = "delete" /\ Readable(d)
  /\ mu[d.dst] = None
  /\ net' = net \ {d}
  /\ UNCHANGED <<vc, data, mu, op, conns, sent, now, bounds>>

\* applyRemoteDelete: no clock, the key goes whatever it holds.
RemoteDelete(d) ==
  /\ d.Type = "delete" /\ Readable(d)
  /\ mu[d.dst] = None
  /\ data' = [data EXCEPT ![d.dst][d.Key] = None]
  /\ net' = net \ {d}
  /\ UNCHANGED <<vc, mu, op, conns, sent, now, bounds>>

\* maintainConn: the connection from n to m is up, handshake done.
Connect(n, m) ==
  /\ setup.transport = "gossip"
  /\ n # m /\ <<n, m>> \notin conns
  /\ conns' = conns \cup {<<n, m>>}
  /\ UNCHANGED <<vc, data, mu, op, net, sent, now, bounds>>

\* A connection breaks: what was not read is lost, nothing sends it again.
Disconnect(n, m) ==
  /\ drops < setup.max.drops
  /\ <<n, m>> \in conns
  /\ conns' = conns \ {<<n, m>>}
  /\ net' = {d \in net : d.merged \/ d.src # n \/ d.dst # m}
  /\ drops' = drops + 1
  /\ UNCHANGED <<vc, data, mu, op, sent, now, setup, calls, restarts>>

----------------------------------------------------------------------------
(* The other operations *)

\* Delete: the critical section; the broadcast follows.
DeleteStore(p, k) ==
  LET n == setup.home[p] IN
  /\ Call(p, "delete")
  /\ mu[n] = None
  /\ data' = [data EXCEPT ![n][k] = None]
  /\ op' = [op EXCEPT ![p] = [IdleOp EXCEPT !.pc = "sync", !.call = "delete", !.key = k]]
  /\ UNCHANGED <<vc, mu, conns, net, sent, now>>

\* Get reads the entry under the read lock; a missing key ends the call.
GetRead(p, k) ==
  LET e == data[setup.home[p]][k] IN
  /\ Call(p, "get")
  /\ mu[setup.home[p]] = None
  /\ e # None
  /\ op' = [op EXCEPT ![p] = [IdleOp EXCEPT !.pc = "got", !.call = "get", !.key = k, !.entry = e]]
  /\ UNCHANGED <<vc, data, mu, conns, net, sent, now>>

\* Without the lock: is the entry that was read expired?
GetCheck(p) ==
  /\ op[p].pc = "got"
  /\ op' = [op EXCEPT ![p] =
              IF Expired(op[p].entry, now) THEN [op[p] EXCEPT !.pc = "evict"] ELSE IdleOp]
  /\ UNCHANGED <<vc, data, mu, conns, net, sent, now, bounds>>

\* Mutant of GetEvict: the key is dropped without looking at it again.
GetEvictBlind(p) ==
  LET n == setup.home[p] IN
  /\ op[p].pc = "evict"
  /\ mu[n] = None
  /\ data' = [data EXCEPT ![n][op[p].key] = None]
  /\ op' = [op EXCEPT ![p] = IdleOp]
  /\ UNCHANGED <<vc, mu, conns, net, sent, now, bounds>>

\* Under the lock again: the key goes only if what it holds now is expired.
GetEvict(p) ==
  LET n == setup.home[p] IN
  /\ op[p].pc = "evict"
  /\ mu[n] = None
  /\ data' = [data EXCEPT ![n][op[p].key] = IF Live(@) THEN @ ELSE None]
  /\ op' = [op EXCEPT ![p] = IdleOp]
  /\ UNCHANGED <<vc, mu, conns, net, sent, now, bounds>>

\* Expire changes the entry in place, so a goroutine that holds the same entry
\* (a Set about to broadcast it, a Get about to check it) sees the new time.
Expire(p, k, ttl) ==
  LET n == setup.home[p]
      e == data[n][k]
      renewed == [e EXCEPT !.ExpiresAt = Deadline(ttl)]
  IN
  /\ Call(p, "expire")
  /\ mu[n] = None
  /\ Live(e)
  /\ data' = [data EXCEPT ![n][k] = renewed]
  /\ op' = [q \in Proc |-> IF setup.home[q] = n /\ op[q].key = k /\ op[q].entry = e
                           THEN [op[q] EXCEPT !.entry = renewed] ELSE op[q]]
  /\ UNCHANGED <<vc, mu, conns, net, sent, now>>

\* The counter IncrBy starts from: 0 unless a live number is stored.
Current(e) ==
  IF Live(e) /\ e.Value.type \in {"int64", "float64"} THEN e.Value.n ELSE 0

\* Mutant of IncrBegin: the lock is not kept across Tick.
IncrBeginUnlocked(p, k) ==
  LET n == setup.home[p] IN
  /\ Call(p, "incr")
  /\ mu[n] = None
  /\ DrawTimestamp(p, "incr", k, [type |-> "int64", n |-> Current(data[n][k]) + 1], 0, data[n][k])
  /\ UNCHANGED <<data, mu, conns, net, sent, now>>

\* IncrBy up to its Tick, with n = 1 (Incr).
IncrBegin(p, k) ==
  LET n == setup.home[p] IN
  /\ Call(p, "incr")
  /\ mu[n] = None
  /\ mu' = [mu EXCEPT ![n] = p]
  /\ DrawTimestamp(p, "incr", k, [type |-> "int64", n |-> Current(data[n][k]) + 1], 0, data[n][k])
  /\ UNCHANGED <<data, conns, net, sent, now>>

\* CompareAndSwap up to its Tick; expected is a value or None (nil).
CasBegin(p, k, expected, v, ttl) ==
  LET n == setup.home[p]
      e == data[n][k]
  IN
  /\ Call(p, "cas")
  /\ mu[n] = None
  /\ expected = (IF Live(e) THEN e.Value ELSE None)
  /\ mu' = [mu EXCEPT ![n] = p]
  /\ DrawTimestamp(p, "cas", k, v, ttl, e)
  /\ UNCHANGED <<data, conns, net, sent, now>>

\* IncrBy and CompareAndSwap store and unlock.  Neither reaches the transport.
LockedStore(p) ==
  LET n == setup.home[p] IN
  /\ op[p].pc = "store" /\ op[p].call \in {"incr", "cas"}
  /\ data' = [data EXCEPT ![n][op[p].key] = op[p].entry]
  /\ mu' = [mu EXCEPT ![n] = None]
  /\ op' = [op EXCEPT ![p] = IdleOp]
  /\ UNCHANGED <<vc, conns, net, sent, now, bounds>>

\* Flush: every key of the node, without a word to the peers.
Flush(p) ==
  LET n == setup.home[p] IN
  /\ Call(p, "flush")
  /\ mu[n] = None
  /\ data' = [data EXCEPT ![n] = [k \in Key |-> None]]
  /\ UNCHANGED <<vc, mu, op, conns, net, sent, now>>

\* evict: the periodic pass of evictLoop.
Evict(n) ==
  /\ mu[n] = None
  /\ \E k \in Key : data[n][k] # None /\ Expired(data[n][k], now)
  /\ data' = [data EXCEPT ![n] = [k \in Key |-> IF Live(@[k]) THEN @[k] ELSE None]]
  /\ UNCHANGED <<vc, mu, op, conns, net, sent, now, bounds>>

\* The process of node n dies and New starts it again under the same NodeID,
\* with no snapshot: empty data, a new clock, connections and calls gone.
Restart(n) ==
  /\ restarts < setup.max.restarts
  /\ vc' = [vc EXCEPT ![n] = NewVectorClock]
  /\ data' = [data EXCEPT ![n] = [k \in Key |-> None]]
  /\ mu' = [mu EXCEPT ![n] = None]
  /\ op' = [p \in Proc |-> IF setup.home[p] = n THEN IdleOp ELSE op[p]]
  /\ conns' = {c \in conns : c[1] # n /\ c[2] # n}
  /\ net' = {d \in net : /\ d.dst # n
                         /\ setup.transport = "gossip" => d.src # n \/ d.merged}
  /\ restarts' = restarts + 1
  /\ UNCHANGED <<sent, now, setup, calls, drops>>

Advance ==
  /\ now < setup.max.now
  /\ now' = now + 1
  /\ UNCHANGED <<vc, data, mu, op, conns, net, sent, bounds>>

----------------------------------------------------------------------------
ProcStep(p) == EndTick(p) \/ SetStore(p) \/ Sync(p) \/ GetCheck(p) \/ GetEvict(p) \/ LockedStore(p)

CallStep(p) ==
  \/ \E k \in Key, v \in Val, ttl \in TTL : SetBegin(p, k, v, ttl)
  \/ \E k \in Key : DeleteStore(p, k) \/ GetRead(p, k) \/ IncrBegin(p, k)
  \/ \E k \in Key, ttl \in TTL : Expire(p, k, ttl)
  \/ \E k \in Key, expected \in Val \cup {None}, v \in Val, ttl \in TTL :
       CasBegin(p, k, expected, v, ttl)
  \/ Flush(p)

Deliver(d) == RemoteMerge(d) \/ RemoteApply(d) \/ RemoteDelete(d)

Next ==
  \/ \E p \in Proc : ProcStep(p) \/ CallStep(p)
  \/ \E d \in net : Deliver(d)
  \/ \E n, m \in Node : Connect(n, m) \/ Disconnect(n, m)
  \/ \E n \in Node : Evict(n) \/ Restart(n)
  \/ Advance

Spec == Init /\ [][Next]_vars

\* A goroutine that can run does; a delta that can be read is read; a lost
\* connection is dialled again.
Fairness ==
  /\ \A p \in Proc : WF_vars(ProcStep(p))
  /\ \A m \in Node : WF_vars(\E d \in net : d.dst = m /\ Deliver(d))
  /\ \A n, m \in Node : WF_vars(Connect(n, m))

FairSpec == Spec /\ Fairness

----------------------------------------------------------------------------
(* Properties *)

\* No clock the cluster holds is ahead of the counter of the node a lane stands
\* for, so a dominance After sees is a write that was really made: neither the
\* two halves of Tick nor the merges of several goroutines invent a timestamp.
\* (A restart takes the counter back, and Merge does not repair it.)
Bounded(cv) == \A m \in Node : cv.Vector[m] <= vc[m].localTS

LaneBound ==
  restarts = 0 =>
    /\ \A n, m \in Node : vc[n].clocks[m] <= vc[m].localTS
    /\ \A n \in Node, k \in Key : data[n][k] # None => Bounded(data[n][k].Clock)
    /\ \A d \in net : d.entry # None => Bounded(d.entry.Clock)
    /\ \A p \in Proc : /\ op[p].ts <= vc[setup.home[p]].localTS
                       /\ op[p].entry # None => Bounded(op[p].entry.Clock)

\* A key whose entry has not expired goes away only by Delete, Flush, a peer's
\* delete or a restart: the lazy eviction of Get, which decided on an entry it
\* read before it took the lock, and the eviction pass never drop a live key.
LiveEntriesStay ==
  [][\A n \in Node, k \in Key :
       Live(data[n][k]) /\ data'[n][k] = None =>
         \/ \E p \in Proc : setup.home[p] = n /\ (DeleteStore(p, k) \/ Flush(p))
         \/ \E d \in net : d.dst = n /\ d.Key = k /\ RemoteDelete(d)
         \/ Restart(n)]_vars

\* IncrBy and CompareAndSwap are atomic: what they store replaces exactly the
\* entry they computed it from, although their Tick lets other goroutines run.
UpdateAtomic ==
  [][\A p \in Proc : LockedStore(p) => op[p].basis = data[setup.home[p]][op[p].key]]_vars

OneCallerPerNode ==
  \A p, q \in setup.callers : p # q => setup.home[p] # setup.home[q]

\* What a key holds is never replaced by a write that happened before it, as
\* long as every node writes from one goroutine and none was restarted: what
\* After promises for causally ordered writes (clock.go 76-113, store.go 415-427).
NoCausalRegress ==
  [][\A n \in Node, k \in Key :
       restarts = 0 /\ OneCallerPerNode /\ data[n][k] # None /\ data'[n][k] # None =>
         ~Dominates(data[n][k].Clock.Vector, data'[n][k].Clock.Vector)]_vars

\* No call is in progress and no delta is on its way.
Quiescent == net = {} /\ \A p \in Proc : op[p] = IdleOp

\* What a reader of node n can see of key k, up to the type JSON changes.
View(n, k) ==
  LET e == data[n][k] IN
  IF Live(e) THEN [Value |-> JSON(e.Value), ExpiresAt |-> e.ExpiresAt] ELSE None

Agreement == \A n, m \in Node, k \in Key : View(n, k) = View(m, k)

\* "so every node converges on the same winner" (clock.go:82): once every delta
\* has been applied the nodes answer alike.
Converged == Quiescent => Agreement

\* The shortest TTL has not run out, so no write can have expired.
NothingExpired == \A ttl \in TTL : ttl = 0 \/ now <= ttl

\* One goroutine calls what the transport replicates, and nothing is lost on the
\* way: no connection broke and no process restarted.  Over gossip that is Set; a
\* delete has no clock, and an old delta that arrives after a newer entry was
\* evicted would bring the key back (store.go 431-434, 415-427).
SingleWriter ==
  /\ \E p \in Proc : setup.callers = {p}
  /\ setup.connected /\ drops = 0 /\ restarts = 0
  /\ \/ setup.transport = "gossip" /\ setup.calls \subseteq {"set", "get"} /\ NothingExpired
     \/ setup.transport = "redis" /\ setup.calls \subseteq {"set", "delete", "get"}

\* That much is true of what a single goroutine writes, although gossip reorders
\* its sets and Redis deltas carry no clock.
SingleWriterConverges == SingleWriter => Converged

\* The same as a promise about the future: the nodes end up agreeing, for good.
EventualAgreement == <>[](SingleWriter => Agreement)

\* What a store may always be relied on for: it never leaves the states its
\* operations describe, no clock anywhere runs ahead of the node it speaks of
\* (clock.go 29-55), and what one goroutine writes ends up the same on every
\* node (store.go 415-434), through gossip and through Redis.
StoreOK == TypeOK /\ LaneBound /\ SingleWriterConverges
=============================================================================
