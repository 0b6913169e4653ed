---------------------------- MODULE MemoryProofs ----------------------------
(***************************************************************************)
(* What an Oni Memory store (OniMemory) guarantees in every deployment:    *)
(* any number of nodes, goroutines, keys and values, any transport, and    *)
(* connections that come, go and lose what they carry.  The invariant has  *)
(* five layers: the types, the lock, the lanes, what is known of a write   *)
(* under way on a node that writes from one goroutine, and, for a cluster  *)
(* with a single writer, what every key will end up with.                  *)
(***************************************************************************)
EXTENDS OniMemory, TLAPS

----------------------------------------------------------------------------
(* Types *)

Row == [Key -> Entry \cup {None}]
MaybeEntry == Entry \cup {None}

\* A call in progress has a key, and what its next step needs.
OpOK(o) ==
  /\ o.pc # "idle" => o.key \in Key
  /\ o.pc = "stamp" => o.val \in Value /\ o.call \in {"set", "incr", "cas"}
  /\ o.pc = "store" => o.entry \in Entry /\ o.call \in {"set", "incr", "cas"}
  /\ o.pc = "sync" => o.call \in {"set", "delete"} /\ (o.call = "set" => o.entry \in Entry)
  /\ o.pc \in {"got", "evict"} => o.entry \in Entry

OpsGood(o, callers) ==
  /\ o \in [Proc -> Op]
  /\ \A p \in Proc : OpOK(o[p]) /\ (o[p].pc # "idle" => p \in callers)

NetGood(nt) == \A d \in nt : d \in Delta /\ (d.Type = "set" => d.entry # None)

TypeInv ==
  /\ setup \in Setups
  /\ vc \in [Node -> Clock]
  /\ data \in [Node -> Row]
  /\ mu \in [Node -> Proc \cup {None}]
  /\ OpsGood(op, setup.callers)
  /\ conns \subseteq Node \X Node
  /\ NetGood(net)
  /\ sent \in Nat /\ now \in Nat
  /\ calls \in Nat /\ drops \in Nat /\ restarts \in Nat

LEMMA TypeInvSuffices == TypeInv => TypeOK
BY DEF TypeInv, TypeOK, OpsGood, NetGood, Row

LEMMA SetupFields ==
  ASSUME TypeInv
  PROVE  /\ \A p \in Proc : setup.home[p] \in Node
         /\ setup.callers \subseteq Proc
BY MemoryAssumption DEF TypeInv, Setup

LEMMA IdleIs == IdleOp \in Op /\ OpOK(IdleOp) /\ IdleOp.pc = "idle" /\ IdleOp.entry = None /\ IdleOp.ts = 0
BY DEF IdleOp, Op, OpOK

\* A step of one goroutine leaves the calls well formed.
LEMMA OneOp ==
  ASSUME TypeInv, NEW p \in Proc, NEW o \in Op, OpOK(o), o.pc # "idle" => p \in setup.callers,
         op' = [op EXCEPT ![p] = o]
  PROVE  OpsGood(op', setup.callers)
BY DEF TypeInv, OpsGood

LEMMA TypeInit == Init => TypeInv
<1> SUFFICES ASSUME Init PROVE TypeInv
  OBVIOUS
<1>1. NewVectorClock \in Clock
  BY DEF NewVectorClock, Clock, Vector
<1>2. OpsGood(op, setup.callers)
  BY IdleIs DEF Init, OpsGood
<1>3. NetGood(net)
  BY DEF Init, NetGood
<1> QED BY <1>1, <1>2, <1>3 DEF Init, TypeInv, Row

LEMMA DrawTypes ==
  ASSUME TypeInv, NEW p \in Proc, NEW c \in {"set", "incr", "cas"}, NEW k \in Key, NEW v \in Value,
         NEW ttl \in Nat, NEW basis \in MaybeEntry, DrawTimestamp(p, c, k, v, ttl, basis),
         p \in setup.callers
  PROVE  vc' \in [Node -> Clock] /\ OpsGood(op', setup.callers)
<1> DEFINE n == setup.home[p]
           o == [pc |-> "stamp", call |-> c, key |-> k, val |-> v, ttl |-> ttl,
                 ts |-> vc[n].localTS + 1, entry |-> None, basis |-> basis]
<1>1. n \in Node
  BY SetupFields
<1>2. vc[n] \in Clock /\ vc[n].localTS \in Nat
  BY <1>1 DEF TypeInv, Clock
<1>3. TickAdd(vc[n]) \in Clock
  BY <1>2 DEF TickAdd, Clock
<1>4. vc' \in [Node -> Clock]
  BY <1>3 DEF DrawTimestamp, TypeInv
<1>5. o \in Op /\ o.pc = "stamp" /\ OpOK(o)
  BY <1>2 DEF Op, OpOK, MaybeEntry
<1>6. op' = [op EXCEPT ![p] = o]
  BY DEF DrawTimestamp
<1> HIDE DEF o
<1> QED BY <1>4, <1>5, <1>6, OneOp

LEMMA SetBeginTypes ==
  ASSUME TypeInv, NEW p \in Proc, NEW k \in Key, NEW v \in Val, NEW ttl \in TTL, SetBegin(p, k, v, ttl)
  PROVE  TypeInv'
<1>1. v \in Value /\ ttl \in Nat /\ None \in MaybeEntry
  BY MemoryAssumption DEF MaybeEntry
<1>2. vc' \in [Node -> Clock] /\ OpsGood(op', setup.callers)
  BY <1>1, DrawTypes DEF SetBegin, Call
<1> QED BY <1>2 DEF TypeInv, SetBegin, Call

LEMMA EntryAt ==
  ASSUME TypeInv, NEW n \in Node, NEW k \in Key
  PROVE  data[n] \in Row /\ data[n][k] \in MaybeEntry
BY DEF TypeInv, Row, MaybeEntry

LEMMA IncrBeginTypes ==
  ASSUME TypeInv, NEW p \in Proc, NEW k \in Key, IncrBegin(p, k)
  PROVE  TypeInv'
<1> DEFINE n == setup.home[p]
           v == [type |-> "int64", n |-> Current(data[n][k]) + 1]
<1>1. n \in Node /\ data[n][k] \in MaybeEntry
  BY SetupFields, EntryAt
<1>2. Current(data[n][k]) \in Int
  BY <1>1 DEF Current, MaybeEntry, Live, Entry, Value
<1>3. v \in Value
  BY <1>2 DEF Value
<1>4. vc' \in [Node -> Clock] /\ OpsGood(op', setup.callers)
  BY <1>1, <1>3, DrawTypes DEF IncrBegin, Call
<1>5. mu' \in [Node -> Proc \cup {None}]
  BY DEF IncrBegin, TypeInv
<1> QED BY <1>4, <1>5 DEF TypeInv, IncrBegin, Call

LEMMA CasBeginTypes ==
  ASSUME TypeInv, NEW p \in Proc, NEW k \in Key, NEW expected, NEW v \in Val, NEW ttl \in TTL,
         CasBegin(p, k, expected, v, ttl)
  PROVE  TypeInv'
<1> DEFINE n == setup.home[p]
<1>1. n \in Node /\ data[n][k] \in MaybeEntry
  BY SetupFields, EntryAt
<1>2. v \in Value /\ ttl \in Nat
  BY MemoryAssumption
<1>3. vc' \in [Node -> Clock] /\ OpsGood(op', setup.callers)
  BY <1>1, <1>2, DrawTypes DEF CasBegin, Call
<1>4. mu' \in [Node -> Proc \cup {None}]
  BY DEF CasBegin, TypeInv
<1> QED BY <1>3, <1>4 DEF TypeInv, CasBegin, Call

LEMMA OpAt ==
  ASSUME TypeInv, NEW p \in Proc
  PROVE  /\ op[p] \in Op /\ OpOK(op[p]) /\ (op[p].pc # "idle" => p \in setup.callers)
         /\ op[p].ts \in Nat /\ op[p].ttl \in Nat /\ op[p].entry \in MaybeEntry
         /\ op' = [op EXCEPT ![p] = op[p]] <=> op' = op
<1>1. op \in [Proc -> Op]
  BY DEF TypeInv, OpsGood
<1> QED BY <1>1 DEF TypeInv, OpsGood, Op, MaybeEntry

\* What EndTick puts into the clock and into the entry.
LEMMA EndTickIs ==
  ASSUME TypeInv, NEW p \in Proc, EndTick(p)
  PROVE  LET n == setup.home[p]
             lanes == [vc[n].clocks EXCEPT ![n] = op[p].ts]
         IN /\ n \in Node /\ lanes \in Vector
            /\ vc' = [vc EXCEPT ![n].clocks = lanes]
            /\ \E e \in Entry : /\ e.Clock.Vector = lanes
                                /\ op' = [op EXCEPT ![p] = [op[p] EXCEPT !.pc = "store", !.entry = e]]
<1> DEFINE n == setup.home[p]
           lanes == [vc[n].clocks EXCEPT ![n] = op[p].ts]
           sv == TickStamp(n, vc[n], op[p].ts)
           cv == Stamped(n, sv, op[p].ts)
           e == [Value |-> op[p].val, ExpiresAt |-> Deadline(op[p].ttl), Clock |-> cv]
<1>1. n \in Node /\ op[p].ts \in Nat /\ op[p].ttl \in Nat /\ op[p].val \in Value
  BY SetupFields, OpAt DEF EndTick, OpOK
<1>2. vc[n] \in Clock /\ vc[n].clocks \in Vector
  BY <1>1 DEF TypeInv, Clock
<1>3. lanes \in Vector
  BY <1>1, <1>2 DEF Vector
<1>4. sv = [vc[n] EXCEPT !.clocks = lanes] /\ sv \in Clock /\ sv.clocks = lanes
  BY <1>2, <1>3 DEF TickStamp, Clock
<1>5. vc' = [vc EXCEPT ![n].clocks = lanes]
  <2>1. vc' = [vc EXCEPT ![n] = sv]
    BY DEF EndTick
  <2> HIDE DEF sv, lanes
  <2> QED BY <2>1, <1>1, <1>4 DEF TypeInv
<1>6. cv \in ClockValue /\ cv.Vector = lanes
  BY <1>1, <1>3, <1>4 DEF Stamped, ClockValue
<1>7. Deadline(op[p].ttl) \in Nat
  BY <1>1 DEF Deadline, TypeInv
<1>8. op' = [op EXCEPT ![p].pc = "store", ![p].entry = e]
  BY DEF EndTick
<1> HIDE DEF cv, lanes
<1>9. e \in Entry /\ e.Clock = cv
  BY <1>1, <1>6, <1>7 DEF Entry
<1> HIDE DEF e
<1>10. op' = [op EXCEPT ![p] = [op[p] EXCEPT !.pc = "store", !.entry = e]]
  BY <1>8 DEF TypeInv, OpsGood
<1> QED BY <1>1, <1>3, <1>5, <1>6, <1>9, <1>10 DEF lanes

LEMMA EndTickTypes == ASSUME TypeInv, NEW p \in Proc, EndTick(p) PROVE TypeInv'
<1> DEFINE n == setup.home[p]
           lanes == [vc[n].clocks EXCEPT ![n] = op[p].ts]
<1>1. PICK e \in Entry : op' = [op EXCEPT ![p] = [op[p] EXCEPT !.pc = "store", !.entry = e]]
  BY EndTickIs
<1>2. n \in Node /\ lanes \in Vector /\ vc' = [vc EXCEPT ![n].clocks = lanes]
  BY EndTickIs
<1> HIDE DEF lanes
<1>3. vc' \in [Node -> Clock]
  BY <1>2 DEF TypeInv, Clock
<1> DEFINE o == [op[p] EXCEPT !.pc = "store", !.entry = e]
<1>4. op[p] \in Op /\ OpOK(op[p]) /\ op[p].pc = "stamp" /\ p \in setup.callers
  BY OpAt DEF EndTick
<1>5. o \in Op /\ OpOK(o)
  BY <1>4 DEF Op, OpOK
<1>6. OpsGood(op', setup.callers)
  BY <1>1, <1>4, <1>5, OneOp
<1> QED BY <1>3, <1>6 DEF TypeInv, EndTick, bounds

LEMMA SetStoreTypes == ASSUME TypeInv, NEW p \in Proc, SetStore(p) PROVE TypeInv'
<1> DEFINE o == [op[p] EXCEPT !.pc = "sync"]
<1>1. op[p] \in Op /\ OpOK(op[p]) /\ op[p].pc = "store" /\ op[p].call = "set" /\ p \in setup.callers
  BY OpAt DEF SetStore
<1>2. op[p].entry \in Entry /\ op[p].key \in Key /\ setup.home[p] \in Node
  BY <1>1, SetupFields DEF OpOK
<1>3. data' \in [Node -> Row]
  BY <1>2 DEF SetStore, TypeInv, Row
<1>4. o \in Op /\ OpOK(o)
  BY <1>1, <1>2 DEF Op, OpOK
<1>5. op' = [op EXCEPT ![p] = o]
  BY DEF SetStore, TypeInv, OpsGood
<1>6. OpsGood(op', setup.callers)
  BY <1>1, <1>4, <1>5, OneOp
<1> QED BY <1>3, <1>6 DEF TypeInv, SetStore, bounds

LEMMA ZeroIs == ZeroClock \in ClockValue /\ \A m \in Node : ZeroClock.Vector[m] = 0
BY DEF ZeroClock, ClockValue, Vector

\* What goes on the wire has the entry's clock, or none.
LEMMA WireIs ==
  ASSUME NEW e \in MaybeEntry
  PROVE  /\ Wire(e) \in MaybeEntry /\ (Wire(e) = None <=> e = None)
         /\ e # None => Wire(e).Clock \in {e.Clock, ZeroClock}
<1>1. CASE e = None \/ setup.transport # "redis"
  BY <1>1 DEF Wire
<1>2. CASE e # None /\ setup.transport = "redis"
  <2> DEFINE w == [Value |-> JSON(e.Value), ExpiresAt |-> e.ExpiresAt, Clock |-> ZeroClock]
  <2>1. Wire(e) = w
    BY <1>2 DEF Wire
  <2>2. JSON(e.Value) \in Value /\ e.ExpiresAt \in Nat
    BY <1>2 DEF MaybeEntry, Entry, JSON, Value
  <2>3. w \in Entry /\ w.Clock = ZeroClock
    BY <2>2, ZeroIs DEF Entry
  <2> QED BY <1>2, <2>1, <2>3, NoneAssumption DEF MaybeEntry
<1> QED BY <1>1, <1>2

LEMMA SyncIs ==
  ASSUME TypeInv, NEW p \in Proc, Sync(p)
  PROVE  /\ op[p].pc = "sync" /\ op[p].entry \in MaybeEntry
         /\ \A d \in net' : \/ d \in net
                            \/ d \in Delta /\ d.entry = Wire(op[p].entry)
                               /\ (d.Type = "set" => d.entry # None)
<1>1. op[p] \in Op /\ OpOK(op[p]) /\ op[p].pc = "sync" /\ op[p].entry \in MaybeEntry
  BY OpAt DEF Sync
<1>2. op[p].key \in Key /\ op[p].call \in {"set", "delete"} /\ (op[p].call = "set" => op[p].entry \in Entry)
  BY <1>1 DEF OpOK
<1>3. Wire(op[p].entry) \in MaybeEntry /\ (Wire(op[p].entry) = None <=> op[p].entry = None)
  BY <1>1, WireIs
<1>4. setup.home[p] \in Node /\ sent + 1 \in Nat
  BY SetupFields DEF TypeInv
<1>5. Receivers(setup.home[p]) \subseteq Node
  BY DEF Receivers
<1>6. ASSUME NEW d \in net', d \notin net
      PROVE  d \in Delta /\ d.entry = Wire(op[p].entry) /\ (d.Type = "set" => d.entry # None)
  <2>1. PICK m \in Receivers(setup.home[p]) :
          d = [id |-> sent + 1, src |-> setup.home[p], dst |-> m, Type |-> op[p].call,
               Key |-> op[p].key, entry |-> Wire(op[p].entry), merged |-> FALSE]
    BY <1>6 DEF Sync, Broadcast
  <2>2. m \in Node
    BY <1>5
  <2> QED BY <1>2, <1>3, <1>4, <2>1, <2>2, NoneAssumption DEF Delta, MaybeEntry
<1> QED BY <1>1, <1>6

LEMMA SyncTypes == ASSUME TypeInv, NEW p \in Proc, Sync(p) PROVE TypeInv'
<1>1. NetGood(net')
  BY SyncIs DEF TypeInv, NetGood
<1>2. OpsGood(op', setup.callers)
  BY IdleIs, OneOp DEF Sync
<1>3. sent' \in Nat
  BY DEF Sync, Broadcast, TypeInv
<1> QED BY <1>1, <1>2, <1>3 DEF TypeInv, Sync, bounds

LEMMA DeltaAt ==
  ASSUME TypeInv, NEW d \in net
  PROVE  /\ d \in Delta /\ d.dst \in Node /\ d.Key \in Key /\ d.entry \in MaybeEntry
         /\ d.Type = "set" => d.entry \in Entry /\ d.entry.Clock \in ClockValue
<1>1. d \in Delta /\ (d.Type = "set" => d.entry # None)
  BY DEF TypeInv, NetGood
<1>2. d.dst \in Node /\ d.Key \in Key /\ d.entry \in MaybeEntry
  BY <1>1 DEF Delta, MaybeEntry
<1> QED BY <1>1, <1>2 DEF MaybeEntry, Entry

LEMMA MergeClock ==
  ASSUME NEW n \in Node, NEW v \in Clock, NEW cv \in ClockValue
  PROVE  /\ Merge(n, v, cv) \in Clock /\ Merge(n, v, cv).localTS = v.localTS
         /\ \A m \in Node : Merge(n, v, cv).clocks[m] \in {v.clocks[m], cv.Vector[m]}
<1>1. v.clocks \in Vector /\ v.localTS \in Nat /\ cv.Vector \in Vector
  BY ClockValueFields DEF Clock
<1>2. /\ MergeLanes(v.clocks, cv.Vector) \in Vector
      /\ \A m \in Node : MergeLanes(v.clocks, cv.Vector)[m] \in {v.clocks[m], cv.Vector[m]}
  BY <1>1, MergeLanesValue
<1>3. Merge(n, v, cv) = [clocks |-> MergeLanes(v.clocks, cv.Vector), localTS |-> v.localTS]
  BY MergeValue
<1> QED BY <1>1, <1>2, <1>3 DEF Clock

LEMMA RemoteMergeTypes == ASSUME TypeInv, NEW d \in net, RemoteMerge(d) PROVE TypeInv'
<1> DEFINE e == [d EXCEPT !.merged = TRUE]
<1>1. d \in Delta /\ d.dst \in Node /\ d.entry \in Entry /\ d.entry.Clock \in ClockValue
  BY DeltaAt DEF RemoteMerge
<1>2. Merge(d.dst, vc[d.dst], d.entry.Clock) \in Clock
  BY <1>1, MergeClock DEF TypeInv
<1>3. vc' \in [Node -> Clock]
  BY <1>1, <1>2 DEF RemoteMerge, TypeInv
<1>4. e \in Delta /\ e.entry = d.entry
  BY <1>1 DEF Delta
<1>5. NetGood(net')
  BY <1>1, <1>4, NoneAssumption DEF RemoteMerge, TypeInv, NetGood
<1> QED BY <1>3, <1>5 DEF TypeInv, RemoteMerge, bounds

LEMMA RemoteApplyTypes == ASSUME TypeInv, NEW d \in net, RemoteApply(d) PROVE TypeInv'
<1>1. d.dst \in Node /\ d.Key \in Key /\ d.entry \in Entry
  BY DeltaAt DEF RemoteApply
<1>2. data' \in [Node -> Row]
  BY <1>1 DEF RemoteApply, TypeInv, Row
<1>3. NetGood(net')
  BY DEF RemoteApply, TypeInv, NetGood
<1> QED BY <1>2, <1>3 DEF TypeInv, RemoteApply, bounds

LEMMA RemoteDeleteTypes == ASSUME TypeInv, NEW d \in net, RemoteDelete(d) PROVE TypeInv'
<1>1. d.dst \in Node /\ d.Key \in Key
  BY DeltaAt
<1>2. data' \in [Node -> Row]
  BY <1>1 DEF RemoteDelete, TypeInv, Row
<1>3. NetGood(net')
  BY DEF RemoteDelete, TypeInv, NetGood
<1> QED BY <1>2, <1>3 DEF TypeInv, RemoteDelete, bounds

LEMMA ConnTypes ==
  ASSUME TypeInv, NEW n \in Node, NEW m \in Node, Connect(n, m) \/ Disconnect(n, m) PROVE TypeInv'
<1>1. CASE Connect(n, m)
  BY <1>1 DEF TypeInv, Connect, bounds
<1>2. CASE Disconnect(n, m)
  <2>1. NetGood(net')
    BY <1>2 DEF Disconnect, TypeInv, NetGood
  <2> QED BY <1>2, <2>1 DEF TypeInv, Disconnect
<1> QED BY <1>1, <1>2

LEMMA DeleteStoreTypes ==
  ASSUME TypeInv, NEW p \in Proc, NEW k \in Key, DeleteStore(p, k) PROVE TypeInv'
<1> DEFINE o == [IdleOp EXCEPT !.pc = "sync", !.call = "delete", !.key = k]
<1>1. o \in Op /\ OpOK(o)
  BY IdleIs DEF IdleOp, Op, OpOK
<1>2. op' = [op EXCEPT ![p] = o] /\ p \in setup.callers
  BY DEF DeleteStore, Call
<1> HIDE DEF o
<1>3. OpsGood(op', setup.callers)
  BY <1>1, <1>2, OneOp
<1>4. data' \in [Node -> Row]
  BY SetupFields DEF DeleteStore, TypeInv, Row
<1> QED BY <1>3, <1>4 DEF TypeInv, DeleteStore, Call

LEMMA GetReadTypes == ASSUME TypeInv, NEW p \in Proc, NEW k \in Key, GetRead(p, k) PROVE TypeInv'
<1> DEFINE e == data[setup.home[p]][k]
           o == [IdleOp EXCEPT !.pc = "got", !.call = "get", !.key = k, !.entry = e]
<1>1. e \in Entry
  BY SetupFields, EntryAt DEF GetRead, MaybeEntry
<1>2. op' = [op EXCEPT ![p] = o] /\ p \in setup.callers
  BY DEF GetRead, Call
<1> HIDE DEF e
<1>3. o \in Op /\ OpOK(o)
  BY <1>1, IdleIs DEF IdleOp, Op, OpOK
<1> HIDE DEF o
<1>4. OpsGood(op', setup.callers)
  BY <1>2, <1>3, OneOp
<1> QED BY <1>4 DEF TypeInv, GetRead, Call

LEMMA GetCheckTypes == ASSUME TypeInv, NEW p \in Proc, GetCheck(p) PROVE TypeInv'
<1> DEFINE o == IF Expired(op[p].entry, now) THEN [op[p] EXCEPT !.pc = "evict"] ELSE IdleOp
<1>1. op[p] \in Op /\ OpOK(op[p]) /\ op[p].pc = "got" /\ p \in setup.callers
  BY OpAt DEF GetCheck
<1>2. o \in Op /\ OpOK(o)
  BY <1>1, IdleIs DEF Op, OpOK
<1>3. op' = [op EXCEPT ![p] = o]
  BY DEF GetCheck
<1> HIDE DEF o
<1>4. OpsGood(op', setup.callers)
  BY <1>1, <1>2, <1>3, OneOp
<1> QED BY <1>4 DEF TypeInv, GetCheck, bounds

LEMMA GetEvictTypes == ASSUME TypeInv, NEW p \in Proc, GetEvict(p) PROVE TypeInv'
<1>1. op[p].key \in Key /\ setup.home[p] \in Node
  BY OpAt, SetupFields DEF GetEvict, OpOK
<1>2. data' \in [Node -> Row]
  BY <1>1 DEF GetEvict, TypeInv, Row
<1>3. OpsGood(op', setup.callers)
  BY IdleIs, OneOp DEF GetEvict
<1> QED BY <1>2, <1>3 DEF TypeInv, GetEvict, bounds

\* Expire: only the time of the entry changes, also where a call holds it.
LEMMA ExpireIs ==
  ASSUME TypeInv, NEW p \in Proc, NEW k \in Key, NEW ttl \in TTL, Expire(p, k, ttl)
  PROVE  LET n == setup.home[p] IN
         /\ n \in Node /\ data[n][k] \in Entry
         /\ \E e \in Entry :
              /\ e.Clock = data[n][k].Clock /\ data' = [data EXCEPT ![n][k] = e]
              /\ op' \in [Proc -> Op]
              /\ \A q \in Proc : \/ op'[q] = op[q]
                                 \/ /\ op[q].entry = data[n][k]
                                    /\ op'[q] = [op[q] EXCEPT !.entry = e]
<1> DEFINE n == setup.home[p]
           e == [data[n][k] EXCEPT !.ExpiresAt = Deadline(ttl)]
<1>1. n \in Node /\ data[n][k] \in Entry
  BY SetupFields, EntryAt DEF Expire, Live, MaybeEntry
<1>2. Deadline(ttl) \in Nat
  BY MemoryAssumption DEF Deadline, TypeInv
<1>3. e \in Entry /\ e.Clock = data[n][k].Clock
  BY <1>1, <1>2 DEF Entry
<1>4. /\ data' = [data EXCEPT ![n][k] = e]
      /\ op' = [q \in Proc |-> IF setup.home[q] = n /\ op[q].key = k /\ op[q].entry = data[n][k]
                               THEN [op[q] EXCEPT !.entry = e] ELSE op[q]]
  BY DEF Expire
<1> HIDE DEF e
<1>5. \A q \in Proc : op[q] \in Op
  BY DEF TypeInv, OpsGood
<1>6. \A q \in Proc : [op[q] EXCEPT !.entry = e] \in Op
  BY <1>3, <1>5 DEF Op
<1>7. op' \in [Proc -> Op]
  BY <1>4, <1>5, <1>6
<1> QED BY <1>1, <1>3, <1>4, <1>7

LEMMA ExpireTypes ==
  ASSUME TypeInv, NEW p \in Proc, NEW k \in Key, NEW ttl \in TTL, Expire(p, k, ttl)
  PROVE  TypeInv'
<1> DEFINE n == setup.home[p]
<1>1. PICK e \in Entry :
        /\ e.Clock = data[n][k].Clock /\ data' = [data EXCEPT ![n][k] = e]
        /\ op' \in [Proc -> Op]
        /\ \A q \in Proc : \/ op'[q] = op[q]
                           \/ /\ op[q].entry = data[n][k]
                              /\ op'[q] = [op[q] EXCEPT !.entry = e]
  BY ExpireIs
<1>2. data' \in [Node -> Row]
  BY <1>1 DEF TypeInv, Row
<1>3. ASSUME NEW q \in Proc PROVE OpOK(op'[q]) /\ (op'[q].pc # "idle" => q \in setup.callers)
  <2>1. op[q] \in Op /\ OpOK(op[q]) /\ (op[q].pc # "idle" => q \in setup.callers)
    BY OpAt
  <2>2. CASE op'[q] = op[q]
    BY <2>1, <2>2
  <2>3. CASE op'[q] = [op[q] EXCEPT !.entry = e]
    <3>1. /\ op'[q].pc = op[q].pc /\ op'[q].key = op[q].key /\ op'[q].val = op[q].val
          /\ op'[q].call = op[q].call /\ op'[q].entry = e
      BY <2>1, <2>3 DEF Op
    <3> QED BY <2>1, <3>1 DEF OpOK
  <2> QED BY <1>1, <2>2, <2>3
<1>4. OpsGood(op', setup.callers)
  BY <1>1, <1>3 DEF OpsGood
<1> QED BY <1>2, <1>4 DEF TypeInv, Expire, Call

LEMMA LockedStoreTypes == ASSUME TypeInv, NEW p \in Proc, LockedStore(p) PROVE TypeInv'
<1>1. op[p].key \in Key /\ op[p].entry \in Entry /\ setup.home[p] \in Node
  BY OpAt, SetupFields DEF LockedStore, OpOK
<1>2. data' \in [Node -> Row] /\ mu' \in [Node -> Proc \cup {None}]
  BY <1>1 DEF LockedStore, TypeInv, Row
<1>3. OpsGood(op', setup.callers)
  BY IdleIs, OneOp DEF LockedStore
<1> QED BY <1>2, <1>3 DEF TypeInv, LockedStore, bounds

LEMMA NoRow == [k \in Key |-> None] \in Row
BY DEF Row

LEMMA FlushTypes == ASSUME TypeInv, NEW p \in Proc, Flush(p) PROVE TypeInv'
<1>1. data' \in [Node -> Row]
  BY NoRow DEF Flush, TypeInv
<1> QED BY <1>1 DEF TypeInv, Flush, Call

LEMMA EvictTypes == ASSUME TypeInv, NEW n \in Node, Evict(n) PROVE TypeInv'
<1>1. [k \in Key |-> IF Live(data[n][k]) THEN data[n][k] ELSE None] \in Row
  BY EntryAt DEF Row, MaybeEntry
<1>2. data' = [data EXCEPT ![n] = [k \in Key |-> IF Live(data[n][k]) THEN data[n][k] ELSE None]]
  BY DEF Evict
<1>3. data' \in [Node -> Row]
  BY <1>1, <1>2 DEF TypeInv
<1> QED BY <1>3 DEF TypeInv, Evict, bounds

LEMMA RestartTypes == ASSUME TypeInv, NEW n \in Node, Restart(n) PROVE TypeInv'
<1>1. NewVectorClock \in Clock
  BY DEF NewVectorClock, Clock, Vector
<1>2. vc' \in [Node -> Clock] /\ data' \in [Node -> Row] /\ mu' \in [Node -> Proc \cup {None}]
  BY <1>1, NoRow DEF Restart, TypeInv
<1>3. OpsGood(op', setup.callers)
  BY IdleIs DEF Restart, TypeInv, OpsGood
<1>4. NetGood(net')
  BY DEF Restart, TypeInv, NetGood
<1> QED BY <1>2, <1>3, <1>4 DEF TypeInv, Restart

LEMMA TypeStep == ASSUME TypeInv, [Next]_vars PROVE TypeInv'
<1>1. ASSUME NEW p \in Proc, ProcStep(p) PROVE TypeInv'
  BY <1>1, EndTickTypes, SetStoreTypes, SyncTypes, GetCheckTypes, GetEvictTypes, LockedStoreTypes
     DEF ProcStep
<1>2. ASSUME NEW p \in Proc, CallStep(p) PROVE TypeInv'
  BY <1>2, SetBeginTypes, DeleteStoreTypes, GetReadTypes, IncrBeginTypes, ExpireTypes, CasBeginTypes,
     FlushTypes DEF CallStep
<1>3. ASSUME NEW d \in net, Deliver(d) PROVE TypeInv'
  BY <1>3, RemoteMergeTypes, RemoteApplyTypes, RemoteDeleteTypes DEF Deliver
<1>4. ASSUME NEW n \in Node, NEW m \in Node, Connect(n, m) \/ Disconnect(n, m) PROVE TypeInv'
  BY <1>4, ConnTypes
<1>5. ASSUME NEW n \in Node, Evict(n) \/ Restart(n) PROVE TypeInv'
  BY <1>5, EvictTypes, RestartTypes
<1>6. CASE Advance
  BY <1>6 DEF Advance, TypeInv, bounds
<1>7. CASE UNCHANGED vars
  BY <1>7 DEF vars, TypeInv
<1> QED BY <1>1, <1>2, <1>3, <1>4, <1>5, <1>6, <1>7 DEF Next

----------------------------------------------------------------------------
(* The lock: who holds Store.mu, and what it protects.                     *)

Busy(o) == o.pc \in {"stamp", "store"}
Locking(o) == Busy(o) /\ o.call \in {"incr", "cas"}

\* An atomic update that has begun holds the lock of its node, and its key still
\* holds what it was computed from.
LockInv ==
  \A p \in Proc : Locking(op[p]) =>
    mu[setup.home[p]] = p /\ op[p].basis = data[setup.home[p]][op[p].key]

\* A step that leaves the locks and the locked nodes' data alone, and starts no
\* atomic update.
LEMMA LockKept ==
  ASSUME TypeInv, LockInv, UNCHANGED <<setup, mu>>,
         \A q \in Proc : Locking(op'[q]) =>
           Locking(op[q]) /\ op'[q].key = op[q].key /\ op'[q].basis = op[q].basis,
         \A m \in Node : mu[m] # None => data'[m] = data[m]
  PROVE  LockInv'
<1> SUFFICES ASSUME NEW q \in Proc, Locking(op'[q])
             PROVE  mu[setup.home[q]] = q /\ op'[q].basis = data'[setup.home[q]][op'[q].key]
  BY DEF LockInv
<1>1. mu[setup.home[q]] = q /\ q # None /\ setup.home[q] \in Node
  BY NoneAssumption, SetupFields DEF LockInv
<1> QED BY <1>1 DEF LockInv

\* What a step of goroutine p leaves of the other calls.
LEMMA OpMoved ==
  ASSUME TypeInv, NEW p \in Proc, NEW o, op' = [op EXCEPT ![p] = o]
  PROVE  op'[p] = o /\ \A q \in Proc : q # p => op'[q] = op[q]
BY DEF TypeInv, OpsGood

LEMMA IdleRests == ~Busy(IdleOp) /\ ~Locking(IdleOp)
BY DEF IdleOp, Busy, Locking

\* The op a Draw leaves.
Drawn(p, c, k, v, ttl, basis) ==
  [pc |-> "stamp", call |-> c, key |-> k, val |-> v, ttl |-> ttl,
   ts |-> vc[setup.home[p]].localTS + 1, entry |-> None, basis |-> basis]

LEMMA DrawIs ==
  ASSUME TypeInv, NEW p \in Proc, NEW c, NEW k, NEW v, NEW ttl, NEW basis,
         DrawTimestamp(p, c, k, v, ttl, basis)
  PROVE  /\ op'[p].pc = "stamp" /\ op'[p].call = c /\ op'[p].key = k /\ op'[p].basis = basis
         /\ op'[p].entry = None /\ op'[p].ts = vc[setup.home[p]].localTS + 1
         /\ \A q \in Proc : q # p => op'[q] = op[q]
<1>1. op' = [op EXCEPT ![p] = Drawn(p, c, k, v, ttl, basis)]
  BY DEF DrawTimestamp, Drawn
<1>2. op'[p] = Drawn(p, c, k, v, ttl, basis) /\ \A q \in Proc : q # p => op'[q] = op[q]
  BY <1>1, OpMoved
<1> QED BY <1>2 DEF Drawn

LEMMA SetBeginLock ==
  ASSUME TypeInv, LockInv, NEW p \in Proc, NEW k \in Key, NEW v \in Val, NEW ttl \in TTL,
         SetBegin(p, k, v, ttl)
  PROVE  LockInv'
<1>1. op'[p].call = "set" /\ \A q \in Proc : q # p => op'[q] = op[q]
  BY DrawIs DEF SetBegin
<1>2. ~Locking(op'[p])
  BY <1>1 DEF Locking
<1> QED BY <1>1, <1>2, LockKept DEF SetBegin, Call

\* The lock is taken: nobody held it, so no other update is under way there.
LEMMA LockTaken ==
  ASSUME TypeInv, LockInv, NEW p \in Proc, NEW c, NEW k, NEW v, NEW ttl,
         DrawTimestamp(p, c, k, v, ttl, data[setup.home[p]][k]),
         mu[setup.home[p]] = None, mu' = [mu EXCEPT ![setup.home[p]] = p],
         UNCHANGED <<setup, data>>
  PROVE  LockInv'
<1>1. /\ op'[p].key = k /\ op'[p].basis = data[setup.home[p]][k]
      /\ \A q \in Proc : q # p => op'[q] = op[q]
  BY DrawIs
<1>2. setup.home[p] \in Node /\ mu'[setup.home[p]] = p
  BY SetupFields DEF TypeInv
<1>3. ASSUME NEW q \in Proc, q # p, Locking(op'[q])
      PROVE  mu'[setup.home[q]] = q /\ op'[q].basis = data'[setup.home[q]][op'[q].key]
  <2>1. mu[setup.home[q]] = q /\ q # None /\ op[q].basis = data[setup.home[q]][op[q].key]
    BY <1>1, <1>3, NoneAssumption DEF LockInv
  <2>2. setup.home[q] # setup.home[p] /\ setup.home[q] \in Node
    BY <2>1, SetupFields
  <2> QED BY <1>1, <1>3, <2>1, <2>2 DEF TypeInv
<1> QED BY <1>1, <1>2, <1>3 DEF LockInv

LEMMA EndTickLock == ASSUME TypeInv, LockInv, NEW p \in Proc, EndTick(p) PROVE LockInv'
<1>1. PICK e : op' = [op EXCEPT ![p] = [op[p] EXCEPT !.pc = "store", !.entry = e]]
  BY EndTickIs
<1>2. /\ op'[p] = [op[p] EXCEPT !.pc = "store", !.entry = e]
      /\ \A q \in Proc : q # p => op'[q] = op[q]
  BY <1>1, OpMoved
<1>3. op[p] \in Op /\ op[p].pc = "stamp"
  BY OpAt DEF EndTick
<1>4. op'[p].call = op[p].call /\ op'[p].key = op[p].key /\ op'[p].basis = op[p].basis
  BY <1>2, <1>3 DEF Op
<1>5. Locking(op'[p]) => Locking(op[p])
  BY <1>3, <1>4 DEF Locking, Busy
<1> QED BY <1>2, <1>4, <1>5, LockKept DEF EndTick, bounds

LEMMA SetStoreLock == ASSUME TypeInv, LockInv, NEW p \in Proc, SetStore(p) PROVE LockInv'
<1>1. op' = [op EXCEPT ![p] = [op[p] EXCEPT !.pc = "sync"]]
  BY DEF SetStore, TypeInv, OpsGood
<1>2. op'[p] = [op[p] EXCEPT !.pc = "sync"] /\ \A q \in Proc : q # p => op'[q] = op[q]
  BY <1>1, OpMoved
<1>3. ~Locking(op'[p])
  BY <1>2, OpAt DEF Locking, Busy, Op
<1>4. \A m \in Node : mu[m] # None => data'[m] = data[m]
  BY DEF SetStore, TypeInv
<1> QED BY <1>2, <1>3, <1>4, LockKept DEF SetStore, bounds

LEMMA SyncLock == ASSUME TypeInv, LockInv, NEW p \in Proc, Sync(p) PROVE LockInv'
BY OpMoved, IdleRests, LockKept DEF Sync, bounds

LEMMA DeliverLock == ASSUME TypeInv, LockInv, NEW d \in net, Deliver(d) PROVE LockInv'
<1>1. \A m \in Node : mu[m] # None => data'[m] = data[m]
  BY DEF Deliver, RemoteMerge, RemoteApply, RemoteDelete, TypeInv
<1> QED BY <1>1, LockKept DEF Deliver, RemoteMerge, RemoteApply, RemoteDelete, bounds

LEMMA DeleteStoreLock ==
  ASSUME TypeInv, LockInv, NEW p \in Proc, NEW k \in Key, DeleteStore(p, k) PROVE LockInv'
<1> DEFINE o == [IdleOp EXCEPT !.pc = "sync", !.call = "delete", !.key = k]
<1>1. ~Locking(o)
  BY DEF IdleOp, Locking, Busy
<1>2. op'[p] = o /\ \A q \in Proc : q # p => op'[q] = op[q]
  BY OpMoved DEF DeleteStore
<1> HIDE DEF o
<1>3. \A m \in Node : mu[m] # None => data'[m] = data[m]
  BY DEF DeleteStore, TypeInv
<1> QED BY <1>1, <1>2, <1>3, LockKept DEF DeleteStore, Call

LEMMA GetReadLock ==
  ASSUME TypeInv, LockInv, NEW p \in Proc, NEW k \in Key, GetRead(p, k) PROVE LockInv'
<1> DEFINE o == [IdleOp EXCEPT !.pc = "got", !.call = "get", !.key = k,
                               !.entry = data[setup.home[p]][k]]
<1>1. ~Locking(o)
  BY DEF IdleOp, Locking, Busy
<1>2. op'[p] = o /\ \A q \in Proc : q # p => op'[q] = op[q]
  BY OpMoved DEF GetRead
<1> HIDE DEF o
<1> QED BY <1>1, <1>2, LockKept DEF GetRead, Call

LEMMA GetCheckLock == ASSUME TypeInv, LockInv, NEW p \in Proc, GetCheck(p) PROVE LockInv'
<1> DEFINE o == IF Expired(op[p].entry, now) THEN [op[p] EXCEPT !.pc = "evict"] ELSE IdleOp
<1>1. ~Locking(o)
  BY OpAt, IdleRests DEF Op, Locking, Busy
<1>2. op'[p] = o /\ \A q \in Proc : q # p => op'[q] = op[q]
  BY OpMoved DEF GetCheck
<1> HIDE DEF o
<1> QED BY <1>1, <1>2, LockKept DEF GetCheck, bounds

LEMMA GetEvictLock == ASSUME TypeInv, LockInv, NEW p \in Proc, GetEvict(p) PROVE LockInv'
<1>1. op'[p] = IdleOp /\ \A q \in Proc : q # p => op'[q] = op[q]
  BY OpMoved DEF GetEvict
<1>2. \A m \in Node : mu[m] # None => data'[m] = data[m]
  BY DEF GetEvict, TypeInv
<1> QED BY <1>1, <1>2, IdleRests, LockKept DEF GetEvict, bounds

LEMMA ExpireLock ==
  ASSUME TypeInv, LockInv, NEW p \in Proc, NEW k \in Key, NEW ttl \in TTL, Expire(p, k, ttl)
  PROVE  LockInv'
<1> DEFINE n == setup.home[p]
<1>1. PICK e \in Entry :
        /\ e.Clock = data[n][k].Clock /\ data' = [data EXCEPT ![n][k] = e]
        /\ op' \in [Proc -> Op]
        /\ \A q \in Proc : \/ op'[q] = op[q]
                           \/ /\ op[q].entry = data[n][k]
                              /\ op'[q] = [op[q] EXCEPT !.entry = e]
  BY ExpireIs
<1>2. ASSUME NEW q \in Proc
      PROVE  /\ op'[q].pc = op[q].pc /\ op'[q].call = op[q].call
             /\ op'[q].key = op[q].key /\ op'[q].basis = op[q].basis
  BY <1>1, OpAt DEF Op
<1>3. \A m \in Node : mu[m] # None => data'[m] = data[m]
  BY DEF Expire, TypeInv
<1>4. \A q \in Proc : Locking(op'[q]) => Locking(op[q])
  BY <1>2 DEF Locking, Busy
<1> QED BY <1>2, <1>3, <1>4, LockKept DEF Expire, Call

LEMMA LockedStoreLock == ASSUME TypeInv, LockInv, NEW p \in Proc, LockedStore(p) PROVE LockInv'
<1> DEFINE n == setup.home[p]
<1>1. op'[p] = IdleOp /\ \A q \in Proc : q # p => op'[q] = op[q]
  BY OpMoved DEF LockedStore
<1>2. n \in Node /\ mu[n] = p
  BY SetupFields DEF LockedStore, LockInv, Locking, Busy
<1>3. \A m \in Node : m # n => mu'[m] = mu[m] /\ data'[m] = data[m]
  BY DEF LockedStore, TypeInv
<1>4. setup' = setup
  BY DEF LockedStore, bounds
<1>5. ASSUME NEW q \in Proc, Locking(op'[q])
      PROVE  mu'[setup.home[q]] = q /\ op'[q].basis = data'[setup.home[q]][op'[q].key]
  <2>1. q # p /\ op'[q] = op[q]
    BY <1>1, <1>5, IdleRests
  <2>2. mu[setup.home[q]] = q /\ op[q].basis = data[setup.home[q]][op[q].key]
    BY <1>5, <2>1 DEF LockInv
  <2>3. setup.home[q] # n /\ setup.home[q] \in Node
    BY <1>2, <2>1, <2>2, SetupFields
  <2> QED BY <1>3, <2>1, <2>2, <2>3
<1> QED BY <1>4, <1>5 DEF LockInv

LEMMA RestartLock == ASSUME TypeInv, LockInv, NEW n \in Node, Restart(n) PROVE LockInv'
<1>1. \A q \in Proc : op'[q] = IF setup.home[q] = n THEN IdleOp ELSE op[q]
  BY DEF Restart
<1>2. \A m \in Node : m # n => mu'[m] = mu[m] /\ data'[m] = data[m]
  BY DEF Restart, TypeInv
<1>3. setup' = setup
  BY DEF Restart
<1>4. ASSUME NEW q \in Proc, Locking(op'[q])
      PROVE  mu'[setup.home[q]] = q /\ op'[q].basis = data'[setup.home[q]][op'[q].key]
  <2>1. setup.home[q] # n /\ op'[q] = op[q] /\ setup.home[q] \in Node
    BY <1>1, <1>4, IdleRests, SetupFields
  <2> QED BY <1>2, <1>4, <2>1 DEF LockInv
<1> QED BY <1>3, <1>4 DEF LockInv

LEMMA LockStep == ASSUME TypeInv, LockInv, [Next]_vars PROVE LockInv'
<1>1. ASSUME NEW p \in Proc, ProcStep(p) PROVE LockInv'
  BY <1>1, EndTickLock, SetStoreLock, SyncLock, GetCheckLock, GetEvictLock, LockedStoreLock DEF ProcStep
<1>2. ASSUME NEW p \in Proc, NEW k \in Key, IncrBegin(p, k) PROVE LockInv'
  BY <1>2, LockTaken DEF IncrBegin, Call
<1>3. ASSUME NEW p \in Proc, NEW k \in Key, NEW expected, NEW v \in Val, NEW ttl \in TTL,
             CasBegin(p, k, expected, v, ttl)
      PROVE  LockInv'
  BY <1>3, LockTaken DEF CasBegin, Call
<1>4. ASSUME NEW p \in Proc, Flush(p) PROVE LockInv'
  <2>1. \A m \in Node : mu[m] # None => data'[m] = data[m]
    BY <1>4 DEF Flush, TypeInv
  <2> QED BY <1>4, <2>1, LockKept DEF Flush, Call
<1>5. ASSUME NEW p \in Proc, CallStep(p) PROVE LockInv'
  BY <1>2, <1>3, <1>4, <1>5, SetBeginLock, DeleteStoreLock, GetReadLock, ExpireLock DEF CallStep
<1>6. ASSUME NEW d \in net, Deliver(d) PROVE LockInv'
  BY <1>6, DeliverLock
<1>7. ASSUME NEW n \in Node, NEW m \in Node, Connect(n, m) \/ Disconnect(n, m) PROVE LockInv'
  BY <1>7, LockKept DEF Connect, Disconnect, bounds
<1>8. ASSUME NEW n \in Node, Evict(n) PROVE LockInv'
  <2>1. \A m \in Node : mu[m] # None => data'[m] = data[m]
    BY <1>8 DEF Evict, TypeInv
  <2> QED BY <1>8, <2>1, LockKept DEF Evict, bounds
<1>9. ASSUME NEW n \in Node, Restart(n) PROVE LockInv'
  BY <1>9, RestartLock
<1>10. CASE Advance
  BY <1>10, LockKept DEF Advance, bounds
<1>11. CASE UNCHANGED vars
  BY <1>11 DEF vars, LockInv
<1> QED BY <1>1, <1>5, <1>6, <1>7, <1>8, <1>9, <1>10, <1>11 DEF Next

\* IncrBy and CompareAndSwap are atomic on every node, for any number of
\* goroutines, although their Tick takes the clock's mutex in between
\* (store.go 214-301).
THEOREM UpdatesAtomic == Spec => UpdateAtomic
<1>1. Init => TypeInv /\ LockInv
  <2>1. Init => LockInv
    BY IdleRests DEF Init, LockInv
  <2> QED BY <2>1, TypeInit
<1>2. TypeInv /\ LockInv /\ [Next]_vars => (TypeInv /\ LockInv)'
  BY TypeStep, LockStep
<1>3. TypeInv /\ LockInv /\ [Next]_vars =>
        [\A p \in Proc : LockedStore(p) => op[p].basis = data[setup.home[p]][op[p].key]]_vars
  BY DEF LockInv, LockedStore, Locking, Busy
<1> QED BY <1>1, <1>2, <1>3, PTL DEF Spec, UpdateAtomic

----------------------------------------------------------------------------
(* Live entries.                                                           *)

\* What a step writes under a key is an entry, unless it is one that deletes.
LEMMA LiveStep ==
  ASSUME TypeInv, [Next]_vars, NEW n \in Node, NEW k \in Key,
         Live(data[n][k]), data'[n][k] = None
  PROVE  \/ \E p \in Proc : setup.home[p] = n /\ (DeleteStore(p, k) \/ Flush(p))
         \/ \E d \in net : d.dst = n /\ d.Key = k /\ RemoteDelete(d)
         \/ Restart(n)
<1>0. data[n][k] # None /\ data' # data
  BY DEF Live
<1>1. ASSUME NEW p \in Proc, SetStore(p) \/ LockedStore(p) PROVE FALSE
  <2>1. op[p].entry \in Entry /\ op[p].entry # None
    BY <1>1, OpAt, NoneAssumption DEF SetStore, LockedStore, OpOK
  <2> QED BY <1>0, <1>1, <2>1 DEF SetStore, LockedStore, TypeInv, Row
<1>2. ASSUME NEW p \in Proc, GetEvict(p) PROVE FALSE
  BY <1>0, <1>2 DEF GetEvict, TypeInv, Row
<1>3. ASSUME NEW p \in Proc, NEW j \in Key, NEW ttl \in TTL, Expire(p, j, ttl) PROVE FALSE
  <2> DEFINE i == setup.home[p]
  <2>2. PICK e \in Entry :
          /\ e.Clock = data[i][j].Clock /\ data' = [data EXCEPT ![i][j] = e]
          /\ op' \in [Proc -> Op]
          /\ \A q \in Proc : \/ op'[q] = op[q]
                             \/ /\ op[q].entry = data[i][j]
                                /\ op'[q] = [op[q] EXCEPT !.entry = e]
    BY <1>3, ExpireIs
  <2> QED BY <1>0, <2>2, NoneAssumption DEF TypeInv, Row
<1>4. ASSUME NEW d \in net, RemoteApply(d) PROVE FALSE
  <2>1. d.entry \in Entry /\ d.entry # None
    BY <1>4, DeltaAt, NoneAssumption DEF RemoteApply
  <2> QED BY <1>0, <1>4, <2>1 DEF RemoteApply, TypeInv, Row
<1>5. ASSUME NEW i \in Node, Evict(i) PROVE FALSE
  BY <1>0, <1>5 DEF Evict, TypeInv, Row
<1>6. ASSUME NEW p \in Proc, NEW j \in Key, DeleteStore(p, j) PROVE setup.home[p] = n /\ j = k
  BY <1>0, <1>6 DEF DeleteStore, TypeInv, Row
<1>7. ASSUME NEW p \in Proc, Flush(p) PROVE setup.home[p] = n
  BY <1>0, <1>7 DEF Flush, TypeInv, Row
<1>8. ASSUME NEW d \in net, RemoteDelete(d) PROVE d.dst = n /\ d.Key = k
  BY <1>0, <1>8 DEF RemoteDelete, TypeInv, Row
<1>9. ASSUME NEW i \in Node, Restart(i) PROVE i = n
  BY <1>0, <1>9 DEF Restart, TypeInv, Row
<1>10. ASSUME NEW p \in Proc, ProcStep(p) PROVE FALSE
  BY <1>0, <1>1, <1>2, <1>10 DEF ProcStep, EndTick, Sync, GetCheck
<1>11. ASSUME NEW p \in Proc, CallStep(p) PROVE setup.home[p] = n /\ (DeleteStore(p, k) \/ Flush(p))
  BY <1>0, <1>3, <1>6, <1>7, <1>11 DEF CallStep, SetBegin, GetRead, IncrBegin, CasBegin
<1>12. ASSUME NEW d \in net, Deliver(d) PROVE d.dst = n /\ d.Key = k /\ RemoteDelete(d)
  BY <1>0, <1>4, <1>8, <1>12 DEF Deliver, RemoteMerge
<1>13. ASSUME NEW i \in Node, NEW m \in Node, Connect(i, m) \/ Disconnect(i, m) PROVE FALSE
  BY <1>0, <1>13 DEF Connect, Disconnect
<1>14. ASSUME NEW i \in Node, Evict(i) \/ Restart(i) PROVE Restart(n)
  BY <1>5, <1>9, <1>14
<1>15. CASE Advance \/ UNCHANGED vars
  BY <1>0, <1>15 DEF Advance, vars
<1> QED BY <1>10, <1>11, <1>12, <1>13, <1>14, <1>15 DEF Next

\* A key whose entry has not expired goes away only by Delete, Flush, a peer's
\* delete or a restart, whatever races with the lazy eviction of Get
\* (store.go 115-136, 354-369).
THEOREM LiveKeysStay == Spec => LiveEntriesStay
<1>1. Init => TypeInv
  BY TypeInit
<1>2. TypeInv /\ [Next]_vars => TypeInv'
  BY TypeStep
<1>3. TypeInv /\ [Next]_vars =>
        [\A n \in Node, k \in Key :
           Live(data[n][k]) /\ data'[n][k] = None =>
             \/ \E p \in Proc : setup.home[p] = n /\ (DeleteStore(p, k) \/ Flush(p))
             \/ \E d \in net : d.dst = n /\ d.Key = k /\ RemoteDelete(d)
             \/ Restart(n)]_vars
  BY LiveStep
<1> QED BY <1>1, <1>2, <1>3, PTL DEF Spec, LiveEntriesStay

----------------------------------------------------------------------------
(* Lanes.                                                                  *)

\* Lane m of the entry e is at most b.
LowEntry(e, m, b) == e # None => e.Clock.Vector[m] <= b

\* And so are those of all entries in the data dt, in the deltas nt and in the
\* calls o of the goroutines S.
Low(m, b, dt, o, nt, S) ==
  /\ \A n \in Node, k \in Key : LowEntry(dt[n][k], m, b)
  /\ \A d \in nt : LowEntry(d.entry, m, b)
  /\ \A q \in S : LowEntry(o[q].entry, m, b)

LaneInv ==
  restarts = 0 =>
    \A m \in Node :
      /\ \A n \in Node : vc[n].clocks[m] <= vc[m].localTS
      /\ Low(m, vc[m].localTS, data, op, net, Proc)
      /\ \A p \in Proc : setup.home[p] = m => op[p].ts <= vc[m].localTS

\* On a node that writes from one goroutine nothing else knows the timestamp of
\* the write under way: it is drawn, stamped and not yet stored.
SoleInv ==
  restarts = 0 /\ OneCallerPerNode =>
    \A p \in Proc : Busy(op[p]) =>
      LET n == setup.home[p] IN
      /\ op[p].ts >= 1
      /\ \A i \in Node : i # n => vc[i].clocks[n] <= op[p].ts - 1
      /\ Low(n, op[p].ts - 1, data, op, net, Proc \ {p})
      /\ op[p].pc = "store" => op[p].entry.Clock.Vector[n] = op[p].ts

LEMMA LaneInvSuffices == TypeInv /\ LaneInv => LaneBound
<1> SUFFICES ASSUME TypeInv, LaneInv, restarts = 0 PROVE LaneBound
  BY DEF LaneBound
<1>1. \A n, m \in Node : vc[n].clocks[m] <= vc[m].localTS
  BY DEF LaneInv
<1>2. \A n \in Node, k \in Key : data[n][k] # None => Bounded(data[n][k].Clock)
  BY DEF LaneInv, Low, LowEntry, Bounded
<1>3. \A d \in net : d.entry # None => Bounded(d.entry.Clock)
  BY DEF LaneInv, Low, LowEntry, Bounded
<1>4. \A p \in Proc : /\ op[p].ts <= vc[setup.home[p]].localTS
                      /\ op[p].entry # None => Bounded(op[p].entry.Clock)
  BY SetupFields DEF LaneInv, Low, LowEntry, Bounded
<1> QED BY <1>1, <1>2, <1>3, <1>4 DEF LaneBound

\* Steps that stamp and merge nothing: the goroutines P are done with their
\* writes, and every entry they put somewhere they had before.
LEMMA Carried ==
  ASSUME TypeInv, LaneInv, SoleInv, UNCHANGED <<setup, vc, restarts>>, NEW P \in SUBSET Proc,
         \A q \in P : ~Busy(op'[q]) /\ op'[q].ts \in {0, op[q].ts},
         \A q \in Proc : q \notin P =>
           /\ op'[q].pc = op[q].pc /\ op'[q].ts = op[q].ts
           /\ Busy(op[q]) => op'[q].entry = op[q].entry
                             \/ (op[q].entry \in Entry /\ op'[q].entry.Clock = op[q].entry.Clock),
         \A m \in Node, b \in Nat, S \in SUBSET Proc :
           P \subseteq S /\ Low(m, b, data, op, net, S) => Low(m, b, data', op', net', S)
  PROVE  LaneInv' /\ SoleInv'
<1>1. ASSUME NEW n \in Node PROVE vc[n] \in Clock /\ vc[n].localTS \in Nat
  BY DEF TypeInv, Clock
<1>2. ASSUME NEW q \in Proc PROVE op[q].ts \in Nat /\ setup.home[q] \in Node
  BY OpAt, SetupFields
<1>3. LaneInv'
  <2> SUFFICES ASSUME restarts = 0, NEW m \in Node
               PROVE  /\ \A n \in Node : vc[n].clocks[m] <= vc[m].localTS
                      /\ Low(m, vc[m].localTS, data', op', net', Proc)
                      /\ \A p \in Proc : setup.home[p] = m => op'[p].ts <= vc[m].localTS
    BY DEF LaneInv
  <2>1. /\ \A n \in Node : vc[n].clocks[m] <= vc[m].localTS
        /\ Low(m, vc[m].localTS, data, op, net, Proc)
        /\ \A p \in Proc : setup.home[p] = m => op[p].ts <= vc[m].localTS
    BY DEF LaneInv
  <2>2. Low(m, vc[m].localTS, data', op', net', Proc)
    BY <2>1, <1>1
  <2>3. ASSUME NEW p \in Proc, setup.home[p] = m PROVE op'[p].ts <= vc[m].localTS
    <3>1. op'[p].ts \in {0, op[p].ts}
      OBVIOUS
    <3> QED BY <2>1, <2>3, <3>1, <1>1, <1>2
  <2> QED BY <2>1, <2>2, <2>3
<1>4. SoleInv'
  <2> SUFFICES ASSUME restarts = 0, OneCallerPerNode, NEW p \in Proc, Busy(op'[p])
               PROVE  LET n == setup.home[p] IN
                      /\ op'[p].ts >= 1
                      /\ \A i \in Node : i # n => vc[i].clocks[n] <= op'[p].ts - 1
                      /\ Low(n, op'[p].ts - 1, data', op', net', Proc \ {p})
                      /\ op'[p].pc = "store" => op'[p].entry.Clock.Vector[n] = op'[p].ts
    BY DEF SoleInv, OneCallerPerNode
  <2> DEFINE n == setup.home[p]
  <2>1. p \notin P /\ op'[p].pc = op[p].pc /\ op'[p].ts = op[p].ts /\ Busy(op[p])
    BY DEF Busy
  <2>2. /\ op[p].ts >= 1
        /\ \A i \in Node : i # n => vc[i].clocks[n] <= op[p].ts - 1
        /\ Low(n, op[p].ts - 1, data, op, net, Proc \ {p})
        /\ op[p].pc = "store" => op[p].entry.Clock.Vector[n] = op[p].ts
    BY <2>1 DEF SoleInv
  <2>3. op[p].ts - 1 \in Nat /\ P \subseteq Proc \ {p} /\ Proc \ {p} \in SUBSET Proc /\ n \in Node
    BY <2>1, <2>2, <1>2
  <2>4. Low(n, op[p].ts - 1, data', op', net', Proc \ {p})
    BY <2>2, <2>3
  <2>5. op'[p].entry.Clock = op[p].entry.Clock
    BY <2>1
  <2> QED BY <2>1, <2>2, <2>4, <2>5
<1> QED BY <1>3, <1>4

\* Where no entry is anywhere it was not before.
LEMMA LowLess ==
  ASSUME NEW m, NEW b, NEW S, Low(m, b, data, op, net, S),
         \A n \in Node, k \in Key : data'[n][k] \in {data[n][k], None},
         net' \subseteq net,
         \A q \in S : op'[q].entry \in {op[q].entry, None}
  PROVE  Low(m, b, data', op', net', S)
BY DEF Low, LowEntry

LEMMA LaneInit == Init => LaneInv /\ SoleInv
<1> SUFFICES ASSUME Init PROVE LaneInv /\ SoleInv
  OBVIOUS
<1>1. \A n, m \in Node : vc[n].clocks[m] = 0 /\ vc[n].localTS = 0
  BY DEF Init, NewVectorClock
<1>2. \A p \in Proc : op[p] = IdleOp /\ op[p].entry = None /\ op[p].ts = 0
  BY IdleIs DEF Init
<1>3. \A m \in Node : Low(m, 0, data, op, net, Proc)
  BY <1>2 DEF Init, Low, LowEntry
<1>4. LaneInv
  <2> SUFFICES ASSUME NEW m \in Node
               PROVE  /\ \A n \in Node : vc[n].clocks[m] <= vc[m].localTS
                      /\ Low(m, vc[m].localTS, data, op, net, Proc)
                      /\ \A p \in Proc : setup.home[p] = m => op[p].ts <= vc[m].localTS
    BY DEF LaneInv
  <2>1. vc[m].localTS = 0
    BY <1>1
  <2> QED BY <1>1, <1>2, <1>3, <2>1
<1>5. \A p \in Proc : ~Busy(op[p])
  BY <1>2, IdleRests
<1>6. SoleInv
  BY <1>5, Zenon DEF SoleInv
<1> QED BY <1>4, <1>6

LEMMA LowSame ==
  ASSUME TypeInv, LaneInv, SoleInv, UNCHANGED <<setup, vc, restarts, op>>, net' \subseteq net,
         \A n \in Node, k \in Key : data'[n][k] \in {data[n][k], None}
  PROVE  LaneInv' /\ SoleInv'
<1>1. \A m \in Node, b \in Nat, S \in SUBSET Proc :
        Low(m, b, data, op, net, S) => Low(m, b, data', op', net', S)
  BY LowLess
<1>2. \A q \in Proc :
        /\ op'[q].pc = op[q].pc /\ op'[q].ts = op[q].ts
        /\ Busy(op[q]) => op'[q].entry = op[q].entry
                          \/ (op[q].entry \in Entry /\ op'[q].entry.Clock = op[q].entry.Clock)
  OBVIOUS
<1> DEFINE P == {}
<1>3. P \in SUBSET Proc /\ \A q \in P : FALSE
  OBVIOUS
<1> HIDE DEF P
<1> QED BY <1>1, <1>2, <1>3, Carried

\* Goroutine p is done, or goes on without a write.
LEMMA LowOne ==
  ASSUME TypeInv, LaneInv, SoleInv, UNCHANGED <<setup, vc, restarts>>, NEW p \in Proc,
         \A q \in Proc : q # p => op'[q] = op[q],
         ~Busy(op'[p]), op'[p].ts \in {0, op[p].ts},
         \A m \in Node, b \in Nat, S \in SUBSET Proc :
           p \in S /\ Low(m, b, data, op, net, S) => Low(m, b, data', op', net', S)
  PROVE  LaneInv' /\ SoleInv'
<1> DEFINE P == {p}
<1>1. P \in SUBSET Proc
  OBVIOUS
<1>2. \A q \in P : ~Busy(op'[q]) /\ op'[q].ts \in {0, op[q].ts}
  OBVIOUS
<1>3. \A q \in Proc : q \notin P =>
        /\ op'[q].pc = op[q].pc /\ op'[q].ts = op[q].ts
        /\ Busy(op[q]) => op'[q].entry = op[q].entry
                          \/ (op[q].entry \in Entry /\ op'[q].entry.Clock = op[q].entry.Clock)
  OBVIOUS
<1>4. \A m \in Node, b \in Nat, S \in SUBSET Proc :
        P \subseteq S /\ Low(m, b, data, op, net, S) => Low(m, b, data', op', net', S)
  OBVIOUS
<1> HIDE DEF P
<1> QED BY <1>1, <1>2, <1>3, <1>4, Carried

LEMMA SetStoreLane ==
  ASSUME TypeInv, LaneInv, SoleInv, NEW p \in Proc, SetStore(p) PROVE LaneInv' /\ SoleInv'
<1> DEFINE n == setup.home[p]
<1>1. op' = [op EXCEPT ![p] = [op[p] EXCEPT !.pc = "sync"]]
  BY DEF SetStore, TypeInv, OpsGood
<1>2. op'[p] = [op[p] EXCEPT !.pc = "sync"] /\ \A q \in Proc : q # p => op'[q] = op[q]
  BY <1>1, OpMoved
<1>3. ~Busy(op'[p]) /\ op'[p].ts = op[p].ts /\ op'[p].entry = op[p].entry
  BY <1>2, OpAt DEF Busy, Op
<1>4. \A i \in Node, k \in Key : data'[i][k] \in {data[i][k], op[p].entry}
  BY DEF SetStore, TypeInv, Row
<1>5. ASSUME NEW m \in Node, NEW b \in Nat, NEW S \in SUBSET Proc, p \in S, Low(m, b, data, op, net, S)
      PROVE  Low(m, b, data', op', net', S)
  BY <1>2, <1>3, <1>4, <1>5 DEF Low, LowEntry, SetStore
<1> QED BY <1>2, <1>3, <1>5, LowOne DEF SetStore, bounds

LEMMA LockedStoreLane ==
  ASSUME TypeInv, LaneInv, SoleInv, NEW p \in Proc, LockedStore(p) PROVE LaneInv' /\ SoleInv'
<1>1. op'[p] = IdleOp /\ \A q \in Proc : q # p => op'[q] = op[q]
  BY OpMoved DEF LockedStore
<1>2. ~Busy(op'[p]) /\ op'[p].ts = 0 /\ op'[p].entry = None
  BY <1>1, IdleRests, IdleIs
<1>3. \A i \in Node, k \in Key : data'[i][k] \in {data[i][k], op[p].entry}
  BY DEF LockedStore, TypeInv, Row
<1>4. ASSUME NEW m \in Node, NEW b \in Nat, NEW S \in SUBSET Proc, p \in S, Low(m, b, data, op, net, S)
      PROVE  Low(m, b, data', op', net', S)
  BY <1>1, <1>2, <1>3, <1>4 DEF Low, LowEntry, LockedStore
<1> QED BY <1>1, <1>2, <1>4, LowOne DEF LockedStore, bounds

LEMMA SyncLane ==
  ASSUME TypeInv, LaneInv, SoleInv, NEW p \in Proc, Sync(p) PROVE LaneInv' /\ SoleInv'
<1>1. op'[p] = IdleOp /\ \A q \in Proc : q # p => op'[q] = op[q]
  BY OpMoved DEF Sync
<1>2. ~Busy(op'[p]) /\ op'[p].ts = 0 /\ op'[p].entry = None
  BY <1>1, IdleRests, IdleIs
<1>3. op[p].entry \in MaybeEntry
  BY OpAt
<1>4. ASSUME NEW m \in Node, NEW b \in Nat, NEW S \in SUBSET Proc, p \in S, Low(m, b, data, op, net, S)
      PROVE  Low(m, b, data', op', net', S)
  <2>1. LowEntry(op[p].entry, m, b)
    BY <1>4 DEF Low
  <2>2. LowEntry(Wire(op[p].entry), m, b)
    BY <1>3, <2>1, WireIs, ZeroIs DEF LowEntry
  <2>3. \A d \in net' : d \in net \/ d.entry = Wire(op[p].entry)
    BY SyncIs
  <2> QED BY <1>1, <1>2, <1>4, <2>2, <2>3 DEF Low, LowEntry, Sync
<1> QED BY <1>1, <1>2, <1>4, LowOne DEF Sync, bounds

LEMMA DeleteStoreLane ==
  ASSUME TypeInv, LaneInv, SoleInv, NEW p \in Proc, NEW k \in Key, DeleteStore(p, k)
  PROVE  LaneInv' /\ SoleInv'
<1> DEFINE o == [IdleOp EXCEPT !.pc = "sync", !.call = "delete", !.key = k]
<1>1. ~Busy(o) /\ o.ts = 0 /\ o.entry = None
  BY DEF IdleOp, Busy
<1>2. op'[p] = o /\ \A q \in Proc : q # p => op'[q] = op[q]
  BY OpMoved DEF DeleteStore
<1> HIDE DEF o
<1>3. \A i \in Node, j \in Key : data'[i][j] \in {data[i][j], None}
  BY DEF DeleteStore, TypeInv, Row
<1>4. ASSUME NEW m \in Node, NEW b \in Nat, NEW S \in SUBSET Proc, Low(m, b, data, op, net, S)
      PROVE  Low(m, b, data', op', net', S)
  BY <1>1, <1>2, <1>3, <1>4, LowLess DEF DeleteStore
<1> QED BY <1>1, <1>2, <1>4, LowOne DEF DeleteStore, Call

LEMMA GetReadLane ==
  ASSUME TypeInv, LaneInv, SoleInv, NEW p \in Proc, NEW k \in Key, GetRead(p, k)
  PROVE  LaneInv' /\ SoleInv'
<1> DEFINE e == data[setup.home[p]][k]
           o == [IdleOp EXCEPT !.pc = "got", !.call = "get", !.key = k, !.entry = e]
<1>1. ~Busy(o) /\ o.ts = 0 /\ o.entry = e /\ setup.home[p] \in Node
  BY SetupFields DEF IdleOp, Busy
<1>2. op'[p] = o /\ \A q \in Proc : q # p => op'[q] = op[q]
  BY OpMoved DEF GetRead
<1> HIDE DEF o
<1>3. ASSUME NEW m \in Node, NEW b \in Nat, NEW S \in SUBSET Proc, Low(m, b, data, op, net, S)
      PROVE  Low(m, b, data', op', net', S)
  <2>1. LowEntry(e, m, b)
    BY <1>1, <1>3 DEF Low
  <2> QED BY <1>1, <1>2, <1>3, <2>1 DEF Low, GetRead
<1> QED BY <1>1, <1>2, <1>3, LowOne DEF GetRead, Call

LEMMA GetCheckLane ==
  ASSUME TypeInv, LaneInv, SoleInv, NEW p \in Proc, GetCheck(p) PROVE LaneInv' /\ SoleInv'
<1> DEFINE o == IF Expired(op[p].entry, now) THEN [op[p] EXCEPT !.pc = "evict"] ELSE IdleOp
<1>1. ~Busy(o) /\ o.ts \in {0, op[p].ts} /\ o.entry \in {op[p].entry, None}
  BY OpAt, IdleRests, IdleIs DEF Op, Busy
<1>2. op'[p] = o /\ \A q \in Proc : q # p => op'[q] = op[q]
  BY OpMoved DEF GetCheck
<1> HIDE DEF o
<1>3. ASSUME NEW m \in Node, NEW b \in Nat, NEW S \in SUBSET Proc, Low(m, b, data, op, net, S)
      PROVE  Low(m, b, data', op', net', S)
  BY <1>1, <1>2, <1>3, LowLess DEF GetCheck
<1> QED BY <1>1, <1>2, <1>3, LowOne DEF GetCheck, bounds

LEMMA GetEvictLane ==
  ASSUME TypeInv, LaneInv, SoleInv, NEW p \in Proc, GetEvict(p) PROVE LaneInv' /\ SoleInv'
<1>1. op'[p] = IdleOp /\ \A q \in Proc : q # p => op'[q] = op[q]
  BY OpMoved DEF GetEvict
<1>2. ~Busy(op'[p]) /\ op'[p].ts = 0 /\ op'[p].entry = None
  BY <1>1, IdleRests, IdleIs
<1>3. \A i \in Node, j \in Key : data'[i][j] \in {data[i][j], None}
  BY DEF GetEvict, TypeInv, Row
<1>4. ASSUME NEW m \in Node, NEW b \in Nat, NEW S \in SUBSET Proc, Low(m, b, data, op, net, S)
      PROVE  Low(m, b, data', op', net', S)
  BY <1>1, <1>2, <1>3, <1>4, LowLess DEF GetEvict
<1> QED BY <1>1, <1>2, <1>4, LowOne DEF GetEvict, bounds

LEMMA ExpireLane ==
  ASSUME TypeInv, LaneInv, SoleInv, NEW p \in Proc, NEW k \in Key, NEW ttl \in TTL, Expire(p, k, ttl)
  PROVE  LaneInv' /\ SoleInv'
<1> DEFINE n == setup.home[p]
<1>1. PICK e \in Entry :
        /\ e.Clock = data[n][k].Clock /\ data' = [data EXCEPT ![n][k] = e]
        /\ op' \in [Proc -> Op]
        /\ \A q \in Proc : \/ op'[q] = op[q]
                           \/ /\ op[q].entry = data[n][k]
                              /\ op'[q] = [op[q] EXCEPT !.entry = e]
  BY ExpireIs
<1>2. n \in Node /\ data[n][k] \in Entry /\ data[n][k] # None
  BY ExpireIs, NoneAssumption
<1>3. ASSUME NEW q \in Proc
      PROVE  /\ op'[q].pc = op[q].pc /\ op'[q].ts = op[q].ts
             /\ \/ op'[q].entry = op[q].entry
                \/ op[q].entry = data[n][k] /\ op'[q].entry = e
  BY <1>1, OpAt DEF Op
<1>4. \A i \in Node, j \in Key : data'[i][j] \in {data[i][j], e}
  BY <1>1 DEF TypeInv, Row
<1>5. ASSUME NEW m \in Node, NEW b \in Nat, NEW S \in SUBSET Proc, Low(m, b, data, op, net, S)
      PROVE  Low(m, b, data', op', net', S)
  <2>1. LowEntry(e, m, b)
    BY <1>1, <1>2, <1>5 DEF Low, LowEntry
  <2>2. net' = net
    BY DEF Expire
  <2>3. \A i \in Node, j \in Key : LowEntry(data'[i][j], m, b)
    BY <1>4, <1>5, <2>1 DEF Low
  <2>4. \A q \in S : LowEntry(op'[q].entry, m, b)
    BY <1>3, <1>5, <2>1 DEF Low
  <2> QED BY <1>5, <2>2, <2>3, <2>4 DEF Low
<1>6. \A q \in Proc :
        /\ op'[q].pc = op[q].pc /\ op'[q].ts = op[q].ts
        /\ Busy(op[q]) => op'[q].entry = op[q].entry
                          \/ (op[q].entry \in Entry /\ op'[q].entry.Clock = op[q].entry.Clock)
  BY <1>1, <1>2, <1>3
<1>7. UNCHANGED <<setup, vc, restarts>>
  BY DEF Expire, Call
<1> DEFINE P == {}
<1>8. P \in SUBSET Proc /\ \A q \in P : FALSE
  OBVIOUS
<1> HIDE DEF P
<1> QED BY <1>5, <1>6, <1>7, <1>8, Carried

LEMMA RemoteApplyLane ==
  ASSUME TypeInv, LaneInv, SoleInv, NEW d \in net, RemoteApply(d) PROVE LaneInv' /\ SoleInv'
<1>1. \A n \in Node, k \in Key : data'[n][k] \in {data[n][k], d.entry}
  BY DEF RemoteApply, TypeInv, Row
<1>2. net' \subseteq net /\ op' = op /\ UNCHANGED <<setup, vc, restarts>>
  BY DEF RemoteApply, bounds
<1>3. \A m \in Node, b \in Nat, S \in SUBSET Proc :
        Low(m, b, data, op, net, S) => Low(m, b, data', op', net', S)
  BY <1>1, <1>2 DEF Low
<1>4. \A q \in Proc :
        /\ op'[q].pc = op[q].pc /\ op'[q].ts = op[q].ts
        /\ Busy(op[q]) => op'[q].entry = op[q].entry
                          \/ (op[q].entry \in Entry /\ op'[q].entry.Clock = op[q].entry.Clock)
  BY <1>2
<1> DEFINE P == {}
<1>5. P \in SUBSET Proc /\ \A q \in P : FALSE
  OBVIOUS
<1> HIDE DEF P
<1> QED BY <1>2, <1>3, <1>4, <1>5, Carried

\* The steps below move the clocks.
LEMMA ClockAt ==
  ASSUME TypeInv, NEW n \in Node
  PROVE  /\ vc[n] \in Clock /\ vc[n].localTS \in Nat /\ vc[n].clocks \in Vector
         /\ \A m \in Node : vc[n].clocks[m] \in Nat
<1>1. vc[n] \in Clock /\ vc[n].localTS \in Nat /\ vc[n].clocks \in Vector
  BY DEF TypeInv, Clock
<1> QED BY <1>1 DEF Vector

LEMMA LaneIsNat ==
  ASSUME NEW e \in MaybeEntry, e # None, NEW m \in Node
  PROVE  e.Clock.Vector[m] \in Nat
<1>1. e.Clock \in ClockValue
  BY DEF MaybeEntry, Entry
<1> QED BY <1>1, ClockValueFields DEF Vector

\* An idle or a busy goroutine's neighbours on its own node are idle when the
\* node writes from one goroutine.
LEMMA Alone ==
  ASSUME TypeInv, OneCallerPerNode, NEW p \in Proc, NEW q \in Proc, p # q,
         p \in setup.callers, Busy(op[q])
  PROVE  setup.home[q] # setup.home[p]
<1>1. q \in setup.callers
  BY OpAt DEF Busy
<1> QED BY <1>1 DEF OneCallerPerNode

LEMMA LowUp ==
  ASSUME TypeInv, NEW m \in Node, NEW b \in Nat, NEW c \in Nat, b <= c,
         Low(m, b, data, op, net, Proc)
  PROVE  Low(m, c, data, op, net, Proc)
<1>1. ASSUME NEW e \in MaybeEntry, LowEntry(e, m, b) PROVE LowEntry(e, m, c)
  BY <1>1, LaneIsNat DEF LowEntry
<1>2. \A n \in Node, k \in Key : LowEntry(data[n][k], m, c)
  BY <1>1, EntryAt DEF Low
<1>3. \A d \in net : LowEntry(d.entry, m, c)
  BY <1>1, DeltaAt DEF Low
<1>4. \A q \in Proc : LowEntry(op[q].entry, m, c)
  BY <1>1, OpAt DEF Low
<1> QED BY <1>2, <1>3, <1>4 DEF Low

\* Drawing a timestamp: it is above every lane of the node anywhere.
LEMMA DrawLane ==
  ASSUME TypeInv, LaneInv, SoleInv, NEW p \in Proc, NEW c, NEW k, NEW v, NEW ttl, NEW basis,
         DrawTimestamp(p, c, k, v, ttl, basis), p \in setup.callers,
         UNCHANGED <<setup, data, net, restarts>>
  PROVE  LaneInv' /\ SoleInv'
<1> DEFINE n == setup.home[p]
           T == vc[n].localTS
<1>1. n \in Node /\ T \in Nat
  BY SetupFields, ClockAt
<1>2. /\ \A q \in Proc : q # p => op'[q] = op[q]
      /\ op'[p].ts = T + 1 /\ op'[p].entry = None /\ op'[p].pc = "stamp"
  <2> DEFINE o == [pc |-> "stamp", call |-> c, key |-> k, val |-> v, ttl |-> ttl,
                   ts |-> T + 1, entry |-> None, basis |-> basis]
  <2>1. o.ts = T + 1 /\ o.entry = None /\ o.pc = "stamp"
    OBVIOUS
  <2>2. op' = [op EXCEPT ![p] = o]
    BY DEF DrawTimestamp
  <2> HIDE DEF o
  <2> QED BY <2>1, <2>2, OpMoved
<1>3. /\ vc'[n].localTS = T + 1
      /\ \A i \in Node : vc'[i].clocks = vc[i].clocks /\ (i # n => vc'[i].localTS = vc[i].localTS)
  <2>1. vc' = [vc EXCEPT ![n] = TickAdd(vc[n])] /\ vc \in [Node -> Clock]
    BY DEF DrawTimestamp, TypeInv
  <2>2. TickAdd(vc[n]).localTS = T + 1 /\ TickAdd(vc[n]).clocks = vc[n].clocks
    BY <1>1, ClockAt DEF TickAdd, Clock
  <2> QED BY <1>1, <2>1, <2>2
<1>4. \A m \in Node : /\ vc'[m].localTS \in Nat /\ vc[m].localTS \in Nat
                      /\ vc[m].localTS <= vc'[m].localTS
  BY <1>1, <1>3, ClockAt
<1>5. ASSUME NEW m \in Node, NEW b \in Nat, NEW S \in SUBSET Proc, Low(m, b, data, op, net, S)
      PROVE  Low(m, b, data', op', net', S)
  BY <1>2, <1>5 DEF Low, LowEntry
<1>6. LaneInv'
  <2> SUFFICES ASSUME restarts = 0, NEW m \in Node
               PROVE  /\ \A i \in Node : vc'[i].clocks[m] <= vc'[m].localTS
                      /\ Low(m, vc'[m].localTS, data', op', net', Proc)
                      /\ \A q \in Proc : setup.home[q] = m => op'[q].ts <= vc'[m].localTS
    BY DEF LaneInv
  <2>1. /\ \A i \in Node : vc[i].clocks[m] <= vc[m].localTS
        /\ Low(m, vc[m].localTS, data, op, net, Proc)
        /\ \A q \in Proc : setup.home[q] = m => op[q].ts <= vc[m].localTS
    BY DEF LaneInv
  <2>2. ASSUME NEW i \in Node PROVE vc'[i].clocks[m] <= vc'[m].localTS
    BY <1>3, <1>4, <2>1, ClockAt
  <2>3. Low(m, vc'[m].localTS, data, op, net, Proc)
    BY <1>4, <2>1, LowUp
  <2>4. Low(m, vc'[m].localTS, data', op', net', Proc)
    BY <1>4, <1>5, <2>3
  <2>5. ASSUME NEW q \in Proc, setup.home[q] = m PROVE op'[q].ts <= vc'[m].localTS
    <3>1. op[q].ts \in Nat /\ op[q].ts <= vc[m].localTS
      BY <2>1, <2>5, OpAt
    <3> QED BY <1>1, <1>2, <1>3, <1>4, <2>5, <3>1
  <2> QED BY <2>2, <2>4, <2>5
<1>7. SoleInv'
  <2> SUFFICES ASSUME restarts = 0, OneCallerPerNode, NEW q \in Proc, Busy(op'[q])
               PROVE  LET r == setup.home[q] IN
                      /\ op'[q].ts >= 1
                      /\ \A i \in Node : i # r => vc'[i].clocks[r] <= op'[q].ts - 1
                      /\ Low(r, op'[q].ts - 1, data', op', net', Proc \ {q})
                      /\ op'[q].pc = "store" => op'[q].entry.Clock.Vector[r] = op'[q].ts
    BY DEF SoleInv, OneCallerPerNode
  <2>1. CASE q = p
    <3>1. \A i \in Node : vc[i].clocks[n] <= T
      BY <1>1 DEF LaneInv
    <3>2. Low(n, T, data, op, net, Proc)
      BY <1>1 DEF LaneInv
    <3>3. Low(n, T, data', op', net', Proc \ {p})
      BY <1>2, <3>2 DEF Low
    <3>4. op'[p].ts - 1 = T /\ op'[p].ts >= 1
      BY <1>1, <1>2
    <3> QED BY <1>2, <1>3, <2>1, <3>1, <3>3, <3>4
  <2>2. CASE q # p
    <3> DEFINE r == setup.home[q]
    <3>1. op'[q] = op[q] /\ Busy(op[q]) /\ op[q].ts \in Nat /\ r \in Node
      BY <1>2, <2>2, OpAt, SetupFields
    <3>2. /\ op[q].ts >= 1
          /\ \A i \in Node : i # r => vc[i].clocks[r] <= op[q].ts - 1
          /\ Low(r, op[q].ts - 1, data, op, net, Proc \ {q})
          /\ op[q].pc = "store" => op[q].entry.Clock.Vector[r] = op[q].ts
      BY <3>1 DEF SoleInv
    <3>3. op[q].ts - 1 \in Nat /\ Proc \ {q} \in SUBSET Proc
      BY <3>1, <3>2
    <3>4. Low(r, op[q].ts - 1, data', op', net', Proc \ {q})
      BY <1>5, <3>1, <3>2, <3>3
    <3> QED BY <1>3, <3>1, <3>2, <3>4
  <2> QED BY <2>1, <2>2
<1> QED BY <1>6, <1>7

\* The second half of Tick writes the timestamp into the node's own lane, which
\* LaneInv bounds, and the entry repeats the lanes the node knows.
LEMMA EndTickLane ==
  ASSUME TypeInv, LaneInv, SoleInv, NEW p \in Proc, EndTick(p) PROVE LaneInv' /\ SoleInv'
<1> DEFINE n == setup.home[p]
           lanes == [vc[n].clocks EXCEPT ![n] = op[p].ts]
<1>1. PICK e \in Entry : /\ e.Clock.Vector = lanes
                         /\ op' = [op EXCEPT ![p] = [op[p] EXCEPT !.pc = "store", !.entry = e]]
  BY EndTickIs
<1>2. n \in Node /\ lanes \in Vector /\ vc' = [vc EXCEPT ![n].clocks = lanes]
  BY EndTickIs
<1>3. lanes[n] = op[p].ts /\ \A m \in Node : m # n => lanes[m] = vc[n].clocks[m]
  BY <1>2, ClockAt DEF Vector
<1> HIDE DEF lanes
<1>4. /\ \A i \in Node : vc'[i].localTS = vc[i].localTS /\ (i # n => vc'[i].clocks = vc[i].clocks)
      /\ vc'[n].clocks = lanes
  BY <1>2 DEF TypeInv, Clock
<1>5. op'[p] = [op[p] EXCEPT !.pc = "store", !.entry = e] /\ \A q \in Proc : q # p => op'[q] = op[q]
  BY <1>1, OpMoved
<1>6. op'[p].pc = "store" /\ op'[p].entry = e /\ op'[p].ts = op[p].ts /\ op[p].ts \in Nat
  BY <1>5, OpAt DEF Op
<1>7. op[p].pc = "stamp" /\ Busy(op[p]) /\ p \in setup.callers
  BY OpAt DEF EndTick, Busy
<1>8. UNCHANGED <<setup, data, net, restarts>>
  BY DEF EndTick, bounds
<1>9. LaneInv'
  <2> SUFFICES ASSUME restarts = 0, NEW m \in Node
               PROVE  /\ \A i \in Node : vc'[i].clocks[m] <= vc'[m].localTS
                      /\ Low(m, vc'[m].localTS, data', op', net', Proc)
                      /\ \A q \in Proc : setup.home[q] = m => op'[q].ts <= vc'[m].localTS
    BY <1>8 DEF LaneInv
  <2>1. /\ \A i \in Node : vc[i].clocks[m] <= vc[m].localTS
        /\ Low(m, vc[m].localTS, data, op, net, Proc)
        /\ \A q \in Proc : setup.home[q] = m => op[q].ts <= vc[m].localTS
    BY <1>8 DEF LaneInv
  <2>2. lanes[m] <= vc[m].localTS
    BY <1>2, <1>3, <2>1
  <2>3. Low(m, vc[m].localTS, data', op', net', Proc)
    BY <1>1, <1>5, <1>6, <1>8, <2>1, <2>2 DEF Low, LowEntry
  <2> QED BY <1>4, <1>5, <1>6, <2>1, <2>2, <2>3
<1>10. SoleInv'
  <2> SUFFICES ASSUME restarts = 0, OneCallerPerNode, NEW q \in Proc, Busy(op'[q])
               PROVE  LET r == setup.home[q] IN
                      /\ op'[q].ts >= 1
                      /\ \A i \in Node : i # r => vc'[i].clocks[r] <= op'[q].ts - 1
                      /\ Low(r, op'[q].ts - 1, data', op', net', Proc \ {q})
                      /\ op'[q].pc = "store" => op'[q].entry.Clock.Vector[r] = op'[q].ts
    BY <1>8 DEF SoleInv, OneCallerPerNode
  <2> DEFINE r == setup.home[q]
  <2>1. Busy(op[q]) /\ op'[q].ts = op[q].ts
    BY <1>5, <1>6, <1>7
  <2>2. /\ op[q].ts >= 1
        /\ \A i \in Node : i # r => vc[i].clocks[r] <= op[q].ts - 1
        /\ Low(r, op[q].ts - 1, data, op, net, Proc \ {q})
        /\ op[q].pc = "store" => op[q].entry.Clock.Vector[r] = op[q].ts
    BY <2>1 DEF SoleInv
  <2>3. CASE q = p
    <3>1. Low(n, op[p].ts - 1, data', op', net', Proc \ {p})
      BY <1>5, <1>8, <2>2, <2>3 DEF Low
    <3> QED BY <1>1, <1>3, <1>4, <1>6, <2>1, <2>2, <2>3, <3>1
  <2>4. CASE q # p
    <3>1. r # n /\ r \in Node
      BY <1>7, <2>1, <2>4, Alone, SetupFields
    <3>2. lanes[r] <= op[q].ts - 1
      BY <1>2, <1>3, <2>2, <3>1
    <3>3. LowEntry(e, r, op[q].ts - 1)
      BY <1>1, <3>2 DEF LowEntry
    <3>4. Low(r, op[q].ts - 1, data', op', net', Proc \ {q})
      BY <1>5, <1>6, <1>8, <2>2, <3>3 DEF Low
    <3>5. op'[q] = op[q]
      BY <1>5, <2>4
    <3> QED BY <1>4, <2>2, <3>2, <3>4, <3>5
  <2> QED BY <2>3, <2>4
<1> QED BY <1>9, <1>10

\* A merge raises the lanes to those of an entry the invariant already bounds.
LEMMA RemoteMergeLane ==
  ASSUME TypeInv, LaneInv, SoleInv, NEW d \in net, RemoteMerge(d) PROVE LaneInv' /\ SoleInv'
<1> DEFINE n == d.dst
           e == [d EXCEPT !.merged = TRUE]
<1>1. n \in Node /\ d.entry \in Entry /\ d.entry.Clock \in ClockValue /\ d.entry # None /\ d \in Delta
  BY DeltaAt, NoneAssumption DEF RemoteMerge
<1>2. /\ \A i \in Node : vc'[i].localTS = vc[i].localTS /\ (i # n => vc'[i].clocks = vc[i].clocks)
      /\ \A m \in Node : vc'[n].clocks[m] \in {vc[n].clocks[m], d.entry.Clock.Vector[m]}
  <2> DEFINE w == Merge(n, vc[n], d.entry.Clock)
  <2>1. w.localTS = vc[n].localTS /\ \A m \in Node : w.clocks[m] \in {vc[n].clocks[m], d.entry.Clock.Vector[m]}
    BY <1>1, ClockAt, MergeClock
  <2>2. vc' = [vc EXCEPT ![n] = w]
    BY DEF RemoteMerge
  <2> HIDE DEF w
  <2> QED BY <1>1, <2>1, <2>2 DEF TypeInv
<1>3. e.entry = d.entry
  BY <1>1 DEF Delta
<1>4. op' = op /\ UNCHANGED <<setup, data, restarts>> /\ net' = (net \ {d}) \cup {e}
  BY DEF RemoteMerge, bounds
<1> HIDE DEF e
<1>5. ASSUME NEW m, NEW b, NEW S, Low(m, b, data, op, net, S) PROVE Low(m, b, data', op', net', S)
  BY <1>3, <1>4, <1>5 DEF Low
<1>6. ASSUME NEW m, NEW b, NEW S, Low(m, b, data, op, net, S) PROVE d.entry.Clock.Vector[m] <= b
  BY <1>1, <1>6 DEF Low, LowEntry
<1>7. LaneInv'
  <2> SUFFICES ASSUME restarts = 0, NEW m \in Node
               PROVE  /\ \A i \in Node : vc'[i].clocks[m] <= vc'[m].localTS
                      /\ Low(m, vc'[m].localTS, data', op', net', Proc)
                      /\ \A q \in Proc : setup.home[q] = m => op'[q].ts <= vc'[m].localTS
    BY <1>4 DEF LaneInv
  <2>1. /\ \A i \in Node : vc[i].clocks[m] <= vc[m].localTS
        /\ Low(m, vc[m].localTS, data, op, net, Proc)
        /\ \A q \in Proc : setup.home[q] = m => op[q].ts <= vc[m].localTS
    BY <1>4 DEF LaneInv
  <2>2. d.entry.Clock.Vector[m] <= vc[m].localTS
    BY <1>6, <2>1
  <2>3. Low(m, vc[m].localTS, data', op', net', Proc)
    BY <1>5, <2>1
  <2>4. vc'[m].localTS = vc[m].localTS /\ \A i \in Node : vc'[i].clocks[m] <= vc[m].localTS
    BY <1>2, <2>1, <2>2
  <2>5. \A q \in Proc : setup.home[q] = m => op'[q].ts <= vc[m].localTS
    BY <1>4, <2>1
  <2> QED BY <2>3, <2>4, <2>5
<1>8. SoleInv'
  <2> SUFFICES ASSUME restarts = 0, OneCallerPerNode, NEW q \in Proc, Busy(op[q])
               PROVE  LET r == setup.home[q] IN
                      /\ op[q].ts >= 1
                      /\ \A i \in Node : i # r => vc'[i].clocks[r] <= op[q].ts - 1
                      /\ Low(r, op[q].ts - 1, data', op', net', Proc \ {q})
                      /\ op[q].pc = "store" => op[q].entry.Clock.Vector[r] = op[q].ts
    BY <1>4 DEF SoleInv, OneCallerPerNode
  <2> DEFINE r == setup.home[q]
  <2>1. /\ op[q].ts >= 1
        /\ \A i \in Node : i # r => vc[i].clocks[r] <= op[q].ts - 1
        /\ Low(r, op[q].ts - 1, data, op, net, Proc \ {q})
        /\ op[q].pc = "store" => op[q].entry.Clock.Vector[r] = op[q].ts
    BY DEF SoleInv
  <2>2. d.entry.Clock.Vector[r] <= op[q].ts - 1 /\ r \in Node
    BY <1>6, <2>1, SetupFields
  <2>3. Low(r, op[q].ts - 1, data', op', net', Proc \ {q})
    BY <1>5, <2>1
  <2>4. \A i \in Node : i # r => vc'[i].clocks[r] <= op[q].ts - 1
    BY <1>2, <2>1, <2>2
  <2> QED BY <2>1, <2>3, <2>4
<1> QED BY <1>7, <1>8

LEMMA LaneStep == ASSUME TypeInv, LaneInv, SoleInv, [Next]_vars PROVE LaneInv' /\ SoleInv'
<1>1. ASSUME NEW p \in Proc, ProcStep(p) PROVE LaneInv' /\ SoleInv'
  BY <1>1, EndTickLane, SetStoreLane, SyncLane, GetCheckLane, GetEvictLane, LockedStoreLane
     DEF ProcStep
<1>2. ASSUME NEW p \in Proc, NEW k \in Key, NEW v \in Val, NEW ttl \in TTL, SetBegin(p, k, v, ttl)
      PROVE  LaneInv' /\ SoleInv'
  BY <1>2, DrawLane DEF SetBegin, Call
<1>3. ASSUME NEW p \in Proc, NEW k \in Key, IncrBegin(p, k) PROVE LaneInv' /\ SoleInv'
  BY <1>3, DrawLane DEF IncrBegin, Call
<1>4. ASSUME NEW p \in Proc, NEW k \in Key, NEW expected, NEW v \in Val, NEW ttl \in TTL,
             CasBegin(p, k, expected, v, ttl)
      PROVE  LaneInv' /\ SoleInv'
  BY <1>4, DrawLane DEF CasBegin, Call
<1>5. ASSUME NEW p \in Proc, Flush(p) PROVE LaneInv' /\ SoleInv'
  <2>1. \A n \in Node, k \in Key : data'[n][k] \in {data[n][k], None}
    BY <1>5 DEF Flush, TypeInv, Row
  <2> QED BY <1>5, <2>1, LowSame DEF Flush, Call
<1>6. ASSUME NEW p \in Proc, CallStep(p) PROVE LaneInv' /\ SoleInv'
  BY <1>2, <1>3, <1>4, <1>5, <1>6, DeleteStoreLane, GetReadLane, ExpireLane DEF CallStep
<1>7. ASSUME NEW d \in net, RemoteDelete(d) PROVE LaneInv' /\ SoleInv'
  <2>1. \A n \in Node, k \in Key : data'[n][k] \in {data[n][k], None}
    BY <1>7 DEF RemoteDelete, TypeInv, Row
  <2> QED BY <1>7, <2>1, LowSame DEF RemoteDelete, bounds
<1>8. ASSUME NEW d \in net, Deliver(d) PROVE LaneInv' /\ SoleInv'
  BY <1>7, <1>8, RemoteMergeLane, RemoteApplyLane DEF Deliver
<1>9. ASSUME NEW n \in Node, NEW m \in Node, Connect(n, m) \/ Disconnect(n, m)
      PROVE  LaneInv' /\ SoleInv'
  <2>1. net' \subseteq net /\ data' = data /\ UNCHANGED <<setup, vc, restarts, op>>
    BY <1>9 DEF Connect, Disconnect, bounds
  <2> QED BY <2>1, LowSame
<1>10. ASSUME NEW n \in Node, Evict(n) PROVE LaneInv' /\ SoleInv'
  <2>1. \A i \in Node, k \in Key : data'[i][k] \in {data[i][k], None}
    BY <1>10 DEF Evict, TypeInv, Row
  <2> QED BY <1>10, <2>1, LowSame DEF Evict, bounds
<1>11. ASSUME NEW n \in Node, Restart(n) PROVE LaneInv' /\ SoleInv'
  <2>1. restarts' # 0
    BY <1>11 DEF Restart, TypeInv
  <2>2. LaneInv'
    BY <2>1, Zenon DEF LaneInv
  <2>3. SoleInv'
    BY <2>1, Zenon DEF SoleInv
  <2> QED BY <2>2, <2>3
<1>12. CASE Advance \/ UNCHANGED vars
  BY <1>12, LowSame DEF Advance, bounds, vars
<1> QED BY <1>1, <1>6, <1>8, <1>9, <1>10, <1>11, <1>12 DEF Next

\* No clock a cluster holds is ahead of the counter of the node a lane stands
\* for, until a node restarts: neither the two halves of Tick nor the merges of
\* several goroutines invent a timestamp (clock.go 29-55).
THEOREM LanesBounded == Spec => []LaneBound
<1>1. Init => TypeInv /\ LaneInv /\ SoleInv
  BY TypeInit, LaneInit
<1>2. TypeInv /\ LaneInv /\ SoleInv /\ [Next]_vars => (TypeInv /\ LaneInv /\ SoleInv)'
  BY TypeStep, LaneStep
<1>3. TypeInv /\ LaneInv /\ SoleInv => LaneBound
  BY LaneInvSuffices
<1> QED BY <1>1, <1>2, <1>3, PTL DEF Spec

----------------------------------------------------------------------------
(* Causal order *)

\* A write of a node has a lane of that node no stored entry has.
LEMMA OwnWriteAhead ==
  ASSUME TypeInv, SoleInv, restarts = 0, OneCallerPerNode, NEW p \in Proc, op[p].pc = "store",
         NEW k \in Key, data[setup.home[p]][k] # None
  PROVE  Ahead(op[p].entry.Clock.Vector, data[setup.home[p]][k].Clock.Vector)
<1> DEFINE n == setup.home[p]
           e == data[n][k]
<1>1. n \in Node /\ op[p].ts \in Nat /\ e \in MaybeEntry
  BY SetupFields, OpAt, EntryAt
<1>2. Busy(op[p])
  BY DEF Busy
<1>3. Low(n, op[p].ts - 1, data, op, net, Proc \ {p}) /\ op[p].entry.Clock.Vector[n] = op[p].ts
  BY <1>2 DEF SoleInv
<1>4. e.Clock.Vector[n] <= op[p].ts - 1 /\ e.Clock.Vector[n] \in Nat
  BY <1>1, <1>3, LaneIsNat DEF Low, LowEntry
<1>5. op[p].entry.Clock.Vector[n] > e.Clock.Vector[n]
  BY <1>1, <1>3, <1>4
<1> QED BY <1>1, <1>5 DEF Ahead

LEMMA RegressStep ==
  ASSUME TypeInv, SoleInv, [Next]_vars, restarts = 0, OneCallerPerNode,
         NEW n \in Node, NEW k \in Key, data[n][k] # None, data'[n][k] # None
  PROVE  ~Dominates(data[n][k].Clock.Vector, data'[n][k].Clock.Vector)
<1> DEFINE Fine == ~Dominates(data[n][k].Clock.Vector, data'[n][k].Clock.Vector)
<1>1. data'[n][k].Clock.Vector = data[n][k].Clock.Vector => Fine
  BY DEF Dominates
<1>2. data' = data => Fine
  BY <1>1
<1>3. ASSUME NEW p \in Proc, SetStore(p) \/ LockedStore(p) PROVE Fine
  <2>1. data' = [data EXCEPT ![setup.home[p]][op[p].key] = op[p].entry] /\ op[p].pc = "store"
    BY <1>3 DEF SetStore, LockedStore
  <2>2. CASE n = setup.home[p] /\ k = op[p].key
    <3>1. data'[n][k] = op[p].entry
      BY <2>1, <2>2 DEF TypeInv, Row
    <3>2. Ahead(op[p].entry.Clock.Vector, data[n][k].Clock.Vector)
      BY <2>1, <2>2, OwnWriteAhead
    <3> QED BY <3>1, <3>2 DEF Dominates
  <2>3. CASE ~(n = setup.home[p] /\ k = op[p].key)
    <3>1. data'[n][k] = data[n][k]
      BY <2>1, <2>3 DEF TypeInv, Row
    <3> QED BY <1>1, <3>1
  <2> QED BY <2>2, <2>3
<1>4. ASSUME \A i \in Node, j \in Key : data'[i][j] \in {data[i][j], None} PROVE Fine
  BY <1>1, <1>4
<1>5. ASSUME NEW p \in Proc, GetEvict(p) PROVE Fine
  <2>1. \A i \in Node, j \in Key : data'[i][j] \in {data[i][j], None}
    BY <1>5 DEF GetEvict, TypeInv, Row
  <2> QED BY <1>4, <2>1
<1>6. ASSUME NEW p \in Proc, ProcStep(p) PROVE Fine
  <2>1. CASE EndTick(p) \/ Sync(p) \/ GetCheck(p)
    BY <1>2, <2>1 DEF EndTick, Sync, GetCheck
  <2> HIDE DEF Fine
  <2> QED BY <1>3, <1>5, <1>6, <2>1 DEF ProcStep
<1>7. ASSUME NEW p \in Proc, NEW j \in Key, NEW ttl \in TTL, Expire(p, j, ttl) PROVE Fine
  <2> DEFINE i == setup.home[p]
  <2>1. PICK e \in Entry :
          /\ e.Clock = data[i][j].Clock /\ data' = [data EXCEPT ![i][j] = e]
          /\ op' \in [Proc -> Op]
          /\ \A q \in Proc : \/ op'[q] = op[q]
                             \/ /\ op[q].entry = data[i][j]
                                /\ op'[q] = [op[q] EXCEPT !.entry = e]
    BY <1>7, ExpireIs
  <2>2. data'[n][k].Clock = data[n][k].Clock
    BY <2>1 DEF TypeInv, Row
  <2> QED BY <1>1, <2>2
<1>8. ASSUME NEW p \in Proc, (\E j \in Key : DeleteStore(p, j)) \/ Flush(p) PROVE Fine
  <2>1. \A i \in Node, j \in Key : data'[i][j] \in {data[i][j], None}
    <3>1. CASE \E j \in Key : DeleteStore(p, j)
      BY <3>1 DEF DeleteStore, TypeInv, Row
    <3>2. CASE Flush(p)
      BY <3>2 DEF Flush, TypeInv, Row
    <3> QED BY <1>8, <3>1, <3>2
  <2> QED BY <1>4, <2>1
<1>9. ASSUME NEW p \in Proc, CallStep(p) PROVE Fine
  <2>1. CASE \E j \in Key, ttl \in TTL : Expire(p, j, ttl)
    BY <1>7, <2>1
  <2>2. CASE (\E j \in Key : DeleteStore(p, j)) \/ Flush(p)
    BY <1>8, <2>2
  <2>3. CASE data' = data
    BY <1>2, <2>3
  <2> HIDE DEF Fine
  <2> QED BY <1>9, <2>1, <2>2, <2>3 DEF CallStep, SetBegin, GetRead, IncrBegin, CasBegin
<1>10. ASSUME NEW d \in net, RemoteApply(d) PROVE Fine
  <2>1. CASE n = d.dst /\ k = d.Key /\ RemoteWins(data[n][k], d.entry.Clock)
    <3>1. data'[n][k] = d.entry
      BY <1>10, <2>1 DEF RemoteApply, TypeInv, Row
    <3>2. ~Dominates(data[n][k].Clock.Vector, d.entry.Clock.Vector)
      BY <2>1 DEF RemoteWins, After
    <3> QED BY <3>1, <3>2
  <2>2. CASE ~(n = d.dst /\ k = d.Key /\ RemoteWins(data[n][k], d.entry.Clock))
    <3>1. data'[n][k] = data[n][k]
      BY <1>10, <2>2 DEF RemoteApply, TypeInv, Row
    <3> QED BY <1>1, <3>1
  <2> QED BY <2>1, <2>2
<1>11. ASSUME NEW d \in net, Deliver(d) PROVE Fine
  <2>1. CASE RemoteDelete(d)
    <3>1. \A i \in Node, j \in Key : data'[i][j] \in {data[i][j], None}
      BY <2>1 DEF RemoteDelete, TypeInv, Row
    <3> QED BY <1>4, <3>1
  <2>2. CASE RemoteMerge(d)
    BY <1>2, <2>2 DEF RemoteMerge
  <2> HIDE DEF Fine
  <2> QED BY <1>10, <1>11, <2>1, <2>2 DEF Deliver
<1>12. ASSUME NEW i \in Node, Evict(i) \/ Restart(i) PROVE Fine
  <2>1. \A m \in Node, j \in Key : data'[m][j] \in {data[m][j], None}
    BY <1>12 DEF Evict, Restart, TypeInv, Row
  <2> QED BY <1>4, <2>1
<1>13. ASSUME NEW i \in Node, NEW m \in Node, Connect(i, m) \/ Disconnect(i, m) PROVE Fine
  BY <1>2, <1>13 DEF Connect, Disconnect
<1>14. ASSUME Advance \/ UNCHANGED vars PROVE Fine
  BY <1>2, <1>14 DEF Advance, vars
<1> HIDE DEF Fine
<1>15. Fine
  BY <1>6, <1>9, <1>11, <1>12, <1>13, <1>14 DEF Next
<1> QED BY <1>15 DEF Fine

\* In a cluster whose nodes write from one goroutine each, and as long as none
\* was restarted, no store ever replaces an entry by one that happened before it,
\* whatever the transport reorders, drops or delivers late (clock.go 76-113,
\* store.go 415-427).
THEOREM NoRegress == Spec => NoCausalRegress
<1>1. Init => TypeInv /\ LaneInv /\ SoleInv
  BY TypeInit, LaneInit
<1>2. TypeInv /\ LaneInv /\ SoleInv /\ [Next]_vars => (TypeInv /\ LaneInv /\ SoleInv)'
  BY TypeStep, LaneStep
<1>3. TypeInv /\ LaneInv /\ SoleInv /\ [Next]_vars =>
        [\A n \in Node, k \in Key :
           restarts = 0 /\ OneCallerPerNode /\ data[n][k] # None /\ data'[n][k] # None =>
             ~Dominates(data[n][k].Clock.Vector, data'[n][k].Clock.Vector)]_vars
  BY RegressStep
<1> QED BY <1>1, <1>2, <1>3, PTL DEF Spec, NoCausalRegress

----------------------------------------------------------------------------
(* Convergence over gossip *)

\* The conditions of SingleWriter, with the goroutine that writes.
OverGossip(w) ==
  /\ setup.callers = {w} /\ setup.connected /\ drops = 0 /\ restarts = 0
  /\ setup.transport = "gossip" /\ setup.calls \subseteq {"set", "get"} /\ NothingExpired

\* No TTL a caller passes can end e before it would end NothingExpired.
Lasting(e) == e.ExpiresAt = 0 \/ \E ttl \in TTL \ {0} : e.ExpiresAt >= ttl

\* Node h alone wrote: the clock of e has the lane of h only.
WrittenBy(h, e) ==
  /\ e.Clock.NodeID = h /\ e.Clock.TS = e.Clock.Vector[h]
  /\ \A m \in Node \ {h} : e.Clock.Vector[m] = 0
  /\ Lasting(e)

NotNewer(x, e) == e # None /\ (x = e \/ x.Clock.TS < e.Clock.TS)

\* Every entry, stored or under way, is one the writer's node h wrote, and h
\* itself receives nothing.
OwnEntries(h) ==
  /\ \A d \in net : d.Type = "set" /\ d.dst # h /\ WrittenBy(h, d.entry)
  /\ \A n \in Node, k \in Key : data[n][k] # None => WrittenBy(h, data[n][k])

OwnCall(h, o, row) ==
  /\ o.call \in {"none", "set", "get"}
  /\ o.pc = "stamp" => o.ttl \in TTL
  /\ o.pc = "store" => WrittenBy(h, o.entry)
  /\ o.pc = "sync" => o.entry = row[o.key]

\* What h holds is the newest: what the peers hold, and what is under way, is it
\* or older.
HomeNewest(h) ==
  /\ \A m \in Node, k \in Key : data[m][k] # None => NotNewer(data[m][k], data[h][k])
  /\ \A d \in net : NotNewer(d.entry, data[h][d.Key])

\* A peer has what h holds, or will be told, unless w is about to broadcast it.
Told(w, h) ==
  \A m \in Node, k \in Key :
    data[h][k] # None /\ m # h /\ ~(op[w].pc = "sync" /\ op[w].key = k) =>
      \/ data[m][k] = data[h][k]
      \/ \E d \in net : d.dst = m /\ d.Key = k /\ d.entry = data[h][k]

GossipInv(w) ==
  LET h == setup.home[w] IN
  /\ conns = {c \in Node \X Node : c[1] # c[2]}
  /\ \A m \in Node \ {h} : vc[h].clocks[m] = 0
  /\ OwnEntries(h)
  /\ OwnCall(h, op[w], data[h])
  /\ HomeNewest(h)
  /\ Told(w, h)

\* Of two entries h wrote the one with the later timestamp wins.
LEMMA OwnOrder ==
  ASSUME NEW h \in Node, NEW x \in Entry, NEW y \in Entry, WrittenBy(h, x), WrittenBy(h, y)
  PROVE  After(x.Clock, y.Clock) <=> x.Clock.TS > y.Clock.TS
<1> DEFINE a == x.Clock
           b == y.Clock
<1>1. a \in ClockValue /\ b \in ClockValue
  BY DEF Entry
<1>2. a.TS \in Nat /\ b.TS \in Nat /\ a.Vector \in Vector /\ b.Vector \in Vector
  BY <1>1, ClockValueFields
<1>3. /\ a.NodeID = h /\ a.TS = a.Vector[h] /\ \A m \in Node \ {h} : a.Vector[m] = 0
      /\ b.NodeID = h /\ b.TS = b.Vector[h] /\ \A m \in Node \ {h} : b.Vector[m] = 0
  BY DEF WrittenBy
<1> HIDE DEF a, b
<1>4. Ahead(a.Vector, b.Vector) <=> a.TS > b.TS
  BY <1>2, <1>3 DEF Ahead
<1>5. Ahead(b.Vector, a.Vector) <=> b.TS > a.TS
  BY <1>2, <1>3 DEF Ahead
<1>6. TieBreak(a, b) <=> a.TS > b.TS
  <2>1. ~(a.NodeID > b.NodeID)
    BY <1>3, NodeAssumption
  <2> QED BY <2>1 DEF TieBreak
<1>7. After(a, b) <=> a.TS > b.TS
  BY <1>2, <1>4, <1>5, <1>6 DEF After, Dominates
<1> QED BY <1>7 DEF a, b

\* While no TTL has run out, nothing of what h wrote has.
LEMMA NoneExpires ==
  ASSUME TypeInv, NothingExpired, NEW e \in Entry, Lasting(e)
  PROVE  ~Expired(e, now)
<1>1. now \in Nat /\ e.ExpiresAt \in Nat
  BY DEF TypeInv, Entry
<1>2. CASE e.ExpiresAt = 0
  BY <1>2 DEF Expired
<1>3. ASSUME NEW ttl \in TTL \ {0}, e.ExpiresAt >= ttl PROVE ~Expired(e, now)
  <2>1. now <= ttl /\ ttl \in Nat
    BY MemoryAssumption DEF NothingExpired
  <2> QED BY <1>1, <1>3, <2>1 DEF Expired
<1> QED BY <1>2, <1>3 DEF Lasting

\* Only w is ever in a call.
LEMMA SoleCaller ==
  ASSUME TypeInv, NEW w \in Proc, setup.callers = {w}, NEW p \in Proc, op[p].pc # "idle"
  PROVE  p = w
BY OpAt

\* A step that stores and sends nothing, and neither begins nor ends a broadcast.
LEMMA GossipSame ==
  ASSUME TypeInv, NEW w \in Proc, GossipInv(w), UNCHANGED <<setup, data, net, conns>>,
         \A m \in Node \ {setup.home[w]} : vc'[setup.home[w]].clocks[m] = vc[setup.home[w]].clocks[m],
         op'[w].pc # "sync", op[w].pc # "sync",
         OwnCall(setup.home[w], op'[w], data[setup.home[w]])
  PROVE  GossipInv(w)'
<1> DEFINE h == setup.home[w]
<1>1. OwnEntries(h)'
  BY DEF OwnEntries, GossipInv
<1>2. HomeNewest(h)'
  BY DEF HomeNewest, GossipInv
<1>3. Told(w, h)'
  BY DEF Told, GossipInv
<1> QED BY <1>1, <1>2, <1>3 DEF GossipInv

LEMMA IdleCall == ASSUME NEW h, NEW row PROVE OwnCall(h, IdleOp, row)
BY DEF OwnCall, IdleOp

LEMMA SetBeginGossip ==
  ASSUME TypeInv, NEW w \in Proc, GossipInv(w), NEW k \in Key, NEW v \in Val, NEW ttl \in TTL,
         SetBegin(w, k, v, ttl)
  PROVE  GossipInv(w)'
<1> DEFINE h == setup.home[w]
           o == [pc |-> "stamp", call |-> "set", key |-> k, val |-> v, ttl |-> ttl,
                 ts |-> vc[h].localTS + 1, entry |-> None, basis |-> None]
<1>1. op' = [op EXCEPT ![w] = o] /\ op[w].pc = "idle" /\ vc' = [vc EXCEPT ![h] = TickAdd(@)]
  BY DEF SetBegin, DrawTimestamp, Call
<1>2. h \in Node /\ vc[h] \in Clock
  BY SetupFields, ClockAt
<1>3. vc'[h].clocks = vc[h].clocks
  BY <1>1, <1>2 DEF TypeInv, TickAdd, Clock
<1>4. OwnCall(h, o, data[h]) /\ o.pc = "stamp"
  BY DEF OwnCall
<1> HIDE DEF o
<1>5. op'[w] = o
  BY <1>1, OpMoved
<1> QED BY <1>1, <1>3, <1>4, <1>5, GossipSame DEF SetBegin, Call

LEMMA GetGossip ==
  ASSUME TypeInv, NEW w \in Proc, GossipInv(w), (\E k \in Key : GetRead(w, k)) \/ GetCheck(w)
  PROVE  GossipInv(w)'
<1> DEFINE h == setup.home[w]
<1>1. ASSUME NEW k \in Key, GetRead(w, k) PROVE GossipInv(w)'
  <2> DEFINE o == [IdleOp EXCEPT !.pc = "got", !.call = "get", !.key = k, !.entry = data[h][k]]
  <2>1. OwnCall(h, o, data[h]) /\ o.pc = "got"
    BY DEF OwnCall, IdleOp
  <2>2. op' = [op EXCEPT ![w] = o] /\ op[w].pc = "idle"
    BY <1>1 DEF GetRead, Call
  <2> HIDE DEF o
  <2>3. op'[w] = o
    BY <2>2, OpMoved
  <2> QED BY <1>1, <2>1, <2>2, <2>3, GossipSame DEF GetRead, Call
<1>2. ASSUME GetCheck(w) PROVE GossipInv(w)'
  <2> DEFINE o == [op[w] EXCEPT !.pc = "evict"]
             z == IF Expired(op[w].entry, now) THEN o ELSE IdleOp
  <2>1. op[w] \in Op /\ OwnCall(h, op[w], data[h])
    BY OpAt DEF GossipInv
  <2>2. OwnCall(h, o, data[h]) /\ o.pc = "evict"
    BY <2>1 DEF OwnCall, Op
  <2>3. op' = [op EXCEPT ![w] = z] /\ op[w].pc = "got"
    BY <1>2 DEF GetCheck
  <2> HIDE DEF o
  <2>4. OwnCall(h, z, data[h]) /\ z.pc # "sync"
    BY <2>2, IdleCall, IdleIs
  <2> HIDE DEF z
  <2>5. op'[w] = z
    BY <2>3, OpMoved
  <2> QED BY <1>2, <2>3, <2>4, <2>5, GossipSame DEF GetCheck, bounds
<1> QED BY <1>1, <1>2

\* The entry Tick ends with: the lane of h is the timestamp, the others are 0.
LEMMA EndTickGossip ==
  ASSUME TypeInv, NEW w \in Proc, GossipInv(w), EndTick(w)
  PROVE  GossipInv(w)'
<1> DEFINE h == setup.home[w]
           sv == TickStamp(h, vc[h], op[w].ts)
           cv == Stamped(h, sv, op[w].ts)
           e == [Value |-> op[w].val, ExpiresAt |-> Deadline(op[w].ttl), Clock |-> cv]
           o == [op[w] EXCEPT !.pc = "store", !.entry = e]
<1>1. h \in Node /\ op[w] \in Op /\ op[w].pc = "stamp" /\ op[w].ts \in Nat
  BY SetupFields, OpAt DEF EndTick
<1>2. vc[h] \in Clock /\ vc[h].clocks \in Vector /\ op[w].ttl \in TTL /\ now \in Nat
  BY <1>1, ClockAt DEF GossipInv, OwnCall, TypeInv
<1>3. sv.clocks[h] = op[w].ts /\ \A m \in Node \ {h} : sv.clocks[m] = vc[h].clocks[m]
  BY <1>1, <1>2 DEF TickStamp, Clock, Vector
<1>4. vc' = [vc EXCEPT ![h] = sv] /\ op' = [op EXCEPT ![w].pc = "store", ![w].entry = e]
  BY DEF EndTick
<1>5. vc'[h] = sv
  BY <1>1, <1>4 DEF TypeInv
<1>6. cv.NodeID = h /\ cv.TS = op[w].ts /\ cv.Vector = sv.clocks
  BY DEF Stamped
<1>7. \A m \in Node \ {h} : sv.clocks[m] = 0
  BY <1>3 DEF GossipInv
<1> HIDE DEF sv
<1> HIDE DEF cv
<1>8. e.Clock = cv /\ e.ExpiresAt = Deadline(op[w].ttl)
  OBVIOUS
<1>9. Lasting(e)
  <2>1. op[w].ttl \in Nat
    BY <1>2, MemoryAssumption
  <2>2. CASE op[w].ttl = 0
    <3>1. e.ExpiresAt = 0
      BY <1>8, <2>2 DEF Deadline
    <3> QED BY <3>1 DEF Lasting
  <2>3. CASE op[w].ttl # 0
    <3>1. e.ExpiresAt >= op[w].ttl
      BY <1>2, <1>8, <2>1, <2>3 DEF Deadline
    <3> QED BY <1>2, <2>3, <3>1 DEF Lasting
  <2> QED BY <2>2, <2>3
<1> HIDE DEF e
<1>10. WrittenBy(h, e)
  BY <1>1, <1>3, <1>6, <1>7, <1>8, <1>9 DEF WrittenBy
<1>11. op' = [op EXCEPT ![w] = o]
  BY <1>4 DEF TypeInv, OpsGood
<1>12. OwnCall(h, o, data[h]) /\ o.pc = "store"
  BY <1>1, <1>10 DEF GossipInv, OwnCall, Op
<1> HIDE DEF o
<1>13. op'[w] = o
  BY <1>11, OpMoved
<1> QED BY <1>1, <1>3, <1>5, <1>12, <1>13, GossipSame DEF EndTick, bounds

\* The write of w is newer than everything: it replaces what h holds.
LEMMA SetStoreGossip ==
  ASSUME TypeInv, SoleInv, NEW w \in Proc, OverGossip(w), GossipInv(w), SetStore(w)
  PROVE  GossipInv(w)'
<1> DEFINE h == setup.home[w]
           j == op[w].key
           e == op[w].entry
           o == [op[w] EXCEPT !.pc = "sync"]
<1>1. h \in Node /\ op[w] \in Op /\ OpOK(op[w]) /\ op[w].pc = "store" /\ op[w].call = "set"
  BY SetupFields, OpAt DEF SetStore
<1>2. j \in Key /\ e \in Entry /\ e # None /\ WrittenBy(h, e)
  BY <1>1, NoneAssumption DEF OpOK, GossipInv, OwnCall
<1>3. op[w].ts \in Nat /\ e.Clock.TS = op[w].ts /\ Low(h, op[w].ts - 1, data, op, net, Proc \ {w})
  <2>1. OneCallerPerNode /\ restarts = 0 /\ Busy(op[w])
    BY <1>1 DEF OverGossip, OneCallerPerNode, Busy
  <2>2. e.Clock.Vector[h] = op[w].ts /\ Low(h, op[w].ts - 1, data, op, net, Proc \ {w})
    BY <1>1, <2>1 DEF SoleInv
  <2> QED BY <1>2, <2>2, OpAt DEF WrittenBy
<1>4. ASSUME NEW x \in Entry, WrittenBy(h, x), LowEntry(x, h, op[w].ts - 1) PROVE NotNewer(x, e)
  <2>1. x # None /\ x \in MaybeEntry
    BY NoneAssumption DEF MaybeEntry
  <2>2. x.Clock.TS <= op[w].ts - 1 /\ x.Clock.TS \in Nat
    BY <1>1, <1>4, <2>1, LaneIsNat DEF LowEntry, WrittenBy
  <2> QED BY <1>2, <1>3, <2>2 DEF NotNewer
<1>5. /\ \A n \in Node, k \in Key : data'[n][k] = IF n = h /\ k = j THEN e ELSE data[n][k]
      /\ UNCHANGED <<setup, vc, net, conns>>
  BY <1>1, <1>2 DEF SetStore, TypeInv, Row, bounds
<1>6. op'[w] = o
  <2>1. op' = [op EXCEPT ![w] = o]
    BY DEF SetStore, TypeInv, OpsGood
  <2> HIDE DEF o
  <2> QED BY <2>1, OpMoved
<1>7. o.pc = "sync" /\ o.key = j /\ o.entry = e /\ o.call = "set"
  BY <1>1 DEF Op
<1> HIDE DEF o
<1>8. OwnEntries(h)'
  <2>1. \A n \in Node, k \in Key : data'[n][k] # None => WrittenBy(h, data'[n][k])
    BY <1>2, <1>5 DEF GossipInv, OwnEntries
  <2> QED BY <1>5, <2>1 DEF GossipInv, OwnEntries
<1>9. OwnCall(h, op'[w], data'[h])
  BY <1>1, <1>2, <1>5, <1>6, <1>7 DEF OwnCall
<1>10. HomeNewest(h)'
  <2>1. ASSUME NEW m \in Node, NEW k \in Key, data'[m][k] # None
        PROVE  NotNewer(data'[m][k], data'[h][k])
    <3>1. CASE k # j
      <4>1. data'[m][k] = data[m][k] /\ data'[h][k] = data[h][k]
        BY <1>1, <1>5, <3>1
      <4> QED BY <2>1, <4>1 DEF GossipInv, HomeNewest
    <3>2. CASE k = j /\ m = h
      BY <1>1, <1>2, <1>5, <3>2 DEF NotNewer
    <3>3. CASE k = j /\ m # h
      <4>1. data'[m][k] = data[m][k] /\ data'[h][k] = e
        BY <1>1, <1>5, <3>3
      <4>2. data[m][k] \in Entry /\ WrittenBy(h, data[m][k])
        BY <2>1, <4>1, EntryAt DEF GossipInv, OwnEntries, MaybeEntry
      <4>3. LowEntry(data[m][k], h, op[w].ts - 1)
        BY <1>3 DEF Low
      <4> QED BY <1>4, <4>1, <4>2, <4>3
    <3> QED BY <3>1, <3>2, <3>3
  <2>2. ASSUME NEW d \in net PROVE NotNewer(d.entry, data'[h][d.Key])
    <3>1. d.Type = "set" /\ WrittenBy(h, d.entry)
      BY DEF GossipInv, OwnEntries
    <3>2. d.Key \in Key /\ d.entry \in Entry
      BY <3>1, DeltaAt
    <3>3. CASE d.Key # j
      BY <1>1, <1>5, <3>2, <3>3 DEF GossipInv, HomeNewest
    <3>4. CASE d.Key = j
      <4>1. LowEntry(d.entry, h, op[w].ts - 1)
        BY <1>3 DEF Low
      <4> QED BY <1>1, <1>2, <1>4, <1>5, <3>1, <3>2, <3>4, <4>1
    <3> QED BY <3>3, <3>4
  <2> QED BY <1>5, <2>1, <2>2 DEF HomeNewest
<1>11. Told(w, h)'
  <2> SUFFICES ASSUME NEW m \in Node, NEW k \in Key, data'[h][k] # None, m # h,
                      ~(op'[w].pc = "sync" /\ op'[w].key = k)
               PROVE  \/ data'[m][k] = data'[h][k]
                      \/ \E d \in net : d.dst = m /\ d.Key = k /\ d.entry = data'[h][k]
    BY <1>5 DEF Told
  <2>1. k # j
    BY <1>6, <1>7
  <2>2. data'[m][k] = data[m][k] /\ data'[h][k] = data[h][k]
    BY <1>1, <1>5, <2>1
  <2> QED BY <1>1, <2>2 DEF GossipInv, Told
<1> QED BY <1>5, <1>8, <1>9, <1>10, <1>11 DEF GossipInv

\* The broadcast reaches every peer, none of which is h.
LEMMA SyncGossip ==
  ASSUME TypeInv, NEW w \in Proc, OverGossip(w), GossipInv(w), Sync(w)
  PROVE  GossipInv(w)'
<1> DEFINE h == setup.home[w]
           j == op[w].key
           e == op[w].entry
           D(m) == [id |-> sent + 1, src |-> h, dst |-> m, Type |-> op[w].call, Key |-> j,
                    entry |-> Wire(e), merged |-> FALSE]
<1>1. h \in Node /\ op[w] \in Op /\ OpOK(op[w]) /\ op[w].pc = "sync"
  BY SetupFields, OpAt DEF Sync
<1>2. op[w].call = "set" /\ j \in Key /\ e \in Entry /\ e # None /\ e = data[h][j]
  BY <1>1, NoneAssumption DEF OpOK, GossipInv, OwnCall
<1>3. Wire(e) = e
  BY DEF Wire, OverGossip
<1>4. Receivers(h) = Node \ {h}
  BY <1>1 DEF Receivers, OverGossip, GossipInv
<1>5. net' = net \cup {D(m) : m \in Node \ {h}}
  BY <1>4 DEF Sync, Broadcast
<1>6. op'[w] = IdleOp /\ UNCHANGED <<setup, vc, data, conns>>
  BY OpMoved DEF Sync, bounds
<1>7. \A m \in Node : D(m).dst = m /\ D(m).Key = j /\ D(m).entry = e /\ D(m).Type = "set"
  BY <1>2, <1>3
<1> HIDE DEF D
<1>8. WrittenBy(h, e)
  BY <1>1, <1>2 DEF GossipInv, OwnEntries
<1>9. OwnEntries(h)'
  <2>1. \A d \in net' : d.Type = "set" /\ d.dst # h /\ WrittenBy(h, d.entry)
    BY <1>5, <1>7, <1>8 DEF GossipInv, OwnEntries
  <2> QED BY <1>6, <2>1 DEF GossipInv, OwnEntries
<1>10. HomeNewest(h)'
  <2>1. NotNewer(e, data[h][j])
    BY <1>2 DEF NotNewer
  <2>2. \A d \in net' : NotNewer(d.entry, data[h][d.Key])
    BY <1>5, <1>7, <2>1 DEF GossipInv, HomeNewest
  <2> QED BY <1>6, <2>2 DEF GossipInv, HomeNewest
<1>11. Told(w, h)'
  <2> SUFFICES ASSUME NEW m \in Node, NEW k \in Key, data[h][k] # None, m # h
               PROVE  \/ data[m][k] = data[h][k]
                      \/ \E d \in net' : d.dst = m /\ d.Key = k /\ d.entry = data[h][k]
    BY <1>6 DEF Told
  <2>1. CASE k = j
    BY <1>2, <1>5, <1>7, <2>1
  <2>2. CASE k # j
    <3>1. \/ data[m][k] = data[h][k]
          \/ \E d \in net : d.dst = m /\ d.Key = k /\ d.entry = data[h][k]
      BY <2>2 DEF GossipInv, Told
    <3> QED BY <1>5, <3>1
  <2> QED BY <2>1, <2>2
<1> QED BY <1>6, <1>9, <1>10, <1>11, IdleCall DEF GossipInv

LEMMA RemoteMergeGossip ==
  ASSUME TypeInv, NEW w \in Proc, GossipInv(w), NEW d \in net, RemoteMerge(d)
  PROVE  GossipInv(w)'
<1> DEFINE h == setup.home[w]
           f == [d EXCEPT !.merged = TRUE]
<1>1. d \in Delta /\ d.dst # h /\ h \in Node
  BY DeltaAt, SetupFields DEF GossipInv, OwnEntries
<1>2. f.dst = d.dst /\ f.Key = d.Key /\ f.entry = d.entry /\ f.Type = d.Type
  BY <1>1 DEF Delta
<1>3. net' = (net \ {d}) \cup {f} /\ UNCHANGED <<setup, data, op, conns>>
  BY DEF RemoteMerge, bounds
<1> HIDE DEF f
<1>4. vc'[h] = vc[h]
  BY <1>1 DEF RemoteMerge, TypeInv
<1>5. OwnEntries(h)'
  BY <1>2, <1>3 DEF GossipInv, OwnEntries
<1>6. HomeNewest(h)'
  BY <1>2, <1>3 DEF GossipInv, HomeNewest
<1>7. Told(w, h)'
  <2> SUFFICES ASSUME NEW m \in Node, NEW k \in Key, data[h][k] # None, m # h,
                      ~(op[w].pc = "sync" /\ op[w].key = k)
               PROVE  \/ data[m][k] = data[h][k]
                      \/ \E g \in net' : g.dst = m /\ g.Key = k /\ g.entry = data[h][k]
    BY <1>3 DEF Told
  <2>1. \/ data[m][k] = data[h][k]
        \/ \E g \in net : g.dst = m /\ g.Key = k /\ g.entry = data[h][k]
    BY DEF GossipInv, Told
  <2> QED BY <1>2, <1>3, <2>1
<1> QED BY <1>3, <1>4, <1>5, <1>6, <1>7 DEF GossipInv

\* The delta is what h holds, and then the peer has it, or older than that, and
\* then it displaces nothing newer.
LEMMA RemoteApplyGossip ==
  ASSUME TypeInv, NEW w \in Proc, GossipInv(w), NEW d \in net, RemoteApply(d)
  PROVE  GossipInv(w)'
<1> DEFINE h == setup.home[w]
           n == d.dst
           j == d.Key
           x == IF RemoteWins(data[n][j], d.entry.Clock) THEN d.entry ELSE data[n][j]
<1>1. /\ d \in Delta /\ n \in Node /\ j \in Key /\ d.entry \in Entry /\ h \in Node /\ n # h
      /\ WrittenBy(h, d.entry) /\ NotNewer(d.entry, data[h][j]) /\ d.entry # None
  BY DeltaAt, SetupFields, NoneAssumption DEF GossipInv, OwnEntries, HomeNewest, RemoteApply
<1>2. /\ \A i \in Node, k \in Key : data'[i][k] = IF i = n /\ k = j THEN x ELSE data[i][k]
      /\ net' = net \ {d} /\ UNCHANGED <<setup, vc, op, conns>>
  <2>1. data' = [data EXCEPT ![n][j] = x]
    BY <1>1 DEF RemoteApply, TypeInv, Row
  <2> HIDE DEF x
  <2> QED BY <1>1, <2>1 DEF RemoteApply, TypeInv, Row, bounds
<1>3. data'[h] = data[h]
  BY <1>1 DEF RemoteApply, TypeInv
<1>4. data[n][j] # None => data[n][j] \in Entry /\ WrittenBy(h, data[n][j]) /\ NotNewer(data[n][j], data[h][j])
  BY <1>1, EntryAt DEF GossipInv, OwnEntries, HomeNewest, MaybeEntry
<1>5. data[h][j] \in Entry /\ WrittenBy(h, data[h][j])
  BY <1>1, EntryAt DEF NotNewer, MaybeEntry, GossipInv, OwnEntries
<1>6. x \in {d.entry, data[n][j]} /\ x # None /\ WrittenBy(h, x) /\ NotNewer(x, data[h][j])
  BY <1>1, <1>4 DEF RemoteWins
<1>7. d.entry = data[h][j] => x = data[h][j]
  <2> SUFFICES ASSUME d.entry = data[h][j], ~RemoteWins(data[n][j], d.entry.Clock)
               PROVE  data[n][j] = data[h][j]
    OBVIOUS
  <2>1. data[n][j] # None /\ After(data[n][j].Clock, d.entry.Clock)
    BY DEF RemoteWins
  <2>2. data[n][j].Clock.TS > d.entry.Clock.TS
    BY <1>1, <1>4, <2>1, OwnOrder
  <2>3. data[n][j].Clock.TS \in Nat /\ d.entry.Clock.TS \in Nat
    BY <1>1, <1>4, <2>1, ClockValueFields DEF Entry
  <2> QED BY <1>4, <2>1, <2>2, <2>3 DEF NotNewer
<1>8. data[n][j] = data[h][j] => x = data[h][j]
  <2> SUFFICES ASSUME data[n][j] = data[h][j], RemoteWins(data[n][j], d.entry.Clock), d.entry # data[h][j]
               PROVE  FALSE
    OBVIOUS
  <2>1. d.entry.Clock.TS < data[h][j].Clock.TS
    BY <1>1 DEF NotNewer
  <2>2. d.entry.Clock.TS \in Nat /\ data[h][j].Clock.TS \in Nat
    BY <1>1, <1>5, ClockValueFields DEF Entry
  <2>3. After(data[h][j].Clock, d.entry.Clock)
    BY <1>1, <1>5, <2>1, <2>2, OwnOrder
  <2> QED BY <1>5, <2>3, NoneAssumption DEF RemoteWins
<1> HIDE DEF x
<1>9. OwnEntries(h)'
  <2>1. \A i \in Node, k \in Key : data'[i][k] # None => WrittenBy(h, data'[i][k])
    BY <1>2, <1>6 DEF GossipInv, OwnEntries
  <2> QED BY <1>2, <2>1 DEF GossipInv, OwnEntries
<1>10. HomeNewest(h)'
  <2>1. \A i \in Node, k \in Key : data'[i][k] # None => NotNewer(data'[i][k], data'[h][k])
    BY <1>2, <1>3, <1>6 DEF GossipInv, HomeNewest
  <2> QED BY <1>2, <1>3, <2>1 DEF GossipInv, HomeNewest
<1>11. Told(w, h)'
  <2> SUFFICES ASSUME NEW m \in Node, NEW k \in Key, data[h][k] # None, m # h,
                      ~(op[w].pc = "sync" /\ op[w].key = k)
               PROVE  \/ data'[m][k] = data[h][k]
                      \/ \E g \in net' : g.dst = m /\ g.Key = k /\ g.entry = data[h][k]
    BY <1>2, <1>3 DEF Told
  <2>1. \/ data[m][k] = data[h][k]
        \/ \E g \in net : g.dst = m /\ g.Key = k /\ g.entry = data[h][k]
    BY DEF GossipInv, Told
  <2>2. CASE m = n /\ k = j
    BY <1>2, <1>7, <1>8, <2>1, <2>2
  <2>3. CASE ~(m = n /\ k = j)
    BY <1>2, <2>1, <2>3
  <2> QED BY <2>2, <2>3
<1> QED BY <1>2, <1>3, <1>9, <1>10, <1>11 DEF GossipInv

\* Nothing is ever evicted.
LEMMA EvictGossip ==
  ASSUME TypeInv, NEW w \in Proc, OverGossip(w), GossipInv(w)
  PROVE  /\ \A n \in Node : ~Evict(n)
         /\ GetEvict(w) => GossipInv(w)'
<1>1. \A n \in Node, k \in Key : data[n][k] # None => data[n][k] \in Entry /\ ~Expired(data[n][k], now)
  BY EntryAt, NoneExpires DEF MaybeEntry, OverGossip, GossipInv, OwnEntries, WrittenBy
<1>2. \A n \in Node : ~Evict(n)
  BY <1>1 DEF Evict
<1>3. ASSUME GetEvict(w) PROVE GossipInv(w)'
  <2>1. setup.home[w] \in Node /\ op[w].pc = "evict" /\ op[w].key \in Key
    BY <1>3, SetupFields, OpAt DEF GetEvict, OpOK
  <2>2. data' = data
    <3> DEFINE n == setup.home[w]
               j == op[w].key
               x == IF Live(data[n][j]) THEN data[n][j] ELSE None
    <3>1. x = data[n][j]
      BY <1>1, <2>1 DEF Live
    <3>2. data' = [data EXCEPT ![n][j] = x]
      BY <1>3, <2>1 DEF GetEvict, TypeInv, Row
    <3> QED BY <2>1, <3>1, <3>2 DEF TypeInv, Row
  <2>3. op'[w] = IdleOp
    BY <1>3, OpMoved DEF GetEvict
  <2> QED BY <1>3, <2>1, <2>2, <2>3, IdleCall, IdleIs, GossipSame DEF GetEvict, bounds
<1> QED BY <1>2, <1>3

\* What the bounds count, and time, only grow.
LEMMA Grows ==
  ASSUME TypeInv, [Next]_vars
  PROVE  setup' = setup /\ (drops' = 0 => drops = 0) /\ (restarts' = 0 => restarts = 0) /\ now <= now'
<1>1. drops \in Nat /\ restarts \in Nat /\ now \in Nat
  BY DEF TypeInv
<1>2. ASSUME NEW p \in Proc, ProcStep(p) \/ CallStep(p)
      PROVE  UNCHANGED <<setup, drops, restarts, now>>
  BY <1>2 DEF ProcStep, CallStep, EndTick, SetStore, Sync, GetCheck, GetEvict, LockedStore, SetBegin,
     DeleteStore, GetRead, IncrBegin, Expire, CasBegin, Flush, Call, bounds
<1>3. ASSUME NEW d \in net, Deliver(d) PROVE UNCHANGED <<setup, drops, restarts, now>>
  BY <1>3 DEF Deliver, RemoteMerge, RemoteApply, RemoteDelete, bounds
<1>4. ASSUME NEW n \in Node, NEW m \in Node, Connect(n, m) \/ Disconnect(n, m)
      PROVE  UNCHANGED <<setup, restarts, now>> /\ drops' \in {drops, drops + 1}
  BY <1>4 DEF Connect, Disconnect, bounds
<1>5. ASSUME NEW n \in Node, Evict(n) \/ Restart(n)
      PROVE  UNCHANGED <<setup, drops, now>> /\ restarts' \in {restarts, restarts + 1}
  BY <1>5 DEF Evict, Restart, bounds
<1>6. CASE Advance \/ UNCHANGED vars
  BY <1>1, <1>6 DEF Advance, vars, bounds
<1> QED BY <1>1, <1>2, <1>3, <1>4, <1>5, <1>6 DEF Next

LEMMA GossipBack ==
  ASSUME TypeInv, [Next]_vars, NEW w, OverGossip(w)' PROVE OverGossip(w)
<1>1. setup' = setup /\ (drops' = 0 => drops = 0) /\ (restarts' = 0 => restarts = 0) /\ now <= now'
  BY Grows
<1>2. now \in Nat /\ now' \in Nat
  BY TypeStep DEF TypeInv
<1>3. NothingExpired' => NothingExpired
  BY <1>1, <1>2, MemoryAssumption DEF NothingExpired
<1> QED BY <1>1, <1>3 DEF OverGossip

LEMMA GossipStep ==
  ASSUME TypeInv, SoleInv, NEW w \in Proc, OverGossip(w), GossipInv(w), [Next]_vars, OverGossip(w)'
  PROVE  GossipInv(w)'
<1>1. ASSUME NEW p \in Proc, ProcStep(p) PROVE GossipInv(w)'
  <2>1. p = w
    <3>1. op[p].pc # "idle"
      BY <1>1 DEF ProcStep, EndTick, SetStore, Sync, GetCheck, GetEvict, LockedStore
    <3> QED BY <3>1, SoleCaller DEF OverGossip
  <2>2. ~LockedStore(w)
    BY DEF LockedStore, GossipInv, OwnCall
  <2> QED BY <1>1, <2>1, <2>2, EndTickGossip, SetStoreGossip, SyncGossip, GetGossip, EvictGossip
          DEF ProcStep
<1>2. ASSUME NEW p \in Proc, CallStep(p) PROVE GossipInv(w)'
  <2>1. \A c : Call(p, c) => p = w /\ c \in {"set", "get"}
    BY DEF Call, OverGossip
  <2>2. ~Flush(p) /\ \A k \in Key : ~DeleteStore(p, k) /\ ~IncrBegin(p, k)
    <3>1. ~Call(p, "flush") /\ ~Call(p, "delete") /\ ~Call(p, "incr")
      BY <2>1
    <3> QED BY <3>1, Zenon DEF Flush, DeleteStore, IncrBegin
  <2>3. \A k \in Key, ttl \in TTL : ~Expire(p, k, ttl)
    BY <2>1 DEF Expire
  <2>4. \A k \in Key, expected \in Val \cup {None}, v \in Val, ttl \in TTL :
          ~CasBegin(p, k, expected, v, ttl)
    BY <2>1 DEF CasBegin
  <2>5. ASSUME NEW k \in Key, NEW v \in Val, NEW ttl \in TTL, SetBegin(p, k, v, ttl)
        PROVE  GossipInv(w)'
    <3>1. p = w
      BY <2>1, <2>5 DEF SetBegin
    <3> QED BY <2>5, <3>1, SetBeginGossip
  <2>6. ASSUME NEW k \in Key, GetRead(p, k) PROVE GossipInv(w)'
    <3>1. p = w
      BY <2>1, <2>6 DEF GetRead
    <3> QED BY <2>6, <3>1, GetGossip
  <2> QED BY <1>2, <2>2, <2>3, <2>4, <2>5, <2>6 DEF CallStep
<1>3. ASSUME NEW d \in net, Deliver(d) PROVE GossipInv(w)'
  <2>1. ~RemoteDelete(d)
    BY DEF RemoteDelete, GossipInv, OwnEntries
  <2> QED BY <1>3, <2>1, RemoteMergeGossip, RemoteApplyGossip DEF Deliver
<1>4. \A n, m \in Node : ~Connect(n, m) /\ ~Disconnect(n, m)
  <2>1. \A n, m \in Node : n # m => <<n, m>> \in conns
    BY DEF GossipInv
  <2>2. drops' = 0 /\ drops = 0
    BY DEF OverGossip
  <2>3. \A n, m \in Node : ~Disconnect(n, m)
    BY <2>2 DEF Disconnect
  <2> QED BY <2>1, <2>3 DEF Connect
<1>5. \A n \in Node : ~Evict(n) /\ ~Restart(n)
  <2>1. restarts' = 0 /\ restarts = 0
    BY DEF OverGossip
  <2> QED BY <2>1, EvictGossip DEF Restart
<1>6. CASE Advance \/ UNCHANGED vars
  <2>1. UNCHANGED <<setup, data, net, conns, vc, op>>
    BY <1>6 DEF Advance, vars, bounds
  <2> QED BY <2>1 DEF GossipInv, OwnEntries, HomeNewest, Told
<1> QED BY <1>1, <1>2, <1>3, <1>4, <1>5, <1>6 DEF Next

LEMMA GossipInit ==
  ASSUME Init, NEW w \in Proc, OverGossip(w) PROVE GossipInv(w)
<1>1. TypeInv /\ setup.home[w] \in Node
  BY TypeInit, SetupFields
<1>2. conns = {c \in Node \X Node : c[1] # c[2]}
  BY DEF Init, OverGossip
<1>3. OwnEntries(setup.home[w]) /\ HomeNewest(setup.home[w]) /\ Told(w, setup.home[w])
  BY <1>1 DEF Init, OwnEntries, HomeNewest, Told
<1>4. OwnCall(setup.home[w], op[w], data[setup.home[w]])
  BY IdleCall DEF Init
<1>5. \A m \in Node \ {setup.home[w]} : vc[setup.home[w]].clocks[m] = 0
  BY <1>1 DEF Init, NewVectorClock
<1> QED BY <1>2, <1>3, <1>4, <1>5 DEF GossipInv

\* With nothing under way every peer holds what h holds.
LEMMA GossipAgrees ==
  ASSUME TypeInv, NEW w \in Proc, GossipInv(w), Quiescent PROVE Agreement
<1> DEFINE h == setup.home[w]
<1>1. h \in Node
  BY SetupFields
<1>2. ASSUME NEW n \in Node, NEW k \in Key PROVE data[n][k] = data[h][k]
  <2>1. CASE data[h][k] = None
    BY <2>1 DEF GossipInv, HomeNewest, NotNewer
  <2>2. CASE data[h][k] # None /\ n # h
    <3>1. net = {} /\ op[w].pc # "sync"
      BY IdleIs DEF Quiescent
    <3> QED BY <2>2, <3>1 DEF GossipInv, Told
  <2> QED BY <2>1, <2>2
<1> QED BY <1>2 DEF Agreement, View

----------------------------------------------------------------------------
(* Convergence over Redis *)

OverRedis(w) ==
  /\ setup.callers = {w} /\ setup.connected /\ drops = 0 /\ restarts = 0
  /\ setup.transport = "redis" /\ setup.calls \subseteq {"set", "delete", "get"}

\* What Redis delivers for e, and the entries that look like it.
Plain(e) ==
  IF e = None THEN None
  ELSE [Value |-> JSON(e.Value), ExpiresAt |-> e.ExpiresAt, Clock |-> ZeroClock]
PlainForm(e) == e = None \/ (e.Clock = ZeroClock /\ e.Value.type # "int64")

\* An entry that Tick stamped.
HasStamp(e) == e # None /\ \E m \in Node : e.Clock.Vector[m] > 0

\* Two entries a reader cannot tell apart at time t, nor later.
Dead(e, t) == e = None \/ Expired(e, t)
Match(x, y, t) == x = y \/ (Dead(x, t) /\ Dead(y, t))

\* The deltas nt hold for node n and key k; the last of them; and what the key
\* ends up with, e being what it holds.
For(d, n, k) == d.dst = n /\ d.Key = k
LastFor(nt, d, n, k) == For(d, n, k) /\ \A o \in nt : For(o, n, k) => o.id <= d.id
Final(nt, e, n, k, x) ==
  \/ x = Plain(e) /\ \A d \in nt : ~For(d, n, k)
  \/ \E d \in nt : LastFor(nt, d, n, k) /\ x = d.entry

\* A delta that was merged, and waits for the lock, comes before all others.
Foremost(nt, d) == \A o \in nt \ {d} : o.dst = d.dst => o.id > d.id

PlainNet ==
  \A d \in net : /\ d.id <= sent /\ PlainForm(d.entry)
                 /\ d.Type = "delete" => d.entry = None
                 /\ d.merged => Foremost(net, d)

\* Stamped entries are on the writer's node only.
PlainData(h) ==
  \A n \in Node, k \in Key : PlainForm(data[n][k]) \/ (n = h /\ HasStamp(data[n][k]))

RedisCall(o) ==
  /\ o.call \in {"none", "set", "delete", "get"}
  /\ o.pc = "sync" => IF o.call = "set" THEN HasStamp(o.entry) ELSE o.entry = None

\* A stamped entry is what w is about to broadcast, or what its key ends up with.
OwnFinal(h, o, dt, nt) ==
  \A k \in Key : HasStamp(dt[h][k]) =>
    IF o.pc = "sync" /\ o.key = k THEN dt[h][k] = o.entry
    ELSE \A x : Final(nt, dt[h][k], h, k, x) => x = Plain(dt[h][k])

\* All nodes end up alike with a key that w is not about to broadcast.
SameFinals(o, dt, nt, t) ==
  \A n, m \in Node, k \in Key : ~(o.pc = "sync" /\ o.key = k) =>
    \A x, y : Final(nt, dt[n][k], n, k, x) /\ Final(nt, dt[m][k], m, k, y) => Match(x, y, t)

RedisInv(w) ==
  LET h == setup.home[w] IN
  /\ PlainNet
  /\ PlainData(h)
  /\ RedisCall(op[w])
  /\ OwnFinal(h, op[w], data, net)
  /\ SameFinals(op[w], data, net, now)

LEMMA PlainIs ==
  ASSUME NEW e \in MaybeEntry
  PROVE  /\ Plain(e) \in MaybeEntry /\ PlainForm(Plain(e))
         /\ PlainForm(e) => Plain(e) = e
         /\ Plain(e) = None <=> e = None
         /\ setup.transport = "redis" => Wire(e) = Plain(e)
<1>1. CASE e = None
  BY <1>1 DEF Plain, PlainForm, Wire, MaybeEntry
<1>2. CASE e # None
  <2> DEFINE x == [Value |-> JSON(e.Value), ExpiresAt |-> e.ExpiresAt, Clock |-> ZeroClock]
  <2>1. Plain(e) = x /\ (setup.transport = "redis" => Wire(e) = x)
    BY <1>2 DEF Plain, Wire
  <2>2. e \in Entry /\ e.Value \in Value /\ e.ExpiresAt \in Nat
    BY <1>2 DEF MaybeEntry, Entry
  <2>3. JSON(e.Value) \in Value /\ JSON(e.Value).type # "int64"
    BY <2>2 DEF JSON, Value
  <2>4. x \in Entry /\ PlainForm(x)
    BY <2>2, <2>3, ZeroIs DEF Entry, PlainForm
  <2>5. ASSUME PlainForm(e) PROVE x = e
    <3>1. e.Clock = ZeroClock /\ JSON(e.Value) = e.Value
      BY <1>2, <2>5 DEF PlainForm, JSON
    <3>2. e = [Value |-> e.Value, ExpiresAt |-> e.ExpiresAt, Clock |-> e.Clock]
      BY <2>2 DEF Entry
    <3> QED BY <3>1, <3>2
  <2> HIDE DEF x
  <2> QED BY <1>2, <2>1, <2>4, <2>5, NoneAssumption DEF MaybeEntry
<1> QED BY <1>1, <1>2

\* A delta without a clock replaces what has none, and yields to a stamp.
LEMMA ZeroWins ==
  ASSUME NEW e \in MaybeEntry
  PROVE  /\ PlainForm(e) => RemoteWins(e, ZeroClock)
         /\ HasStamp(e) => ~RemoteWins(e, ZeroClock)
<1>1. ASSUME e # None, e.Clock = ZeroClock PROVE ~After(e.Clock, ZeroClock)
  <2>1. ~Ahead(ZeroClock.Vector, ZeroClock.Vector)
    BY ZeroIs DEF Ahead
  <2>2. ~TieBreak(ZeroClock, ZeroClock)
    BY DEF TieBreak, ZeroClock
  <2> QED BY <1>1, <2>1, <2>2 DEF After, Dominates
<1>2. ASSUME HasStamp(e) PROVE After(e.Clock, ZeroClock)
  <2>1. PICK m \in Node : e.Clock.Vector[m] > 0
    BY <1>2 DEF HasStamp
  <2>2. e # None
    BY <1>2 DEF HasStamp
  <2>3. Ahead(e.Clock.Vector, ZeroClock.Vector)
    BY <2>1, ZeroIs DEF Ahead
  <2>4. ~Ahead(ZeroClock.Vector, e.Clock.Vector)
    BY <2>2, ZeroIs, LaneIsNat DEF Ahead
  <2> QED BY <2>3, <2>4 DEF After, Dominates
<1> QED BY <1>1, <1>2 DEF PlainForm, HasStamp, RemoteWins

LEMMA DeadLater ==
  ASSUME NEW e \in MaybeEntry, NEW t \in Nat, NEW u \in Nat, t <= u, Dead(e, t) PROVE Dead(e, u)
<1>1. CASE e = None
  BY <1>1 DEF Dead
<1>2. CASE e # None
  <2>1. e.ExpiresAt \in Nat
    BY <1>2 DEF MaybeEntry, Entry
  <2> QED BY <1>2, <2>1 DEF Dead, Expired
<1> QED BY <1>1, <1>2

\* A step after which the keys that w is not about to broadcast end up as before,
\* or with another entry that has expired.
LEMMA FinalsKept ==
  ASSUME TypeInv, TypeInv', NEW w \in Proc, SameFinals(op[w], data, net, now), now <= now',
         \A n \in Node, k \in Key :
           ~(op'[w].pc = "sync" /\ op'[w].key = k) =>
             /\ ~(op[w].pc = "sync" /\ op[w].key = k)
             /\ \A x : Final(net', data'[n][k], n, k, x) =>
                  \E y : Final(net, data[n][k], n, k, y) /\ Match(y, x, now)
  PROVE  SameFinals(op'[w], data', net', now')
<1> SUFFICES ASSUME NEW n \in Node, NEW m \in Node, NEW k \in Key,
                    ~(op'[w].pc = "sync" /\ op'[w].key = k), NEW x, NEW y,
                    Final(net', data'[n][k], n, k, x), Final(net', data'[m][k], m, k, y)
             PROVE  Match(x, y, now')
  BY DEF SameFinals
<1>1. PICK a : Final(net, data[n][k], n, k, a) /\ Match(a, x, now)
  OBVIOUS
<1>2. PICK b : Final(net, data[m][k], m, k, b) /\ Match(b, y, now)
  OBVIOUS
<1>3. Match(a, b, now)
  BY <1>1, <1>2 DEF SameFinals
<1>4. Match(x, y, now)
  BY <1>1, <1>2, <1>3 DEF Match
<1>5. x \in MaybeEntry /\ y \in MaybeEntry /\ now \in Nat /\ now' \in Nat
  <2>1. now \in Nat /\ now' \in Nat
    BY DEF TypeInv
  <2>2. ASSUME NEW i \in Node, NEW z, Final(net', data'[i][k], i, k, z) PROVE z \in MaybeEntry
    <3>1. data'[i][k] \in MaybeEntry
      BY DEF TypeInv, Row, MaybeEntry
    <3>2. \A d \in net' : d.entry \in MaybeEntry
      BY DEF TypeInv, NetGood, Delta, MaybeEntry
    <3> QED BY <2>2, <3>1, <3>2, PlainIs DEF Final
  <2> QED BY <2>1, <2>2
<1> QED BY <1>4, <1>5, DeadLater DEF Match

\* A step that sends and receives nothing, and drops at most what has expired.
LEMMA RedisSame ==
  ASSUME TypeInv, TypeInv', NEW w \in Proc, RedisInv(w), UNCHANGED <<setup, net, sent>>, now <= now',
         \A n \in Node, k \in Key :
           data'[n][k] = data[n][k] \/ (data'[n][k] = None /\ Dead(data[n][k], now)),
         op'[w] = op[w] \/ (op[w].pc # "sync" /\ op'[w].pc # "sync" /\ RedisCall(op'[w]))
  PROVE  RedisInv(w)'
<1> DEFINE h == setup.home[w]
<1>1. h \in Node
  BY SetupFields
<1>2. PlainNet'
  BY DEF RedisInv, PlainNet
<1>3. PlainData(h)'
  BY DEF RedisInv, PlainData, PlainForm
<1>4. RedisCall(op'[w])
  BY DEF RedisInv
<1>5. OwnFinal(h, op'[w], data', net')
  <2> SUFFICES ASSUME NEW k \in Key, HasStamp(data'[h][k])
               PROVE  IF op'[w].pc = "sync" /\ op'[w].key = k THEN data'[h][k] = op'[w].entry
                      ELSE \A x : Final(net, data'[h][k], h, k, x) => x = Plain(data'[h][k])
    BY DEF OwnFinal
  <2>1. data'[h][k] = data[h][k]
    BY <1>1 DEF HasStamp
  <2>2. IF op[w].pc = "sync" /\ op[w].key = k THEN data[h][k] = op[w].entry
        ELSE \A x : Final(net, data[h][k], h, k, x) => x = Plain(data[h][k])
    BY <2>1 DEF RedisInv, OwnFinal
  <2> QED BY <2>1, <2>2
<1>6. SameFinals(op'[w], data', net', now')
  <2>1. ASSUME NEW n \in Node, NEW k \in Key, NEW x, Final(net, data'[n][k], n, k, x)
        PROVE  \E y : Final(net, data[n][k], n, k, y) /\ Match(y, x, now)
    <3>1. CASE data'[n][k] = data[n][k]
      BY <2>1, <3>1 DEF Match
    <3>2. CASE data'[n][k] = None /\ Dead(data[n][k], now) /\ x = Plain(None) /\ \A d \in net : ~For(d, n, k)
      <4>1. Final(net, data[n][k], n, k, Plain(data[n][k]))
        BY <3>2 DEF Final
      <4>2. Dead(Plain(data[n][k]), now) /\ Dead(x, now)
        BY <3>2 DEF Dead, Plain, Expired
      <4> QED BY <4>1, <4>2 DEF Match
    <3>3. CASE \E d \in net : LastFor(net, d, n, k) /\ x = d.entry
      <4>1. Final(net, data[n][k], n, k, x)
        BY <3>3 DEF Final
      <4> QED BY <4>1 DEF Match
    <3> QED BY <2>1, <3>1, <3>2, <3>3 DEF Final
  <2>2. \A k : ~(op'[w].pc = "sync" /\ op'[w].key = k) => ~(op[w].pc = "sync" /\ op[w].key = k)
    OBVIOUS
  <2>3. SameFinals(op[w], data, net, now) /\ net' = net
    BY DEF RedisInv
  <2> QED BY <2>1, <2>2, <2>3, FinalsKept
<1> QED BY <1>2, <1>3, <1>4, <1>5, <1>6 DEF RedisInv

LEMMA IdleRedis == RedisCall(IdleOp)
BY DEF RedisCall, IdleOp

LEMMA CallRedis ==
  ASSUME TypeInv, TypeInv', NEW w \in Proc, RedisInv(w),
         \/ \E k \in Key, v \in Val, ttl \in TTL : SetBegin(w, k, v, ttl)
         \/ \E k \in Key : GetRead(w, k)
         \/ GetCheck(w) \/ EndTick(w)
  PROVE  RedisInv(w)'
<1>1. UNCHANGED <<setup, net, sent, data, now>>
  BY DEF SetBegin, GetRead, GetCheck, EndTick, Call, bounds
<1>2. now <= now'
  BY <1>1 DEF TypeInv
<1>3. op[w] \in Op /\ RedisCall(op[w])
  BY OpAt DEF RedisInv
<1>4. op[w].pc # "sync" /\ op'[w].pc # "sync" /\ RedisCall(op'[w])
  <2>1. ASSUME NEW k \in Key, NEW v \in Val, NEW ttl \in TTL, SetBegin(w, k, v, ttl)
        PROVE  op[w].pc # "sync" /\ op'[w].pc # "sync" /\ RedisCall(op'[w])
    <3>1. op[w].pc = "idle" /\ op'[w].pc = "stamp" /\ op'[w].call = "set"
      BY <2>1, DrawIs DEF SetBegin, Call
    <3> QED BY <3>1 DEF RedisCall
  <2>2. ASSUME NEW k \in Key, GetRead(w, k)
        PROVE  op[w].pc # "sync" /\ op'[w].pc # "sync" /\ RedisCall(op'[w])
    <3> DEFINE o == [IdleOp EXCEPT !.pc = "got", !.call = "get", !.key = k,
                                   !.entry = data[setup.home[w]][k]]
    <3>1. o.pc = "got" /\ RedisCall(o)
      BY DEF IdleOp, RedisCall
    <3>2. op[w].pc = "idle" /\ op' = [op EXCEPT ![w] = o]
      BY <2>2 DEF GetRead, Call
    <3> HIDE DEF o
    <3> QED BY <3>1, <3>2, OpMoved
  <2>3. ASSUME GetCheck(w) PROVE op[w].pc # "sync" /\ op'[w].pc # "sync" /\ RedisCall(op'[w])
    <3> DEFINE o == [op[w] EXCEPT !.pc = "evict"]
               z == IF Expired(op[w].entry, now) THEN o ELSE IdleOp
    <3>1. o.pc = "evict" /\ RedisCall(o)
      BY <1>3 DEF Op, RedisCall
    <3>2. op[w].pc = "got" /\ op' = [op EXCEPT ![w] = z]
      BY <2>3 DEF GetCheck
    <3> HIDE DEF o
    <3>3. z.pc # "sync" /\ RedisCall(z)
      BY <3>1, IdleIs, IdleRedis
    <3> HIDE DEF z
    <3> QED BY <3>2, <3>3, OpMoved
  <2>4. ASSUME EndTick(w) PROVE op[w].pc # "sync" /\ op'[w].pc # "sync" /\ RedisCall(op'[w])
    <3>1. PICK e \in Entry : op' = [op EXCEPT ![w] = [op[w] EXCEPT !.pc = "store", !.entry = e]]
      BY <2>4, EndTickIs
    <3> DEFINE o == [op[w] EXCEPT !.pc = "store", !.entry = e]
    <3>2. o.pc = "store" /\ RedisCall(o) /\ op[w].pc = "stamp"
      BY <1>3, <2>4 DEF Op, RedisCall, EndTick
    <3> HIDE DEF o
    <3> QED BY <3>1, <3>2, OpMoved DEF o
  <2> QED BY <2>1, <2>2, <2>3, <2>4
<1> QED BY <1>1, <1>2, <1>4, RedisSame

LEMMA EvictRedis ==
  ASSUME TypeInv, TypeInv', NEW w \in Proc, RedisInv(w), GetEvict(w) \/ \E n \in Node : Evict(n)
  PROVE  RedisInv(w)'
<1>1. now <= now' /\ UNCHANGED <<setup, net, sent>>
  BY DEF GetEvict, Evict, bounds, TypeInv
<1>2. \A n \in Node, k \in Key :
        data'[n][k] = data[n][k] \/ (data'[n][k] = None /\ Dead(data[n][k], now))
  <2>1. CASE GetEvict(w)
    <3> DEFINE i == setup.home[w]
               j == op[w].key
               x == IF Live(data[i][j]) THEN data[i][j] ELSE None
    <3>1. data' = [data EXCEPT ![i][j] = x] /\ i \in Node /\ j \in Key
      BY <2>1, SetupFields, OpAt DEF GetEvict, TypeInv, Row, OpOK
    <3>2. x = data[i][j] \/ (x = None /\ Dead(data[i][j], now))
      BY DEF Live, Dead
    <3> HIDE DEF x
    <3> QED BY <3>1, <3>2 DEF TypeInv, Row
  <2>2. ASSUME NEW i \in Node, Evict(i), NEW n \in Node, NEW k \in Key
        PROVE  data'[n][k] = data[n][k] \/ (data'[n][k] = None /\ Dead(data[n][k], now))
    <3>1. CASE n # i
      BY <2>2, <3>1 DEF Evict, TypeInv
    <3>2. CASE n = i
      <4>1. data'[n][k] = IF Live(data[n][k]) THEN data[n][k] ELSE None
        BY <2>2, <3>2 DEF Evict, TypeInv
      <4> QED BY <4>1 DEF Live, Dead
    <3> QED BY <3>1, <3>2
  <2> QED BY <2>1, <2>2
<1>3. op'[w] = op[w] \/ (op[w].pc # "sync" /\ op'[w].pc # "sync" /\ RedisCall(op'[w]))
  <2>1. CASE GetEvict(w)
    BY <2>1, OpMoved, IdleIs, IdleRedis DEF GetEvict
  <2>2. CASE \E n \in Node : Evict(n)
    BY <2>2 DEF Evict
  <2> QED BY <2>1, <2>2
<1> QED BY <1>1, <1>2, <1>3, RedisSame

\* Set and Delete store first: until the broadcast the key is w's alone.
LEMMA StoreRedis ==
  ASSUME TypeInv, TypeInv', NEW w \in Proc, RedisInv(w), UNCHANGED <<setup, net, sent, now>>,
         NEW j \in Key, NEW e, HasStamp(e) \/ e = None,
         data' = [data EXCEPT ![setup.home[w]][j] = e],
         op[w].pc # "sync", op'[w].key = j, op'[w].entry = e, op'[w].pc = "sync",
         RedisCall(op'[w])
  PROVE  RedisInv(w)'
<1> DEFINE h == setup.home[w]
<1>1. h \in Node /\ \A n \in Node, k \in Key : data'[n][k] = IF n = h /\ k = j THEN e ELSE data[n][k]
  BY SetupFields DEF TypeInv, Row
<1>2. PlainNet'
  BY DEF RedisInv, PlainNet
<1>3. PlainData(h)'
  <2>1. \A n \in Node, k \in Key : PlainForm(data'[n][k]) \/ (n = h /\ HasStamp(data'[n][k]))
    BY <1>1 DEF RedisInv, PlainData, PlainForm
  <2> QED BY <2>1 DEF PlainData
<1>4. OwnFinal(h, op'[w], data', net')
  <2> SUFFICES ASSUME NEW k \in Key, HasStamp(data'[h][k])
               PROVE  IF op'[w].pc = "sync" /\ op'[w].key = k THEN data'[h][k] = op'[w].entry
                      ELSE \A x : Final(net, data'[h][k], h, k, x) => x = Plain(data'[h][k])
    BY DEF OwnFinal
  <2>1. CASE k = j
    BY <1>1, <2>1
  <2>2. CASE k # j
    <3>1. data'[h][k] = data[h][k]
      BY <1>1, <2>2
    <3>2. \A x : Final(net, data[h][k], h, k, x) => x = Plain(data[h][k])
      BY <3>1 DEF RedisInv, OwnFinal
    <3> QED BY <2>2, <3>1, <3>2
  <2> QED BY <2>1, <2>2
<1>5. SameFinals(op'[w], data', net', now')
  <2>1. ASSUME NEW n \in Node, NEW k \in Key, k # j, NEW x, Final(net', data'[n][k], n, k, x)
        PROVE  \E y : Final(net, data[n][k], n, k, y) /\ Match(y, x, now)
    <3>1. Final(net, data[n][k], n, k, x)
      BY <1>1, <2>1
    <3> QED BY <3>1 DEF Match
  <2>2. now <= now' /\ SameFinals(op[w], data, net, now)
    BY DEF TypeInv, RedisInv
  <2> QED BY <2>1, <2>2, FinalsKept
<1> QED BY <1>2, <1>3, <1>4, <1>5 DEF RedisInv

LEMMA SetStoreRedis ==
  ASSUME TypeInv, TypeInv', SoleInv, NEW w \in Proc, OverRedis(w), RedisInv(w), SetStore(w)
  PROVE  RedisInv(w)'
<1> DEFINE o == [op[w] EXCEPT !.pc = "sync"]
<1>1. /\ setup.home[w] \in Node /\ op[w] \in Op /\ OpOK(op[w]) /\ op[w].pc = "store" /\ op[w].call = "set"
      /\ op[w].ts \in Nat
  BY SetupFields, OpAt DEF SetStore
<1>2. op[w].key \in Key /\ op[w].entry \in Entry /\ op[w].entry # None
  BY <1>1, NoneAssumption DEF OpOK
<1>3. HasStamp(op[w].entry)
  <2>1. OneCallerPerNode /\ restarts = 0 /\ Busy(op[w])
    BY <1>1 DEF OverRedis, OneCallerPerNode, Busy
  <2>2. op[w].entry.Clock.Vector[setup.home[w]] = op[w].ts /\ op[w].ts >= 1
    BY <1>1, <2>1 DEF SoleInv
  <2>3. op[w].entry.Clock.Vector[setup.home[w]] > 0
    BY <1>1, <2>2
  <2> QED BY <1>1, <1>2, <2>3 DEF HasStamp
<1>4. o.pc = "sync" /\ o.key = op[w].key /\ o.entry = op[w].entry /\ o.call = "set"
  BY <1>1 DEF Op
<1>5. op' = [op EXCEPT ![w] = o]
  BY DEF SetStore, TypeInv, OpsGood
<1> HIDE DEF o
<1>6. op'[w] = o
  BY <1>5, OpMoved
<1>7. RedisCall(o)
  BY <1>3, <1>4 DEF RedisCall
<1>8. data' = [data EXCEPT ![setup.home[w]][op[w].key] = op[w].entry] /\ UNCHANGED <<setup, net, sent, now>>
  BY DEF SetStore, bounds
<1> QED BY <1>1, <1>2, <1>3, <1>4, <1>6, <1>7, <1>8, StoreRedis

LEMMA DeleteStoreRedis ==
  ASSUME TypeInv, TypeInv', NEW w \in Proc, RedisInv(w), NEW k \in Key, DeleteStore(w, k)
  PROVE  RedisInv(w)'
<1> DEFINE o == [IdleOp EXCEPT !.pc = "sync", !.call = "delete", !.key = k]
<1>1. o.pc = "sync" /\ o.key = k /\ o.entry = None /\ RedisCall(o)
  BY DEF IdleOp, RedisCall
<1>2. op' = [op EXCEPT ![w] = o] /\ op[w].pc = "idle"
  BY DEF DeleteStore, Call
<1> HIDE DEF o
<1>3. op'[w] = o
  BY <1>2, OpMoved
<1>4. data' = [data EXCEPT ![setup.home[w]][k] = None] /\ UNCHANGED <<setup, net, sent, now>>
  BY DEF DeleteStore, Call
<1> QED BY <1>1, <1>2, <1>3, <1>4, StoreRedis

\* A delta arrives: nothing before it was for that node, so its entry is what the
\* key gets, except for a stamped entry that the writer's node keeps.
LEMMA TakenRedis ==
  ASSUME TypeInv, TypeInv', NEW w \in Proc, RedisInv(w), UNCHANGED <<setup, op, sent, now>>,
         NEW d \in net, Foremost(net, d), net' = net \ {d},
         NEW x, data' = [data EXCEPT ![d.dst][d.Key] = x],
         x = d.entry \/ (x = data[d.dst][d.Key] /\ HasStamp(x))
  PROVE  RedisInv(w)'
<1> DEFINE h == setup.home[w]
           n == d.dst
           j == d.Key
           Sending(k) == op[w].pc = "sync" /\ op[w].key = k
<1>1. /\ h \in Node /\ n \in Node /\ j \in Key /\ d \in Delta /\ d.id \in Nat
      /\ \A i \in Node, k \in Key : data'[i][k] = IF i = n /\ k = j THEN x ELSE data[i][k]
  <2>1. h \in Node /\ n \in Node /\ j \in Key /\ d \in Delta
    BY SetupFields, DeltaAt
  <2> QED BY <2>1 DEF TypeInv, Row, Delta
<1>2. PlainForm(d.entry) /\ d.entry \in MaybeEntry /\ ~HasStamp(d.entry)
  <2>1. PlainForm(d.entry) /\ d.entry \in MaybeEntry
    BY DeltaAt DEF RedisInv, PlainNet
  <2> QED BY <2>1, ZeroIs DEF PlainForm, HasStamp
<1>3. PlainNet'
  BY DEF RedisInv, PlainNet, Foremost
<1>4. PlainData(h)'
  <2>1. \A i \in Node, k \in Key : PlainForm(data'[i][k]) \/ (i = h /\ HasStamp(data'[i][k]))
    <3>1. PlainForm(x) \/ (n = h /\ HasStamp(x))
      <4>1. HasStamp(x) => ~PlainForm(x)
        BY ZeroIs DEF HasStamp, PlainForm
      <4> QED BY <1>1, <1>2, <4>1 DEF RedisInv, PlainData
    <3> QED BY <1>1, <3>1 DEF RedisInv, PlainData
  <2> QED BY <2>1 DEF PlainData
<1>5. ASSUME \A o \in net' : ~For(o, n, j) PROVE Final(net, data[n][j], n, j, d.entry)
  <2>1. LastFor(net, d, n, j)
    BY <1>1, <1>5 DEF LastFor, For
  <2> QED BY <2>1 DEF Final
<1>6. ASSUME NEW i \in Node, NEW k \in Key, ~Sending(k), NEW y, Final(net', data'[i][k], i, k, y)
      PROVE  Final(net, data[i][k], i, k, y)
  <2>1. ASSUME NEW o \in net', LastFor(net', o, i, k), y = o.entry PROVE Final(net, data[i][k], i, k, y)
    <3>1. For(d, i, k) => d.id <= o.id
      <4>1. o \in Delta /\ o.id \in Nat
        BY DEF TypeInv, NetGood, Delta
      <4>2. For(d, i, k) => o.id > d.id
        BY <2>1 DEF LastFor, For, Foremost
      <4> QED BY <1>1, <4>1, <4>2
    <3>2. LastFor(net, o, i, k)
      BY <2>1, <3>1 DEF LastFor
    <3> QED BY <2>1, <3>2 DEF Final
  <2>2. ASSUME \A o \in net' : ~For(o, i, k), y = Plain(data'[i][k]), ~(i = n /\ k = j)
        PROVE  Final(net, data[i][k], i, k, y)
    <3>1. \A o \in net : ~For(o, i, k)
      BY <2>2 DEF For
    <3>2. data'[i][k] = data[i][k]
      BY <1>1, <2>2
    <3> QED BY <2>2, <3>1, <3>2 DEF Final
  <2>3. ASSUME \A o \in net' : ~For(o, n, j), y = Plain(data'[n][j]), i = n, k = j
        PROVE  Final(net, data[i][k], i, k, y)
    <3>1. Final(net, data[n][j], n, j, d.entry) /\ data'[n][j] = x
      BY <1>1, <1>5, <2>3
    <3>2. CASE x = d.entry
      BY <1>2, <2>3, <3>1, <3>2, PlainIs
    <3>3. CASE x = data[n][j] /\ HasStamp(x)
      <4>1. n = h
        <5>1. ~PlainForm(x)
          BY <3>3, ZeroIs DEF HasStamp, PlainForm
        <5> QED BY <1>1, <3>3, <5>1 DEF RedisInv, PlainData
      <4>2. \A z : Final(net, data[h][j], h, j, z) => z = Plain(data[h][j])
        BY <1>1, <1>6, <2>3, <3>3, <4>1 DEF RedisInv, OwnFinal
      <4> QED BY <2>3, <3>1, <3>3, <4>1, <4>2
    <3> QED BY <3>2, <3>3
  <2> QED BY <1>6, <2>1, <2>2, <2>3 DEF Final
<1>7. OwnFinal(h, op'[w], data', net')
  <2> SUFFICES ASSUME NEW k \in Key, HasStamp(data'[h][k])
               PROVE  IF Sending(k) THEN data'[h][k] = op[w].entry
                      ELSE \A y : Final(net', data'[h][k], h, k, y) => y = Plain(data'[h][k])
    BY DEF OwnFinal
  <2>1. data'[h][k] = data[h][k]
    BY <1>1, <1>2
  <2>2. IF Sending(k) THEN data[h][k] = op[w].entry
        ELSE \A y : Final(net, data[h][k], h, k, y) => y = Plain(data[h][k])
    BY <2>1 DEF RedisInv, OwnFinal
  <2> HIDE DEF Sending
  <2> QED BY <1>1, <1>6, <2>1, <2>2
<1>8. SameFinals(op'[w], data', net', now')
  <2>1. now <= now' /\ SameFinals(op[w], data, net, now)
    BY DEF TypeInv, RedisInv
  <2>2. \A y : Match(y, y, now)
    BY DEF Match
  <2> QED BY <1>6, <2>1, <2>2, FinalsKept
<1> QED BY <1>3, <1>4, <1>7, <1>8 DEF RedisInv

LEMMA RemoteMergeRedis ==
  ASSUME TypeInv, TypeInv', NEW w \in Proc, OverRedis(w), RedisInv(w), NEW d \in net, RemoteMerge(d)
  PROVE  RedisInv(w)'
<1> DEFINE h == setup.home[w]
           f == [d EXCEPT !.merged = TRUE]
<1>1. d \in Delta /\ h \in Node
  BY DeltaAt, SetupFields
<1>2. f.dst = d.dst /\ f.Key = d.Key /\ f.entry = d.entry /\ f.Type = d.Type /\ f.id = d.id
  BY <1>1 DEF Delta
<1>3. net' = (net \ {d}) \cup {f} /\ UNCHANGED <<setup, data, op, sent, now>>
  BY DEF RemoteMerge, bounds
<1>4. Foremost(net, d)
  BY DEF RemoteMerge, Readable, OverRedis, Foremost
<1> HIDE DEF f
<1>5. PlainNet'
  <2> SUFFICES ASSUME NEW g \in net'
               PROVE  /\ g.id <= sent /\ PlainForm(g.entry)
                      /\ g.Type = "delete" => g.entry = None
                      /\ g.merged => Foremost(net', g)
    BY <1>3 DEF PlainNet
  <2>1. CASE g = f
    <3>1. Foremost(net', g)
      BY <1>2, <1>3, <1>4, <2>1 DEF Foremost
    <3> QED BY <1>2, <2>1, <3>1 DEF RedisInv, PlainNet
  <2>2. CASE g # f
    <3>1. g \in net
      BY <1>3, <2>2
    <3>2. g.merged => Foremost(net', g)
      BY <1>2, <1>3, <2>2, <3>1 DEF Foremost, RedisInv, PlainNet
    <3> QED BY <3>1, <3>2 DEF RedisInv, PlainNet
  <2> QED BY <2>1, <2>2
<1>6. ASSUME NEW e, NEW i, NEW k, NEW y, Final(net', e, i, k, y) PROVE Final(net, e, i, k, y)
  <2>1. ASSUME \A o \in net' : ~For(o, i, k), y = Plain(e) PROVE Final(net, e, i, k, y)
    <3>1. \A o \in net : ~For(o, i, k)
      BY <1>2, <1>3, <2>1 DEF For
    <3> QED BY <2>1, <3>1 DEF Final
  <2>2. ASSUME NEW o \in net', LastFor(net', o, i, k), y = o.entry PROVE Final(net, e, i, k, y)
    <3>1. PICK g \in net : g.dst = o.dst /\ g.Key = o.Key /\ g.entry = o.entry /\ g.id = o.id
      BY <1>2, <1>3
    <3>2. LastFor(net, g, i, k)
      BY <1>2, <1>3, <2>2, <3>1 DEF LastFor, For
    <3> QED BY <2>2, <3>1, <3>2 DEF Final
  <2> QED BY <1>6, <2>1, <2>2 DEF Final
<1>7. PlainData(h)' /\ RedisCall(op'[w])
  BY <1>3 DEF RedisInv, PlainData
<1>8. OwnFinal(h, op'[w], data', net')
  BY <1>1, <1>3, <1>6 DEF RedisInv, OwnFinal
<1>9. SameFinals(op'[w], data', net', now')
  BY <1>3, <1>6 DEF RedisInv, SameFinals
<1> QED BY <1>3, <1>5, <1>7, <1>8, <1>9 DEF RedisInv

LEMMA RemoteApplyRedis ==
  ASSUME TypeInv, TypeInv', NEW w \in Proc, OverRedis(w), RedisInv(w), NEW d \in net, RemoteApply(d)
  PROVE  RedisInv(w)'
<1> DEFINE e == data[d.dst][d.Key]
           x == IF RemoteWins(e, d.entry.Clock) THEN d.entry ELSE e
<1>1. d.dst \in Node /\ d.Key \in Key /\ d.entry \in Entry /\ e \in MaybeEntry
  BY DeltaAt, EntryAt DEF RemoteApply
<1>2. Foremost(net, d) /\ d.entry.Clock = ZeroClock
  BY <1>1, NoneAssumption DEF RemoteApply, RedisInv, PlainNet, PlainForm
<1>3. PlainForm(e) \/ HasStamp(e)
  BY <1>1 DEF RedisInv, PlainData
<1>4. x = d.entry \/ (x = e /\ HasStamp(x))
  BY <1>1, <1>2, <1>3, ZeroWins
<1>5. data' = [data EXCEPT ![d.dst][d.Key] = x]
  BY <1>1 DEF RemoteApply, TypeInv, Row
<1>6. net' = net \ {d} /\ UNCHANGED <<setup, op, sent, now>>
  BY DEF RemoteApply, bounds
<1> HIDE DEF x
<1> QED BY <1>2, <1>4, <1>5, <1>6, TakenRedis

LEMMA RemoteDeleteRedis ==
  ASSUME TypeInv, TypeInv', NEW w \in Proc, OverRedis(w), RedisInv(w), NEW d \in net, RemoteDelete(d)
  PROVE  RedisInv(w)'
<1>1. Foremost(net, d)
  BY DEF RemoteDelete, Readable, OverRedis, Foremost
<1>2. d.entry = None
  BY DEF RemoteDelete, RedisInv, PlainNet
<1>3. data' = [data EXCEPT ![d.dst][d.Key] = d.entry]
  BY <1>2 DEF RemoteDelete
<1>4. net' = net \ {d} /\ UNCHANGED <<setup, op, sent, now>>
  BY DEF RemoteDelete, bounds
<1> QED BY <1>1, <1>3, <1>4, TakenRedis

\* The broadcast is the last word on its key, on every node.
LEMMA SyncRedis ==
  ASSUME TypeInv, TypeInv', NEW w \in Proc, OverRedis(w), RedisInv(w), Sync(w)
  PROVE  RedisInv(w)'
<1> DEFINE h == setup.home[w]
           j == op[w].key
           e == op[w].entry
           D(m) == [id |-> sent + 1, src |-> h, dst |-> m, Type |-> op[w].call, Key |-> j,
                    entry |-> Wire(e), merged |-> FALSE]
<1>1. h \in Node /\ op[w] \in Op /\ OpOK(op[w]) /\ op[w].pc = "sync" /\ e \in MaybeEntry
  BY SetupFields, OpAt DEF Sync
<1>2. Wire(e) = Plain(e) /\ PlainForm(Plain(e))
  BY <1>1, PlainIs DEF OverRedis
<1>3. Receivers(h) = Node
  BY DEF Receivers, OverRedis
<1>4. net' = net \cup {D(m) : m \in Node} /\ sent' = sent + 1
  BY <1>3 DEF Sync, Broadcast
<1>5. op'[w] = IdleOp /\ UNCHANGED <<setup, data, now>>
  BY OpMoved DEF Sync, bounds
<1>6. \A m \in Node : /\ D(m).dst = m /\ D(m).Key = j /\ D(m).entry = Plain(e)
                      /\ D(m).Type = op[w].call /\ D(m).merged = FALSE /\ D(m).id = sent + 1
  BY <1>2
<1> HIDE DEF D
<1>7. \A d \in net : d.id \in Nat /\ d.id <= sent /\ d \in Delta
  BY DEF TypeInv, NetGood, Delta, RedisInv, PlainNet
<1>8. PlainNet'
  <2>1. ASSUME NEW d \in net
        PROVE  /\ d.id <= sent' /\ PlainForm(d.entry)
               /\ d.Type = "delete" => d.entry = None
               /\ d.merged => Foremost(net', d)
    <3>1. d.id <= sent' /\ d.id < sent + 1
      BY <1>4, <1>7 DEF TypeInv
    <3>2. d.merged => Foremost(net', d)
      BY <1>4, <1>6, <3>1 DEF Foremost, RedisInv, PlainNet
    <3> QED BY <3>1, <3>2 DEF RedisInv, PlainNet
  <2>2. ASSUME NEW m \in Node
        PROVE  /\ D(m).id <= sent' /\ PlainForm(D(m).entry)
               /\ D(m).Type = "delete" => D(m).entry = None
               /\ D(m).merged => Foremost(net', D(m))
    <3>1. op[w].call = "delete" => Plain(e) = None
      BY <1>1 DEF RedisInv, RedisCall, Plain
    <3>2. sent + 1 <= sent'
      BY <1>4 DEF TypeInv
    <3> QED BY <1>2, <1>6, <3>1, <3>2
  <2>3. \A d \in net' : d \in net \/ \E m \in Node : d = D(m)
    BY <1>4
  <2> QED BY <2>1, <2>2, <2>3 DEF PlainNet
<1>9. ASSUME NEW i \in Node, NEW y, Final(net', data[i][j], i, j, y) PROVE y = Plain(e)
  <2>1. For(D(i), i, j) /\ D(i) \in net'
    BY <1>4, <1>6 DEF For
  <2>2. PICK d \in net' : LastFor(net', d, i, j) /\ y = d.entry
    BY <1>9, <2>1 DEF Final
  <2>3. d.id >= sent + 1
    BY <1>6, <2>1, <2>2 DEF LastFor
  <2>4. d \notin net
    BY <1>7, <2>3 DEF TypeInv
  <2> QED BY <1>4, <1>6, <2>2, <2>4
<1>10. ASSUME NEW i \in Node, NEW k \in Key, k # j, NEW y, Final(net', data[i][k], i, k, y)
       PROVE  Final(net, data[i][k], i, k, y)
  <2>1. \A d \in net' : For(d, i, k) => d \in net
    BY <1>4, <1>6, <1>10 DEF For
  <2>2. ASSUME NEW d \in net', LastFor(net', d, i, k), y = d.entry PROVE Final(net, data[i][k], i, k, y)
    <3>1. d \in net /\ LastFor(net, d, i, k)
      BY <1>4, <2>1, <2>2 DEF LastFor
    <3> QED BY <2>2, <3>1 DEF Final
  <2>3. net \subseteq net'
    BY <1>4
  <2> QED BY <1>10, <2>2, <2>3 DEF Final
<1>11. PlainData(h)' /\ RedisCall(op'[w])
  BY <1>5, IdleRedis DEF RedisInv, PlainData
<1>12. OwnFinal(h, op'[w], data', net')
  <2> SUFFICES ASSUME NEW k \in Key, HasStamp(data[h][k]), NEW y, Final(net', data[h][k], h, k, y)
               PROVE  y = Plain(data[h][k])
    BY <1>5, IdleIs DEF OwnFinal
  <2>1. CASE k = j
    <3>1. data[h][k] = e
      BY <1>1, <2>1 DEF RedisInv, OwnFinal
    <3> QED BY <1>1, <1>9, <2>1, <3>1
  <2>2. CASE k # j
    BY <1>1, <1>10, <2>2 DEF RedisInv, OwnFinal
  <2> QED BY <2>1, <2>2
<1>13. SameFinals(op'[w], data', net', now')
  <2> SUFFICES ASSUME NEW n \in Node, NEW m \in Node, NEW k \in Key, NEW x, NEW y,
                      Final(net', data[n][k], n, k, x), Final(net', data[m][k], m, k, y)
               PROVE  Match(x, y, now)
    BY <1>5 DEF SameFinals
  <2>1. CASE k = j
    BY <1>9, <2>1 DEF Match
  <2>2. CASE k # j
    BY <1>10, <2>2 DEF RedisInv, SameFinals
  <2> QED BY <2>1, <2>2
<1> QED BY <1>5, <1>8, <1>11, <1>12, <1>13 DEF RedisInv

LEMMA RedisStep ==
  ASSUME TypeInv, TypeInv', SoleInv, NEW w \in Proc, OverRedis(w), RedisInv(w), [Next]_vars, OverRedis(w)'
  PROVE  RedisInv(w)'
<1>1. ASSUME NEW p \in Proc, ProcStep(p) PROVE RedisInv(w)'
  <2>1. p = w
    <3>1. op[p].pc # "idle"
      BY <1>1 DEF ProcStep, EndTick, SetStore, Sync, GetCheck, GetEvict, LockedStore
    <3> QED BY <3>1, SoleCaller DEF OverRedis
  <2>2. ~LockedStore(w)
    BY DEF LockedStore, RedisInv, RedisCall
  <2> QED BY <1>1, <2>1, <2>2, CallRedis, SetStoreRedis, SyncRedis, EvictRedis DEF ProcStep
<1>2. ASSUME NEW p \in Proc, CallStep(p) PROVE RedisInv(w)'
  <2>1. \A c : Call(p, c) => p = w /\ c \in {"set", "delete", "get"}
    BY DEF Call, OverRedis
  <2>2. ~Flush(p) /\ \A k \in Key : ~IncrBegin(p, k)
    <3>1. ~Call(p, "flush") /\ ~Call(p, "incr")
      BY <2>1
    <3> QED BY <3>1, Zenon DEF Flush, IncrBegin
  <2>3. \A k \in Key, ttl \in TTL : ~Expire(p, k, ttl)
    BY <2>1 DEF Expire
  <2>4. \A k \in Key, expected \in Val \cup {None}, v \in Val, ttl \in TTL :
          ~CasBegin(p, k, expected, v, ttl)
    BY <2>1 DEF CasBegin
  <2>5. ASSUME NEW k \in Key, NEW v \in Val, NEW ttl \in TTL, SetBegin(p, k, v, ttl)
        PROVE  RedisInv(w)'
    <3>1. p = w
      BY <2>1, <2>5 DEF SetBegin
    <3> QED BY <2>5, <3>1, CallRedis
  <2>6. ASSUME NEW k \in Key, GetRead(p, k) PROVE RedisInv(w)'
    <3>1. p = w
      BY <2>1, <2>6 DEF GetRead
    <3> QED BY <2>6, <3>1, CallRedis
  <2>7. ASSUME NEW k \in Key, DeleteStore(p, k) PROVE RedisInv(w)'
    <3>1. p = w
      BY <2>1, <2>7 DEF DeleteStore
    <3> QED BY <2>7, <3>1, DeleteStoreRedis
  <2> QED BY <1>2, <2>2, <2>3, <2>4, <2>5, <2>6, <2>7 DEF CallStep
<1>3. ASSUME NEW d \in net, Deliver(d) PROVE RedisInv(w)'
  BY <1>3, RemoteMergeRedis, RemoteApplyRedis, RemoteDeleteRedis DEF Deliver
<1>4. \A n, m \in Node : ~Connect(n, m) /\ ~Disconnect(n, m)
  <2>1. drops' = 0 /\ drops = 0 /\ setup.transport = "redis"
    BY DEF OverRedis
  <2> QED BY <2>1 DEF Connect, Disconnect
<1>5. \A n \in Node : ~Restart(n)
  <2>1. restarts' = 0 /\ restarts = 0
    BY DEF OverRedis
  <2> QED BY <2>1 DEF Restart
<1>6. CASE Advance \/ UNCHANGED vars
  <2>1. UNCHANGED <<setup, data, net, sent, op>> /\ now <= now'
    BY <1>6, Grows DEF Advance, vars, bounds
  <2> QED BY <2>1, RedisSame
<1> QED BY <1>1, <1>2, <1>3, <1>4, <1>5, <1>6, EvictRedis DEF Next

LEMMA RedisInit ==
  ASSUME Init, NEW w \in Proc PROVE RedisInv(w)
<1>1. TypeInv /\ setup.home[w] \in Node
  BY TypeInit, SetupFields
<1>2. PlainNet /\ PlainData(setup.home[w]) /\ RedisCall(op[w])
  BY IdleRedis DEF Init, PlainNet, PlainData, PlainForm
<1>3. OwnFinal(setup.home[w], op[w], data, net)
  BY <1>1 DEF Init, OwnFinal, HasStamp
<1>4. SameFinals(op[w], data, net, now)
  BY DEF Init, SameFinals, Final, Match
<1> QED BY <1>2, <1>3, <1>4 DEF RedisInv

\* With nothing under way what a key ends up with is what it holds.
LEMMA RedisAgrees ==
  ASSUME TypeInv, NEW w \in Proc, RedisInv(w), Quiescent PROVE Agreement
<1>1. net = {} /\ op[w].pc # "sync"
  BY IdleIs DEF Quiescent
<1>2. ASSUME NEW n \in Node, NEW m \in Node, NEW k \in Key PROVE View(n, k) = View(m, k)
  <2> DEFINE a == data[n][k]
             b == data[m][k]
             Seen(e) == IF e # None /\ ~Expired(e, now)
                        THEN [Value |-> JSON(e.Value), ExpiresAt |-> e.ExpiresAt] ELSE None
  <2>1. Final(net, a, n, k, Plain(a)) /\ Final(net, b, m, k, Plain(b))
    BY <1>1 DEF Final
  <2>2. Match(Plain(a), Plain(b), now)
    BY <1>1, <2>1 DEF RedisInv, SameFinals
  <2>3. a \in MaybeEntry /\ b \in MaybeEntry
    BY EntryAt
  <2>4. ASSUME NEW e \in MaybeEntry
        PROVE  /\ Dead(e, now) <=> Dead(Plain(e), now)
               /\ Dead(e, now) => Seen(e) = None
               /\ ~Dead(e, now) => Seen(e) = [Value |-> Plain(e).Value, ExpiresAt |-> Plain(e).ExpiresAt]
    <3>1. CASE e = None
      BY <3>1 DEF Dead, Plain
    <3>2. CASE e # None
      <4> DEFINE x == [Value |-> JSON(e.Value), ExpiresAt |-> e.ExpiresAt, Clock |-> ZeroClock]
      <4>1. Plain(e) = x /\ x.ExpiresAt = e.ExpiresAt /\ x.Value = JSON(e.Value)
        BY <3>2 DEF Plain
      <4>2. Plain(e) # None
        BY <3>2, PlainIs
      <4> HIDE DEF x
      <4> QED BY <3>2, <4>1, <4>2 DEF Dead, Expired
    <3> QED BY <3>1, <3>2
  <2>5. Seen(a) = Seen(b)
    <3> HIDE DEF Seen
    <3> QED BY <2>2, <2>3, <2>4 DEF Match
  <2> QED BY <2>5 DEF View, Live
<1> QED BY <1>2 DEF Agreement

----------------------------------------------------------------------------
\* A cluster with one writer is on its way to agreement.
ConvergeInv == \A w \in Proc : (OverGossip(w) => GossipInv(w)) /\ (OverRedis(w) => RedisInv(w))

LEMMA ConvergeStep ==
  ASSUME TypeInv, SoleInv, ConvergeInv, [Next]_vars PROVE ConvergeInv'
<1>1. TypeInv'
  BY TypeStep
<1>2. ASSUME NEW w \in Proc, OverGossip(w)' PROVE GossipInv(w)'
  BY <1>2, GossipBack, GossipStep DEF ConvergeInv
<1>3. ASSUME NEW w \in Proc, OverRedis(w)' PROVE RedisInv(w)'
  <2>1. OverRedis(w)
    BY <1>3, Grows DEF OverRedis
  <2> QED BY <1>1, <1>3, <2>1, RedisStep DEF ConvergeInv
<1> QED BY <1>2, <1>3 DEF ConvergeInv

LEMMA ConvergeSuffices == TypeInv /\ ConvergeInv => SingleWriterConverges
<1> SUFFICES ASSUME TypeInv, ConvergeInv, SingleWriter, Quiescent PROVE Agreement
  BY DEF SingleWriterConverges, Converged
<1>1. PICK w \in Proc : OverGossip(w) \/ OverRedis(w)
  BY DEF SingleWriter, OverGossip, OverRedis
<1>2. CASE OverGossip(w)
  BY <1>2, GossipAgrees DEF ConvergeInv
<1>3. CASE OverRedis(w)
  BY <1>3, RedisAgrees DEF ConvergeInv
<1> QED BY <1>1, <1>2, <1>3

\* What a store may be relied on for, in every deployment: it keeps to the states
\* its operations describe, no clock runs ahead of the node it speaks of until a
\* node restarts (clock.go 29-55), and what one goroutine writes, over connections
\* that hold, ends up the same on every node: over gossip, which reorders what it
\* carries, as long as no TTL has run out, and over Redis, whose deltas carry no
\* clock, with deletes and expiry too (store.go 415-434).
THEOREM StoreSound == Spec => []StoreOK
<1> DEFINE Inv == TypeInv /\ LaneInv /\ SoleInv /\ ConvergeInv
<1>1. Init => Inv
  BY TypeInit, LaneInit, GossipInit, RedisInit DEF ConvergeInv
<1>2. Inv /\ [Next]_vars => Inv'
  BY TypeStep, LaneStep, ConvergeStep
<1>3. Inv => StoreOK
  BY TypeInvSuffices, LaneInvSuffices, ConvergeSuffices DEF StoreOK
<1> QED BY <1>1, <1>2, <1>3, PTL DEF Spec
=============================================================================
