--------------------------- MODULE StoreLifecycle ---------------------------
(***************************************************************************)
(* A process that serves HTTP and keeps a persistent memory store, from    *)
(* start to exit and over restarts: Kernel.Serve with its graceful         *)
(* shutdown (framework/http/kernel.go), the store's New, Shutdown,         *)
(* watchShutdown and snapshot (framework/memory/store.go) and the stop of  *)
(* its gossip transport.  Both the kernel and watchShutdown receive the    *)
(* signal; nothing makes one wait for the other.                           *)
(***************************************************************************)
EXTENDS Naturals, FiniteSets

CONSTANTS
  StoreKey,  \* keys of the store
  MaxBoots,  \* bound on the starts of the process
  MaxChanges,\* bound on the writes of one behaviour
  MaxNow     \* bound on the time

ASSUME LifeAssumption ==
  {MaxBoots, MaxChanges} \subseteq Nat /\ MaxNow \in Nat \ {0}

VARIABLES
  callers,  \* who calls Shutdown: "watch" (GracefulSave), "main" (after Serve)
  proc,     \* "off", "serving", "draining", "served" (Serve has returned), "panicked"
  gossiping,\* the store has a gossip transport
  serving,  \* a request is being handled
  rows,     \* the entries in memory: key -> [value, exp], exp 0 for none
  disk,     \* the snapshot file: readable or not, and its entries
  call,     \* where each caller of Shutdown is, and the entries it collected
  doneClosed,\* g.done is closed
  left,     \* reference: how the last process ended, and its entries when Serve returned
  boots, writes,
  now       \* the time, from 1

Caller == {"watch", "main"}

lifeVars ==
  <<callers, proc, gossiping, serving, rows, disk, call, doneClosed, left, boots, writes, now>>

\* Plain values are of the types init registers with gob; custom ones are not.
\* Peers send plain values.
StoredValue == {"plain", "custom", "remote"}
Entries == UNION {[S -> [value : StoredValue, exp : 0..MaxNow]] : S \in SUBSET StoreKey}
NoFile == [readable |-> FALSE, rows |-> <<>>]
NoCall == [pc |-> "idle", rows |-> <<>>]

LifeTypeOK ==
  /\ callers \subseteq Caller
  /\ proc \in {"off", "serving", "draining", "served", "panicked"}
  /\ gossiping \in BOOLEAN /\ serving \in BOOLEAN /\ doneClosed \in BOOLEAN
  /\ rows \in Entries /\ disk \in [readable : BOOLEAN, rows : Entries]
  /\ call \in [Caller -> [pc : {"idle", "cancelled", "stopped", "created", "collected", "done"},
                          rows : Entries]]
  /\ left \in [how : {"never", "orderly", "forced"}, rows : Entries]
  /\ boots \in 0..MaxBoots /\ writes \in 0..MaxChanges /\ now \in 1..MaxNow

Unexpired(es) == [k \in {k \in DOMAIN es : es[k].exp = 0 \/ now <= es[k].exp} |-> es[k]]
Encodable(es) == \A k \in DOMAIN es : es[k].value # "custom"

LifeInit ==
  /\ callers \in SUBSET Caller \ {{}}
  /\ proc = "off" /\ gossiping \in BOOLEAN
  /\ serving = FALSE /\ rows = <<>> /\ disk = NoFile
  /\ call = [c \in Caller |-> NoCall] /\ doneClosed = FALSE
  /\ left = [how |-> "never", rows |-> <<>>] /\ boots = 0 /\ writes = 0 /\ now = 1

---------------------------------------------------------------------------
(* New, the store's operations and the process.                            *)

\* Mutant of LoadSnapshot: expired entries are loaded too.
LoadKeepsExpired(file) == IF file.readable THEN file.rows ELSE <<>>

\* loadSnapshot: a file that cannot be decoded is an error that New drops.
LoadSnapshot(file) == IF file.readable THEN Unexpired(file.rows) ELSE <<>>

Boot ==
  /\ proc = "off" /\ boots < MaxBoots
  /\ proc' = "serving" /\ boots' = boots + 1
  /\ rows' = LoadSnapshot(disk)
  /\ call' = [c \in Caller |-> NoCall] /\ doneClosed' = FALSE
  /\ serving' = FALSE
  /\ UNCHANGED <<callers, gossiping, disk, left, writes, now>>

ProcessAlive == proc \in {"serving", "draining", "served"}

\* Requests arrive while the kernel accepts them; only they write.
RequestBegins ==
  /\ proc = "serving" /\ ~serving /\ writes < MaxChanges
  /\ serving' = TRUE
  /\ UNCHANGED <<callers, proc, gossiping, rows, disk, call, doneClosed, left, boots, writes, now>>

RequestEnds ==
  /\ ProcessAlive /\ serving
  /\ serving' = FALSE
  /\ UNCHANGED <<callers, proc, gossiping, rows, disk, call, doneClosed, left, boots, writes, now>>

Change(new) ==
  /\ writes < MaxChanges /\ writes' = writes + 1
  /\ rows' = new
  /\ UNCHANGED <<callers, proc, gossiping, serving, disk, call, doneClosed, left, boots, now>>

Put(k, e) == [j \in DOMAIN rows \union {k} |-> IF j = k THEN e ELSE rows[j]]

Set(k, v, exp) == ProcessAlive /\ serving /\ Change(Put(k, [value |-> v, exp |-> exp]))
Delete(k) == ProcessAlive /\ serving /\ k \in DOMAIN rows /\ Change([j \in DOMAIN rows \ {k} |-> rows[j]])

\* A peer's write: stop closes the listener and the connections this node
\* dialled, not the ones it accepted, so they arrive until the process is gone.
RemoteSet(k) == ProcessAlive /\ gossiping /\ Change(Put(k, [value |-> "remote", exp |-> 0]))

\* Time passes, for a running process and between two; evict and the removal on
\* read make no difference to what is read.
Clock ==
  /\ now < MaxNow /\ now' = now + 1
  /\ UNCHANGED <<callers, proc, gossiping, serving, rows, disk, call, doneClosed, left, boots, writes>>

---------------------------------------------------------------------------
(* Kernel.Serve.                                                           *)

\* SIGTERM: the kernel stops accepting; watchShutdown receives it as well,
\* and starts Shutdown at some later moment.
Signal ==
  /\ proc = "serving"
  /\ proc' = "draining"
  /\ UNCHANGED <<callers, gossiping, serving, rows, disk, call, doneClosed, left, boots, writes, now>>

\* Server.Shutdown waits for the request, at most ShutdownTimeout.
Drained ==
  /\ proc = "draining" /\ ~serving
  /\ proc' = "served" /\ left' = [how |-> "orderly", rows |-> rows]
  /\ UNCHANGED <<callers, gossiping, serving, rows, disk, call, doneClosed, boots, writes, now>>

DrainTimeout ==
  /\ proc = "draining" /\ serving
  /\ proc' = "served" /\ left' = [how |-> "forced", rows |-> rows]
  /\ UNCHANGED <<callers, gossiping, serving, rows, disk, call, doneClosed, boots, writes, now>>

\* main returns: at once, or after its own Shutdown.
MainReturns ==
  /\ proc = "served" /\ ("main" \in callers => call["main"].pc = "done")
  /\ proc' = "off" /\ serving' = FALSE
  /\ UNCHANGED <<callers, gossiping, rows, disk, call, doneClosed, left, boots, writes, now>>

\* The process is killed, or a panic of a Shutdown takes it down.
ProcessDies ==
  /\ ProcessAlive \/ proc = "panicked"
  /\ proc' = "off" /\ left' = [how |-> "forced", rows |-> rows]
  /\ serving' = FALSE
  /\ UNCHANGED <<callers, gossiping, rows, disk, call, doneClosed, boots, writes, now>>

---------------------------------------------------------------------------
(* Store.Shutdown.                                                         *)

At(c, from, to) ==
  /\ ProcessAlive /\ call[c].pc = from
  /\ call' = [call EXCEPT ![c].pc = to]
  /\ UNCHANGED <<callers, gossiping, serving, rows, left, boots, writes, now>>

\* watchShutdown starts on the signal unless the context is already done, main
\* after Serve; cancel.
Cancel(c) ==
  /\ c \in callers
  /\ IF c = "watch" THEN proc \in {"draining", "served"} ELSE proc = "served"
  /\ At(c, "idle", "cancelled")
  /\ UNCHANGED <<proc, disk, doneClosed>>

\* gossip.stop: a channel that is closed twice panics.
StopGossip(c) ==
  /\ At(c, "cancelled", "stopped")
  /\ proc' = IF gossiping /\ doneClosed THEN "panicked" ELSE proc
  /\ doneClosed' = (doneClosed \/ gossiping)
  /\ UNCHANGED disk

\* saveSnapshot: os.Create truncates the file of the last shutdown.
CreateFile(c) ==
  /\ At(c, "stopped", "created")
  /\ disk' = NoFile
  /\ UNCHANGED <<proc, doneClosed>>

Collect(c) ==
  /\ ProcessAlive /\ call[c].pc = "created"
  /\ call' = [call EXCEPT ![c] = [pc |-> "collected", rows |-> Unexpired(rows)]]
  /\ UNCHANGED <<callers, proc, gossiping, serving, rows, disk, doneClosed, left, boots, writes, now>>

\* Encode fails on a value of an unregistered type; two callers that write at
\* the same time may leave anything.
Overlapping(c) == \E d \in Caller \ {c} : call[d].pc \in {"created", "collected"}
Encode(c) ==
  /\ At(c, "collected", "done")
  /\ LET written == IF Encodable(call[c].rows) THEN [readable |-> TRUE, rows |-> call[c].rows] ELSE NoFile
     IN disk' \in {written} \union (IF Overlapping(c) THEN {NoFile} ELSE {})
  /\ UNCHANGED <<proc, doneClosed>>

ShutdownStep(c) ==
  Cancel(c) \/ StopGossip(c) \/ CreateFile(c) \/ Collect(c) \/ Encode(c)

KernelStep == Drained \/ DrainTimeout \/ MainReturns \/ (proc = "panicked" /\ ProcessDies)

LifeNext ==
  \/ Boot \/ RequestBegins \/ RequestEnds \/ Signal \/ Drained \/ DrainTimeout \/ MainReturns \/ ProcessDies
  \/ Clock
  \/ \E c \in Caller : Cancel(c) \/ StopGossip(c) \/ CreateFile(c) \/ Collect(c) \/ Encode(c)
  \/ \E k \in StoreKey :
       \/ Set(k, "plain", 0) \/ Set(k, "plain", now) \/ Set(k, "custom", 0)
       \/ Delete(k) \/ RemoteSet(k)

\* The kernel's select, the timeout of Server.Shutdown and the goroutines that
\* run Shutdown all proceed.
LifeFairness ==
  WF_lifeVars(KernelStep) /\ \A c \in Caller : WF_lifeVars(ShutdownStep(c))

LifeSpec == LifeInit /\ [][LifeNext]_lifeVars /\ LifeFairness

---------------------------------------------------------------------------
\* "On graceful shutdown, Oni Memory writes a snapshot to SnapshotPath. On next
\* startup it restores automatically" (docs/memory.md 82): a process that was
\* signalled, finished its requests in time and exited leaves its successor
\* every unexpired entry and nothing else, provided gob knows the values
\* (store.go 480-488) and main itself calls Shutdown after Serve; a peer's write
\* may take the place of an entry.  The Shutdown that GracefulSave starts may
\* come before the last request, after the exit, or at the same time as main's.
SnapshotRestores ==
  [][ Boot /\ callers = {"main"} /\ left.how = "orderly" /\ Encodable(left.rows) =>
        LET was == Unexpired(left.rows) IN
        \A k \in StoreKey :
          \/ k \in DOMAIN rows' /\ rows'[k].value = "remote"
          \/ (k \in DOMAIN was <=> k \in DOMAIN rows') /\ (k \in DOMAIN was => rows'[k] = was[k])
  ]_lifeVars

\* A signalled process ends, whatever its requests and peers do (kernel.go
\* 120-135, store.go 365-377).
SignalEnds == proc \in {"draining", "panicked"} ~> proc = "off"
=============================================================================
