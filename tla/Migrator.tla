------------------------------ MODULE Migrator ------------------------------
(***************************************************************************)
(* The migration runner (framework/migrations/migrator.go): processes that *)
(* migrate or roll back one database, each with the migrations its release *)
(* knows, and that may fail or die between any two statements.             *)
(*                                                                         *)
(* The database is external.  A migration stands for its statements.  Up   *)
(* of one that is applied already succeeds if all of them say IF NOT       *)
(* EXISTS, as Create's do (table.go 131-149), and fails otherwise, as an   *)
(* added column or an index of MySQL does; Down of one that is not applied *)
(* succeeds if it is DropIfExists (schema.go 104) and fails if it is Drop. *)
(* PostgreSQL runs the statements of a batch in its transaction, and the   *)
(* Up of a migration that another open transaction has run waits for that  *)
(* one.  MySQL commits with every DDL statement.  Nothing keeps            *)
(* oni_migrations from having two rows of one name (migrator.go 228-235).  *)
(* Migrations are numbered in the order of their names.                    *)
(***************************************************************************)
EXTENDS Integers, FiniteSets, FiniteSetsExt

CONSTANTS Migration,    \* numbers
          UpRepeats,    \* those whose Up succeeds when they are applied
          DownRepeats,  \* those whose Down succeeds when they are not
          Deployer,     \* processes
          Known,        \* process -> the migrations its release has
          Dialects,     \* databases to check: "postgres", "mysql"
          MaxCommands   \* bound on commands

ASSUME MigratorAssumption ==
  /\ Migration \subseteq Nat /\ UpRepeats \subseteq Migration /\ DownRepeats \subseteq Migration
  /\ Known \in [Deployer -> SUBSET Migration]
  /\ Dialects \subseteq {"postgres", "mysql"} /\ MaxCommands \in Nat

VARIABLES dialect,     \* the database, fixed
          table,       \* rows of oni_migrations: name, batch and the command that inserted it
          schema,      \* the migrations whose effect is committed
          cmd,         \* process -> its command in progress
          commands,    \* commands so far
          halfDone,    \* applied by a command that ended before it recorded them, and not recorded since
          halfUndone,  \* undone by a command that ended before it said so, and not forgotten since
          mixed        \* a rollback and another command were under way together

migVars == <<dialect, table, schema, cmd, commands, halfDone, halfUndone, mixed>>

Row == [name : Migration, batch : Nat, by : 1..MaxCommands]

NoCmd == [pc |-> "idle", kind |-> "none", todo |-> {}, batch |-> 0, up |-> {}, rows |-> {}, number |-> 0]

MigTypeOK ==
  /\ dialect \in Dialects
  /\ table \subseteq Row /\ schema \subseteq Migration
  /\ \A d \in Deployer :
       /\ cmd[d].pc \in {"idle", "batch", "up", "record", "commit", "names", "down", "forget"}
       /\ cmd[d].kind \in {"none", "migrate", "rollback"}
       /\ cmd[d].todo \subseteq Migration /\ cmd[d].batch \in Nat
       /\ cmd[d].number \in 0..MaxCommands
       /\ cmd[d].up \subseteq Migration /\ cmd[d].rows \subseteq Row
  /\ commands \in 0..MaxCommands
  /\ halfDone \subseteq Migration /\ halfUndone \subseteq Migration /\ mixed \in BOOLEAN

MigInit ==
  /\ dialect \in Dialects
  /\ table = {} /\ schema = {}
  /\ cmd = [d \in Deployer |-> NoCmd]
  /\ commands = 0
  /\ halfDone = {} /\ halfUndone = {} /\ mixed = FALSE

----------------------------------------------------------------------------
Ran == {row.name : row \in table}

\* lastBatch: COALESCE(MAX(batch), 0).
LastBatch ==
  IF table = {} THEN 0
  ELSE CHOOSE b \in {row.batch : row \in table} : \A row \in table : row.batch <= b

\* A command starts; the history notes a rollback beside another command.
Begin(d, kind) ==
  /\ cmd[d].pc = "idle" /\ commands < MaxCommands
  /\ commands' = commands + 1
  /\ mixed' = (mixed \/ \E o \in Deployer \ {d} :
                          cmd[o].pc # "idle" /\ "rollback" \in {kind, cmd[o].kind})
  /\ UNCHANGED <<dialect, table, schema, halfDone, halfUndone>>

Quiet == UNCHANGED <<dialect, commands, halfDone, halfUndone, mixed>>

\* The migrations to run.
Pending(d) == Known[d] \ Ran

\* The one a command is at: migrations run in the order of their names and are
\* rolled back in reverse.
At(c) == IF c.kind = "migrate" THEN Min(c.todo) ELSE Max(c.todo)

\* Migrate: ensureTable and getRan.
MigrateRead(d) ==
  /\ Begin(d, "migrate")
  /\ cmd' = [cmd EXCEPT ![d] = [NoCmd EXCEPT !.pc = "batch", !.kind = "migrate", !.todo = Pending(d),
                                            !.number = commands + 1]]

\* nextBatch, a query of its own, whose error is ignored and counts as no batch so
\* far; then nothing to do, or BEGIN.
NextBatch(d) ==
  /\ cmd[d].pc = "batch"
  /\ \E last \in {LastBatch, 0} :
       cmd' = [cmd EXCEPT ![d] = IF @.todo = {} THEN NoCmd
                                 ELSE [@ EXCEPT !.pc = "up", !.batch = last + 1]]
  /\ UNCHANGED <<table, schema>> /\ Quiet

\* Does a transaction of another process hold what d is about to create?
Blocked(d) == \E o \in Deployer \ {d} : At(cmd[d]) \in cmd[o].up

\* The statements of the next migration, which change nothing if it is applied.
Up(d) ==
  LET m == At(cmd[d]) IN
  /\ cmd[d].pc = "up" /\ ~Blocked(d)
  /\ m \in schema => m \in UpRepeats
  /\ IF dialect = "postgres"
     THEN cmd' = [cmd EXCEPT ![d].pc = "record", ![d].up = @ \cup ({m} \ schema)] /\ UNCHANGED schema
     ELSE cmd' = [cmd EXCEPT ![d].pc = "record"] /\ schema' = schema \cup {m}
  /\ UNCHANGED table /\ Quiet

\* They fail because the migration is applied: the transaction is rolled back.
UpConflict(d) ==
  /\ cmd[d].pc = "up" /\ ~Blocked(d)
  /\ At(cmd[d]) \in schema \ UpRepeats
  /\ cmd' = [cmd EXCEPT ![d] = NoCmd]
  /\ UNCHANGED <<table, schema>> /\ Quiet

Recorded(d) == [name |-> At(cmd[d]), batch |-> cmd[d].batch, by |-> cmd[d].number]

AfterRecord(c) == [c EXCEPT !.todo = @ \ {At(c)}, !.pc = IF c.todo = {At(c)} THEN "commit" ELSE "up"]

\* The row is in the table, and with it the migration is recorded.
Insert(d) ==
  /\ table' = table \cup {Recorded(d)}
  /\ cmd' = [cmd EXCEPT ![d] = AfterRecord(@)]
  /\ halfDone' = halfDone \ {At(cmd[d])}

\* Mutant of Record: the row goes past the transaction (recordRan, not recordRanExec).
RecordOutside(d) ==
  /\ cmd[d].pc = "record"
  /\ Insert(d)
  /\ UNCHANGED <<dialect, schema, commands, halfUndone, mixed>>

\* recordRanExec on the batch's transaction, which MySQL has committed already.
Record(d) ==
  /\ cmd[d].pc = "record"
  /\ IF dialect = "postgres"
     THEN cmd' = [cmd EXCEPT ![d] = [AfterRecord(@) EXCEPT !.rows = cmd[d].rows \cup {Recorded(d)}]]
          /\ UNCHANGED <<table, halfDone>>
     ELSE Insert(d)
  /\ UNCHANGED <<dialect, schema, commands, halfUndone, mixed>>

CommitBatch(d) ==
  /\ cmd[d].pc = "commit"
  /\ table' = table \cup cmd[d].rows
  /\ schema' = schema \cup cmd[d].up
  /\ cmd' = [cmd EXCEPT ![d] = NoCmd]
  /\ Quiet

----------------------------------------------------------------------------
\* Rollback: the last batch; there may be none.
RollbackRead(d) ==
  /\ Begin(d, "rollback")
  /\ cmd' = [cmd EXCEPT ![d] = IF LastBatch = 0 THEN NoCmd
                               ELSE [NoCmd EXCEPT !.pc = "names", !.kind = "rollback", !.batch = LastBatch]]

\* getBatch.
BatchNames(d) ==
  LET names == {row.name : row \in {r \in table : r.batch = cmd[d].batch}} IN
  /\ cmd[d].pc = "names"
  /\ cmd' = [cmd EXCEPT ![d] = IF names = {} THEN NoCmd
                               ELSE [@ EXCEPT !.pc = "down", !.todo = names]]
  /\ UNCHANGED <<table, schema>> /\ Quiet

\* On to the next name of the batch.
NextName(c) == IF c.todo = {At(c)} THEN NoCmd ELSE [c EXCEPT !.todo = @ \ {At(c)}, !.pc = "down"]

\* A name this release does not know is skipped; otherwise Down, in a transaction of its
\* own, which may fail if there is nothing to undo.
Down(d) ==
  LET m == At(cmd[d]) IN
  /\ cmd[d].pc = "down"
  /\ \/ m \notin Known[d] /\ cmd' = [cmd EXCEPT ![d] = NextName(@)] /\ UNCHANGED schema
     \/ m \in Known[d] \cap (schema \cup DownRepeats) /\ cmd' = [cmd EXCEPT ![d].pc = "forget"] /\ schema' = schema \ {m}
     \/ m \in Known[d] \ (schema \cup DownRepeats) /\ cmd' = [cmd EXCEPT ![d] = NoCmd] /\ UNCHANGED schema
  /\ UNCHANGED table /\ Quiet

\* deleteRan: every row of that name.
Forget(d) ==
  /\ cmd[d].pc = "forget"
  /\ table' = {row \in table : row.name # At(cmd[d])}
  /\ cmd' = [cmd EXCEPT ![d] = NextName(@)]
  /\ halfUndone' = halfUndone \ {At(cmd[d])}
  /\ UNCHANGED <<dialect, schema, commands, halfDone, mixed>>

\* A statement fails, the context ends or the process dies: an open transaction is
\* rolled back, what was committed stays.
Abort(d) ==
  /\ cmd[d].pc # "idle"
  /\ cmd' = [cmd EXCEPT ![d] = NoCmd]
  /\ halfDone' = IF cmd[d].pc = "record" /\ dialect = "mysql"
                 THEN halfDone \cup {At(cmd[d])} ELSE halfDone
  /\ halfUndone' = IF cmd[d].pc = "forget" THEN halfUndone \cup {At(cmd[d])} ELSE halfUndone
  /\ UNCHANGED <<dialect, table, schema, commands, mixed>>

MigNext ==
  \E d \in Deployer :
    \/ MigrateRead(d) \/ NextBatch(d) \/ Up(d) \/ UpConflict(d) \/ Record(d) \/ CommitBatch(d)
    \/ RollbackRead(d) \/ BatchNames(d) \/ Down(d) \/ Forget(d)
    \/ Abort(d)

MigSpec == MigInit /\ [][MigNext]_migVars

----------------------------------------------------------------------------
(* Properties *)

AtStep(pc) == {At(cmd[d]) : d \in {o \in Deployer : cmd[o].pc = pc}}

\* "a failure partway through rolls the ENTIRE batch back, never leaving the schema
\* half-applied" (migrator.go:109): what is applied is recorded and what is
\* recorded is applied, except a migration between its statements and its row,
\* or one whose command died there: undoing, and with MySQL applying too.
\* It holds for processes that migrate together, not for a rollback beside them.
HalfWay == IF dialect = "mysql" THEN halfDone \cup AtStep("record") ELSE {}

TableMatchesSchema ==
  ~mixed => schema \ Ran \subseteq HalfWay /\ Ran \ schema \subseteq halfUndone \cup AtStep("forget")

\* However many processes migrate together, a migration that cannot be run twice is
\* recorded once; one that can be may have a row of each process.
RecordedOnce ==
  ~mixed => \A r1, r2 \in table : r1.name = r2.name /\ r1.name \notin UpRepeats => r1 = r2

\* As long as no rollback runs beside another command, the migrations table and the
\* schema agree up to the steps under way or cut off by a crash and not made good by a
\* later command, however many processes migrate together; and what cannot be run twice
\* is recorded once (migrator.go 83-178).
MigrationsExact == TableMatchesSchema /\ RecordedOnce
=============================================================================
