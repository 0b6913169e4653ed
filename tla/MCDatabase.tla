----------------------------- MODULE MCDatabase -----------------------------
(***************************************************************************)
(* The database layer for TLC, each part by itself: a behaviour is a       *)
(* behaviour of the part chosen at the start, and the others rest.         *)
(*   tx        nested transactions (DBTransaction)                         *)
(*   builder   pooled query builders (QueryBuilder)                        *)
(*   relations eager loading (Relations)                                   *)
(*   ident     SELECT and ORDER BY texts (SafeIdent)                       *)
(*   pool      calls that share a connection pool (ConnPool)               *)
(*   migrator  processes that migrate and roll back (Migrator)             *)
(*   backup    dumps, restores and uploads (Backup)                        *)
(***************************************************************************)
EXTENDS DBTransaction, QueryBuilder, Relations, SafeIdent, ConnPool, Migrator, Backup

VARIABLE part

\* WHERE clauses with no, one and two arguments.
Clauses ==
  {[text |-> "in", args |-> <<1, 2>>], [text |-> "notin", args |-> <<2>>],
   [text |-> "false", args |-> <<>>], [text |-> "true", args |-> <<>>]}

\* A column, with and without its table, a star, something unsafe, and a
\* keyword for each place that has one.
Fields == {<<"col">>, <<"col", "col">>, <<"*">>, <<"unsafe">>, <<"desc">>, <<"nulls">>, <<"last">>, <<"as">>}

\* An old release that knows the first migration, and a new one.
Releases == [d \in Deployer |-> IF d = 1 THEN {1} ELSE Migration]

dbVars == <<part, txVars, builderVars, relVars, identVars, poolVars, migVars, backupVars>>

DatabaseTypeOK ==
  /\ TxTypeOK /\ BuilderTypeOK /\ RelTypeOK /\ IdentTypeOK
  /\ PoolTypeOK /\ MigTypeOK /\ BackupTypeOK

DatabaseInit ==
  /\ part \in {"tx", "builder", "relations", "ident", "pool", "migrator", "backup"}
  /\ TxInit /\ BuilderInit /\ RelInit /\ IdentInit /\ PoolInit /\ MigInit /\ BackupInit
  /\ part = "tx" \/ driver = "mysql"
  /\ part = "relations" \/ (parentOf = <<>> /\ ptrFK)
  /\ part = "migrator" \/ dialect = "postgres"

TxPart ==
  part = "tx" /\ TxNext
  /\ UNCHANGED <<part, builderVars, relVars, identVars, poolVars, migVars, backupVars>>
BuilderPart ==
  part = "builder" /\ BuilderNext
  /\ UNCHANGED <<part, txVars, relVars, identVars, poolVars, migVars, backupVars>>
RelPart ==
  part = "relations" /\ RelNext
  /\ UNCHANGED <<part, txVars, builderVars, identVars, poolVars, migVars, backupVars>>
IdentPart ==
  part = "ident" /\ IdentNext
  /\ UNCHANGED <<part, txVars, builderVars, relVars, poolVars, migVars, backupVars>>
PoolPart(A) ==
  part = "pool" /\ A
  /\ UNCHANGED <<part, txVars, builderVars, relVars, identVars, migVars, backupVars>>
MigPart ==
  part = "migrator" /\ MigNext
  /\ UNCHANGED <<part, txVars, builderVars, relVars, identVars, poolVars, backupVars>>
BackupPart(A) ==
  part = "backup" /\ A
  /\ UNCHANGED <<part, txVars, builderVars, relVars, identVars, poolVars, migVars>>

DatabaseNext ==
  \/ TxPart \/ BuilderPart \/ RelPart \/ IdentPart \/ MigPart
  \/ PoolPart(PoolNext) \/ BackupPart(BackupNext)

\* PoolFairness and BackupFairness, for the part that runs.
DatabaseFairness ==
  /\ \A r \in Request : WF_dbVars(PoolPart(Get(r))) /\ WF_dbVars(PoolPart(Put(r)))
  /\ WF_dbVars(BackupPart(Remote(UploadStep)))

DatabaseSpec == DatabaseInit /\ [][DatabaseNext]_dbVars /\ DatabaseFairness

\* Every call gets its connections and gives them back, unless all of them are
\* held by calls that wait for one more, and an upload returns although the
\* dump or the store may fail (builder.go 292-298, backup.go 278-291).
DatabaseFinishes == PoolProgress /\ UploadReturns
=============================================================================
