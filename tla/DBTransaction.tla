---------------------------- MODULE DBTransaction ----------------------------
(***************************************************************************)
(* Nested transactions of framework/database: DB.TransactionContext opens  *)
(* a transaction at the outermost call and a savepoint at every inner one, *)
(* and the builder's writes run on the transaction their DB carries.  The  *)
(* database server (savepoints, the aborted state of Postgres) is external.*)
(* An inner call has a context of its own, which may end while the         *)
(* transaction goes on; its SAVEPOINT, RELEASE and ROLLBACK TO then fail   *)
(* without having been sent.                                               *)
(* ref is the reference: ref[1] is the table as of the last transaction    *)
(* that succeeded, ref[d + 1] what the program at depth d may rely on if   *)
(* every call that returned an error had no effect.  kept and loose name   *)
(* the rows two known defects of the code have touched: kept those that a  *)
(* failed inner call left in the transaction under way, loose those that   *)
(* were left so and committed, or inserted past the transaction.           *)
(***************************************************************************)
EXTENDS Naturals, Sequences, SequencesExt

CONSTANTS
  DBRow,     \* the rows a statement may insert or delete
  MaxDepth,  \* bound on nested Transaction calls
  MaxSteps,  \* bound on the calls a behaviour makes
  AutoID     \* the drivers on which the program inserts models with an auto id

ASSUME TxAssumption ==
  MaxDepth \in Nat /\ MaxSteps \in Nat /\ AutoID \subseteq {"postgres", "mysql"}

VARIABLES driver, dbRows, work, saves, tx, ref, kept, loose, steps

txVars == <<driver, dbRows, work, saves, tx, ref, kept, loose, steps>>

Depth == Len(ref) - 1

TxTypeOK ==
  /\ driver \in {"postgres", "mysql"}
  /\ dbRows \subseteq DBRow /\ work \subseteq DBRow
  /\ kept \subseteq DBRow /\ loose \subseteq DBRow
  /\ \A i \in DOMAIN saves :
       saves[i] \in [name : 1..MaxDepth, rows : SUBSET DBRow, kept : SUBSET DBRow]
  /\ tx \in {"none", "open", "aborted", "done"}
  /\ \A i \in DOMAIN ref : ref[i] \subseteq DBRow
  /\ Depth \in 0..MaxDepth /\ (Depth = 0 <=> tx = "none")
  /\ steps \in 0..MaxSteps

TxInit ==
  /\ driver \in {"postgres", "mysql"}
  /\ dbRows = {} /\ work = {} /\ saves = <<>> /\ tx = "none" /\ ref = <<{}>>
  /\ kept = {} /\ loose = {} /\ steps = 0

\* Rows s after a row is inserted or deleted.
Apply(s, r, add) == IF add THEN s \union {r} ELSE s \ {r}
Relied(r, add) == [ref EXCEPT ![Len(ref)] = Apply(@, r, add)]
Discard == work' = {} /\ saves' = <<>>

\* The rows the call that runs has changed.
Changed == (Last(ref) \ ref[Depth]) \union (ref[Depth] \ Last(ref))

---------------------------------------------------------------------------
(* The server's savepoints.                                                *)

\* The newest savepoint of that name, 0 if there is none.
Newest(name) ==
  IF \E i \in DOMAIN saves : saves[i].name = name
  THEN CHOOSE i \in DOMAIN saves :
         saves[i].name = name /\ \A j \in i+1..Len(saves) : saves[j].name # name
  ELSE 0

\* SAVEPOINT name: MySQL deletes the older savepoint of that name, Postgres
\* shadows it.
Savepoint(name) ==
  Append(IF driver = "mysql" /\ Newest(name) > 0 THEN RemoveAt(saves, Newest(name)) ELSE saves,
         [name |-> name, rows |-> work, kept |-> kept])

\* ROLLBACK TO SAVEPOINT keeps the savepoint and drops the later ones; it is
\* what brings an aborted Postgres transaction back.
RollbackTo(name) ==
  IF Newest(name) = 0 \/ tx = "done" THEN UNCHANGED <<work, kept, saves, tx>>
  ELSE /\ work' = saves[Newest(name)].rows
       /\ kept' = saves[Newest(name)].kept
       /\ saves' = SubSeq(saves, 1, Newest(name))
       /\ tx' = "open"

---------------------------------------------------------------------------
(* DB.TransactionContext.                                                  *)

BeginTx ==
  /\ Depth = 0 /\ MaxDepth > 0
  /\ tx' = "open" /\ work' = dbRows /\ saves' = <<>>
  /\ ref' = Append(ref, Last(ref))
  /\ UNCHANGED <<dbRows, kept, loose>>

\* Mutant of SavepointName: every savepoint has the same name.
SameName(d) == 1

\* The name of the savepoint of an inner call made at depth d: sp_d, so two
\* siblings share it and a call and its own inner calls do not.
SavepointName(d) == d

\* An inner call.  A savepoint that fails is an error of the inner call, whose
\* function then never runs: the transaction is aborted or over, or the context
\* of this call has ended (nothing changes then).
Nested ==
  /\ Depth \in 1..MaxDepth-1
  /\ IF tx = "open"
     THEN saves' = Savepoint(SavepointName(Depth)) /\ ref' = Append(ref, Last(ref))
     ELSE UNCHANGED <<saves, ref>>
  /\ UNCHANGED <<dbRows, work, tx, kept, loose>>

\* The function of an inner call returns nil: RELEASE SAVEPOINT, which an
\* aborted or finished transaction refuses, and that refusal is the error the
\* inner call returns.  Nothing is rolled back then.
Release ==
  /\ Depth > 1
  /\ LET name == SavepointName(Depth - 1) IN
     IF tx = "open" /\ Newest(name) > 0
     THEN /\ saves' = SubSeq(saves, 1, Newest(name) - 1)
          /\ ref' = Append(SubSeq(ref, 1, Depth - 1), Last(ref))
     ELSE /\ UNCHANGED saves
          /\ ref' = Front(ref)
  /\ UNCHANGED <<dbRows, work, tx, kept, loose>>

\* The function of an inner call returns an error; the caller gets it and may
\* go on or fail in its turn.
InnerFails ==
  /\ Depth > 1
  /\ RollbackTo(SavepointName(Depth - 1))
  /\ ref' = Front(ref)
  /\ UNCHANGED <<dbRows, loose>>

\* The context of an inner call has ended when its function returns: RELEASE or
\* ROLLBACK TO returns that error, which is the call's own in the first case
\* and is ignored in the second.  The call has failed, and what it wrote stays.
InnerCut ==
  /\ Depth > 1
  /\ ref' = Front(ref)
  /\ kept' = kept \union Changed
  /\ UNCHANGED <<dbRows, work, saves, tx, loose>>

\* The outermost function returns nil: Commit, which is a rollback and an error
\* when the transaction is aborted and an error when it is already over.
Commit ==
  /\ Depth = 1
  /\ IF tx = "open" THEN dbRows' = work /\ ref' = <<Last(ref)>> /\ loose' = loose \union kept
     ELSE UNCHANGED <<dbRows, loose>> /\ ref' = <<Head(ref)>>
  /\ Discard /\ tx' = "none" /\ kept' = {}

\* Mutant of Rollback: an inner call recovers the panic and rolls everything back.
InnerRecovers ==
  /\ Depth >= 1
  /\ ref' = Front(ref)
  /\ Discard /\ tx' = "none" /\ kept' = {}
  /\ UNCHANGED <<dbRows, loose>>

\* The outermost function returns an error, or a panic at any depth reaches
\* the recover of the outermost call: Rollback.
Rollback ==
  /\ Depth >= 1
  /\ ref' = <<Head(ref)>>
  /\ Discard /\ tx' = "none" /\ kept' = {}
  /\ UNCHANGED <<dbRows, loose>>

\* The context of the outermost call ends while the transaction runs:
\* database/sql rolls it back and every later statement, and Commit, returns
\* an error.
CtxDone ==
  /\ tx \in {"open", "aborted"}
  /\ tx' = "done" /\ Discard
  /\ UNCHANGED <<dbRows, ref, kept, loose>>

---------------------------------------------------------------------------
(* The builder's statements.                                               *)

\* execContext: on the transaction if there is one, else committed at once.
ExecContext(r) ==
  LET add == r \notin IF tx = "none" THEN dbRows ELSE work IN
  /\ tx \in {"open", "none"}
  /\ ref' = Relied(r, add)
  /\ IF tx = "none" THEN dbRows' = Apply(dbRows, r, add) /\ UNCHANGED work
     ELSE work' = Apply(work, r, add) /\ UNCHANGED dbRows
  /\ UNCHANGED <<saves, tx, kept, loose>>

\* A statement the server refuses: Postgres aborts the transaction.
ExecFails ==
  /\ tx = "open" /\ driver = "postgres"
  /\ tx' = "aborted"
  /\ UNCHANGED <<dbRows, work, saves, ref, kept, loose>>

\* INSERT ... RETURNING through sqlDB: committed at once, whatever becomes of
\* the transaction; its statements see the row, behind any savepoint too.
InsertPastTx(r) ==
  /\ dbRows' = dbRows \union {r}
  /\ work' = IF tx \in {"open", "aborted"} THEN work \union {r} ELSE work
  /\ saves' = [i \in DOMAIN saves |-> [saves[i] EXCEPT !.rows = @ \union {r}]]
  /\ ref' = Relied(r, TRUE)
  /\ loose' = IF tx = "none" THEN loose ELSE loose \union {r}
  /\ UNCHANGED <<tx, kept>>

\* Builder.Insert of a model with an auto-increment key, which the database
\* draws: on Postgres it is read through sqlDB, elsewhere it is execContext.
InsertAutoID(r) ==
  /\ driver \in AutoID /\ r \notin dbRows \union work \union Last(ref)
  /\ IF driver = "postgres" THEN InsertPastTx(r) ELSE ExecContext(r)

TxStep(A) == A /\ steps < MaxSteps /\ steps' = steps + 1 /\ UNCHANGED driver

TxNext ==
  \/ TxStep(BeginTx) \/ TxStep(Nested) \/ TxStep(Release) \/ TxStep(InnerFails)
  \/ TxStep(InnerCut) \/ TxStep(Commit) \/ TxStep(Rollback) \/ TxStep(CtxDone) \/ TxStep(ExecFails)
  \/ \E r \in DBRow : TxStep(ExecContext(r)) \/ TxStep(InsertAutoID(r))

TxSpec == TxInit /\ [][TxNext]_txVars

---------------------------------------------------------------------------
\* "If fn returns nil, the transaction is committed; otherwise it is rolled
\* back" (db.go 197-198): the table holds what the calls that returned nil
\* wrote and nothing else, and no write shows before the outermost Commit.
AllOrNothing == dbRows = Head(ref)

\* A failed call of Transaction, outermost or nested, leaves no trace and a
\* successful one loses nothing (db.go 197-241), whatever mixture of inner
\* successes, failures, ended contexts and reused savepoint names came before.
\* Rows are excepted one by one: those that a failed inner call had changed
\* when its rollback could not be sent, until the transaction is rolled back
\* to before it or as a whole ("inner failures can be rolled back independently",
\* db.go 199, does not hold for these), and those inserted past a transaction.
TxExact ==
  /\ dbRows \ loose = Head(ref) \ loose
  /\ tx = "open" => work \ (loose \union kept) = Last(ref) \ (loose \union kept)
=============================================================================
