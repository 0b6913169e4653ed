------------------------------ MODULE ConnPool ------------------------------
(***************************************************************************)
(* The connections a builder's terminal methods hold.  database/sql        *)
(* (external) hands out at most MaxOpen connections and blocks the caller  *)
(* that asks for one more; a query keeps its connection until its rows are *)
(* closed or read to the end, a transaction until it ends.  What matters   *)
(* here is which methods ask for a second connection while they hold one.  *)
(***************************************************************************)
EXTENDS Naturals, Sequences, SequencesExt, FiniteSets, Functions

CONSTANTS
  Request,   \* goroutines that run one database call each
  MaxOpen    \* Config.MaxOpen, 0 for no limit

ASSUME PoolAssumption == MaxOpen \in Nat

VARIABLES kind, todo, held

poolVars == <<kind, todo, held>>

---------------------------------------------------------------------------
(* The connections each method gets and puts back, in order.               *)

\* One statement: Exec, Update, Delete, Save, InsertMap, Count, Pluck, Scan,
\* and All without relations; the rows are closed on every return.
Statement == <<"get", "put">>

\* Mutant of AllWith: the rows are still open while the relations are loaded.
AllWithRows == <<"get", "get", "put", "put">>

\* All reads its rows to the end, which gives the connection back, and then
\* runs one more query per relation.
AllWith == <<"get", "put", "get", "put">>

\* First has read one row and closes its rows only after AfterFind and
\* LoadContext have run their own queries.
FirstWith == <<"get", "get", "put", "put">>

\* A COUNT and then All.
PaginateWith == Statement \o AllWith

\* A transaction on Postgres whose Insert reads its id through sqlDB.
InsertInTx == <<"get", "get", "put", "put">>

Script ==
  [statement |-> Statement, all |-> AllWith, first |-> FirstWith,
   paginate |-> PaginateWith, insert |-> InsertInTx]

Kind == DOMAIN Script

\* The kinds that can wait for a connection while they hold one.
Holding == {"first", "insert"}

---------------------------------------------------------------------------
PoolTypeOK ==
  /\ kind \in [Request -> Kind \union {"none"}]
  /\ \A r \in Request : ToSet(todo[r]) \subseteq {"get", "put"}
  /\ held \in [Request -> 0..2]

PoolInit ==
  /\ kind = [r \in Request |-> "none"] /\ todo = [r \in Request |-> <<>>]
  /\ held = [r \in Request |-> 0]

\* A goroutine makes its call, of whatever kind the others are.
MakeCall(r, k) ==
  /\ kind[r] = "none"
  /\ kind' = [kind EXCEPT ![r] = k] /\ todo' = [todo EXCEPT ![r] = Script[k]]
  /\ UNCHANGED held

\* SetMaxOpenConns: 0 is no limit.
Free == MaxOpen = 0 \/ FoldFunction(+, 0, held) < MaxOpen

Get(r) ==
  /\ todo[r] # <<>> /\ Head(todo[r]) = "get" /\ Free
  /\ held' = [held EXCEPT ![r] = @ + 1]
  /\ todo' = [todo EXCEPT ![r] = Tail(@)]
  /\ UNCHANGED kind

Put(r) ==
  /\ todo[r] # <<>> /\ Head(todo[r]) = "put"
  /\ held' = [held EXCEPT ![r] = @ - 1]
  /\ todo' = [todo EXCEPT ![r] = Tail(@)]
  /\ UNCHANGED kind

\* The query fails, or its context ends while it waits: the method returns, or
\* drops the error of a relation, and closes what it holds.
Fails(r) ==
  /\ todo[r] # <<>> /\ Head(todo[r]) = "get"
  /\ todo' = [todo EXCEPT ![r] = [i \in 1..held[r] |-> "put"]]
  /\ UNCHANGED <<kind, held>>

PoolNext == \E r \in Request : Get(r) \/ Put(r) \/ Fails(r) \/ \E k \in Kind : MakeCall(r, k)

\* database/sql hands a connection that is put back to a caller that waits.
PoolFairness == \A r \in Request : WF_poolVars(Get(r)) /\ WF_poolVars(Put(r))

---------------------------------------------------------------------------
\* Every connection there is belongs to a First with relations, or to a
\* transaction that inserts, and each of them waits for one more.
Exhausted ==
  /\ MaxOpen # 0
  /\ Cardinality({r \in Request : /\ kind[r] \in Holding /\ held[r] = 1
                                  /\ todo[r] # <<>> /\ Head(todo[r]) = "get"}) = MaxOpen

\* Every call returns and has given its connections back, although First with
\* relations and Insert in a transaction hold one while they wait for another
\* (builder.go 292-298, 498-499): calls hang for one reason only, that MaxOpen
\* calls of those two kinds hold a connection each and no context ends.
PoolProgress ==
  \/ <>[]Exhausted
  \/ \A r \in Request : todo[r] # <<>> ~> todo[r] = <<>> /\ held[r] = 0
=============================================================================
