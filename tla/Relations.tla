------------------------------ MODULE Relations ------------------------------
(***************************************************************************)
(* Eager loading (framework/database/relations.go): one batch query per    *)
(* relation, its rows keyed by a column and handed back to the structs.    *)
(* The model is a self-referencing table: node.Children is has_many over   *)
(* parent_id, node.Parent belongs_to over parent_id, and node.Tags is      *)
(* many_to_many over a join table.  Other sessions write between a query   *)
(* and a Load.                                                             *)
(***************************************************************************)
EXTENDS Naturals, Sequences

CONSTANTS
  Node,       \* primary keys, positive numbers
  MaxStructs, \* bound on the rows of a query
  MaxRelSteps \* bound on writes and loads

ASSUME RelAssumption == Node \subseteq Nat \ {0} /\ {MaxStructs, MaxRelSteps} \subseteq Nat

VARIABLES
  parentOf,  \* parent_id of the rows that exist, 0 for a root
  linked,    \* the join table: pairs <<node, tag node>>
  ptrFK,     \* the model declares its foreign key as a pointer (*int64)
  dest,      \* the structs of the program: what All scanned, and their relations
  relSteps

relVars == <<parentOf, linked, ptrFK, dest, relSteps>>

Exists == DOMAIN parentOf
NoRow == 0

\* A Go map key of type any: the value with its dynamic type.  A pointer never
\* equals an integer.
PKKey(v) == <<"int64", v>>
FKKey(v) == IF ptrFK THEN <<"*int64", v>> ELSE <<"int64", v>>
NilKey == <<"nil", 0>>

\* collectPKs: the primary keys, each once.
CollectPKs(structs) == {structs[i].id : i \in DOMAIN structs}

\* Mutant of BuildFKMap: one row per key.
LastRowWins(rows, key) == [k \in {key[r] : r \in rows} |-> {CHOOSE r \in rows : key[r] = k}]

\* buildFKMap: the rows of a query grouped under the key each row has.
BuildFKMap(rows, key) == [k \in {key[r] : r \in rows} |-> {r \in rows : key[r] = k}]

\* buildPKMap: the row under each primary key.
BuildPKMap(rows) == [k \in {PKKey(r) : r \in rows} |-> k[2]]

---------------------------------------------------------------------------
StructType ==
  [id : Node, fk : Node \union {NoRow}, children : SUBSET Node, tags : SUBSET Node,
   parent : Node \union {NoRow}, loaded : SUBSET {"Children", "Parent"}]

RelTypeOK ==
  /\ Exists \subseteq Node /\ \A n \in Exists : parentOf[n] \in Node \union {NoRow}
  /\ linked \subseteq Node \X Node /\ ptrFK \in BOOLEAN
  /\ dest \in Seq(StructType)
  /\ relSteps \in 0..MaxRelSteps

RelInit ==
  /\ parentOf \in UNION {[S -> Node \union {NoRow}] : S \in SUBSET Node}
  /\ linked = {<<n, n>> : n \in Node}
  /\ ptrFK \in BOOLEAN
  /\ dest = <<>> /\ relSteps = 0

\* Builder.All over some ids; joins may return a row twice.
Struct(n) == [id |-> n, fk |-> parentOf[n], children |-> {}, tags |-> {}, parent |-> NoRow, loaded |-> {}]

Query ==
  /\ dest = <<>>
  /\ \E k \in 1..MaxStructs : \E ns \in [1..k -> Exists] : dest' = [i \in 1..k |-> Struct(ns[i])]
  /\ UNCHANGED <<parentOf, linked, ptrFK>>

\* Another session inserts, moves or deletes a row.
OtherWrites ==
  /\ \/ \E n \in Node, p \in Node \union {NoRow} :
          parentOf' = [m \in Exists \union {n} |-> IF m = n THEN p ELSE parentOf[m]]
     \/ \E n \in Exists : parentOf' = [m \in Exists \ {n} |-> parentOf[m]]
  /\ UNCHANGED <<linked, ptrFK, dest>>

\* SELECT * FROM table WHERE column IN (keys)
RowsIn(column, keys) == {n \in Exists : column[n] \in keys}

\* loadHasMany, assignHasMany: a struct without rows keeps the field it had.
AssignHasMany(e, related) ==
  [e EXCEPT !.children = IF PKKey(e.id) \in DOMAIN related THEN related[PKKey(e.id)] ELSE @,
            !.loaded = @ \union {"Children"}]

LoadHasMany ==
  /\ dest # <<>>
  /\ LET key == [n \in Exists |-> FKKey(parentOf[n])]
         related == BuildFKMap(RowsIn(parentOf, CollectPKs(dest)), key)
     IN dest' = [i \in DOMAIN dest |-> AssignHasMany(dest[i], related)]
  /\ UNCHANGED <<parentOf, linked, ptrFK>>

\* loadBelongsTo, assignBelongsTo; the map is keyed by the related row's
\* primary key and read with the struct's own foreign key.
AssignBelongsTo(e, related) ==
  [e EXCEPT !.parent = IF FKKey(e.fk) \in DOMAIN related THEN related[FKKey(e.fk)] ELSE @,
            !.loaded = @ \union {"Parent"}]

LoadBelongsTo ==
  /\ dest # <<>>
  /\ LET fks == {dest[i].fk : i \in DOMAIN dest}
         related == BuildPKMap(RowsIn([n \in Exists |-> n], fks))
     IN dest' = [i \in DOMAIN dest |-> AssignBelongsTo(dest[i], related)]
  /\ UNCHANGED <<parentOf, linked, ptrFK>>

\* loadManyToMany: buildFKMap looks the join key up among the columns of the
\* related struct, which has none of that name, so every row is under nil.
LoadManyToMany ==
  /\ dest # <<>>
  /\ LET rows == {l[2] : l \in {l \in linked : l[1] \in CollectPKs(dest) /\ l[2] \in Exists}}
         related == BuildFKMap(rows, [n \in rows |-> NilKey])
     IN dest' = [i \in DOMAIN dest |->
          [dest[i] EXCEPT !.tags = IF PKKey(dest[i].id) \in DOMAIN related
                                   THEN related[PKKey(dest[i].id)] ELSE @]]
  /\ UNCHANGED <<parentOf, linked, ptrFK>>

\* One of the bounded steps.
RelStep(A) == A /\ relSteps < MaxRelSteps /\ relSteps' = relSteps + 1

RelNext ==
  \/ RelStep(Query) \/ RelStep(OtherWrites) \/ RelStep(LoadHasMany)
  \/ RelStep(LoadBelongsTo) \/ RelStep(LoadManyToMany)

RelSpec == RelInit /\ [][RelNext]_relVars

---------------------------------------------------------------------------
\* A Load of Children hands every struct exactly the rows that point to it at
\* that moment, a duplicate included, if its keys have one type (a pointer key
\* loads nothing, relations.go 246-248) and if the field was not loaded before
\* (a struct whose rows are all gone keeps the stale ones, 290-293).
HasManyExact ==
  [][ LoadHasMany /\ ~ptrFK => \A i \in DOMAIN dest :
        LET own == {n \in Exists : parentOf[n] = dest[i].id} IN
        \/ dest'[i].children = own
        \/ own = {} /\ "Children" \in dest[i].loaded /\ dest'[i].children = dest[i].children
  ]_relVars

\* A struct is never given the Parent of another one: whatever moves between
\* the query and the Load, Parent is the row its own foreign key named when it
\* was read, and it is there if that row still existed.
BelongsToExact ==
  [][ \A i \in DOMAIN dest : dest'[i].parent # dest[i].parent \/ "Parent" \in dest'[i].loaded \ dest[i].loaded =>
        \/ dest'[i].parent = dest[i].fk /\ dest[i].fk \in Exists
        \/ dest'[i].parent = NoRow /\ (ptrFK \/ dest[i].fk \notin Exists)
  ]_relVars

\* Eager loading gives every struct its own related rows and nobody else's,
\* whatever other clients write between the query and the Load (relations.go
\* 50-164, 219-323).
RelationsExact == HasManyExact /\ BelongsToExact
=============================================================================
