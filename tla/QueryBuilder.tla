---------------------------- MODULE QueryBuilder ----------------------------
(***************************************************************************)
(* The pooled query builder (framework/database/builder.go): a chain of    *)
(* calls fills a Builder, a terminal method assembles one statement with   *)
(* its argument list, runs it and puts the builder back into the pool with *)
(* all its fields still set.  A row is its id; the statement is evaluated  *)
(* the way SQL does, the k-th placeholder bound to the k-th argument.      *)
(* asked records the calls of the current chain, for the reference.        *)
(***************************************************************************)
EXTENDS Integers, Sequences, SequencesExt, FiniteSets, FiniteSetsExt

CONSTANTS
  Id,         \* primary keys
  Clause,     \* WHERE clauses with their arguments: "col IN (?,..)", "col NOT IN
              \* (?,..)", the "1=0" of an empty WhereIn, a raw "1=1"
  Number,     \* what Having, Limit, Offset and Paginate are called with
  MaxCalls,   \* bound on the calls of one chain
  MaxQueries  \* bound on the chains of one behaviour

ASSUME BuilderAssumption ==
  /\ Id \subseteq Nat /\ IsFiniteSet(Id) /\ Number \subseteq Nat
  /\ MaxCalls \in Nat /\ MaxQueries \in Nat
  /\ \A c \in Clause : c.args \in Seq(Id) /\ c.text \in {"in", "notin", "true", "false"}

VARIABLES
  data,     \* id -> "live", "trashed" (deleted_at set) or "gone"
  b,        \* the builder, in use or in the pool
  busy,     \* it is in use
  asked,    \* the calls of the chain that is running or has just ended
  out,      \* what the last terminal method did and returned
  queries

builderVars == <<data, b, busy, asked, out, queries>>

Group(i) == i % 2  \* the column GROUP BY names

---------------------------------------------------------------------------
(* The builder.                                                            *)

Zero == [wheres |-> <<>>, group |-> FALSE, having |-> <<>>, limit |-> 0, offset |-> 0,
         trashed |-> FALSE, soft |-> FALSE, err |-> FALSE]

\* Mutant of Reset: the flag of the last chain stays set.
ResetKeepsTrashed(x) == [Zero EXCEPT !.trashed = x.trashed]

\* Builder.reset clears every field of the builder.
Reset(x) == Zero

\* DB.Table: a builder of the pool, reset.
TableCall ==
  /\ ~busy /\ queries < MaxQueries
  /\ b' = Reset(b) /\ busy' = TRUE /\ asked' = <<>> /\ queries' = queries + 1
  /\ out' = [op |-> "none"]
  /\ UNCHANGED data

Chain(call, new) ==
  /\ busy /\ Len(asked) < MaxCalls
  /\ asked' = Append(asked, call)
  /\ b' = new
  /\ UNCHANGED <<data, busy, out, queries>>

Call(op) == [op |-> op]

Where(c, or) ==
  Chain([op |-> "where", clause |-> c, or |-> or],
        [b EXCEPT !.wheres = Append(@, [text |-> c.text, args |-> c.args, or |-> or])])

\* WhereNotIn without values adds no clause.
WhereNotInEmpty == Chain(Call("notin_empty"), b)
SoftDelete == Chain(Call("soft"), [b EXCEPT !.soft = TRUE])
WithTrashed == Chain(Call("trashed"), [b EXCEPT !.trashed = TRUE])
GroupBy == Chain(Call("group"), [b EXCEPT !.group = TRUE])
\* Having replaces an earlier one; its clause is "COUNT(*) >= ?".
Having(n) == b.group /\ Chain([op |-> "having", n |-> n], [b EXCEPT !.having = <<n>>])
Limit(n) == Chain([op |-> "limit", n |-> n], [b EXCEPT !.limit = n])
Offset(n) == Chain([op |-> "offset", n |-> n], [b EXCEPT !.offset = n])
\* Select, OrderBy or GroupBy with an expression the sanitiser refuses.
Unsafe == Chain(Call("unsafe"), [b EXCEPT !.err = TRUE])

---------------------------------------------------------------------------
(* SQL assembly.                                                           *)

Texts(x) == [k \in DOMAIN x.wheres |->
               [text |-> x.wheres[k].text, n |-> Len(x.wheres[k].args), or |-> x.wheres[k].or]]

\* The arguments of the first clauses, those of one after those of the other.
ArgsOf(wheres) ==
  LET args[k \in 0..Len(wheres)] == IF k = 0 THEN <<>> ELSE args[k - 1] \o wheres[k].args IN args

WhereArgs(x) == ArgsOf(x.wheres)[Len(x.wheres)]

\* "deleted_at IS NULL AND (" where ")": the parentheses decide whether an OR
\* of the chain can get past the filter.
Parens == TRUE

SelectArgs(x) == WhereArgs(x) \o x.having

BuildSelect(x) ==
  [where |-> Texts(x), hide |-> x.soft /\ ~x.trashed, parens |-> Parens, sets |-> 0,
   group |-> x.group, having |-> x.having # <<>>, limit |-> x.limit, offset |-> x.offset,
   args |-> SelectArgs(x)]

\* UPDATE and DELETE: the values of SET come before the arguments of WHERE, and
\* neither filters deleted rows.
BuildWrite(x, vals) ==
  [where |-> Texts(x), hide |-> FALSE, parens |-> TRUE, sets |-> Len(vals),
   group |-> FALSE, having |-> FALSE, limit |-> 0, offset |-> 0,
   args |-> vals \o WhereArgs(x)]

---------------------------------------------------------------------------
(* What the server makes of a statement (external).                        *)

\* The placeholders up to the end of a clause.
Placeholders(s) ==
  LET upTo[k \in 0..Len(s.where)] == IF k = 0 THEN s.sets ELSE upTo[k - 1] + s.where[k].n IN upTo

ClauseHolds(s, k, i) ==
  LET vals == {s.args[j] : j \in Placeholders(s)[k - 1] + 1 .. Placeholders(s)[k]} IN
  CASE s.where[k].text = "in" -> i \in vals
    [] s.where[k].text = "notin" -> i \notin vals
    [] s.where[k].text = "true" -> TRUE
    [] s.where[k].text = "false" -> FALSE

\* AND binds tighter than OR: of the clauses at some places, those of one
\* alternative are the ones from an OR up to the next.
Alternative(where, at, k) ==
  {j \in at : k <= j /\ \A l \in at : k < l /\ l <= j => ~where[l].or}
Starts(where, at) == {k \in at : where[k].or \/ \A j \in at : k <= j}

\* Without parentheses the filter joins the first alternative only.
Matches(s, d, i) ==
  LET live == ~s.hide \/ d[i] = "live" IN
  /\ d[i] # "gone"
  /\ IF s.where = <<>> THEN live
     ELSE /\ s.parens => live
          /\ \E k \in Starts(s.where, DOMAIN s.where) :
               /\ \A j \in Alternative(s.where, DOMAIN s.where, k) : ClauseHolds(s, j, i)
               /\ k = 1 => live

Matched(s, d) == {i \in DOMAIN d : Matches(s, d, i)}

\* The result rows: a row per group that satisfies HAVING, else the rows.
Results(s, d) ==
  LET m == Matched(s, d)
      size(g) == Cardinality({i \in m : Group(i) = g})
      least == s.args[Placeholders(s)[Len(s.where)] + 1]
  IN IF s.group
     THEN {g \in {Group(i) : i \in m} : s.having => size(g) >= least}
     ELSE m

\* The place of a row in key order, and the rows LIMIT and OFFSET leave.
Place(rows, r) == Cardinality({x \in rows : x <= r})
Paged(s, rows) ==
  {r \in rows : s.offset < Place(rows, r) /\ (s.limit > 0 => Place(rows, r) <= s.offset + s.limit)}

---------------------------------------------------------------------------
(* Terminal methods; every one ends by putting the builder back as it is.     *)

Finish(x, result, d) ==
  /\ busy
  /\ b' = x /\ busy' = FALSE /\ out' = result /\ data' = d
  /\ UNCHANGED <<asked, queries>>

Failed == Finish(b, [op |-> "error"], data)

Read(op, x) ==
  IF b.err THEN Failed
  ELSE LET s == BuildSelect(x) IN
       Finish(x, [op |-> op, rows |-> Paged(s, Results(s, data))], data)

All == Read("all", b)
First == Read("first", [b EXCEPT !.limit = 1])

\* The count of a grouped query is the count of its groups, without paging; an
\* ungrouped one keeps LIMIT and OFFSET on its single row.
CountOf(x) ==
  LET s == BuildSelect(x) IN
  IF ~x.group /\ x.offset > 0 THEN 0 ELSE Cardinality(Results(s, data))

Count ==
  IF b.err THEN Failed ELSE Finish(b, [op |-> "count", total |-> CountOf(b)], data)

\* The builder the COUNT of Paginate runs on: a copy of the filters.
CountClone(x) == [x EXCEPT !.limit = 0, !.offset = 0]

Paginate(p, n) ==
  LET page == IF p < 1 THEN 1 ELSE p
      per == IF n < 1 THEN 15 ELSE n
      total == CountOf(CountClone(b))
      s == BuildSelect([b EXCEPT !.limit = per, !.offset = (page - 1) * per])
  IN IF b.err THEN Failed
     ELSE Finish([b EXCEPT !.limit = per, !.offset = (page - 1) * per],
            [op |-> "page", total |-> total, page |-> page, per |-> per,
             items |-> Paged(s, Results(s, data)),
             last |-> Max({1, (total + per - 1) \div per}),
             from |-> IF total = 0 THEN 0 ELSE (page - 1) * per + 1,
             to |-> Min({page * per, total})], data)

\* Update, Delete and ForceDelete refuse a chain without WHERE.
Guarded(A) == IF b.err \/ b.wheres = <<>> THEN Failed ELSE A

Wrote(op, s, d) ==
  [op |-> op, rows |-> Matched(s, data), set |-> SubSeq(s.args, 1, s.sets), before |-> d]

SetValue == 9  \* the value Update assigns; a timestamp for a soft delete

Update ==
  Guarded(LET s == BuildWrite(b, <<SetValue>>) IN Finish(b, Wrote("update", s, data), data))

DeleteFrom(x) ==
  IF x.soft
  THEN LET s == BuildWrite(x, <<SetValue>>) IN
       Finish(x, Wrote("delete", s, data),
               [i \in Id |-> IF i \in Matched(s, data) THEN "trashed" ELSE data[i]])
  ELSE LET s == BuildWrite(x, <<>>) IN
       Finish(x, Wrote("delete", s, data),
               [i \in Id |-> IF i \in Matched(s, data) THEN "gone" ELSE data[i]])

Delete == Guarded(DeleteFrom(b))
ForceDelete == Guarded(DeleteFrom([b EXCEPT !.soft = FALSE]))

\* Save adds "pk = ?" to the chain and looks at no earlier error.
Save(i) ==
  LET x == [b EXCEPT !.wheres = Append(@, [text |-> "in", args |-> <<i>>, or |-> FALSE])]
      s == BuildWrite(x, <<SetValue>>)
  IN Finish(x, [op |-> "save", rows |-> Matched(s, data), set |-> SubSeq(s.args, 1, s.sets), pk |-> i],
            data)

BuilderTypeOK ==
  /\ data \in [Id -> {"live", "trashed", "gone"}]
  /\ DOMAIN b = DOMAIN Zero /\ Len(b.wheres) <= MaxCalls + 1
  /\ busy \in BOOLEAN /\ Len(asked) <= MaxCalls /\ queries \in 0..MaxQueries
  /\ out.op \in {"none", "error", "all", "first", "count", "page", "update", "delete", "save"}

BuilderInit ==
  /\ data = [i \in Id |-> "live"] /\ b = Zero /\ busy = FALSE
  /\ asked = <<>> /\ out = [op |-> "none"] /\ queries = 0

BuilderNext ==
  \/ TableCall
  \/ \E c \in Clause, or \in BOOLEAN : Where(c, or)
  \/ WhereNotInEmpty \/ SoftDelete \/ WithTrashed \/ GroupBy \/ Unsafe
  \/ \E n \in Number : Having(n) \/ Limit(n) \/ Offset(n)
  \/ All \/ First \/ Count \/ Update \/ Delete \/ ForceDelete
  \/ \E p, n \in Number : Paginate(p, n)
  \/ \E i \in Id : Save(i)

BuilderSpec == BuilderInit /\ [][BuilderNext]_builderVars

---------------------------------------------------------------------------
(* The reference: what the calls of the chain ask for.                     *)

Asks(op) == \E k \in DOMAIN asked : asked[k].op = op
AskedAt(op) == {k \in DOMAIN asked : asked[k].op = op}
AskedNumber(op) == IF Asks(op) THEN asked[Max(AskedAt(op))].n ELSE 0

AskedHolds(c, i) ==
  \/ c.text = "true"
  \/ c.text = "in" /\ i \in ToSet(c.args)
  \/ c.text = "notin" /\ i \notin ToSet(c.args)

AskedRow(i) ==
  LET at == AskedAt("where") IN
  at = {} \/ \E k \in Starts(asked, at) :
               \A j \in Alternative(asked, at, k) : AskedHolds(asked[j].clause, i)

\* A row in this state is one the chain can see.
Seen(st) == st = "live" \/ (st = "trashed" /\ (Asks("trashed") \/ ~Asks("soft")))
Visible(i) == Seen(data[i])

AskedResults ==
  LET rows == {i \in Id : Visible(i) /\ AskedRow(i)} IN
  IF Asks("group")
  THEN {g \in {Group(i) : i \in rows} :
          Cardinality({i \in rows : Group(i) = g}) >= AskedNumber("having")}
  ELSE rows

\* First and All return the rows the chain asked for and no others, whatever
\* the pooled builder was used for before and however ORs are mixed in: a
\* soft-deleted row never gets past the filter (builder.go 717-730), an unsafe
\* expression runs nothing, and Count agrees with the rows unless the chain
\* asked for an OFFSET.
ReadsWhatWasAsked ==
  /\ out.op \in {"all", "first"} =>
       /\ ~Asks("unsafe")
       /\ out.rows \subseteq AskedResults
       /\ out.op = "all" /\ ~Asks("limit") /\ ~Asks("offset") => out.rows = AskedResults
       /\ out.op = "first" /\ ~Asks("offset") => (out.rows = {} <=> AskedResults = {})
  /\ out.op = "count" /\ (Asks("offset") => Asks("group")) =>
       ~Asks("unsafe") /\ out.total = Cardinality(AskedResults)

\* Update, Delete and ForceDelete change no row the WHERE of the chain does not
\* name and every row it names that the chain can see, are refused when it
\* names none, and assign the values of SET, not an argument of WHERE
\* (builder.go 575-628, 778-793).  Whether a chain with SoftDelete and without
\* WithTrashed changes the trashed rows it names is left open: the documentation
\* adds the filter to every query (docs/database.md 120), the code to SELECT
\* only.  Save changes its own
\* row at most, unless the chain has an OrWhere.
WritesWhatWasAsked ==
  /\ out.op \in {"update", "delete"} =>
       /\ ~Asks("unsafe") /\ Asks("where")
       /\ \A i \in out.rows : i \in Id /\ out.before[i] # "gone" /\ AskedRow(i)
       /\ \A i \in Id : AskedRow(i) /\ Seen(out.before[i]) => i \in out.rows
  /\ out.op = "save" /\ (\A k \in AskedAt("where") : ~asked[k].or) =>
       out.rows \subseteq {out.pk}
  /\ out.op \in {"update", "save"} => out.set = <<SetValue>>

\* The pages of Paginate tile the result: Total counts the rows All would
\* return, and a page up to LastPage holds the rows From..To of them.
PagesTile ==
  out.op = "page" =>
    /\ out.total = Cardinality(AskedResults)
    /\ out.last = Cardinality({k \div out.per : k \in 0..out.total - 1} \union {0})
    /\ out.page <= out.last =>
         out.items = {r \in AskedResults : Place(AskedResults, r) \in out.from..out.to}
    /\ out.page > out.last => out.items = {}

\* First, All, Count and Paginate read, and Update, Delete, ForceDelete and Save
\* change, exactly the rows the chain asked for, whatever the reused builder was
\* used for before (builder.go 292-434, 548-628, 674-830).  Left open: Count with
\* an OFFSET and no grouping, Save with an OrWhere, and trashed rows under a
\* write of a SoftDelete chain.
BuilderExact == ReadsWhatWasAsked /\ WritesWhatWasAsked /\ PagesTile
=============================================================================
