------------------------------ MODULE SafeIdent ------------------------------
(***************************************************************************)
(* The expressions Select, OrderBy and GroupBy take as text                *)
(* (framework/database/builder.go 822-941): a text is the sequence of its  *)
(* parts between commas, a part the sequence of its fields, a field the    *)
(* sequence of its words between dots.  The text is written field by       *)
(* field; every prefix is a possible argument.  Words are one of each kind *)
(* the code tells apart: a keyword (an identifier too), another            *)
(* identifier, the star, one with a character that is none of an           *)
(* identifier's, and the empty one beside a dot.                           *)
(***************************************************************************)
EXTENDS Naturals, Sequences, SequencesExt

CONSTANTS
  Sample,   \* the fields texts are written with
  MaxText   \* bound on the fields and commas of a text

VARIABLE text

identVars == <<text>>

Keyword == {"asc", "desc", "nulls", "first", "last", "as"}
Word == Keyword \union {"col", "*", "unsafe", "empty"}
Field == {<<w>> : w \in Word \ {"empty"}} \union
         {<<"col", "col">>, <<"col", "*">>, <<"*", "col">>, <<"col", "empty">>, <<"col", "col", "col">>}

ASSUME IdentAssumption == Sample \subseteq Field /\ MaxText \in Nat

IdentTypeOK == text \in Seq(Seq(Field)) /\ text # <<>>

IdentInit == text = << <<>> >>

Room == Len(FlattenSeq(text)) + Len(text) <= MaxText

AddField == \E f \in Sample : Room /\ text' = [text EXCEPT ![Len(text)] = Append(@, f)]

AddComma == Room /\ text' = Append(text, <<>>)

IdentNext == AddField \/ AddComma

IdentSpec == IdentInit /\ [][IdentNext]_identVars

---------------------------------------------------------------------------
Fail == [ok |-> FALSE, sql |-> <<>>]
Emit(sql) == [ok |-> TRUE, sql |-> sql]
Quote(w) == <<"quoted", w>>
Is(f, w) == f = <<w>>

IsSafeIdentSegment(w) == w \in Keyword \union {"col"}

\* quoteColumnRef: col, table.col, * or table.*.
QuoteColumnRef(f) ==
  IF Len(f) > 2 \/ \E i \in DOMAIN f : ~IsSafeIdentSegment(f[i]) /\ ~(f[i] = "*" /\ i = Len(f))
  THEN Fail
  ELSE Emit([i \in DOMAIN f |-> IF f[i] = "*" THEN "*" ELSE Quote(f[i])])

\* quoteSelectExpr: a column reference with an optional alias.
Aliased(f, alias) ==
  IF QuoteColumnRef(f).ok /\ Len(alias) = 1 /\ IsSafeIdentSegment(alias[1])
  THEN Emit(QuoteColumnRef(f).sql \o <<"AS", Quote(alias[1])>>) ELSE Fail
QuoteSelectExpr(t) ==
  CASE Len(t) = 1 -> QuoteColumnRef(t[1])
    [] Len(t) = 2 -> Aliased(t[1], t[2])
    [] Len(t) = 3 -> IF Is(t[2], "as") THEN Aliased(t[1], t[3]) ELSE Fail
    [] OTHER -> Fail

\* The fields behind the first, where each is one word.
Rest(t) == [i \in 1..(Len(t) - 1) |-> t[i + 1][1]]

\* Mutant of OrderTerm: what follows the direction is not looked at.
OrderIgnoresRest(t) ==
  IF t = <<>> \/ ~QuoteColumnRef(t[1]).ok THEN Fail
  ELSE IF Len(t) >= 2 /\ t[2] \notin {<<"asc">>, <<"desc">>} THEN Fail
  ELSE Emit(QuoteColumnRef(t[1]).sql \o Rest(t))

\* sanitizeOrderBy, one part: a direction if there is a second field, NULLS
\* FIRST or LAST if there are more, and nothing after that.
OrderTerm(t) ==
  IF t = <<>> \/ ~QuoteColumnRef(t[1]).ok THEN Fail
  ELSE IF Len(t) >= 2 /\ t[2] \notin {<<"asc">>, <<"desc">>} THEN Fail
  ELSE IF Len(t) >= 3 /\ (Len(t) < 4 \/ ~Is(t[3], "nulls")) THEN Fail
  ELSE IF Len(t) >= 4 /\ t[4] \notin {<<"first">>, <<"last">>} THEN Fail
  ELSE IF Len(t) > 4 THEN Fail
  ELSE Emit(QuoteColumnRef(t[1]).sql \o Rest(t))

\* sanitizeOrderBy: one bad part, an empty one too, refuses the text.
SanitizeOrderBy(x) ==
  IF \E i \in DOMAIN x : ~OrderTerm(x[i]).ok THEN Fail
  ELSE Emit([i \in DOMAIN x |-> OrderTerm(x[i]).sql])

---------------------------------------------------------------------------
(* The documented grammar, as the set of the texts it produces.            *)

Ref == {<<w>> : w \in Keyword \union {"col", "*"}} \union {<<"col", "col">>, <<"col", "*">>}
Direction == {<<<<"asc">>>>, <<<<"desc">>>>}
Nulls == {<<<<"nulls">>, <<"first">>>>, <<<<"nulls">>, <<"last">>>>}

\* "[table.]column [ASC|DESC] [NULLS FIRST|NULLS LAST]" (builder.go 900-901).
TermGrammar(t) ==
  \E r \in Ref, d \in Direction \union {<<>>}, n \in Nulls \union {<<>>} : t = <<r>> \o d \o n
DocumentedOrder(x) == \A i \in DOMAIN x : TermGrammar(x[i])

\* A term that names the place of the NULLs and no direction.
NullsAlone(t) == Len(t) = 3 /\ Tail(t) \in Nulls

SelectGrammar(t) ==
  \E r \in Ref, w \in Keyword \union {"col"} :
    t \in {<<r>>, <<r, <<w>>>>, <<r, <<"as">>, <<w>>>>}

\* Everything the caller wrote comes out quoted, as a star or as a keyword of
\* the grammar in its place.
Inert(sql, fixed) == \A i \in DOMAIN sql : sql[i] \in {Quote(w) : w \in Word} \union {"*"} \union fixed

\* An accepted ORDER BY is one of the documented grammar in every part, and
\* nothing of it reaches the statement unquoted but the star and the grammar's
\* own keywords; one of the grammar is accepted if it gives a direction
\* wherever it places the NULLs.  The code refuses a term that places them and
\* gives no direction (918), against the grammar its comment documents (188,
\* 900-901), and nothing is claimed of such a term.  A SELECT expression is
\* accepted exactly if its grammar produces it (builder.go 822-941).
TextsSanitized ==
  /\ LET o == SanitizeOrderBy(text) IN
     /\ o.ok => /\ DocumentedOrder(text)
                /\ \A i \in DOMAIN text : Inert(o.sql[i], {"asc", "desc", "nulls", "first", "last"})
     /\ DocumentedOrder(text) /\ (\A i \in DOMAIN text : ~NullsAlone(text[i])) => o.ok
  /\ LET s == QuoteSelectExpr(text[1]) IN
     Len(text) = 1 => (s.ok <=> SelectGrammar(text[1])) /\ (s.ok => Inert(s.sql, {"AS"}))
=============================================================================
