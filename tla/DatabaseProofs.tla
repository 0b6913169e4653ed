--------------------------- MODULE DatabaseProofs ---------------------------
(***************************************************************************)
(* Proofs about the database layer: nested transactions (DBTransaction),   *)
(* backups (Backup), migrations (Migrator), eager loading (Relations), the *)
(* texts of SELECT and ORDER BY (SafeIdent) and pooled query builders      *)
(* (QueryBuilder).  Each part has its own inductive invariant.             *)
(***************************************************************************)
EXTENDS DBTransaction, Backup, Migrator, Relations, SafeIdent, QueryBuilder,
        SequenceTheorems, FiniteSetTheorems, WellFoundedInduction, TLAPS

---------------------------------------------------------------------------
(* Nested transactions.  While a transaction can still be brought back to  *)
(* a savepoint, every enclosing call has one that holds what that call may *)
(* rely on, and only deeper calls' follow it, whatever siblings, failures, *)
(* ended contexts and reused names left in the list.  Everything is said   *)
(* up to the rows in kept and loose.                                       *)

Rows == SUBSET DBRow
SaveRec == [name : 1..MaxDepth, rows : SUBSET DBRow, kept : SUBSET DBRow]

TxTypes ==
  /\ driver \in {"postgres", "mysql"}
  /\ dbRows \in Rows /\ work \in Rows /\ kept \in Rows /\ loose \in Rows
  /\ saves \in Seq(SaveRec)
  /\ tx \in {"none", "open", "aborted", "done"}
  /\ ref \in Seq(Rows) /\ Len(ref) >= 1

\* Two tables are the same but for the rows in x.
Agree(s, t, x) == \A r \in DBRow : r \in x \/ (r \in s <=> r \in t)

\* The newest savepoint of call k holds these rows, but for what it knows to
\* be left behind, and only deeper calls' savepoints follow it.
Holds(s, k, rows, free) == s.name = k /\ Agree(s.rows, rows, free \cup s.kept)
Marks(sv, k, rows, free) ==
  \E i \in 1..Len(sv) :
    Holds(sv[i], k, rows, free) /\ \A j \in i+1..Len(sv) : sv[j].name > k

Backed(sv, rf, free) == \A k \in 1..Len(rf)-2 : Marks(sv, k, rf[k + 1], free)

TxInv ==
  /\ TxTypes
  /\ Len(ref) = 1 <=> tx = "none"
  /\ tx = "none" => kept = {}
  /\ tx \in {"open", "aborted"} => Backed(saves, ref, loose)
  /\ Agree(dbRows, ref[1], loose)
  /\ tx = "open" => Agree(work, ref[Len(ref)], loose \cup kept)

LEMMA TxInvExact == TxInv => TxExact
<1> SUFFICES ASSUME TxInv PROVE TxExact
  OBVIOUS
<1>1. ref \in Seq(Rows) /\ Len(ref) >= 1 /\ dbRows \in Rows /\ work \in Rows
  BY DEF TxInv, TxTypes
<1>2. ref[1] \in Rows /\ ref[Len(ref)] \in Rows
  BY <1>1
<1>3. dbRows \ loose = ref[1] \ loose
  BY <1>1, <1>2 DEF TxInv, Agree, Rows
<1>4. tx = "open" => work \ (loose \cup kept) = ref[Len(ref)] \ (loose \cup kept)
  BY <1>1, <1>2 DEF TxInv, Agree, Rows
<1> QED BY <1>3, <1>4 DEF TxExact, Last

\* A list of savepoints up to the n-th.
LEMMA CutKeeps ==
  ASSUME NEW sv \in Seq(SaveRec), NEW n \in 0..Len(sv)
  PROVE  /\ SubSeq(sv, 1, n) \in Seq(SaveRec) /\ Len(SubSeq(sv, 1, n)) = n
         /\ \A i \in 1..n : SubSeq(sv, 1, n)[i] = sv[i]
BY SubSeqProperties

\* Cutting off savepoints of other names leaves a call's savepoint its newest.
LEMMA MarksCut ==
  ASSUME NEW sv \in Seq(SaveRec), NEW n \in 0..Len(sv),
         NEW k \in Nat, NEW rows, NEW free, Marks(sv, k, rows, free),
         \A i \in n+1..Len(sv) : sv[i].name # k
  PROVE  Marks(SubSeq(sv, 1, n), k, rows, free)
<1> DEFINE cut == SubSeq(sv, 1, n)
<1>1. Len(cut) = n /\ \A i \in 1..n : cut[i] = sv[i]
  BY CutKeeps
<1> HIDE DEF cut
<1>2. PICK i \in 1..Len(sv) :
        Holds(sv[i], k, rows, free) /\ \A j \in i+1..Len(sv) : sv[j].name > k
  BY DEF Marks
<1>3. i \in 1..n
  BY <1>2 DEF Holds
<1>4. Marks(cut, k, rows, free)
  BY <1>1, <1>2, <1>3 DEF Marks
<1> QED BY <1>4 DEF cut

\* A deeper call's savepoint does not disturb those of the calls around it.
LEMMA MarksAppend ==
  ASSUME NEW sv \in Seq(SaveRec), NEW s \in SaveRec, NEW k \in Nat, NEW rows, NEW free,
         Marks(sv, k, rows, free), s.name > k
  PROVE  Marks(Append(sv, s), k, rows, free)
<1> DEFINE longer == Append(sv, s)
<1>1. Len(longer) = Len(sv) + 1 /\ longer[Len(sv) + 1] = s /\ \A i \in 1..Len(sv) : longer[i] = sv[i]
  BY AppendProperties
<1> HIDE DEF longer
<1>2. PICK i \in 1..Len(sv) :
        Holds(sv[i], k, rows, free) /\ \A j \in i+1..Len(sv) : sv[j].name > k
  BY DEF Marks
<1>3. Len(sv) \in Nat
  OBVIOUS
<1>4. Marks(longer, k, rows, free)
  <2>1. Holds(longer[i], k, rows, free)
    BY <1>1, <1>2
  <2>2. ASSUME NEW j \in i+1..Len(longer) PROVE longer[j].name > k
    <3>1. CASE j = Len(sv) + 1
      BY <3>1, <1>1
    <3>2. CASE j # Len(sv) + 1
      BY <3>2, <1>1, <1>2, <1>3
    <3> QED BY <3>1, <3>2
  <2> QED BY <2>1, <2>2, <1>1, <1>3 DEF Marks
<1> QED BY <1>4 DEF longer

\* A list without its n-th savepoint.
LEMMA WithoutOne ==
  ASSUME NEW sv \in Seq(SaveRec), NEW n \in 1..Len(sv)
  PROVE  /\ RemoveAt(sv, n) \in Seq(SaveRec) /\ Len(RemoveAt(sv, n)) = Len(sv) - 1
         /\ \A i \in 1..n-1 : RemoveAt(sv, n)[i] = sv[i]
         /\ \A i \in n..Len(sv)-1 : RemoveAt(sv, n)[i] = sv[i + 1]
<1> DEFINE front == SubSeq(sv, 1, n - 1)
           rest == SubSeq(sv, n + 1, Len(sv))
<1>0. Len(sv) \in Nat
  OBVIOUS
<1>1. front \in Seq(SaveRec) /\ Len(front) = n - 1 /\ \A i \in 1..n-1 : front[i] = sv[i]
  BY <1>0, CutKeeps
<1>2. rest \in Seq(SaveRec) /\ Len(rest) = Len(sv) - n /\ \A i \in 1..Len(sv)-n : rest[i] = sv[n + i]
  BY <1>0
<1>3. RemoveAt(sv, n) = front \o rest
  BY DEF RemoveAt
<1> HIDE DEF front, rest
<1>4. /\ front \o rest \in Seq(SaveRec) /\ Len(front \o rest) = Len(front) + Len(rest)
      /\ \A i \in 1..Len(front) + Len(rest) :
           (front \o rest)[i] = IF i <= Len(front) THEN front[i] ELSE rest[i - Len(front)]
  BY <1>1, <1>2, ConcatProperties
<1> DEFINE all == front \o rest
<1>5. /\ all \in Seq(SaveRec) /\ Len(all) = Len(sv) - 1
      /\ \A i \in 1..Len(sv)-1 : all[i] = IF i <= n - 1 THEN front[i] ELSE rest[i - (n - 1)]
  BY <1>0, <1>1, <1>2, <1>4
<1> HIDE DEF all
<1>6. \A i \in 1..n-1 : all[i] = sv[i]
  BY <1>0, <1>1, <1>5
<1>7. ASSUME NEW i \in n..Len(sv)-1 PROVE all[i] = sv[i + 1]
  <2>1. i \in 1..Len(sv)-1 /\ ~(i <= n - 1) /\ i - (n - 1) \in 1..Len(sv)-n /\ n + (i - (n - 1)) = i + 1
    BY <1>0
  <2>2. all[i] = rest[i - (n - 1)]
    BY <1>5, <2>1
  <2>3. rest[i - (n - 1)] = sv[n + (i - (n - 1))]
    BY <1>2, <2>1
  <2> QED BY <2>1, <2>2, <2>3
<1> QED BY <1>3, <1>5, <1>6, <1>7 DEF all

\* Taking a savepoint of another name away leaves a call's savepoint its newest.
LEMMA MarksRemove ==
  ASSUME NEW sv \in Seq(SaveRec), NEW n \in 1..Len(sv), NEW k \in Nat, NEW rows, NEW free,
         Marks(sv, k, rows, free), sv[n].name # k
  PROVE  Marks(RemoveAt(sv, n), k, rows, free)
<1> DEFINE less == RemoveAt(sv, n)
<1>1. /\ Len(less) = Len(sv) - 1 /\ Len(sv) \in Nat
      /\ \A i \in 1..n-1 : less[i] = sv[i]
      /\ \A i \in n..Len(sv)-1 : less[i] = sv[i + 1]
  BY WithoutOne
<1> HIDE DEF less
<1>2. PICK i \in 1..Len(sv) :
        Holds(sv[i], k, rows, free) /\ \A j \in i+1..Len(sv) : sv[j].name > k
  BY DEF Marks
<1>3. i # n
  BY <1>2 DEF Holds
<1>4. CASE i < n
  <2>0. i \in 1..n-1 /\ i \in 1..Len(less)
    BY <1>1, <1>2, <1>4
  <2>1. Holds(less[i], k, rows, free)
    <3>1. less[i] = sv[i]
      BY <1>1, <2>0
    <3> QED BY <1>2, <3>1
  <2>2. ASSUME NEW j \in i+1..Len(less) PROVE less[j].name > k
    <3>1. CASE j < n
      BY <1>1, <1>2, <3>1
    <3>2. CASE j >= n
      BY <1>1, <1>2, <3>2
    <3> QED BY <1>1, <3>1, <3>2
  <2>3. Marks(less, k, rows, free)
    BY <2>0, <2>1, <2>2 DEF Marks
  <2> QED BY <2>3 DEF less
<1>5. CASE i > n
  <2>1. i - 1 \in 1..Len(less) /\ less[i - 1] = sv[i]
    BY <1>1, <1>5
  <2>2. ASSUME NEW j \in i..Len(less) PROVE less[j].name > k
    BY <1>1, <1>2, <1>5
  <2>3. \A j \in (i - 1)+1..Len(less) : less[j].name > k
    BY <2>2
  <2>4. Marks(less, k, rows, free)
    BY <1>2, <2>1, <2>3 DEF Marks
  <2> QED BY <2>4 DEF less
<1> QED BY <1>1, <1>3, <1>4, <1>5

\* A savepoint that only other names follow is the one the server finds.
LEMMA NewestIs ==
  ASSUME saves \in Seq(SaveRec), NEW k \in Nat, NEW i \in 1..Len(saves),
         saves[i].name = k, \A j \in i+1..Len(saves) : saves[j].name # k
  PROVE  Newest(k) = i
<1>1. DOMAIN saves = 1..Len(saves) /\ Len(saves) \in Nat
  OBVIOUS
<1> DEFINE P(n) == saves[n].name = k /\ \A j \in n+1..Len(saves) : saves[j].name # k
<1>2. P(i)
  OBVIOUS
<1>3. ASSUME NEW n \in DOMAIN saves, P(n) PROVE n = i
  <2>1. CASE n < i
    BY <2>1, <1>1, <1>2, <1>3
  <2>2. CASE n > i
    BY <2>2, <1>1, <1>2, <1>3
  <2> QED BY <2>1, <2>2, <1>1
<1>4. Newest(k) = CHOOSE n \in DOMAIN saves : P(n)
  BY <1>1, <1>2 DEF Newest
<1>5. (CHOOSE n \in DOMAIN saves : P(n)) = i
  <2> HIDE DEF P
  <2> QED BY <1>1, <1>2, <1>3
<1> QED BY <1>4, <1>5

\* A set of positions that is not empty has a last one.
LEMMA LastIn ==
  ASSUME NEW n \in Nat, NEW T \in SUBSET (1..n), T # {}
  PROVE  \E x \in T : \A y \in T : y <= x
<1> DEFINE R == {ss \in Nat \X Nat : ss[1] < ss[2]}
           U == {m \in Nat : n - m \in T}
<1>1. IsWellFoundedOn(R, Nat)
  BY NatLessThanWellFounded DEF OpToRel
<1>2. U \subseteq Nat /\ U # {}
  <2>1. PICK t \in T : TRUE
    OBVIOUS
  <2>2. n - t \in Nat /\ n - (n - t) = t
    BY <2>1
  <2>3. n - t \in U
    BY <2>1, <2>2
  <2> QED BY <2>3
<1>3. PICK u \in U : \A v \in U : ~(<<v, u>> \in R)
  <2> HIDE DEF R, U
  <2> QED BY <1>1, <1>2, WFMin
<1>4. ASSUME NEW y \in T PROVE y <= n - u
  <2>1. n - y \in Nat /\ n - (n - y) = y /\ u \in Nat
    BY <1>3
  <2>2. n - y \in U
    BY <2>1
  <2>3. ~(n - y < u)
    BY <1>3, <2>1, <2>2
  <2> QED BY <2>1, <2>3
<1> QED BY <1>3, <1>4

\* If any savepoint has a name, the server finds one of that name.
LEMMA NewestNamed ==
  ASSUME saves \in Seq(SaveRec), NEW k \in Nat, Newest(k) > 0
  PROVE  Newest(k) \in 1..Len(saves) /\ saves[Newest(k)].name = k
<1>1. DOMAIN saves = 1..Len(saves) /\ Len(saves) \in Nat
  OBVIOUS
<1> DEFINE T == {n \in 1..Len(saves) : saves[n].name = k}
<1>2. T # {}
  BY <1>1 DEF Newest
<1>4. PICK n \in T : \A m \in T : m <= n
  <2>1. T \in SUBSET (1..Len(saves))
    OBVIOUS
  <2> HIDE DEF T
  <2> QED BY <1>1, <1>2, <2>1, LastIn
<1>5. n \in 1..Len(saves) /\ saves[n].name = k /\ \A j \in n+1..Len(saves) : saves[j].name # k
  BY <1>1, <1>4
<1> QED BY <1>5, NewestIs

\* A number that is one less than a length and more than 1.
LEMMA InnerBound ==
  ASSUME NEW n \in Nat, NEW d, d = n - 1, n - 1 > 1
  PROVE  d \in Nat /\ d >= 2 /\ n = d + 1 /\ n # 1
OBVIOUS

\* The depth of a call inside another one, as the sequences say it.
LEMMA InnerDepth ==
  ASSUME TxInv, Depth > 1
  PROVE  /\ Depth \in Nat /\ Depth >= 2 /\ Len(ref) = Depth + 1 /\ tx # "none"
         /\ ref \in Seq(Rows) /\ saves \in Seq(SaveRec) /\ Len(saves) \in Nat
         /\ ref[Depth] \in Rows /\ ref[Depth + 1] \in Rows
<1>1. ref \in Seq(Rows) /\ saves \in Seq(SaveRec)
  BY DEF TxInv, TxTypes
<1>2. Len(ref) \in Nat /\ Len(saves) \in Nat
  BY <1>1
<1>3. Len(ref) - 1 > 1 /\ Depth = Len(ref) - 1
  BY DEF Depth
<1>4. Depth \in Nat /\ Depth >= 2 /\ Len(ref) = Depth + 1 /\ Len(ref) # 1
  BY <1>2, <1>3, InnerBound
<1>5. Depth \in 1..Len(ref) /\ Depth + 1 \in 1..Len(ref)
  BY <1>4
<1>6. ref[Depth] \in Rows /\ ref[Depth + 1] \in Rows
  BY <1>1, <1>5
<1> QED BY <1>1, <1>2, <1>4, <1>6 DEF TxInv

\* What an open or aborted transaction at depth d finds for the inner call it is
\* in: the savepoint of that call, with what the enclosing call may rely on.
LEMMA InnerSavepoint ==
  ASSUME TxInv, tx \in {"open", "aborted"}, Depth > 1
  PROVE  LET n == Newest(Depth - 1) IN
         /\ n \in 1..Len(saves) /\ n > 0
         /\ Holds(saves[n], Depth - 1, ref[Depth], loose)
         /\ \A j \in n+1..Len(saves) : saves[j].name > Depth - 1
<1>1. Len(ref) \in Nat /\ Depth = Len(ref) - 1 /\ Depth - 1 \in 1..Len(ref)-2
  BY DEF TxInv, TxTypes, Depth
<1>2. Marks(saves, Depth - 1, ref[Depth], loose)
  BY <1>1 DEF TxInv, Backed
<1>3. PICK i \in 1..Len(saves) :
        /\ Holds(saves[i], Depth - 1, ref[Depth], loose)
        /\ \A j \in i+1..Len(saves) : saves[j].name > Depth - 1
  BY <1>2 DEF Marks
<1>4. saves \in Seq(SaveRec) /\ Len(saves) \in Nat
  BY DEF TxInv, TxTypes
<1>5. \A j \in i+1..Len(saves) : saves[j].name # Depth - 1
  BY <1>1, <1>3, <1>4
<1>6. Newest(Depth - 1) = i
  <2>1. Depth - 1 \in Nat /\ saves[i].name = Depth - 1
    BY <1>1, <1>3 DEF Holds
  <2> QED BY <1>3, <1>4, <1>5, <2>1, NewestIs
<1> QED BY <1>3, <1>4, <1>6

\* What a call sees is put on top of what the calls around it may rely on.
LEMMA RefAppend ==
  ASSUME NEW rf \in Seq(Rows), NEW r \in Rows
  PROVE  /\ Append(rf, r) \in Seq(Rows) /\ Len(Append(rf, r)) = Len(rf) + 1
         /\ \A i \in 1..Len(rf) : Append(rf, r)[i] = rf[i]
         /\ Append(rf, r)[Len(rf) + 1] = r
BY AppendProperties

LEMMA TxInit_Inv == TxAssumption /\ TxInit => TxInv
<1> SUFFICES ASSUME TxAssumption, TxInit PROVE TxInv
  OBVIOUS
<1>1. TxTypes
  BY DEF TxInit, TxTypes, Rows
<1>2. ref = <<{}>> /\ Len(ref) = 1 /\ ref[1] = {} /\ tx = "none" /\ dbRows = {} /\ kept = {}
  BY DEF TxInit
<1>3. Agree(dbRows, ref[1], loose)
  BY <1>2 DEF Agree
<1> QED BY <1>1, <1>2, <1>3 DEF TxInv

\* The outermost call begins.
LEMMA BeginTx_Inv == ASSUME TxInv, BeginTx, UNCHANGED driver PROVE TxInv'
<1>1. ref \in Seq(Rows) /\ Len(ref) = 1 /\ dbRows \in Rows /\ Agree(dbRows, ref[1], loose)
  BY DEF TxInv, TxTypes, BeginTx, Depth
<1> DEFINE last == ref[1]
<1>2. ref' = Append(ref, last) /\ last \in Rows
  BY <1>1 DEF BeginTx, Last
<1> HIDE DEF last
<1>3. ref' \in Seq(Rows) /\ Len(ref') = 2 /\ ref'[1] = ref[1] /\ ref'[2] = last
  <2>1. /\ Append(ref, last) \in Seq(Rows) /\ Len(Append(ref, last)) = Len(ref) + 1
        /\ \A i \in 1..Len(ref) : Append(ref, last)[i] = ref[i]
        /\ Append(ref, last)[Len(ref) + 1] = last
    BY <1>1, <1>2, RefAppend
  <2> QED BY <1>1, <1>2, <2>1
<1>4. /\ saves' = <<>> /\ tx' = "open" /\ work' = dbRows /\ UNCHANGED <<dbRows, kept, loose>>
  BY DEF BeginTx
<1>5. TxTypes'
  BY <1>1, <1>3, <1>4 DEF TxInv, TxTypes
<1>6. Backed(saves', ref', loose')
  BY <1>3 DEF Backed
<1>7. Agree(dbRows', ref'[1], loose') /\ Agree(work', ref'[2], loose' \cup kept')
  BY <1>1, <1>3, <1>4 DEF Agree, last
<1> QED BY <1>3, <1>4, <1>5, <1>6, <1>7 DEF TxInv

\* An inner call: its savepoint takes the place of a stale one of its name.
LEMMA Nested_Inv == ASSUME TxAssumption, TxInv, Nested, UNCHANGED driver PROVE TxInv'
<1>0. UNCHANGED <<dbRows, work, tx, kept, loose>>
  BY DEF Nested
<1>1. CASE tx # "open"
  <2>1. UNCHANGED <<saves, ref>>
    BY <1>1 DEF Nested
  <2> QED BY <1>0, <2>1 DEF TxInv, TxTypes, Backed, Marks, Holds, Agree
<1>2. CASE tx = "open"
  <2> DEFINE d == Len(ref) - 1
             last == ref[Len(ref)]
             stale == driver = "mysql" /\ Newest(d) > 0
             left == IF stale THEN RemoveAt(saves, Newest(d)) ELSE saves
             new == [name |-> d, rows |-> work, kept |-> kept]
  <2>1. /\ saves \in Seq(SaveRec) /\ Len(saves) \in Nat /\ ref \in Seq(Rows) /\ Len(ref) \in Nat
        /\ work \in Rows /\ kept \in Rows /\ Agree(work, last, loose \cup kept)
    BY <1>2 DEF TxInv, TxTypes
  <2>2. d \in 1..MaxDepth /\ d \in Nat /\ Len(ref) >= 2
    BY <2>1, TxAssumption DEF Nested, Depth, TxAssumption
  <2>3. new \in SaveRec /\ new.name = d /\ new.rows = work /\ new.kept = kept
    BY <2>1, <2>2 DEF SaveRec, Rows
  <2>4. saves' = Append(left, new) /\ ref' = Append(ref, last) /\ tx' = "open"
    BY <1>2 DEF Nested, Savepoint, SavepointName, Depth, Last
  <2>5. /\ left \in Seq(SaveRec)
        /\ \A k \in 1..d-1 : Marks(left, k, ref[k + 1], loose)
    <3>1. \A k \in 1..d-1 : Marks(saves, k, ref[k + 1], loose)
      BY <1>2, <2>1 DEF TxInv, Backed
    <3>2. CASE ~stale
      BY <2>1, <3>1, <3>2
    <3>3. CASE stale
      <4>1. left = RemoveAt(saves, Newest(d))
        BY <3>3
      <4>2. Newest(d) \in 1..Len(saves) /\ saves[Newest(d)].name = d
        BY <2>1, <2>2, <3>3, NewestNamed
      <4>3. left \in Seq(SaveRec)
        BY <2>1, <4>1, <4>2, WithoutOne
      <4>4. ASSUME NEW k \in 1..d-1 PROVE Marks(left, k, ref[k + 1], loose)
        <5>1. k \in Nat /\ saves[Newest(d)].name # k
          BY <2>2, <4>2
        <5> QED BY <2>1, <3>1, <4>1, <4>2, <5>1, MarksRemove
      <4> QED BY <4>3, <4>4
    <3> QED BY <3>2, <3>3
  <2> HIDE DEF left, new, last
  <2>6. /\ ref' \in Seq(Rows) /\ Len(ref') = Len(ref) + 1 /\ ref'[Len(ref) + 1] = last
        /\ \A i \in 1..Len(ref) : ref'[i] = ref[i]
    <3>1. last \in Rows
      BY <2>1, <2>2 DEF last
    <3> QED BY <2>1, <2>4, <3>1, RefAppend
  <2>7. /\ saves' \in Seq(SaveRec) /\ Len(saves') = Len(left) + 1 /\ saves'[Len(left) + 1] = new
        /\ Len(left) \in Nat
    BY <2>3, <2>4, <2>5, AppendProperties
  <2>8. TxTypes'
    BY <1>0, <2>1, <2>6, <2>7 DEF TxInv, TxTypes
  <2>9. Backed(saves', ref', loose')
    <3> SUFFICES ASSUME NEW k \in 1..d PROVE Marks(saves', k, ref'[k + 1], loose)
      BY <1>0, <2>1, <2>6 DEF Backed
    <3>1. k + 1 \in 1..Len(ref) /\ ref'[k + 1] = ref[k + 1]
      BY <2>1, <2>6
    <3>2. CASE k = d
      <4>1. ref'[k + 1] = last
        BY <3>1, <3>2, <2>1 DEF last
      <4>2. Holds(new, k, last, loose)
        BY <2>1, <2>3, <3>2 DEF Holds
      <4>3. Len(saves') \in 1..Len(saves') /\ saves'[Len(saves')] = new
        BY <2>7
      <4>4. \A j \in Len(saves')+1..Len(saves') : saves'[j].name > k
        BY <2>7
      <4> QED BY <4>1, <4>2, <4>3, <4>4 DEF Marks
    <3>3. CASE k < d
      <4>1. k \in Nat /\ new.name > k /\ Marks(left, k, ref[k + 1], loose)
        BY <2>2, <2>3, <2>5, <3>3
      <4>2. Marks(Append(left, new), k, ref[k + 1], loose)
        BY <2>3, <2>5, <4>1, MarksAppend
      <4> QED BY <4>2, <3>1, <2>4
    <3> QED BY <3>2, <3>3, <2>2
  <2>10. Agree(dbRows', ref'[1], loose') /\ Agree(work', ref'[Len(ref')], loose' \cup kept')
    <3>1. ref'[1] = ref[1] /\ ref'[Len(ref')] = last
      BY <2>1, <2>2, <2>6
    <3> QED BY <1>0, <2>1, <3>1 DEF TxInv, Agree
  <2>11. Len(ref') # 1 /\ tx' = "open"
    BY <2>2, <2>4, <2>6
  <2> QED BY <2>8, <2>9, <2>10, <2>11 DEF TxInv
<1> QED BY <1>1, <1>2

\* What the enclosing calls may rely on is kept when the inner ones are cut off.
LEMMA RefCut ==
  ASSUME NEW rf \in Seq(Rows), NEW n \in 0..Len(rf)
  PROVE  /\ SubSeq(rf, 1, n) \in Seq(Rows) /\ Len(SubSeq(rf, 1, n)) = n
         /\ \A i \in 1..n : SubSeq(rf, 1, n)[i] = rf[i]
BY SubSeqProperties

\* The savepoints up to the n-th, or without it, back the calls outside of the
\* inner call of depth d, whose savepoint the n-th is.
LEMMA CutBacks ==
  ASSUME NEW sv \in Seq(SaveRec), NEW rf \in Seq(Rows), NEW rg \in Seq(Rows), NEW free,
         NEW d \in Nat, d >= 2, Len(rf) = d + 1, Len(rg) = d, Backed(sv, rf, free),
         \A i \in 1..d-1 : rg[i] = rf[i],
         NEW n \in 1..Len(sv), sv[n].name = d - 1, \A j \in n+1..Len(sv) : sv[j].name > d - 1,
         NEW m \in {n - 1, n}
  PROVE  SubSeq(sv, 1, m) \in Seq(SaveRec) /\ Backed(SubSeq(sv, 1, m), rg, free)
<1>0. m \in 0..Len(sv) /\ m <= n /\ Len(sv) \in Nat
  OBVIOUS
<1>1. SubSeq(sv, 1, m) \in Seq(SaveRec)
  BY <1>0, CutKeeps
<1>2. Backed(SubSeq(sv, 1, m), rg, free)
  <2> SUFFICES ASSUME NEW k \in 1..d-2 PROVE Marks(SubSeq(sv, 1, m), k, rg[k + 1], free)
    BY DEF Backed
  <2>1. Marks(sv, k, rf[k + 1], free) /\ rg[k + 1] = rf[k + 1]
    BY DEF Backed
  <2>2. \A i \in m+1..Len(sv) : sv[i].name # k
    <3> SUFFICES ASSUME NEW i \in m+1..Len(sv) PROVE sv[i].name # k
      OBVIOUS
    <3>1. CASE i = n
      BY <3>1
    <3>2. CASE i \in n+1..Len(sv)
      BY <3>2
    <3> QED BY <3>1, <3>2, <1>0
  <2>3. Marks(SubSeq(sv, 1, m), k, rf[k + 1], free)
    BY <2>1, <2>2, <1>0, MarksCut
  <2> QED BY <2>1, <2>3
<1> QED BY <1>1, <1>2

\* An inner call ends and nothing is sent, or the transaction accepts nothing
\* any more: what the calls around it may rely on stays, and the rows it
\* changed are known to be left.
LEMMA CallLeft ==
  ASSUME TxInv, Depth > 1, ref' = Front(ref), kept' \in Rows,
         tx = "open" => Agree(work, ref[Depth], loose \cup kept'),
         UNCHANGED <<driver, dbRows, work, saves, tx, loose>>
  PROVE  TxInv'
<1>1. Depth \in Nat /\ Depth >= 2 /\ Len(ref) = Depth + 1 /\ ref \in Seq(Rows) /\ tx # "none"
  BY InnerDepth
<1>2. ref' = SubSeq(ref, 1, Depth)
  BY <1>1 DEF Front
<1>3. Depth \in 0..Len(ref)
  BY <1>1
<1>4. ref' \in Seq(Rows) /\ Len(ref') = Depth /\ \A i \in 1..Depth : ref'[i] = ref[i]
  BY <1>1, <1>2, <1>3, RefCut
<1>5. TxTypes'
  BY <1>1, <1>4 DEF TxInv, TxTypes
<1>6. tx' \in {"open", "aborted"} => Backed(saves', ref', loose')
  <2> SUFFICES ASSUME tx \in {"open", "aborted"}, NEW k \in 1..Depth-2
               PROVE  Marks(saves, k, ref'[k + 1], loose)
    BY <1>4 DEF Backed, Marks, Holds, Agree
  <2>1. k \in 1..Len(ref)-2 /\ ref'[k + 1] = ref[k + 1]
    BY <1>1, <1>4
  <2> QED BY <2>1 DEF TxInv, Backed
<1>7. ref'[1] = ref[1] /\ ref'[Len(ref')] = ref[Depth] /\ Len(ref') # 1
  BY <1>1, <1>4
<1>8. Agree(dbRows', ref'[1], loose') /\ (tx' = "open" => Agree(work', ref'[Len(ref')], loose' \cup kept'))
  BY <1>7 DEF TxInv, Agree
<1> QED BY <1>1, <1>5, <1>6, <1>7, <1>8 DEF TxInv

\* The context of the inner call has ended: what it changed is known.
LEMMA InnerCut_Inv == ASSUME TxInv, InnerCut, UNCHANGED driver PROVE TxInv'
<1>1. Depth > 1 /\ ref' = Front(ref) /\ kept' = kept \cup Changed /\ UNCHANGED <<dbRows, work, saves, tx, loose>>
  BY DEF InnerCut
<1>2. Len(ref) = Depth + 1 /\ ref[Depth] \in Rows /\ ref[Depth + 1] \in Rows
  BY <1>1, InnerDepth
<1>3. Changed = (ref[Depth + 1] \ ref[Depth]) \cup (ref[Depth] \ ref[Depth + 1])
  BY <1>2 DEF Changed, Last
<1>4. kept' \in Rows
  BY <1>1, <1>2, <1>3 DEF Rows, TxInv, TxTypes
<1>5. ASSUME tx = "open" PROVE Agree(work, ref[Depth], loose \cup kept')
  <2>1. Agree(work, ref[Depth + 1], loose \cup kept)
    BY <1>2, <1>5 DEF TxInv
  <2> QED BY <1>1, <1>3, <2>1 DEF Agree
<1> QED BY <1>1, <1>4, <1>5, CallLeft

\* RELEASE SAVEPOINT: the enclosing call takes over what the inner one did.
LEMMA Release_Inv == ASSUME TxInv, Release, UNCHANGED driver PROVE TxInv'
<1>0. Depth > 1 /\ UNCHANGED <<dbRows, work, tx, kept, loose>>
  BY DEF Release
<1>1. /\ Depth \in Nat /\ Depth >= 2 /\ Len(ref) = Depth + 1 /\ ref \in Seq(Rows)
      /\ saves \in Seq(SaveRec) /\ Len(saves) \in Nat /\ tx # "none"
  BY <1>0, InnerDepth
<1>2. CASE tx # "open"
  <2>1. UNCHANGED saves /\ ref' = Front(ref)
    BY <1>2 DEF Release
  <2>2. kept' \in Rows
    BY <1>0 DEF TxInv, TxTypes
  <2> QED BY <1>0, <1>2, <2>1, <2>2, CallLeft
<1>3. CASE tx = "open"
  <2> DEFINE n == Newest(Depth - 1)
             outer == SubSeq(ref, 1, Depth - 1)
             last == ref[Len(ref)]
  <2>1. /\ n \in 1..Len(saves) /\ n > 0 /\ saves[n].name = Depth - 1
        /\ \A j \in n+1..Len(saves) : saves[j].name > Depth - 1
    BY <1>0, <1>3, InnerSavepoint DEF Holds
  <2>2. saves' = SubSeq(saves, 1, n - 1) /\ ref' = Append(outer, last)
    BY <1>3, <2>1 DEF Release, SavepointName, Last
  <2>3. outer \in Seq(Rows) /\ Len(outer) = Depth - 1 /\ \A i \in 1..Depth-1 : outer[i] = ref[i]
    BY <1>1, RefCut
  <2>4. last \in Rows /\ Agree(work, last, loose \cup kept)
    BY <1>1, <1>3 DEF TxInv
  <2> HIDE DEF n, outer, last
  <2>5. ref' \in Seq(Rows) /\ Len(ref') = Depth /\ ref'[Depth] = last /\ \A i \in 1..Depth-1 : ref'[i] = ref[i]
    <3> DEFINE longer == Append(outer, last)
    <3>1. longer \in Seq(Rows) /\ Len(longer) = Len(outer) + 1 /\ longer[Len(outer) + 1] = last
      BY <2>3, <2>4, RefAppend
    <3>2. \A i \in 1..Len(outer) : longer[i] = outer[i]
      BY <2>3, <2>4, RefAppend
    <3>3. ref' = longer
      BY <2>2
    <3> HIDE DEF longer
    <3> QED BY <1>1, <2>3, <3>1, <3>2, <3>3
  <2>6. saves' \in Seq(SaveRec) /\ Backed(saves', ref', loose')
    <3>1. Backed(saves, ref, loose)
      BY <1>3 DEF TxInv
    <3>2. SubSeq(saves, 1, n - 1) \in Seq(SaveRec) /\ Backed(SubSeq(saves, 1, n - 1), ref', loose)
      BY <1>1, <2>1, <2>5, <3>1, CutBacks
    <3> QED BY <1>0, <2>2, <3>2
  <2>7. TxTypes'
    BY <1>0, <1>1, <2>5, <2>6 DEF TxInv, TxTypes
  <2>8. ref'[1] = ref[1] /\ ref'[Len(ref')] = last /\ Len(ref') # 1
    BY <1>1, <2>5
  <2>9. Agree(dbRows', ref'[1], loose') /\ Agree(work', ref'[Len(ref')], loose' \cup kept')
    BY <1>0, <2>4, <2>8 DEF TxInv, Agree
  <2> QED BY <1>0, <1>3, <2>6, <2>7, <2>8, <2>9 DEF TxInv
<1> QED BY <1>2, <1>3

\* ROLLBACK TO SAVEPOINT: the enclosing call finds what it had.
LEMMA InnerFails_Inv == ASSUME TxInv, InnerFails, UNCHANGED driver PROVE TxInv'
<1>0. Depth > 1 /\ UNCHANGED <<dbRows, loose>> /\ ref' = Front(ref) /\ RollbackTo(Depth - 1)
  BY DEF InnerFails, SavepointName
<1>1. /\ Depth \in Nat /\ Depth >= 2 /\ Len(ref) = Depth + 1 /\ ref \in Seq(Rows)
      /\ saves \in Seq(SaveRec) /\ Len(saves) \in Nat /\ tx # "none"
  BY <1>0, InnerDepth
<1>2. CASE tx = "done"
  <2>1. UNCHANGED <<work, kept, saves, tx>> /\ tx # "open"
    BY <1>0, <1>2 DEF RollbackTo
  <2>2. kept' \in Rows
    BY <2>1 DEF TxInv, TxTypes
  <2> QED BY <1>0, <2>1, <2>2, CallLeft
<1>3. CASE tx # "done"
  <2> DEFINE n == Newest(Depth - 1)
  <2>0. tx \in {"open", "aborted"}
    BY <1>1, <1>3 DEF TxInv, TxTypes
  <2>1. /\ n \in 1..Len(saves) /\ n > 0 /\ Holds(saves[n], Depth - 1, ref[Depth], loose)
        /\ \A j \in n+1..Len(saves) : saves[j].name > Depth - 1
    BY <1>0, <2>0, InnerSavepoint
  <2>2. saves' = SubSeq(saves, 1, n) /\ work' = saves[n].rows /\ kept' = saves[n].kept /\ tx' = "open"
    BY <1>0, <1>3, <2>1 DEF RollbackTo
  <2> HIDE DEF n
  <2>3. ref' = SubSeq(ref, 1, Depth)
    BY <1>0, <1>1 DEF Front
  <2>4. ref' \in Seq(Rows) /\ Len(ref') = Depth /\ \A i \in 1..Depth : ref'[i] = ref[i]
    BY <1>1, <2>3, RefCut
  <2>5. saves' \in Seq(SaveRec) /\ Backed(saves', ref', loose')
    <3>1. Backed(saves, ref, loose) /\ saves[n].name = Depth - 1
      BY <2>0, <2>1 DEF TxInv, Holds
    <3>2. (\A i \in 1..Depth-1 : ref'[i] = ref[i]) /\ n \in {n - 1, n}
      BY <1>1, <2>4
    <3>3. SubSeq(saves, 1, n) \in Seq(SaveRec) /\ Backed(SubSeq(saves, 1, n), ref', loose)
      BY <1>1, <2>1, <2>4, <3>1, <3>2, CutBacks
    <3> QED BY <1>0, <2>2, <3>3
  <2>6. TxTypes'
    <3>1. saves[n] \in SaveRec
      BY <1>1, <2>1
    <3>2. work' \in Rows /\ kept' \in Rows
      BY <2>2, <3>1 DEF Rows, SaveRec
    <3>3. Len(ref') >= 1 /\ ref' \in Seq(Rows) /\ saves' \in Seq(SaveRec)
      BY <1>1, <2>4, <2>5
    <3> QED BY <1>0, <2>2, <3>2, <3>3 DEF TxInv, TxTypes
  <2>7. ref'[1] = ref[1] /\ ref'[Len(ref')] = ref[Depth] /\ Len(ref') # 1
    BY <1>1, <2>4
  <2>8. Agree(dbRows', ref'[1], loose') /\ Agree(work', ref'[Len(ref')], loose' \cup kept')
    BY <1>0, <2>1, <2>2, <2>7 DEF TxInv, Agree, Holds
  <2> QED BY <2>2, <2>5, <2>6, <2>7, <2>8 DEF TxInv
<1> QED BY <1>2, <1>3

\* A transaction that is over: committed or rolled back.
LEMMA TxOver ==
  ASSUME TxInv, NEW rows \in Rows, ref' = <<rows>>, dbRows' \in Rows, loose' \in Rows,
         Agree(dbRows', rows, loose'), Discard, tx' = "none", kept' = {}, UNCHANGED driver
  PROVE  TxInv'
<1>1. ref' \in Seq(Rows) /\ Len(ref') = 1 /\ ref'[1] = rows
  OBVIOUS
<1>2. saves' = <<>> /\ work' = {}
  BY DEF Discard
<1>3. saves' \in Seq(SaveRec) /\ work' \in Rows /\ kept' \in Rows
  BY <1>2 DEF Rows
<1>4. TxTypes'
  BY <1>1, <1>3 DEF TxInv, TxTypes
<1> QED BY <1>1, <1>4 DEF TxInv

LEMMA Commit_Inv == ASSUME TxInv, Commit, UNCHANGED driver PROVE TxInv'
<1>1. /\ ref \in Seq(Rows) /\ Len(ref) = 2 /\ Agree(dbRows, ref[1], loose)
      /\ dbRows \in Rows /\ work \in Rows /\ kept \in Rows /\ loose \in Rows
  BY DEF TxInv, TxTypes, Commit, Depth
<1>2. ref[1] \in Rows /\ ref[2] \in Rows
  <2>1. ref \in Seq(Rows) /\ Len(ref) = 2
    BY <1>1
  <2>2. \A i \in 1..Len(ref) : ref[i] \in Rows
    BY <2>1
  <2> QED BY <2>1, <2>2
<1>3. CASE tx = "open"
  <2>1. ref' = <<ref[2]>> /\ dbRows' = work /\ loose' = loose \cup kept
    BY <1>1, <1>3 DEF Commit, Last
  <2>2. Agree(work, ref[2], loose \cup kept)
    BY <1>1, <1>3 DEF TxInv
  <2>3. loose' \in Rows
    BY <1>1, <2>1 DEF Rows
  <2>4. Agree(dbRows', ref[2], loose')
    BY <2>1, <2>2
  <2> QED BY <1>1, <1>2, <2>1, <2>3, <2>4, TxOver DEF Commit
<1>4. CASE tx # "open"
  <2>1. ref' = <<ref[1]>> /\ dbRows' = dbRows /\ loose' = loose
    BY <1>1, <1>4 DEF Commit
  <2>2. Agree(dbRows', ref[1], loose')
    BY <1>1, <2>1
  <2> QED BY <1>1, <1>2, <2>1, <2>2, TxOver DEF Commit
<1> QED BY <1>3, <1>4

LEMMA Rollback_Inv == ASSUME TxInv, Rollback, UNCHANGED driver PROVE TxInv'
<1>1. /\ ref \in Seq(Rows) /\ Len(ref) >= 1 /\ Agree(dbRows, ref[1], loose)
      /\ dbRows \in Rows /\ loose \in Rows
  BY DEF TxInv, TxTypes
<1>2. ref[1] \in Rows
  BY <1>1
<1>3. ref' = <<ref[1]>> /\ dbRows' = dbRows /\ loose' = loose
  BY DEF Rollback
<1>4. Agree(dbRows', ref[1], loose')
  BY <1>1, <1>3
<1> QED BY <1>1, <1>2, <1>3, <1>4, TxOver DEF Rollback

LEMMA CtxDone_Inv == ASSUME TxInv, CtxDone, UNCHANGED driver PROVE TxInv'
<1>1. saves' = <<>> /\ work' = {} /\ tx' = "done" /\ tx # "none" /\ UNCHANGED <<dbRows, ref, kept, loose>>
  BY DEF CtxDone, Discard
<1>2. saves' \in Seq(SaveRec) /\ work' \in Rows
  BY <1>1 DEF Rows
<1>3. TxTypes'
  BY <1>1, <1>2 DEF TxInv, TxTypes
<1> QED BY <1>1, <1>3 DEF TxInv, Agree

LEMMA ExecFails_Inv == ASSUME TxInv, ExecFails, UNCHANGED driver PROVE TxInv'
<1>1. TxTypes'
  BY DEF TxInv, TxTypes, ExecFails
<1>2. Backed(saves', ref', loose')
  BY DEF TxInv, ExecFails, Backed, Marks, Holds, Agree
<1> QED BY <1>1, <1>2 DEF TxInv, ExecFails, Agree

\* What a statement changes of what its call may rely on.
LEMMA ReliedOn ==
  ASSUME ref \in Seq(Rows), Len(ref) >= 1, NEW r \in DBRow, NEW add \in BOOLEAN,
         ref' = Relied(r, add)
  PROVE  /\ ref' \in Seq(Rows) /\ Len(ref') = Len(ref)
         /\ ref'[Len(ref)] = Apply(ref[Len(ref)], r, add)
         /\ \A i \in 1..Len(ref) : i # Len(ref) => ref'[i] = ref[i]
<1> DEFINE n == Len(ref)
           top == Apply(ref[n], r, add)
<1>1. n \in Nat /\ n >= 1 /\ ref[n] \in Rows
  OBVIOUS
<1>2. top \in Rows
  BY <1>1 DEF Apply, Rows
<1>3. ref' = [ref EXCEPT ![n] = top]
  BY DEF Relied
<1> HIDE DEF top
<1>4. /\ ref' \in Seq(Rows) /\ Len(ref') = n /\ ref'[n] = top
      /\ \A i \in 1..n : i # n => ref'[i] = ref[i]
  BY <1>1, <1>2, <1>3
<1> QED BY <1>4 DEF top

\* One statement changes two tables alike.
LEMMA AppliedAlike ==
  ASSUME NEW s, NEW t, NEW x, NEW r, NEW add \in BOOLEAN, Agree(s, t, x)
  PROVE  Agree(Apply(s, r, add), Apply(t, r, add), x)
BY DEF Agree, Apply

\* A statement: what the calls around the innermost one may rely on stays.
LEMMA ExecContext_Inv ==
  ASSUME TxInv, NEW r \in DBRow, ExecContext(r), UNCHANGED driver
  PROVE  TxInv'
<1> DEFINE n == Len(ref)
           add == r \notin IF tx = "none" THEN dbRows ELSE work
<1>1. ref \in Seq(Rows) /\ n \in Nat /\ n >= 1 /\ dbRows \in Rows /\ work \in Rows
  BY DEF TxInv, TxTypes
<1>2. ref' = Relied(r, add) /\ add \in BOOLEAN
  BY DEF ExecContext
<1>3. UNCHANGED <<saves, tx, kept, loose>> /\ tx \in {"open", "none"}
  BY DEF ExecContext
<1>4. /\ tx = "none" => dbRows' = Apply(dbRows, r, add) /\ UNCHANGED work
      /\ tx # "none" => work' = Apply(work, r, add) /\ UNCHANGED dbRows
  BY DEF ExecContext
<1> HIDE DEF add
<1>5. /\ ref' \in Seq(Rows) /\ Len(ref') = n /\ ref'[n] = Apply(ref[n], r, add)
      /\ \A i \in 1..n : i # n => ref'[i] = ref[i]
  BY <1>1, <1>2, ReliedOn
<1>6. tx' \in {"open", "aborted"} => Backed(saves', ref', loose')
  <2> SUFFICES ASSUME tx' \in {"open", "aborted"}, NEW k \in 1..n-2
               PROVE  Marks(saves', k, ref'[k + 1], loose')
    BY <1>5 DEF Backed
  <2>1. ref'[k + 1] = ref[k + 1]
    BY <1>1, <1>5
  <2>2. Marks(saves, k, ref[k + 1], loose)
    BY <1>3 DEF TxInv, Backed
  <2> QED BY <2>1, <2>2, <1>3
<1>7. CASE tx = "none"
  <2>1. n = 1 /\ dbRows' = Apply(dbRows, r, add) /\ UNCHANGED work
    BY <1>4, <1>7 DEF TxInv
  <2>2. dbRows' \in Rows
    BY <1>1, <2>1 DEF Apply, Rows
  <2>3. TxTypes'
    BY <1>1, <1>3, <1>5, <2>1, <2>2 DEF TxInv, TxTypes
  <2>4. Agree(dbRows, ref[1], loose)
    BY DEF TxInv
  <2>5. Agree(dbRows', ref'[1], loose')
    BY <1>2, <1>3, <1>5, <2>1, <2>4, AppliedAlike
  <2> QED BY <1>3, <1>5, <1>6, <1>7, <2>1, <2>3, <2>5 DEF TxInv
<1>8. CASE tx = "open"
  <2>1. n # 1 /\ work' = Apply(work, r, add) /\ UNCHANGED dbRows
    BY <1>4, <1>8 DEF TxInv
  <2>2. work' \in Rows
    BY <1>1, <2>1 DEF Apply, Rows
  <2>3. TxTypes'
    BY <1>1, <1>3, <1>5, <2>1, <2>2 DEF TxInv, TxTypes
  <2>4. Agree(work, ref[n], loose \cup kept)
    BY <1>8 DEF TxInv
  <2>5. Agree(work', ref'[n], loose' \cup kept')
    BY <1>2, <1>3, <1>5, <2>1, <2>4, AppliedAlike
  <2>6. ref'[1] = ref[1]
    BY <1>1, <1>5, <2>1
  <2>7. Agree(dbRows', ref'[1], loose')
    BY <1>3, <2>1, <2>6 DEF TxInv
  <2> QED BY <1>3, <1>5, <1>6, <1>8, <2>1, <2>3, <2>5, <2>7 DEF TxInv
<1> QED BY <1>3, <1>7, <1>8

\* A row inserted past the transaction: the savepoints stay what they were but
\* for that row, which is loose.
LEMMA InsertPastTx_Inv ==
  ASSUME TxInv, NEW r \in DBRow, InsertPastTx(r), UNCHANGED driver
  PROVE  TxInv'
<1> DEFINE n == Len(ref)
           seen(i) == [saves[i] EXCEPT !.rows = @ \cup {r}]
<1>1. /\ ref \in Seq(Rows) /\ n \in Nat /\ n >= 1 /\ saves \in Seq(SaveRec) /\ Len(saves) \in Nat
      /\ dbRows \in Rows /\ work \in Rows /\ loose \in Rows /\ kept \in Rows
  BY DEF TxInv, TxTypes
<1>2. /\ dbRows' = dbRows \cup {r} /\ tx' = tx /\ kept' = kept /\ ref' = Relied(r, TRUE)
      /\ work' = IF tx \in {"open", "aborted"} THEN work \cup {r} ELSE work
      /\ saves' = [i \in 1..Len(saves) |-> seen(i)]
      /\ loose' = IF tx = "none" THEN loose ELSE loose \cup {r}
  BY <1>1 DEF InsertPastTx
<1>3. /\ ref' \in Seq(Rows) /\ Len(ref') = n /\ ref'[n] = Apply(ref[n], r, TRUE)
      /\ \A i \in 1..n : i # n => ref'[i] = ref[i]
  BY <1>1, <1>2, ReliedOn
<1>4. \A i \in 1..Len(saves) : /\ seen(i) \in SaveRec /\ seen(i).name = saves[i].name
                               /\ seen(i).kept = saves[i].kept /\ seen(i).rows = saves[i].rows \cup {r}
  <2> SUFFICES ASSUME NEW i \in 1..Len(saves)
               PROVE  /\ seen(i) \in SaveRec /\ seen(i).name = saves[i].name
                      /\ seen(i).kept = saves[i].kept /\ seen(i).rows = saves[i].rows \cup {r}
    OBVIOUS
  <2>1. saves[i] \in SaveRec
    BY <1>1
  <2> QED BY <2>1 DEF SaveRec
<1> HIDE DEF seen
<1>5. /\ saves' \in Seq(SaveRec) /\ Len(saves') = Len(saves)
      /\ \A i \in 1..Len(saves) : saves'[i] = seen(i)
  BY <1>1, <1>2, <1>4
<1>6. dbRows' \in Rows /\ work' \in Rows /\ loose' \in Rows
  BY <1>1, <1>2 DEF Rows
<1>7. TxTypes'
  BY <1>1, <1>2, <1>3, <1>5, <1>6 DEF TxInv, TxTypes
<1>8. ASSUME tx' \in {"open", "aborted"} PROVE Backed(saves', ref', loose')
  <2> SUFFICES ASSUME NEW k \in 1..n-2 PROVE Marks(saves', k, ref'[k + 1], loose')
    BY <1>3 DEF Backed
  <2>1. ref'[k + 1] = ref[k + 1] /\ loose' = loose \cup {r}
    <3>1. k + 1 \in 1..n /\ k + 1 # n
      BY <1>1
    <3>2. ref'[k + 1] = ref[k + 1]
      BY <1>3, <3>1
    <3> QED BY <1>2, <1>8, <3>2
  <2>2. Marks(saves, k, ref[k + 1], loose)
    BY <1>2, <1>8 DEF TxInv, Backed
  <2>3. PICK i \in 1..Len(saves) :
          Holds(saves[i], k, ref[k + 1], loose) /\ \A j \in i+1..Len(saves) : saves[j].name > k
    BY <2>2 DEF Marks
  <2>4. Holds(saves'[i], k, ref'[k + 1], loose')
    <3>1. saves'[i].name = k /\ saves'[i].kept = saves[i].kept /\ saves'[i].rows = saves[i].rows \cup {r}
      BY <1>4, <1>5, <2>3 DEF Holds
    <3>2. Agree(saves[i].rows, ref[k + 1], loose \cup saves[i].kept)
      BY <2>3 DEF Holds
    <3>3. Agree(saves'[i].rows, ref'[k + 1], loose' \cup saves'[i].kept)
      BY <2>1, <3>1, <3>2 DEF Agree
    <3> QED BY <3>1, <3>3 DEF Holds
  <2>5. \A j \in i+1..Len(saves') : saves'[j].name > k
    BY <1>1, <1>4, <1>5, <2>3
  <2> QED BY <1>5, <2>4, <2>5 DEF Marks
<1>9. Agree(dbRows', ref'[1], loose')
  <2>0. Agree(dbRows, ref[1], loose)
    BY DEF TxInv
  <2>1. CASE tx = "none"
    <3>1. ref'[1] = ref[1] \cup {r}
      BY <1>3, <2>1 DEF TxInv, Apply
    <3> QED BY <1>2, <2>0, <2>1, <3>1 DEF Agree
  <2>2. CASE tx # "none"
    <3>1. ref'[1] = ref[1]
      BY <1>1, <1>3, <2>2 DEF TxInv
    <3> QED BY <1>2, <2>0, <2>2, <3>1 DEF Agree
  <2> QED BY <2>1, <2>2
<1>10. ASSUME tx' = "open" PROVE Agree(work', ref'[n], loose' \cup kept')
  <2>1. Agree(work, ref[n], loose \cup kept) /\ ref'[n] = ref[n] \cup {r}
    BY <1>2, <1>3, <1>10 DEF TxInv, Apply
  <2> QED BY <1>2, <1>10, <2>1 DEF Agree
<1> QED BY <1>2, <1>3, <1>7, <1>8, <1>9, <1>10 DEF TxInv

LEMMA TxNext_Inv ==
  ASSUME TxAssumption, TxInv, [TxNext]_txVars
  PROVE  TxInv'
<1>1. CASE UNCHANGED txVars
  BY <1>1 DEF txVars, TxInv, TxTypes, Backed, Marks, Holds, Agree
<1>2. CASE TxNext
  <2>1. CASE TxStep(BeginTx)
    BY <2>1, BeginTx_Inv DEF TxStep
  <2>2. CASE TxStep(Nested)
    BY <2>2, Nested_Inv DEF TxStep
  <2>3. CASE TxStep(Release)
    BY <2>3, Release_Inv DEF TxStep
  <2>4. CASE TxStep(InnerFails)
    BY <2>4, InnerFails_Inv DEF TxStep
  <2>5. CASE TxStep(InnerCut)
    BY <2>5, InnerCut_Inv DEF TxStep
  <2>6. CASE TxStep(Commit)
    BY <2>6, Commit_Inv DEF TxStep
  <2>7. CASE TxStep(Rollback)
    BY <2>7, Rollback_Inv DEF TxStep
  <2>8. CASE TxStep(CtxDone)
    BY <2>8, CtxDone_Inv DEF TxStep
  <2>9. CASE TxStep(ExecFails)
    BY <2>9, ExecFails_Inv DEF TxStep
  <2>10. ASSUME NEW r \in DBRow, TxStep(ExecContext(r)) PROVE TxInv'
    BY <2>10, ExecContext_Inv DEF TxStep
  <2>11. ASSUME NEW r \in DBRow, TxStep(InsertAutoID(r)) PROVE TxInv'
    BY <2>11, ExecContext_Inv, InsertPastTx_Inv DEF TxStep, InsertAutoID
  <2> QED BY <1>2, <2>1, <2>2, <2>3, <2>4, <2>5, <2>6, <2>7, <2>8, <2>9, <2>10, <2>11 DEF TxNext
<1> QED BY <1>1, <1>2

\* A failed call of Transaction leaves no trace and a successful one loses
\* nothing, for any nesting, any number of statements, either driver and
\* contexts that end anywhere (db.go 197-241); the rows a failed inner call
\* could not roll back and those inserted past a transaction are the only
\* ones excepted.
THEOREM TransactionsExact == TxSpec => []TxExact
<1>1. TxInit => TxInv
  BY TxAssumption, TxInit_Inv
<1>2. TxInv /\ [TxNext]_txVars => TxInv'
  BY TxAssumption, TxNext_Inv
<1> QED BY <1>1, <1>2, TxInvExact, PTL DEF TxSpec

---------------------------------------------------------------------------
(* Backups.  The trailer closes a dump of full size only, a Backup that    *)
(* shares its second with no other owns its file, and the remote object    *)
(* lags behind the dump goroutine of Upload by what is in the pipe.        *)

FileRec == [made : BOOLEAN, data : Stream]
JobRec == [pc : {"idle", "dumping", "failing", "returned", "failed", "cut"}, at : BackupSecond]
RestoreRec == [pc : {"idle", "running", "ok", "error"}, at : BackupSecond, n : 0..Size]
DumpRec == [pc : {"idle", "running", "closing", "done", "failed"}, n : 0..Size]

BackupTypes ==
  /\ file \in [BackupSecond -> FileRec] /\ job \in [Backuper -> JobRec]
  /\ restore \in RestoreRec /\ dump \in DumpRec /\ remote \in Stream
  /\ pipe \in {"empty", "chunk", "trailer", "eof", "error"} /\ second \in BackupSecond

FailedIn(js, s) == \E bk \in Backuper : js[bk].pc = "failed" /\ js[bk].at = s

\* A trailer is written after a whole dump, or by a Backup that failed.
TrailersInv(fs, js) ==
  \A s \in BackupSecond : fs[s].data.ended => fs[s].data.n = Size \/ FailedIn(js, s)

RestoreInv(rs, js) == rs.pc = "ok" => rs.n = Size \/ FailedIn(js, rs.at)

\* A Backup alone in its second has the file to itself.
OwnersInv(fs, js, cl) ==
  \A bk \in Backuper : js[bk].pc # "idle" /\ js[bk].at \notin cl =>
    /\ \A c \in Backuper : c # bk /\ js[c].pc # "idle" => js[c].at # js[bk].at
    /\ js[bk].pc = "dumping" => fs[js[bk].at].made
    /\ js[bk].pc = "returned" => fs[js[bk].at] = [made |-> TRUE, data |-> Complete]

UploadInv ==
  /\ put = "idle" => dump = [pc |-> "idle", n |-> 0] /\ pipe = "empty"
  /\ dump.pc = "running" =>
       \/ pipe = "empty" /\ remote = [n |-> dump.n, ended |-> FALSE]
       \/ pipe = "chunk" /\ dump.n > 0 /\ remote = [n |-> dump.n - 1, ended |-> FALSE]
  /\ dump.pc = "closing" =>
       \/ pipe = "trailer" /\ remote = [n |-> Size, ended |-> FALSE]
       \/ pipe = "empty" /\ remote = Complete
  /\ pipe = "eof" => remote = Complete
  /\ put = "reading" /\ pipe = "chunk" => dump.pc = "running"
  /\ put = "reading" /\ pipe = "trailer" => dump.pc = "closing"
  /\ put = "ok" => remote = Complete
  /\ result = "nil" => put = "ok"

BackupInv ==
  /\ BackupTypes /\ TrailersInv(file, job) /\ OwnersInv(file, job, clash)
  /\ RestoreInv(restore, job)
  /\ UploadInv

LEMMA BackupInit_Inv == BackupAssumption /\ BackupInit => BackupInv
<1> SUFFICES ASSUME BackupAssumption, BackupInit PROVE BackupInv
  OBVIOUS
<1>1. 1 \in BackupSecond /\ 0 \in 0..Size
  BY DEF BackupAssumption, BackupSecond
<1>2. Begun \in Stream
  BY <1>1 DEF Begun, Stream
<1>3. BackupTypes
  <2>1. [made |-> FALSE, data |-> Begun] \in FileRec /\ NoBackup \in JobRec
    BY <1>1, <1>2 DEF FileRec, JobRec, NoBackup
  <2>2. restore \in RestoreRec /\ dump \in DumpRec
    BY <1>1 DEF BackupInit, RestoreRec, DumpRec
  <2> QED BY <1>1, <1>2, <2>1, <2>2 DEF BackupInit, BackupTypes
<1>4. TrailersInv(file, job)
  BY DEF BackupInit, TrailersInv, Begun
<1>5. OwnersInv(file, job, clash)
  BY DEF BackupInit, OwnersInv, NoBackup
<1>6. UploadInv
  BY DEF BackupInit, UploadInv
<1>7. RestoreInv(restore, job)
  BY DEF BackupInit, RestoreInv
<1> QED BY <1>3, <1>4, <1>5, <1>6, <1>7 DEF BackupInv

\* The local side of a step, when the remote side rests.
LEMMA LocalStep ==
  ASSUME BackupInv, UNCHANGED <<restore, dump, pipe, put, remote, result, second>>,
         file' \in [BackupSecond -> FileRec], job' \in [Backuper -> JobRec],
         TrailersInv(file', job'), OwnersInv(file', job', clash'),
         \A s : FailedIn(job, s) => FailedIn(job', s)
  PROVE  BackupInv'
<1>1. BackupTypes' /\ RestoreInv(restore', job')
  BY DEF BackupInv, BackupTypes, RestoreInv
<1>2. UploadInv'
  BY DEF BackupInv, UploadInv
<1> QED BY <1>1, <1>2 DEF BackupInv

LEMMA BackupStart_Inv ==
  ASSUME BackupInv, BackupAssumption, NEW bk \in Backuper, Local(BackupStart(bk))
  PROVE  BackupInv'
<1> DEFINE fresh == [made |-> TRUE, data |-> Begun]
           mine == [pc |-> "dumping", at |-> second]
<1>0. /\ file \in [BackupSecond -> FileRec] /\ job \in [Backuper -> JobRec] /\ second \in BackupSecond
      /\ TrailersInv(file, job) /\ OwnersInv(file, job, clash)
  BY DEF BackupInv, BackupTypes
<1>1. fresh \in FileRec /\ mine \in JobRec /\ fresh.made = TRUE /\ fresh.data.ended = FALSE
  BY <1>0 DEF BackupAssumption, FileRec, JobRec, Begun, Stream
<1>2. /\ job[bk].pc = "idle" /\ file' = [file EXCEPT ![second] = fresh] /\ job' = [job EXCEPT ![bk] = mine]
      /\ clash \subseteq clash'
      /\ (\E c \in Backuper : job[c].pc # "idle" /\ job[c].at = second) => second \in clash'
  BY DEF Local, BackupStart
<1>3. mine.pc = "dumping" /\ mine.at = second
  OBVIOUS
<1> HIDE DEF fresh, mine
<1>4. file' \in [BackupSecond -> FileRec] /\ job' \in [Backuper -> JobRec]
  BY <1>0, <1>1, <1>2
<1>5. /\ file'[second] = fresh /\ \A s \in BackupSecond : s # second => file'[s] = file[s]
      /\ job'[bk] = mine /\ \A c \in Backuper : c # bk => job'[c] = job[c]
  BY <1>0, <1>2
<1>8. \A s : FailedIn(job, s) => FailedIn(job', s)
  BY <1>2, <1>5 DEF FailedIn
<1>6. TrailersInv(file', job')
  BY <1>0, <1>1, <1>5, <1>8 DEF TrailersInv
<1>7. OwnersInv(file', job', clash')
  <2> SUFFICES ASSUME NEW x \in Backuper, job'[x].pc # "idle", job'[x].at \notin clash'
               PROVE  /\ \A c \in Backuper : c # x /\ job'[c].pc # "idle" => job'[c].at # job'[x].at
                      /\ job'[x].pc = "dumping" => file'[job'[x].at].made
                      /\ job'[x].pc = "returned" => file'[job'[x].at] = [made |-> TRUE, data |-> Complete]
    BY DEF OwnersInv
  <2>1. CASE x = bk
    <3>1. second \notin clash' /\ \A c \in Backuper : job[c].pc # "idle" => job[c].at # second
      BY <2>1, <1>2, <1>3, <1>5
    <3> QED BY <2>1, <3>1, <1>1, <1>3, <1>5
  <2>2. CASE x # bk
    <3>1. job'[x] = job[x] /\ job[x].pc # "idle" /\ job[x].at \notin clash /\ job[x].at \in BackupSecond
      BY <2>2, <1>0, <1>2, <1>5 DEF JobRec
    <3>2. job[x].at # second
      BY <3>1, <1>2
    <3>3. file'[job[x].at] = file[job[x].at]
      BY <3>1, <3>2, <1>5
    <3>4. \A c \in Backuper : c # x /\ job'[c].pc # "idle" => job'[c].at # job[x].at
      BY <3>1, <3>2, <1>0, <1>3, <1>5 DEF OwnersInv
    <3> QED BY <3>1, <3>3, <3>4, <1>0 DEF OwnersInv
  <2> QED BY <2>1, <2>2
<1> QED BY <1>4, <1>6, <1>7, <1>8, LocalStep DEF Local

\* A Backup at work changes its own file, which is nobody else's.
LEMMA OwnFile ==
  ASSUME BackupInv, NEW bk \in Backuper, job[bk].pc \in {"dumping", "failing"},
         NEW f \in FileRec, NEW j \in JobRec, j.pc # "idle", j.at = job[bk].at,
         f.data.ended => f.data.n = Size \/ j.pc = "failed" \/ FailedIn(job, j.at),
         j.pc \in {"dumping", "returned"} => job[bk].pc = "dumping",
         j.pc = "dumping" /\ file[job[bk].at].made => f.made,
         j.pc = "returned" /\ file[job[bk].at].made => f = [made |-> TRUE, data |-> Complete],
         file' = [file EXCEPT ![job[bk].at] = f], job' = [job EXCEPT ![bk] = j],
         UNCHANGED <<clash, restore, dump, pipe, put, remote, result, second>>
  PROVE  BackupInv'
<1>0. /\ file \in [BackupSecond -> FileRec] /\ job \in [Backuper -> JobRec]
      /\ TrailersInv(file, job) /\ OwnersInv(file, job, clash)
  BY DEF BackupInv, BackupTypes
<1> DEFINE s == job[bk].at
<1>1. s \in BackupSecond
  BY <1>0 DEF JobRec
<1>2. file' \in [BackupSecond -> FileRec] /\ job' \in [Backuper -> JobRec]
  BY <1>0
<1>3. /\ file'[s] = f /\ \A t \in BackupSecond : t # s => file'[t] = file[t]
      /\ job'[bk] = j /\ \A c \in Backuper : c # bk => job'[c] = job[c]
  BY <1>0, <1>1
<1>6. \A t : FailedIn(job, t) => FailedIn(job', t)
  BY <1>3 DEF FailedIn
<1>4. TrailersInv(file', job')
  <2>1. f.data.ended => f.data.n = Size \/ FailedIn(job', s)
    BY <1>3, <1>6 DEF FailedIn
  <2> QED BY <1>0, <1>3, <1>6, <2>1 DEF TrailersInv
<1>5. OwnersInv(file', job', clash')
  <2> SUFFICES ASSUME NEW x \in Backuper, job'[x].pc # "idle", job'[x].at \notin clash
               PROVE  /\ \A c \in Backuper : c # x /\ job'[c].pc # "idle" => job'[c].at # job'[x].at
                      /\ job'[x].pc = "dumping" => file'[job'[x].at].made
                      /\ job'[x].pc = "returned" => file'[job'[x].at] = [made |-> TRUE, data |-> Complete]
    BY DEF OwnersInv
  <2>0. job'[x].at = job[x].at /\ job[x].pc # "idle"
    BY <1>3
  <2>1. \A c \in Backuper : c # x /\ job[c].pc # "idle" => job[c].at # job[x].at
    BY <2>0, <1>0 DEF OwnersInv
  <2>2. \A c \in Backuper : c # x /\ job'[c].pc # "idle" => job'[c].at # job'[x].at
    BY <2>0, <2>1, <1>3
  <2>3. CASE x = bk
    <3>1. job[bk].pc = "dumping" => file[s].made
      BY <2>0, <2>3, <1>0 DEF OwnersInv
    <3>2. job'[x] = j /\ file'[job'[x].at] = f
      BY <2>3, <1>3
    <3>3. (job'[x].pc = "dumping" => file'[job'[x].at].made)
      BY <3>1, <3>2
    <3>4. job'[x].pc = "returned" => file'[job'[x].at] = [made |-> TRUE, data |-> Complete]
      BY <3>1, <3>2
    <3> QED BY <2>2, <3>3, <3>4
  <2>4. CASE x # bk
    <3>1. job[x].at # s /\ job[x].at \in BackupSecond
      BY <2>1, <2>4, <1>0 DEF JobRec
    <3>2. file'[job[x].at] = file[job[x].at] /\ job'[x] = job[x]
      BY <2>4, <3>1, <1>3
    <3> QED BY <2>0, <2>2, <3>2, <1>0 DEF OwnersInv
  <2> QED BY <2>3, <2>4
<1> QED BY <1>2, <1>4, <1>5, <1>6, LocalStep

LEMMA BackupChunk_Inv ==
  ASSUME BackupInv, BackupAssumption, NEW bk \in Backuper, Local(BackupChunk(bk))
  PROVE  BackupInv'
<1> DEFINE s == job[bk].at
           f == [file[s] EXCEPT !.data = [file[s].data EXCEPT !.n = @ + 1]]
<1>0. file \in [BackupSecond -> FileRec] /\ job \in [Backuper -> JobRec] /\ TrailersInv(file, job)
  BY DEF BackupInv, BackupTypes
<1>1. s \in BackupSecond /\ job[bk] \in JobRec
  BY <1>0 DEF JobRec
<1>2. file[s] \in FileRec
  BY <1>0, <1>1
<1>3. job[bk].pc = "dumping" /\ file[s].data.n < Size /\ file' = [file EXCEPT ![s].data.n = @ + 1]
      /\ job' = job /\ clash' = clash
  BY DEF Local, BackupChunk
<1>4. f \in FileRec /\ (f.data.ended => FailedIn(job, s))
  <2>1. f \in FileRec /\ f.data.ended = file[s].data.ended
    BY <1>2, <1>3 DEF BackupAssumption, FileRec, Stream
  <2>2. file[s].data.ended => FailedIn(job, s)
    BY <1>0, <1>1, <1>2, <1>3 DEF BackupAssumption, FileRec, Stream, TrailersInv
  <2> QED BY <2>1, <2>2
<1>5. file' = [file EXCEPT ![s] = f]
  BY <1>0, <1>1, <1>2, <1>3 DEF FileRec, Stream
<1>6. job' = [job EXCEPT ![bk] = job[bk]]
  BY <1>0, <1>3
<1>7. f.made = file[s].made
  BY <1>2 DEF FileRec
<1> HIDE DEF f
<1>8. /\ job[bk].pc \in {"dumping", "failing"} /\ f \in FileRec /\ job[bk] \in JobRec
      /\ job[bk].pc # "idle" /\ job[bk].at = job[bk].at
      /\ f.data.ended => f.data.n = Size \/ job[bk].pc = "failed" \/ FailedIn(job, job[bk].at)
      /\ job[bk].pc \in {"dumping", "returned"} => job[bk].pc = "dumping"
      /\ UNCHANGED <<clash, restore, dump, pipe, put, remote, result, second>>
  BY <1>1, <1>3, <1>4 DEF Local
<1>9. /\ job[bk].pc = "dumping" /\ file[job[bk].at].made => f.made
      /\ job[bk].pc = "returned" /\ file[job[bk].at].made => f = [made |-> TRUE, data |-> Complete]
      /\ file' = [file EXCEPT ![job[bk].at] = f]
  BY <1>3, <1>5, <1>7
<1> HIDE DEF s
<1> QED BY <1>6, <1>8, <1>9, OwnFile

LEMMA BackupFails_Inv ==
  ASSUME BackupInv, NEW bk \in Backuper, NEW removed \in BOOLEAN, Local(BackupFails(bk, removed))
  PROVE  BackupInv'
<1> DEFINE s == job[bk].at
           m == file[s].made /\ ~removed
           f == [file[s] EXCEPT !.made = m]
           j == [job[bk] EXCEPT !.pc = "failing"]
<1>0. file \in [BackupSecond -> FileRec] /\ job \in [Backuper -> JobRec] /\ TrailersInv(file, job)
  BY DEF BackupInv, BackupTypes
<1>1. s \in BackupSecond /\ job[bk] \in JobRec
  BY <1>0 DEF JobRec
<1>2. file[s] \in FileRec
  BY <1>0, <1>1
<1>3. /\ job[bk].pc = "dumping" /\ file' = [file EXCEPT ![s].made = @ /\ ~removed]
      /\ job' = [job EXCEPT ![bk].pc = "failing"] /\ clash' = clash
  BY DEF Local, BackupFails
<1>5. file' = [file EXCEPT ![s] = f]
  BY <1>0, <1>1, <1>2, <1>3 DEF FileRec
<1>6. job' = [job EXCEPT ![bk] = j]
  BY <1>0, <1>1, <1>3 DEF JobRec
<1>7. m \in BOOLEAN
  OBVIOUS
<1> HIDE DEF m
<1>4. /\ f \in FileRec /\ (f.data.ended => f.data.n = Size \/ FailedIn(job, s))
      /\ j \in JobRec /\ j.pc = "failing" /\ j.at = s
  <2>1. f \in FileRec /\ f.data = file[s].data
    BY <1>2, <1>7 DEF FileRec
  <2>2. j \in JobRec /\ j.pc = "failing" /\ j.at = s
    BY <1>1 DEF JobRec
  <2>3. file[s].data.ended => file[s].data.n = Size \/ FailedIn(job, s)
    BY <1>0, <1>1 DEF TrailersInv
  <2> QED BY <2>1, <2>2, <2>3
<1> HIDE DEF f, j
<1>8. /\ job[bk].pc \in {"dumping", "failing"} /\ f \in FileRec /\ j \in JobRec
      /\ j.pc # "idle" /\ j.at = job[bk].at
      /\ f.data.ended => f.data.n = Size \/ j.pc = "failed" \/ FailedIn(job, j.at)
      /\ j.pc \in {"dumping", "returned"} => job[bk].pc = "dumping"
      /\ UNCHANGED <<clash, restore, dump, pipe, put, remote, result, second>>
  BY <1>3, <1>4 DEF Local
<1>9. /\ j.pc = "dumping" /\ file[job[bk].at].made => f.made
      /\ j.pc = "returned" /\ file[job[bk].at].made => f = [made |-> TRUE, data |-> Complete]
      /\ file' = [file EXCEPT ![job[bk].at] = f]
  BY <1>4, <1>5
<1> HIDE DEF s
<1> QED BY <1>6, <1>8, <1>9, OwnFile

\* The deferred Close after a failure.
LEMMA BackupCloses_Inv ==
  ASSUME BackupInv, NEW bk \in Backuper, NEW ok \in BOOLEAN, Local(BackupCloses(bk, ok))
  PROVE  BackupInv'
<1> DEFINE s == job[bk].at
           e == file[s].data.ended \/ ok
           f == [file[s] EXCEPT !.data = [file[s].data EXCEPT !.ended = e]]
           j == [job[bk] EXCEPT !.pc = IF ok THEN "failed" ELSE "cut"]
<1>0. file \in [BackupSecond -> FileRec] /\ job \in [Backuper -> JobRec] /\ TrailersInv(file, job)
  BY DEF BackupInv, BackupTypes
<1>1. s \in BackupSecond /\ job[bk] \in JobRec
  BY <1>0 DEF JobRec
<1>2. file[s] \in FileRec
  BY <1>0, <1>1
<1>3. /\ job[bk].pc = "failing" /\ file' = [file EXCEPT ![s].data.ended = @ \/ ok]
      /\ job' = [job EXCEPT ![bk].pc = IF ok THEN "failed" ELSE "cut"] /\ clash' = clash
  BY DEF Local, BackupCloses
<1>4. file' = [file EXCEPT ![s] = f]
  BY <1>0, <1>1, <1>2, <1>3 DEF FileRec, Stream
<1>5. job' = [job EXCEPT ![bk] = j]
  BY <1>0, <1>1, <1>3 DEF JobRec
<1>6. e \in BOOLEAN /\ (e => file[s].data.ended \/ ok)
  BY Zenon
<1> HIDE DEF e
<1>7. f \in FileRec /\ f.data.n = file[s].data.n /\ f.data.ended = e
  BY <1>2, <1>6 DEF FileRec, Stream
<1>8. j \in JobRec /\ j.pc \in {"failed", "cut"} /\ j.at = s /\ (ok => j.pc = "failed")
  BY <1>1 DEF JobRec
<1>9. f.data.ended => f.data.n = Size \/ j.pc = "failed" \/ FailedIn(job, s)
  <2>1. file[s].data.ended => file[s].data.n = Size \/ FailedIn(job, s)
    BY <1>0, <1>1 DEF TrailersInv
  <2> QED BY <1>6, <1>7, <1>8, <2>1
<1> HIDE DEF f, j
<1>10. /\ job[bk].pc \in {"dumping", "failing"} /\ f \in FileRec /\ j \in JobRec
       /\ j.pc # "idle" /\ j.at = job[bk].at
       /\ f.data.ended => f.data.n = Size \/ j.pc = "failed" \/ FailedIn(job, j.at)
       /\ j.pc \in {"dumping", "returned"} => job[bk].pc = "dumping"
       /\ UNCHANGED <<clash, restore, dump, pipe, put, remote, result, second>>
  BY <1>3, <1>7, <1>8, <1>9 DEF Local
<1>11. /\ j.pc = "dumping" /\ file[job[bk].at].made => f.made
       /\ j.pc = "returned" /\ file[job[bk].at].made => f = [made |-> TRUE, data |-> Complete]
       /\ file' = [file EXCEPT ![job[bk].at] = f]
  BY <1>4, <1>8
<1> HIDE DEF s
<1> QED BY <1>5, <1>10, <1>11, OwnFile

\* A file that is there with all chunks and the trailer.
LEMMA WholeFile ==
  ASSUME NEW f \in FileRec, f.made, f.data.n = Size, f.data.ended
  PROVE  f = [made |-> TRUE, data |-> Complete]
<1>1. f.data \in Stream
  BY DEF FileRec
<1>2. f.data = Complete
  BY <1>1 DEF Stream, Complete
<1> QED BY <1>2 DEF FileRec

LEMMA BackupEnds_Inv ==
  ASSUME BackupInv, BackupAssumption, NEW bk \in Backuper, NEW ok \in BOOLEAN, Local(BackupEnds(bk, ok))
  PROVE  BackupInv'
<1> DEFINE s == job[bk].at
           e == file[s].data.ended \/ ok
           f == [file[s] EXCEPT !.data = [file[s].data EXCEPT !.ended = e]]
           j == [job[bk] EXCEPT !.pc = IF ok THEN "returned" ELSE "cut"]
<1>0. file \in [BackupSecond -> FileRec] /\ job \in [Backuper -> JobRec] /\ TrailersInv(file, job)
  BY DEF BackupInv, BackupTypes
<1>1. s \in BackupSecond /\ job[bk] \in JobRec
  BY <1>0 DEF JobRec
<1>2. file[s] \in FileRec
  BY <1>0, <1>1
<1>3. /\ job[bk].pc = "dumping" /\ file[s].data.n = Size
      /\ file' = [file EXCEPT ![s].data.ended = @ \/ ok]
      /\ job' = [job EXCEPT ![bk].pc = IF ok THEN "returned" ELSE "cut"] /\ clash' = clash
  BY DEF Local, BackupEnds
<1>4. file' = [file EXCEPT ![s] = f]
  BY <1>0, <1>1, <1>2, <1>3 DEF FileRec, Stream
<1>5. e \in BOOLEAN
  OBVIOUS
<1>6. ok => e = TRUE
  BY Zenon
<1> HIDE DEF e
<1>7. f \in FileRec /\ f.data.n = Size
  BY <1>1, <1>2, <1>3, <1>5 DEF FileRec, Stream
<1>8. job' = [job EXCEPT ![bk] = j]
  BY <1>0, <1>1, <1>3 DEF JobRec
<1>9. j \in JobRec /\ j.pc \in {"returned", "cut"} /\ j.at = s /\ (j.pc = "returned" => ok)
  BY <1>1 DEF JobRec
<1>10. ASSUME j.pc = "returned", file[s].made PROVE f = [made |-> TRUE, data |-> Complete]
  <2>1. e = TRUE
    BY <1>6, <1>9, <1>10
  <2>2. f.made /\ f.data.n = Size /\ f.data.ended
    BY <2>1, <1>2, <1>3, <1>10 DEF FileRec, Stream
  <2> HIDE DEF f
  <2> QED BY <2>2, <1>7, WholeFile
<1>11. j.pc # "idle" /\ j.pc # "dumping" /\ (f.data.ended => f.data.n = Size)
  BY <1>7, <1>9
<1>12. j.pc = "returned" /\ file[s].made => f = [made |-> TRUE, data |-> Complete]
  BY <1>10
<1>13. /\ UNCHANGED <<clash, restore, dump, pipe, put, remote, result, second>>
       /\ job[bk].pc = "dumping" /\ f \in FileRec /\ j \in JobRec /\ j.at = job[bk].at
  BY <1>3, <1>7, <1>9 DEF Local
<1> HIDE DEF f, j
<1> QED BY <1>4, <1>8, <1>11, <1>12, <1>13, OwnFile

\* Restore, up to the end of the file it reads.
LEMMA Restore_Inv ==
  ASSUME BackupInv, BackupAssumption,
         \/ \E s \in BackupSecond : Reading(RestoreStart(s))
         \/ Reading(RestoreChunk) \/ Reading(RestoreEnds) \/ Reading(RestoreFails)
  PROVE  BackupInv'
<1>0. restore \in RestoreRec /\ file \in [BackupSecond -> FileRec] /\ TrailersInv(file, job)
  BY DEF BackupInv, BackupTypes
<1>1. UNCHANGED <<file, job, clash, dump, pipe, put, remote, result, second>>
  BY DEF Reading
<1>2. restore.at \in BackupSecond /\ restore.n \in 0..Size
  BY <1>0 DEF RestoreRec
<1>3. file[restore.at] \in FileRec
  BY <1>0, <1>2
<1>4. file[restore.at].data.n \in 0..Size
  BY <1>3 DEF FileRec, Stream
<1>5. restore' \in RestoreRec /\ RestoreInv(restore', job)
  <2>1. CASE \E s \in BackupSecond : Reading(RestoreStart(s))
    BY <2>1 DEF Reading, RestoreStart, RestoreRec, RestoreInv, BackupAssumption
  <2>2. CASE Reading(RestoreChunk)
    BY <2>2, <1>0, <1>2, <1>4 DEF Reading, RestoreChunk, RestoreRec, RestoreInv, BackupAssumption
  <2>3. CASE Reading(RestoreEnds)
    <3>1. restore.n >= file[restore.at].data.n /\ (file[restore.at].data.ended => restore.n = Size \/ FailedIn(job, restore.at))
      BY <2>3, <1>0, <1>2, <1>4 DEF Reading, RestoreEnds, TrailersInv, BackupAssumption
    <3>2. restore' = [restore EXCEPT !.pc = IF file[restore.at].data.ended THEN "ok" ELSE "error"]
      BY <2>3 DEF Reading, RestoreEnds
    <3> QED BY <3>1, <3>2, <1>0 DEF RestoreRec, RestoreInv
  <2>4. CASE Reading(RestoreFails)
    BY <2>4, <1>0 DEF Reading, RestoreFails, RestoreRec, RestoreInv
  <2> QED BY <2>1, <2>2, <2>3, <2>4
<1>6. BackupTypes' /\ TrailersInv(file', job') /\ OwnersInv(file', job', clash')
  BY <1>1, <1>5 DEF BackupInv, BackupTypes
<1>7. UploadInv'
  BY <1>1 DEF BackupInv, UploadInv
<1> QED BY <1>1, <1>5, <1>6, <1>7 DEF BackupInv

\* Upload, when the local side rests.
LEMMA RemoteStep ==
  ASSUME BackupInv, UNCHANGED <<file, job, clash, restore, second>>,
         dump' \in DumpRec, remote' \in Stream,
         pipe' \in {"empty", "chunk", "trailer", "eof", "error"}, UploadInv'
  PROVE  BackupInv'
<1>1. BackupTypes' /\ RestoreInv(restore', job')
  BY DEF BackupInv, BackupTypes
<1>2. TrailersInv(file', job') /\ OwnersInv(file', job', clash')
  BY DEF BackupInv
<1> QED BY <1>1, <1>2 DEF BackupInv

LEMMA Upload_Inv ==
  ASSUME BackupInv, BackupAssumption,
         \/ Remote(UploadStart) \/ Remote(UploadChunk) \/ Remote(UploadDumpFails) \/ Remote(UploadTrailer)
         \/ Remote(UploadClose) \/ Remote(PutReads) \/ Remote(PutFails) \/ Remote(UploadReturn)
  PROVE  BackupInv'
<1>0. UNCHANGED <<file, job, clash, restore, second>> /\ dump \in DumpRec /\ remote \in Stream /\ UploadInv
  BY DEF Remote, BackupInv, BackupTypes
<1>00. pipe \in {"empty", "chunk", "trailer", "eof", "error"}
  BY DEF BackupInv, BackupTypes
<1> SUFFICES /\ dump' \in DumpRec /\ remote' \in Stream /\ UploadInv'
             /\ pipe' \in {"empty", "chunk", "trailer", "eof", "error"}
  BY <1>0, RemoteStep
<1>1. CASE Remote(UploadStart)
  <2>1. /\ put = "idle" /\ put' = "reading" /\ dump = [pc |-> "idle", n |-> 0] /\ pipe = "empty"
        /\ dump' = [dump EXCEPT !.pc = "running"] /\ remote' = Begun /\ pipe' = pipe /\ result' = result
    BY <1>0, <1>1 DEF Remote, UploadStart, UploadInv
  <2>2. dump' \in DumpRec /\ dump'.pc = "running" /\ dump'.n = 0
    BY <1>0, <2>1 DEF DumpRec
  <2>3. remote' \in Stream /\ remote' = [n |-> 0, ended |-> FALSE]
    BY <2>1 DEF Begun, Stream, BackupAssumption
  <2>4. UploadInv'
    BY <1>0, <2>1, <2>2, <2>3 DEF UploadInv
  <2> QED BY <2>1, <2>2, <2>3, <2>4
<1>2. CASE Remote(UploadChunk)
  <2>1. /\ dump.pc = "running" /\ dump.n < Size /\ pipe = "empty" /\ pipe' = "chunk"
        /\ dump' = [dump EXCEPT !.n = @ + 1] /\ UNCHANGED <<put, remote, result>>
    BY <1>2 DEF Remote, UploadChunk
  <2>2. dump' \in DumpRec /\ dump'.pc = "running" /\ dump'.n = dump.n + 1 /\ dump.n \in Nat
    <3>1. dump.n \in 0..Size /\ Size \in Nat
      BY <1>0 DEF DumpRec, BackupAssumption
    <3> QED BY <1>0, <2>1, <3>1 DEF DumpRec
  <2>3. remote = [n |-> dump.n, ended |-> FALSE]
    BY <1>0, <2>1 DEF UploadInv
  <2>4. dump'.n > 0 /\ dump'.n - 1 = dump.n
    BY <2>2
  <2>5. remote' = [n |-> dump'.n - 1, ended |-> FALSE]
    BY <2>1, <2>3, <2>4
  <2>6. UploadInv'
    <3>1. put # "idle" /\ put' # "idle"
      BY <1>0, <2>1 DEF UploadInv
    <3> QED BY <1>0, <2>1, <2>2, <2>4, <2>5, <3>1 DEF UploadInv
  <2> QED BY <1>0, <2>1, <2>2, <2>6
<1>3. CASE Remote(UploadDumpFails)
  <2>1. /\ dump.pc = "running" /\ pipe = "empty" /\ pipe' = "error"
        /\ dump' = [dump EXCEPT !.pc = "failed"] /\ UNCHANGED <<put, remote, result>>
    BY <1>3 DEF Remote, UploadDumpFails
  <2>2. dump' \in DumpRec /\ dump'.pc = "failed"
    BY <1>0, <2>1 DEF DumpRec
  <2> QED BY <1>0, <2>1, <2>2 DEF UploadInv
<1>4. CASE Remote(UploadTrailer)
  <2>1. /\ dump.pc = "running" /\ dump.n = Size /\ pipe = "empty" /\ pipe' = "trailer"
        /\ dump' = [dump EXCEPT !.pc = "closing"] /\ UNCHANGED <<put, remote, result>>
    BY <1>4 DEF Remote, UploadTrailer
  <2>2. dump' \in DumpRec /\ dump'.pc = "closing"
    BY <1>0, <2>1 DEF DumpRec
  <2> QED BY <1>0, <2>1, <2>2 DEF UploadInv
<1>5. CASE Remote(UploadClose)
  <2>1. /\ dump.pc = "closing" /\ pipe = "empty" /\ pipe' = "eof"
        /\ dump' = [dump EXCEPT !.pc = "done"] /\ UNCHANGED <<put, remote, result>>
    BY <1>5 DEF Remote, UploadClose
  <2>2. dump' \in DumpRec /\ dump'.pc = "done"
    BY <1>0, <2>1 DEF DumpRec
  <2> QED BY <1>0, <2>1, <2>2 DEF UploadInv
<1>6. CASE Remote(PutReads)
  <2>0. put = "reading" /\ UNCHANGED <<dump, result>> /\ result # "nil"
    BY <1>0, <1>6 DEF Remote, PutReads, UploadInv
  <2>1. CASE pipe = "chunk"
    <3>1. remote' = [remote EXCEPT !.n = @ + 1] /\ pipe' = "empty" /\ put' = put
      BY <1>6, <2>1 DEF Remote, PutReads
    <3>2. /\ dump.pc = "running" /\ dump.n \in 0..Size /\ dump.n > 0
          /\ remote = [n |-> dump.n - 1, ended |-> FALSE]
      BY <1>0, <2>0, <2>1 DEF UploadInv, DumpRec
    <3>3. remote.n = dump.n - 1 /\ remote.ended = FALSE /\ remote.n + 1 = dump.n
      BY <3>2 DEF BackupAssumption
    <3>4. remote' \in Stream
      BY <1>0, <3>1, <3>2, <3>3 DEF Stream
    <3>5. remote'.n = dump.n /\ remote'.ended = FALSE
      BY <1>0, <3>1, <3>3 DEF Stream
    <3>6. remote' = [n |-> dump.n, ended |-> FALSE]
      BY <3>4, <3>5 DEF Stream
    <3> QED BY <1>0, <2>0, <3>1, <3>2, <3>4, <3>6 DEF UploadInv
  <2>2. CASE pipe = "trailer"
    <3>1. remote' = [remote EXCEPT !.ended = TRUE] /\ pipe' = "empty" /\ put' = put
      BY <1>6, <2>2 DEF Remote, PutReads
    <3>2. dump.pc = "closing" /\ remote = [n |-> Size, ended |-> FALSE]
      BY <1>0, <2>0, <2>2 DEF UploadInv
    <3>3. remote' = Complete
      <4>1. remote' \in Stream
        BY <1>0, <3>1 DEF Stream
      <4>2. remote.n = Size
        BY <3>2
      <4>3. remote'.n = Size /\ remote'.ended = TRUE
        BY <1>0, <3>1, <4>2 DEF Stream
      <4> QED BY <4>1, <4>3 DEF Stream, Complete
    <3>4. remote' \in Stream
      BY <1>0, <3>1 DEF Stream
    <3> QED BY <1>0, <2>0, <3>1, <3>2, <3>3, <3>4 DEF UploadInv
  <2>3. CASE pipe = "eof"
    <3>1. put' = "ok" /\ UNCHANGED <<remote, pipe>>
      BY <1>6, <2>3 DEF Remote, PutReads
    <3> QED BY <1>0, <2>0, <2>3, <3>1 DEF UploadInv
  <2>4. CASE pipe = "error"
    <3>1. put' = "failed" /\ UNCHANGED <<remote, pipe>>
      BY <1>6, <2>4 DEF Remote, PutReads
    <3> QED BY <1>0, <2>0, <2>4, <3>1 DEF UploadInv
  <2>5. pipe \in {"chunk", "trailer", "eof", "error"}
    BY <1>00, <1>6 DEF Remote, PutReads
  <2> QED BY <2>1, <2>2, <2>3, <2>4, <2>5
<1>7. CASE Remote(PutFails)
  BY <1>0, <1>00, <1>7 DEF Remote, PutFails, UploadInv
<1>8. CASE Remote(UploadReturn)
  <2>1. UNCHANGED <<dump, pipe, put, remote>> /\ (result' = "nil" => put = "ok")
    BY <1>8 DEF Remote, UploadReturn
  <2> QED BY <1>0, <1>00, <2>1 DEF UploadInv
<1> QED BY <1>1, <1>2, <1>3, <1>4, <1>5, <1>6, <1>7, <1>8

\* The process dies: the goroutines are gone, the files and the object stay.
LEMMA BackupCrash_Inv == ASSUME BackupInv, BackupCrash PROVE BackupInv'
<1>0. /\ UNCHANGED <<file, clash, pipe, remote, second>> /\ BackupTypes /\ TrailersInv(file, job)
      /\ OwnersInv(file, job, clash) /\ UploadInv
  BY DEF BackupInv, BackupCrash
<1>1. \A bk \in Backuper : job'[bk] =
        IF job[bk].pc \in {"dumping", "failing"} THEN [job[bk] EXCEPT !.pc = "cut"] ELSE job[bk]
  BY DEF BackupCrash
<1>2. ASSUME NEW bk \in Backuper
      PROVE  /\ job'[bk] \in JobRec /\ job'[bk].at = job[bk].at
             /\ job'[bk].pc = IF job[bk].pc \in {"dumping", "failing"} THEN "cut" ELSE job[bk].pc
  <2>1. job[bk] \in JobRec
    BY <1>0 DEF BackupTypes
  <2> QED BY <2>1, <1>1 DEF JobRec
<1>3. job' \in [Backuper -> JobRec]
  BY <1>2 DEF BackupCrash
<1>9. \A s : FailedIn(job, s) => FailedIn(job', s)
  BY <1>2 DEF FailedIn
<1>4. restore' \in RestoreRec /\ RestoreInv(restore', job')
  <2>1. restore \in RestoreRec /\ RestoreInv(restore, job')
    BY <1>9 DEF BackupInv, BackupTypes, RestoreInv
  <2>2. restore' = IF restore.pc = "running" THEN [restore EXCEPT !.pc = "error"] ELSE restore
    BY DEF BackupCrash
  <2> QED BY <2>1, <2>2 DEF RestoreRec, RestoreInv
<1>5. dump' \in DumpRec /\ dump'.pc \notin {"running", "closing"} /\ (dump.pc = "idle" => dump' = dump)
  <2>1. dump \in DumpRec
    BY <1>0 DEF BackupTypes
  <2>2. dump' = IF dump.pc \in {"running", "closing"} THEN [dump EXCEPT !.pc = "failed"] ELSE dump
    BY DEF BackupCrash
  <2> QED BY <2>1, <2>2 DEF DumpRec
<1>6. BackupTypes'
  BY <1>0, <1>3, <1>4, <1>5 DEF BackupTypes
<1>7. OwnersInv(file', job', clash')
  <2>1. \A bk \in Backuper :
          /\ job'[bk].at = job[bk].at /\ job'[bk].pc # "dumping"
          /\ job'[bk].pc = "idle" <=> job[bk].pc = "idle"
          /\ job'[bk].pc = "returned" <=> job[bk].pc = "returned"
    BY <1>2
  <2>2. OwnersInv(file, job', clash)
    <3> SUFFICES ASSUME NEW bk \in Backuper, job'[bk].pc # "idle", job'[bk].at \notin clash
                 PROVE  /\ \A c \in Backuper : c # bk /\ job'[c].pc # "idle" => job'[c].at # job'[bk].at
                        /\ job'[bk].pc = "dumping" => file[job'[bk].at].made
                        /\ job'[bk].pc = "returned" => file[job'[bk].at] = [made |-> TRUE, data |-> Complete]
      BY DEF OwnersInv
    <3>1. job[bk].pc # "idle" /\ job[bk].at \notin clash
      BY <2>1
    <3>2. \A c \in Backuper : c # bk /\ job[c].pc # "idle" => job[c].at # job[bk].at
      BY <1>0, <3>1 DEF OwnersInv
    <3>3. job[bk].pc = "returned" => file[job[bk].at] = [made |-> TRUE, data |-> Complete]
      BY <1>0, <3>1 DEF OwnersInv
    <3>4. \A c \in Backuper : c # bk /\ job'[c].pc # "idle" => job'[c].at # job'[bk].at
      BY <2>1, <3>2
    <3>5. job'[bk].pc = "returned" => file[job'[bk].at] = [made |-> TRUE, data |-> Complete]
      BY <2>1, <3>3
    <3>6. job'[bk].pc # "dumping"
      BY <2>1
    <3> QED BY <3>4, <3>5, <3>6
  <2> QED BY <1>0, <2>2
<1>8. UploadInv'
  <2>1. /\ put' = IF put = "reading" THEN "failed" ELSE put
        /\ (result' = "nil" => result = "nil")
    BY DEF BackupCrash
  <2>2. put = "idle" => dump.pc = "idle"
    BY <1>0 DEF UploadInv
  <2> QED BY <1>0, <1>5, <2>1, <2>2 DEF UploadInv
<1>10. TrailersInv(file', job')
  BY <1>0, <1>9 DEF TrailersInv
<1> QED BY <1>4, <1>6, <1>7, <1>8, <1>10 DEF BackupInv

LEMMA BackupNext_Inv == ASSUME BackupAssumption, BackupInv, [BackupNext]_backupVars PROVE BackupInv'
<1>1. CASE UNCHANGED backupVars
  <2>1. file' \in [BackupSecond -> FileRec] /\ job' \in [Backuper -> JobRec]
        /\ TrailersInv(file', job') /\ OwnersInv(file', job', clash')
        /\ \A s : FailedIn(job, s) => FailedIn(job', s)
    BY <1>1 DEF backupVars, BackupInv, BackupTypes
  <2> QED BY <1>1, <2>1, LocalStep DEF backupVars
<1>2. CASE Tock
  <2>1. BackupTypes'
    BY <1>2 DEF Tock, BackupInv, BackupTypes, BackupSecond, BackupAssumption
  <2>2. UploadInv'
    BY <1>2 DEF Tock, BackupInv, UploadInv
  <2> QED BY <1>2, <2>1, <2>2 DEF Tock, BackupInv
<1>3. CASE \E bk \in Backuper :
              \/ Local(BackupStart(bk)) \/ Local(BackupChunk(bk))
              \/ \E ok \in BOOLEAN :
                   Local(BackupFails(bk, ok)) \/ Local(BackupCloses(bk, ok)) \/ Local(BackupEnds(bk, ok))
  <2> PICK bk \in Backuper :
              \/ Local(BackupStart(bk)) \/ Local(BackupChunk(bk))
              \/ \E ok \in BOOLEAN :
                   Local(BackupFails(bk, ok)) \/ Local(BackupCloses(bk, ok)) \/ Local(BackupEnds(bk, ok))
    BY <1>3
  <2>1. CASE Local(BackupStart(bk))
    BY <2>1, BackupStart_Inv
  <2>2. CASE Local(BackupChunk(bk))
    BY <2>2, BackupChunk_Inv
  <2>3. ASSUME NEW ok \in BOOLEAN, Local(BackupFails(bk, ok)) PROVE BackupInv'
    BY <2>3, BackupFails_Inv
  <2>4. ASSUME NEW ok \in BOOLEAN, Local(BackupCloses(bk, ok)) PROVE BackupInv'
    BY <2>4, BackupCloses_Inv
  <2>5. ASSUME NEW ok \in BOOLEAN, Local(BackupEnds(bk, ok)) PROVE BackupInv'
    BY <2>5, BackupEnds_Inv
  <2> QED BY <2>1, <2>2, <2>3, <2>4, <2>5
<1>4. CASE \/ \E s \in BackupSecond : Reading(RestoreStart(s))
           \/ Reading(RestoreChunk) \/ Reading(RestoreEnds) \/ Reading(RestoreFails)
  BY <1>4, Restore_Inv
<1>5. CASE \/ Remote(UploadStart) \/ Remote(UploadChunk) \/ Remote(UploadDumpFails) \/ Remote(UploadTrailer)
           \/ Remote(UploadClose) \/ Remote(PutReads) \/ Remote(PutFails) \/ Remote(UploadReturn)
  BY <1>5, Upload_Inv
<1>6. CASE BackupCrash
  BY <1>6, BackupCrash_Inv
<1> QED BY <1>1, <1>2, <1>3, <1>4, <1>5, <1>6 DEF BackupNext

\* A Backup or Upload that reports success has made a complete dump, and a
\* Restore that does has replayed one, or a dump whose Backup had failed, whatever
\* fails and crashes in whichever order, for any number of Backups that begin in
\* different seconds and any size (backup.go 82-144, 278-291).
THEOREM BackupsComplete == BackupSpec => []DumpsComplete
<1>1. BackupInit => BackupInv
  BY BackupAssumption, BackupInit_Inv
<1>2. BackupInv /\ [BackupNext]_backupVars => BackupInv'
  BY BackupAssumption, BackupNext_Inv
<1>3. BackupInv => DumpsComplete
  BY DEF BackupInv, OwnersInv, RestoreInv, FailedIn, UploadInv, DumpsComplete, BackupRestores,
         FailedDump, UploadTruth
<1> QED BY <1>1, <1>2, <1>3, PTL DEF BackupSpec

---------------------------------------------------------------------------
(* Migrations.  Two commands never hold the same migration between its     *)
(* statements and its row; while no rollback runs beside another command,  *)
(* what a migrate still has to do is recorded only if it is applied too.   *)

Names(rows) == {row.name : row \in rows}
RowOf(c, m) == [name |-> m, batch |-> c.batch, by |-> c.number]

\* A command as a record; the numbers of batches and commands do not matter here.
IsCmd(c) ==
  c \in [pc : {"idle", "batch", "up", "record", "commit", "names", "down", "forget"},
         kind : {"none", "migrate", "rollback"}, todo : {c.todo}, batch : {c.batch},
         up : {c.up}, rows : {c.rows}, number : {c.number}]

\* What a command has run.
Held(c) == Names(c.rows) \cup (IF c.pc = "record" THEN {At(c)} ELSE {})

\* The step a command is at says which kind it is and that it has a migration
\* in hand; on Postgres its transaction holds what it has run and recorded, all
\* of it but what could be run again, and on MySQL there is nothing in it.
CmdInv(c, dl) ==
  /\ IsCmd(c)
  /\ c.pc \in {"batch", "up", "record", "commit"} <=> c.kind = "migrate"
  /\ c.pc = "idle" <=> c.kind = "none"
  /\ c.kind = "migrate" => c.todo \subseteq Migration
  /\ c.pc \in {"up", "record"} => c.todo # {}
  /\ c.pc = "batch" => c.rows = {}
  /\ \A row \in c.rows : row = RowOf(c, row.name)
  /\ dl = "mysql" => c.up = {} /\ c.rows = {}
  /\ dl = "postgres" => /\ c.up \subseteq Held(c)
                        /\ Held(c) \ UpRepeats \subseteq c.up

\* What a command relies on of the table tb and the schema sc.
ReliesOn(c, tb, sc, dl) ==
  /\ c.up \cap sc = {} /\ c.up \cap Names(tb) = {}
  /\ c.kind = "migrate" => c.todo \cap Names(tb) \subseteq sc
  /\ c.kind = "migrate" => Held(c) \subseteq c.up \cup sc
  /\ dl = "mysql" /\ c.pc = "record" => At(c) \notin Names(tb) \ UpRepeats
  /\ c.pc = "forget" => At(c) \notin sc

\* Two commands at once.
Together(c, o, dl) ==
  /\ c.pc # "idle" /\ o.pc # "idle" => c.kind = "migrate" /\ o.kind = "migrate"
  /\ c.up \cap o.up = {}
  /\ dl = "mysql" /\ c.pc = "record" /\ o.pc = "record" => At(c) # At(o) \/ At(c) \in UpRepeats

\* MigrationsExact, migration by migration.
Exact(tb, sc, cm, done, undone, dl) ==
  /\ \A m \in sc :
       \/ m \in Names(tb)
       \/ dl = "mysql" /\ (m \in done \/ \E o \in Deployer : cm[o].pc = "record" /\ At(cm[o]) = m)
  /\ \A m \in Names(tb) :
       m \in sc \/ m \in undone \/ \E o \in Deployer : cm[o].pc = "forget" /\ At(cm[o]) = m
  /\ \A r1, r2 \in tb : r1.name = r2.name /\ r1.name \notin UpRepeats => r1 = r2

MigInv ==
  /\ dialect \in {"postgres", "mysql"}
  /\ cmd = [d \in Deployer |-> cmd[d]]
  /\ \A d \in Deployer : CmdInv(cmd[d], dialect)
  /\ mixed \in BOOLEAN
  /\ ~mixed =>
       /\ \A d \in Deployer : ReliesOn(cmd[d], table, schema, dialect)
       /\ \A d, o \in Deployer : d # o => Together(cmd[d], cmd[o], dialect)
       /\ Exact(table, schema, cmd, halfDone, halfUndone, dialect)

LEMMA ExactSuffices == MigInv => MigrationsExact
<1> SUFFICES ASSUME MigInv, ~mixed PROVE TableMatchesSchema /\ RecordedOnce
  BY DEF MigrationsExact, TableMatchesSchema, RecordedOnce
<1>1. Exact(table, schema, cmd, halfDone, halfUndone, dialect) /\ Ran = Names(table)
  BY DEF MigInv, Ran, Names
<1>2. ASSUME NEW m \in schema \ Ran PROVE m \in HalfWay
  BY <1>1, <1>2 DEF Exact, HalfWay, AtStep
<1>3. ASSUME NEW m \in Ran \ schema PROVE m \in halfUndone \cup AtStep("forget")
  BY <1>1, <1>3 DEF Exact, AtStep
<1>4. RecordedOnce
  BY <1>1 DEF Exact, RecordedOnce
<1> QED BY <1>2, <1>3, <1>4 DEF TableMatchesSchema

\* A set of numbers has a least one, and Min is it.
LEMMA MinIn == ASSUME NEW T, T \subseteq Nat, T # {} PROVE Min(T) \in T
<1> DEFINE R == {ss \in Nat \X Nat : ss[1] < ss[2]}
<1>1. IsWellFoundedOn(R, Nat)
  BY NatLessThanWellFounded DEF OpToRel
<1>2. \E x \in T : \A y \in T : ~(<<y, x>> \in R)
  <2> HIDE DEF R
  <2> QED BY <1>1, WFMin
<1>3. PICK x \in T : \A y \in T : ~(<<y, x>> \in R)
  BY <1>2
<1>4. ASSUME NEW y \in T PROVE x =< y
  <2>1. x \in Nat /\ y \in Nat /\ <<y, x>> \in Nat \X Nat
    BY <1>3
  <2>2. y < x => <<y, x>> \in R
    BY <2>1
  <2> QED BY <1>3, <2>1, <2>2
<1> QED BY <1>4 DEF Min

\* One command moves.
LEMMA CmdMoves ==
  ASSUME MigInv, NEW d \in Deployer, NEW c, cmd' = [cmd EXCEPT ![d] = c], UNCHANGED dialect,
         CmdInv(c, dialect), mixed' \in BOOLEAN,
         ~mixed' => /\ ReliesOn(c, table', schema', dialect)
                    /\ \A o \in Deployer : o # d =>
                         ReliesOn(cmd[o], table', schema', dialect) /\ Together(c, cmd[o], dialect)
                    /\ Exact(table', schema', cmd', halfDone', halfUndone', dialect),
         mixed => mixed'
  PROVE  MigInv'
<1>1. cmd'[d] = c /\ \A o \in Deployer : o # d => cmd'[o] = cmd[o]
  BY DEF MigInv
<1>2. cmd' = [o \in Deployer |-> cmd'[o]]
  BY DEF MigInv
<1>3. \A o \in Deployer : CmdInv(cmd'[o], dialect)
  BY <1>1 DEF MigInv
<1>4. ASSUME ~mixed', NEW e \in Deployer, NEW o \in Deployer, e # o
      PROVE  Together(cmd'[e], cmd'[o], dialect)
  <2>1. CASE e = d
    BY <2>1, <1>1, <1>4
  <2>2. CASE o = d
    <3>1. Together(c, cmd[e], dialect)
      BY <2>2, <1>4
    <3> QED BY <2>2, <3>1, <1>1, <1>4 DEF Together
  <2>3. CASE e # d /\ o # d
    BY <2>3, <1>1, <1>4 DEF MigInv
  <2> QED BY <2>1, <2>2, <2>3
<1>5. ~mixed' => \A o \in Deployer : ReliesOn(cmd'[o], table', schema', dialect)
  BY <1>1
<1> QED BY <1>2, <1>3, <1>4, <1>5 DEF MigInv

\* A command that is over holds nothing and relies on nothing.
LEMMA OverInv ==
  ASSUME NEW dl, NEW tb, NEW sc, NEW o
  PROVE  CmdInv(NoCmd, dl) /\ ReliesOn(NoCmd, tb, sc, dl) /\ Together(NoCmd, o, dl)
<1>1. /\ NoCmd.pc = "idle" /\ NoCmd.kind = "none" /\ NoCmd.todo = {} /\ NoCmd.up = {} /\ NoCmd.rows = {}
      /\ IsCmd(NoCmd)
  BY DEF NoCmd, IsCmd
<1>2. CmdInv(NoCmd, dl)
  BY <1>1 DEF CmdInv, Held, Names
<1>3. ReliesOn(NoCmd, tb, sc, dl) /\ Together(NoCmd, o, dl)
  BY <1>1 DEF ReliesOn, Together
<1> QED BY <1>2, <1>3

\* A step of a command that is not between two statements leaves the table and
\* the schema in agreement if it changes neither.
LEMMA StillExact ==
  ASSUME MigInv, ~mixed, NEW d \in Deployer, NEW c, cmd' = [cmd EXCEPT ![d] = c],
         cmd[d].pc # "forget", cmd[d].pc = "record" => dialect # "mysql"
  PROVE  Exact(table, schema, cmd', halfDone, halfUndone, dialect)
<1>1. \A o \in Deployer : o # d => cmd'[o] = cmd[o]
  BY DEF MigInv
<1>2. Exact(table, schema, cmd, halfDone, halfUndone, dialect)
  BY DEF MigInv
<1>3. \A o \in Deployer : cmd[o].pc = "forget" \/ (cmd[o].pc = "record" /\ dialect = "mysql")
                          => cmd'[o] = cmd[o]
  BY <1>1
<1> QED BY <1>2, <1>3 DEF Exact

\* Such a step by which a command begins, or goes on without touching what it holds.
LEMMA PlainMove ==
  ASSUME MigInv, NEW d \in Deployer, NEW c, cmd' = [cmd EXCEPT ![d] = c],
         UNCHANGED <<dialect, table, schema, halfDone, halfUndone>>,
         cmd[d].pc # "forget", cmd[d].pc = "record" => dialect # "mysql",
         CmdInv(c, dialect), mixed' \in BOOLEAN, mixed => mixed',
         ~mixed' => /\ ReliesOn(c, table, schema, dialect)
                    /\ \A o \in Deployer : o # d => Together(c, cmd[o], dialect)
  PROVE  MigInv'
<1>1. ~mixed' => ~mixed
  OBVIOUS
<1>2. ~mixed' => \A o \in Deployer : ReliesOn(cmd[o], table, schema, dialect)
  BY <1>1 DEF MigInv
<1>3. ~mixed' => Exact(table, schema, cmd', halfDone, halfUndone, dialect)
  BY <1>1, StillExact
<1>4. ~mixed' => /\ ReliesOn(c, table', schema', dialect)
                 /\ \A o \in Deployer : o # d =>
                      ReliesOn(cmd[o], table', schema', dialect) /\ Together(c, cmd[o], dialect)
                 /\ Exact(table', schema', cmd', halfDone', halfUndone', dialect)
  BY <1>2, <1>3
<1> QED BY <1>4, CmdMoves

LEMMA EndsPlainly ==
  ASSUME MigInv, NEW d \in Deployer, cmd' = [cmd EXCEPT ![d] = NoCmd],
         UNCHANGED <<dialect, table, schema, halfDone, halfUndone>>,
         cmd[d].pc # "forget", cmd[d].pc = "record" => dialect # "mysql", mixed' \in BOOLEAN, mixed => mixed'
  PROVE  MigInv'
<1>1. CmdInv(NoCmd, dialect) /\ ReliesOn(NoCmd, table, schema, dialect)
  BY OverInv
<1>2. \A o \in Deployer : Together(NoCmd, cmd[o], dialect)
  BY OverInv
<1> QED BY <1>1, <1>2, PlainMove

\* What Begin says of a command that starts: no rollback beside another.
LEMMA BeginApart ==
  ASSUME MigInv, NEW d \in Deployer, NEW kind \in {"migrate", "rollback"}, Begin(d, kind)
  PROVE  /\ mixed' \in BOOLEAN /\ (mixed => mixed') /\ cmd[d].pc = "idle"
         /\ UNCHANGED <<dialect, table, schema, halfDone, halfUndone>>
         /\ ~mixed' => \A o \in Deployer : o # d /\ cmd[o].pc # "idle" =>
                         kind = "migrate" /\ cmd[o].kind = "migrate"
<1>1. mixed' = (mixed \/ \E o \in Deployer \ {d} : cmd[o].pc # "idle" /\ "rollback" \in {kind, cmd[o].kind})
  BY DEF Begin
<1>2. mixed' \in BOOLEAN /\ (mixed => mixed')
  BY <1>1, Zenon
<1>3. ~mixed' => \A o \in Deployer \ {d} : cmd[o].pc # "idle" => "rollback" \notin {kind, cmd[o].kind}
  BY <1>1
<1>4. \A o \in Deployer : cmd[o].pc # "idle" => cmd[o].kind \in {"migrate", "rollback"}
  <2> SUFFICES ASSUME NEW o \in Deployer, cmd[o].pc # "idle" PROVE cmd[o].kind \in {"migrate", "rollback"}
    OBVIOUS
  <2>1. CmdInv(cmd[o], dialect)
    BY DEF MigInv
  <2> QED BY <2>1 DEF CmdInv, IsCmd
<1> QED BY <1>2, <1>3, <1>4 DEF Begin

LEMMA MigrateRead_Inv ==
  ASSUME MigInv, MigratorAssumption, NEW d \in Deployer, MigrateRead(d)
  PROVE  MigInv'
<1> DEFINE c == [NoCmd EXCEPT !.pc = "batch", !.kind = "migrate", !.todo = Pending(d), !.number = commands + 1]
<1>1. Begin(d, "migrate") /\ cmd' = [cmd EXCEPT ![d] = c]
  BY DEF MigrateRead
<1>2. Pending(d) \subseteq Migration /\ Pending(d) \cap Names(table) = {}
  BY DEF Pending, Ran, Names, MigratorAssumption
<1>3. /\ c.pc = "batch" /\ c.kind = "migrate" /\ c.todo = Pending(d) /\ c.up = {} /\ c.rows = {}
      /\ IsCmd(c)
  BY <1>2 DEF NoCmd, IsCmd
<1> HIDE DEF c
<1>4. CmdInv(c, dialect)
  BY <1>2, <1>3 DEF CmdInv, Held, Names
<1>5. ReliesOn(c, table, schema, dialect)
  BY <1>2, <1>3 DEF ReliesOn, Held, Names
<1>6. /\ mixed' \in BOOLEAN /\ (mixed => mixed') /\ cmd[d].pc = "idle"
      /\ UNCHANGED <<dialect, table, schema, halfDone, halfUndone>>
      /\ ~mixed' => \A o \in Deployer : o # d /\ cmd[o].pc # "idle" => cmd[o].kind = "migrate"
  BY <1>1, BeginApart
<1>7. ~mixed' => \A o \in Deployer : o # d => Together(c, cmd[o], dialect)
  BY <1>3, <1>6 DEF Together
<1> QED BY <1>1, <1>4, <1>5, <1>6, <1>7, PlainMove

LEMMA RollbackRead_Inv ==
  ASSUME MigInv, NEW d \in Deployer, RollbackRead(d)
  PROVE  MigInv'
<1> DEFINE c == [NoCmd EXCEPT !.pc = "names", !.kind = "rollback", !.batch = LastBatch]
<1>1. Begin(d, "rollback") /\ cmd' = [cmd EXCEPT ![d] = IF LastBatch = 0 THEN NoCmd ELSE c]
  BY DEF RollbackRead
<1>2. /\ c.pc = "names" /\ c.kind = "rollback" /\ c.up = {} /\ c.rows = {} /\ IsCmd(c)
  BY DEF NoCmd, IsCmd
<1> HIDE DEF c
<1>3. /\ mixed' \in BOOLEAN /\ (mixed => mixed') /\ cmd[d].pc = "idle"
      /\ UNCHANGED <<dialect, table, schema, halfDone, halfUndone>>
      /\ ~mixed' => \A o \in Deployer : o # d => cmd[o].pc = "idle"
  BY <1>1, BeginApart
<1>4. CASE LastBatch = 0
  BY <1>1, <1>3, <1>4, EndsPlainly
<1>5. CASE LastBatch # 0
  <2>1. CmdInv(c, dialect)
    BY <1>2 DEF CmdInv, Held, Names
  <2>2. ReliesOn(c, table, schema, dialect)
    BY <1>2 DEF ReliesOn
  <2>3. ~mixed' => \A o \in Deployer : o # d => Together(c, cmd[o], dialect)
    BY <1>2, <1>3 DEF Together
  <2> QED BY <1>1, <1>3, <1>5, <2>1, <2>2, <2>3, PlainMove
<1> QED BY <1>4, <1>5

\* The facts about the command that moves which every step starts from.
LEMMA Mover ==
  ASSUME MigInv, NEW d \in Deployer
  PROVE  /\ CmdInv(cmd[d], dialect) /\ IsCmd(cmd[d])
         /\ ~mixed => /\ ReliesOn(cmd[d], table, schema, dialect)
                      /\ \A o \in Deployer : o # d => Together(cmd[d], cmd[o], dialect)
BY DEF MigInv, CmdInv

\* A migrate with something left to do is at one of its migrations.
LEMMA AtIn ==
  ASSUME MigratorAssumption, NEW c, NEW dl, CmdInv(c, dl), c.pc \in {"up", "record"}
  PROVE  At(c) \in c.todo /\ c.kind = "migrate"
<1>1. c.kind = "migrate" /\ c.todo # {} /\ c.todo \subseteq Nat
  BY DEF CmdInv, MigratorAssumption
<1> QED BY <1>1, MinIn DEF At

LEMMA NextBatch_Inv == ASSUME MigInv, NEW d \in Deployer, NextBatch(d) PROVE MigInv'
<1>0. /\ cmd[d].pc = "batch" /\ UNCHANGED <<dialect, table, schema, halfDone, halfUndone, mixed>>
      /\ mixed \in BOOLEAN
  BY DEF NextBatch, Quiet, MigInv
<1>1. CASE cmd[d].todo = {}
  <2>1. cmd' = [cmd EXCEPT ![d] = NoCmd]
    BY <1>1 DEF NextBatch
  <2> QED BY <1>0, <2>1, EndsPlainly
<1>2. CASE cmd[d].todo # {}
  <2>1. PICK last : cmd' = [cmd EXCEPT ![d] = [cmd[d] EXCEPT !.pc = "up", !.batch = last + 1]]
    BY <1>2 DEF NextBatch
  <2> DEFINE c == [cmd[d] EXCEPT !.pc = "up", !.batch = last + 1]
  <2>2. CmdInv(cmd[d], dialect) /\ IsCmd(cmd[d])
    BY Mover
  <2>3. /\ c.pc = "up" /\ c.kind = cmd[d].kind /\ c.todo = cmd[d].todo /\ c.up = cmd[d].up
        /\ c.rows = cmd[d].rows /\ IsCmd(c)
    BY <2>2 DEF IsCmd
  <2>4. cmd' = [cmd EXCEPT ![d] = c]
    BY <2>1
  <2> HIDE DEF c
  <2>5. CmdInv(c, dialect)
    BY <1>0, <1>2, <2>2, <2>3 DEF CmdInv, Held, Names
  <2>6. ~mixed' => ReliesOn(c, table, schema, dialect)
    BY <1>0, <2>3, Mover DEF ReliesOn, Held
  <2>7. ~mixed' => \A o \in Deployer : o # d => Together(c, cmd[o], dialect)
    BY <1>0, <2>3, Mover DEF Together
  <2> QED BY <1>0, <2>4, <2>5, <2>6, <2>7, PlainMove
<1> QED BY <1>1, <1>2

LEMMA UpConflict_Inv == ASSUME MigInv, NEW d \in Deployer, UpConflict(d) PROVE MigInv'
<1>1. /\ cmd[d].pc = "up" /\ UNCHANGED <<dialect, table, schema, halfDone, halfUndone, mixed>>
      /\ mixed \in BOOLEAN /\ cmd' = [cmd EXCEPT ![d] = NoCmd]
  BY DEF UpConflict, Quiet, MigInv
<1> QED BY <1>1, EndsPlainly

\* The statements of a migration: nobody else holds it, and it is neither applied
\* nor recorded, or it can be run again.
LEMMA Up_Inv ==
  ASSUME MigInv, MigratorAssumption, NEW d \in Deployer, Up(d)
  PROVE  MigInv'
<1> DEFINE m == At(cmd[d])
<1>0. /\ cmd[d].pc = "up" /\ (m \in schema => m \in UpRepeats) /\ UNCHANGED <<dialect, table, halfDone, halfUndone, mixed>>
      /\ mixed \in BOOLEAN /\ dialect \in {"postgres", "mysql"}
      /\ \A o \in Deployer : o # d => m \notin cmd[o].up
  BY DEF Up, Quiet, MigInv, Blocked
<1>1. CmdInv(cmd[d], dialect) /\ IsCmd(cmd[d])
  BY Mover
<1>2. m \in cmd[d].todo /\ cmd[d].kind = "migrate"
  BY <1>0, <1>1, AtIn
<1>3. ~mixed => (m \in Names(table) => m \in schema)
  BY <1>0, <1>2, Mover DEF ReliesOn
<1>4. CASE dialect = "postgres"
  <2> DEFINE c == [cmd[d] EXCEPT !.pc = "record", !.up = @ \cup ({m} \ schema)]
  <2>1. cmd' = [cmd EXCEPT ![d] = c] /\ UNCHANGED schema
    BY <1>4 DEF Up
  <2>2. /\ c.pc = "record" /\ c.kind = cmd[d].kind /\ c.todo = cmd[d].todo /\ c.up = cmd[d].up \cup ({m} \ schema)
        /\ c.rows = cmd[d].rows /\ c.batch = cmd[d].batch /\ c.number = cmd[d].number /\ IsCmd(c)
    BY <1>1 DEF IsCmd
  <2> HIDE DEF c
  <2>3. At(c) = m
    BY <2>2 DEF At
  <2> HIDE DEF m
  <2>4. CmdInv(c, dialect)
    <3>1. /\ cmd[d].up \subseteq Names(cmd[d].rows) /\ Names(cmd[d].rows) \ UpRepeats \subseteq cmd[d].up
          /\ Held(c) = Names(cmd[d].rows) \cup {m}
      BY <1>0, <1>1, <1>4, <2>2, <2>3 DEF CmdInv, Held
    <3>2. \A row \in c.rows : row = RowOf(c, row.name)
      BY <1>1, <2>2 DEF CmdInv, RowOf
    <3> QED BY <1>0, <1>1, <1>2, <1>4, <2>2, <2>3, <3>1, <3>2 DEF CmdInv
  <2>5. ~mixed' => ReliesOn(c, table, schema, dialect)
    <3>1. Held(cmd[d]) = Names(cmd[d].rows) /\ Held(c) = Names(cmd[d].rows) \cup {m}
      BY <1>0, <2>2, <2>3 DEF Held
    <3> QED BY <1>0, <1>3, <1>4, <2>2, <3>1, Mover DEF ReliesOn
  <2>6. ~mixed' => \A o \in Deployer : o # d => Together(c, cmd[o], dialect)
    BY <1>0, <1>2, <1>4, <2>2, Mover DEF Together
  <2> QED BY <1>0, <2>1, <2>4, <2>5, <2>6, PlainMove
<1>5. CASE dialect = "mysql"
  <2> DEFINE c == [cmd[d] EXCEPT !.pc = "record"]
  <2>1. cmd' = [cmd EXCEPT ![d] = c] /\ schema' = schema \cup {m}
    BY <1>5 DEF Up
  <2>2. /\ c.pc = "record" /\ c.kind = cmd[d].kind /\ c.todo = cmd[d].todo /\ c.up = cmd[d].up
        /\ c.rows = cmd[d].rows /\ c.batch = cmd[d].batch /\ c.number = cmd[d].number /\ IsCmd(c)
    BY <1>1 DEF IsCmd
  <2> HIDE DEF c
  <2>3. At(c) = m
    BY <2>2 DEF At
  <2> HIDE DEF m
  <2>4. CmdInv(c, dialect)
    BY <1>0, <1>1, <1>2, <1>5, <2>2 DEF CmdInv
  <2>5. cmd'[d] = c /\ \A o \in Deployer : o # d => cmd'[o] = cmd[o]
    BY <2>1 DEF MigInv
  <2>6. ASSUME ~mixed, NEW o \in Deployer, o # d
        PROVE  ReliesOn(cmd[o], table, schema', dialect) /\ Together(c, cmd[o], dialect)
    <3>1. /\ CmdInv(cmd[o], dialect) /\ ReliesOn(cmd[o], table, schema, dialect)
          /\ Together(cmd[d], cmd[o], dialect)
      BY <2>6, Mover
    <3>2. cmd[o].up = {} /\ cmd[o].pc # "forget"
      BY <1>0, <1>5, <3>1 DEF CmdInv, Together
    <3>3. ReliesOn(cmd[o], table, schema', dialect)
      BY <2>1, <3>1, <3>2 DEF ReliesOn
    <3>4. cmd[o].pc = "record" => At(cmd[o]) \in schema
      <4> SUFFICES ASSUME cmd[o].pc = "record" PROVE At(cmd[o]) \in schema
        OBVIOUS
      <4>1. cmd[o].kind = "migrate" /\ At(cmd[o]) \in Held(cmd[o])
        BY <3>1 DEF CmdInv, Held
      <4> QED BY <3>1, <3>2, <4>1 DEF ReliesOn
    <3>5. Together(c, cmd[o], dialect)
      BY <1>0, <1>2, <1>5, <2>2, <2>3, <3>1, <3>2, <3>4 DEF Together
    <3> QED BY <3>3, <3>5
  <2>7. ~mixed => ReliesOn(c, table, schema', dialect)
    <3>1. c.up = {}
      BY <1>1, <1>5, <2>2 DEF CmdInv
    <3>2. Held(cmd[d]) = Names(cmd[d].rows) /\ Held(c) = Names(cmd[d].rows) \cup {m}
      BY <1>0, <2>2, <2>3 DEF Held
    <3> SUFFICES ASSUME ~mixed PROVE ReliesOn(c, table, schema', dialect)
      OBVIOUS
    <3>3. ReliesOn(cmd[d], table, schema, dialect)
      BY Mover
    <3>4. c.todo \cap Names(table) \subseteq schema' /\ Held(c) \subseteq c.up \cup schema'
      BY <1>2, <2>1, <2>2, <3>2, <3>3 DEF ReliesOn
    <3>5. At(c) \notin Names(table) \ UpRepeats
      BY <1>0, <1>3, <2>3
    <3> QED BY <2>2, <3>1, <3>4, <3>5 DEF ReliesOn
  <2>8. ~mixed => Exact(table, schema', cmd', halfDone, halfUndone, dialect)
    <3>1. ~mixed => Exact(table, schema, cmd', halfDone, halfUndone, dialect)
      BY <1>0, <2>1, StillExact
    <3> QED BY <1>5, <2>1, <2>2, <2>3, <2>5, <3>1 DEF Exact
  <2>9. ~mixed' => /\ ReliesOn(c, table', schema', dialect)
                   /\ \A o \in Deployer : o # d =>
                        ReliesOn(cmd[o], table', schema', dialect) /\ Together(c, cmd[o], dialect)
                   /\ Exact(table', schema', cmd', halfDone', halfUndone', dialect)
    BY <1>0, <2>6, <2>7, <2>8
  <2> QED BY <1>0, <2>1, <2>4, <2>9, CmdMoves
<1> QED BY <1>0, <1>4, <1>5

\* The row of a migration, in the transaction or, on MySQL, in the table.
LEMMA Record_Inv ==
  ASSUME MigInv, MigratorAssumption, NEW d \in Deployer, Record(d)
  PROVE  MigInv'
<1> DEFINE m == At(cmd[d])
           row == RowOf(cmd[d], m)
           a == AfterRecord(cmd[d])
<1>0. /\ cmd[d].pc = "record" /\ UNCHANGED <<dialect, schema, halfUndone, mixed>>
      /\ mixed \in BOOLEAN /\ dialect \in {"postgres", "mysql"} /\ Recorded(d) = row
  BY DEF Record, MigInv, Recorded, RowOf
<1>1. CmdInv(cmd[d], dialect) /\ IsCmd(cmd[d])
  BY Mover
<1>2. m \in cmd[d].todo /\ cmd[d].kind = "migrate" /\ cmd[d].todo \subseteq Migration
  BY <1>0, <1>1, AtIn DEF CmdInv
<1>3. /\ a.kind = "migrate" /\ a.todo = cmd[d].todo \ {m} /\ a.pc = IF cmd[d].todo = {m} THEN "commit" ELSE "up"
      /\ a.up = cmd[d].up /\ a.rows = cmd[d].rows /\ a.batch = cmd[d].batch /\ a.number = cmd[d].number
      /\ IsCmd(a)
  BY <1>1, <1>2 DEF IsCmd, AfterRecord
<1>4. a.pc \in {"up", "commit"} /\ (a.pc = "up" => a.todo # {}) /\ a.todo \subseteq Migration
      /\ a.todo \subseteq cmd[d].todo
  BY <1>2, <1>3
<1>5. row.name = m
  BY DEF RowOf
<1>6. CASE dialect = "postgres"
  <2> DEFINE c == [a EXCEPT !.rows = cmd[d].rows \cup {row}]
  <2>1. cmd' = [cmd EXCEPT ![d] = c] /\ UNCHANGED <<table, halfDone>>
    BY <1>0, <1>6 DEF Record
  <2> HIDE DEF a
  <2>2. /\ c.pc = a.pc /\ c.kind = a.kind /\ c.todo = a.todo /\ c.up = a.up /\ c.rows = cmd[d].rows \cup {row}
        /\ c.batch = cmd[d].batch /\ c.number = cmd[d].number /\ IsCmd(c)
    BY <1>3 DEF IsCmd
  <2> HIDE DEF c
  <2>8. Held(c) = Held(cmd[d])
    <3>1. Held(cmd[d]) = Names(cmd[d].rows) \cup {m} /\ Held(c) = Names(c.rows)
      BY <1>0, <1>4, <2>2 DEF Held
    <3>2. Names(c.rows) = Names(cmd[d].rows) \cup {m}
      BY <2>2, <1>5 DEF Names
    <3> QED BY <3>1, <3>2
  <2>3. CmdInv(c, dialect)
    <3>1. c.up \subseteq Held(c) /\ Held(c) \ UpRepeats \subseteq c.up
      BY <1>1, <1>3, <1>6, <2>2, <2>8 DEF CmdInv
    <3>2. \A r \in c.rows : r = RowOf(c, r.name)
      <4>1. \A r \in cmd[d].rows : r = RowOf(cmd[d], r.name)
        BY <1>1 DEF CmdInv
      <4>2. \A x : RowOf(c, x) = RowOf(cmd[d], x)
        BY <2>2 DEF RowOf
      <4> QED BY <4>1, <4>2, <1>5, <2>2
    <3>3. c.pc \in {"up", "commit"} /\ c.kind = "migrate" /\ c.todo \subseteq Migration
          /\ (c.pc = "up" => c.todo # {})
      BY <1>3, <1>4, <2>2
    <3> QED BY <1>6, <2>2, <3>1, <3>2, <3>3 DEF CmdInv
  <2>4. ~mixed' => ReliesOn(c, table, schema, dialect)
    <3>1. c.up = cmd[d].up /\ c.todo \subseteq cmd[d].todo /\ c.pc \in {"up", "commit"}
      BY <1>3, <1>4, <2>2
    <3> QED BY <1>0, <1>2, <1>6, <2>8, <3>1, Mover DEF ReliesOn
  <2>5. ~mixed' => \A o \in Deployer : o # d => Together(c, cmd[o], dialect)
    BY <1>0, <1>2, <1>3, <1>6, <2>2, Mover DEF Together
  <2> QED BY <1>0, <1>6, <2>1, <2>3, <2>4, <2>5, PlainMove
<1>7. CASE dialect = "mysql"
  <2>1. cmd' = [cmd EXCEPT ![d] = a] /\ table' = table \cup {row} /\ halfDone' = halfDone \ {m}
    BY <1>0, <1>7 DEF Record, Insert
  <2> HIDE DEF a
  <2>2. CmdInv(a, dialect)
    BY <1>1, <1>3, <1>4, <1>7 DEF CmdInv
  <2>3. Names(table') = Names(table) \cup {m}
    <3> HIDE DEF m, row
    <3> QED BY <2>1, <1>5 DEF Names
  <2>4. ~mixed => m \in schema /\ m \notin Names(table) \ UpRepeats
    <3>1. cmd[d].up = {} /\ m \in Held(cmd[d])
      BY <1>0, <1>1, <1>7 DEF CmdInv, Held
    <3> QED BY <1>0, <1>2, <1>7, <3>1, Mover DEF ReliesOn
  <2>5. cmd'[d] = a /\ \A o \in Deployer : o # d => cmd'[o] = cmd[o]
    BY <2>1 DEF MigInv
  <2> HIDE DEF m, row
  <2>6. ~mixed => ReliesOn(a, table', schema, dialect)
    <3>1. a.up = {}
      BY <1>1, <1>3, <1>7 DEF CmdInv
    <3>2. a.kind = "migrate" /\ a.pc \in {"up", "commit"} /\ a.todo \subseteq cmd[d].todo
      BY <1>3, <1>4
    <3>3. Held(a) = {}
      <4>1. a.rows = {}
        BY <1>1, <1>3, <1>7 DEF CmdInv
      <4> QED BY <3>2, <4>1 DEF Held, Names
    <3> QED BY <1>2, <2>3, <2>4, <3>1, <3>2, <3>3, Mover DEF ReliesOn
  <2>7. ASSUME ~mixed, NEW o \in Deployer, o # d
        PROVE  ReliesOn(cmd[o], table', schema, dialect) /\ Together(a, cmd[o], dialect)
    <3>1. /\ CmdInv(cmd[o], dialect) /\ ReliesOn(cmd[o], table, schema, dialect)
          /\ Together(cmd[d], cmd[o], dialect)
      BY <2>7, Mover
    <3>2. cmd[o].up = {} /\ (cmd[o].pc = "record" => At(cmd[o]) # m \/ m \in UpRepeats)
      BY <1>0, <1>7, <3>1 DEF CmdInv, Together, m
    <3>3. ReliesOn(cmd[o], table', schema, dialect)
      BY <2>3, <2>4, <2>7, <3>1, <3>2 DEF ReliesOn
    <3>4. Together(a, cmd[o], dialect)
      BY <1>0, <1>2, <1>3, <1>4, <3>1, <3>2 DEF Together
    <3> QED BY <3>3, <3>4
  <2>8. ~mixed => Exact(table', schema, cmd', halfDone', halfUndone, dialect)
    <3> SUFFICES ASSUME ~mixed PROVE Exact(table', schema, cmd', halfDone', halfUndone, dialect)
      OBVIOUS
    <3>1. Exact(table, schema, cmd, halfDone, halfUndone, dialect)
      BY DEF MigInv
    <3>2. ASSUME NEW x \in schema
          PROVE  \/ x \in Names(table')
                 \/ x \in halfDone' \/ \E o \in Deployer : cmd'[o].pc = "record" /\ At(cmd'[o]) = x
      <4>1. CASE x = m
        BY <4>1, <2>3
      <4>2. CASE x # m
        BY <4>2, <2>1, <2>3, <2>5, <3>1 DEF Exact, m
      <4> QED BY <4>1, <4>2
    <3>3. ASSUME NEW x \in Names(table')
          PROVE  \/ x \in schema \/ x \in halfUndone
                 \/ \E o \in Deployer : cmd'[o].pc = "forget" /\ At(cmd'[o]) = x
      BY <1>0, <2>3, <2>4, <2>5, <3>1 DEF Exact
    <3>4. ASSUME NEW r1 \in table', NEW r2 \in table', r1.name = r2.name, r1.name \notin UpRepeats PROVE r1 = r2
      BY <2>1, <2>4, <1>5, <3>1, <3>4 DEF Exact, Names
    <3> QED BY <1>7, <3>2, <3>3, <3>4 DEF Exact
  <2>9. ~mixed' => /\ ReliesOn(a, table', schema', dialect)
                   /\ \A o \in Deployer : o # d =>
                        ReliesOn(cmd[o], table', schema', dialect) /\ Together(a, cmd[o], dialect)
                   /\ Exact(table', schema', cmd', halfDone', halfUndone', dialect)
    BY <1>0, <2>6, <2>7, <2>8
  <2> QED BY <1>0, <2>1, <2>2, <2>9, CmdMoves
<1> QED BY <1>0, <1>6, <1>7

\* COMMIT: what the transaction ran and what it recorded show together.
LEMMA CommitBatch_Inv == ASSUME MigInv, NEW d \in Deployer, CommitBatch(d) PROVE MigInv'
<1>0. /\ cmd[d].pc = "commit" /\ UNCHANGED <<dialect, halfDone, halfUndone, mixed>> /\ mixed \in BOOLEAN
      /\ table' = table \cup cmd[d].rows /\ schema' = schema \cup cmd[d].up
      /\ cmd' = [cmd EXCEPT ![d] = NoCmd] /\ dialect \in {"postgres", "mysql"}
  BY DEF CommitBatch, Quiet, MigInv
<1>1. CmdInv(cmd[d], dialect)
  BY Mover
<1> DEFINE rows == Names(cmd[d].rows)
<1>2. /\ cmd[d].kind = "migrate" /\ cmd[d].up \subseteq rows /\ rows \ UpRepeats \subseteq cmd[d].up
      /\ ~mixed => rows \subseteq schema'
  <2>1. Held(cmd[d]) = rows
    BY <1>0 DEF Held
  <2>2. /\ cmd[d].kind = "migrate" /\ cmd[d].up \subseteq rows /\ rows \ UpRepeats \subseteq cmd[d].up
    BY <1>0, <1>1, <2>1 DEF CmdInv, Names
  <2>3. ~mixed => rows \subseteq cmd[d].up \cup schema
    BY <2>1, <2>2, Mover DEF ReliesOn
  <2> QED BY <1>0, <2>2, <2>3
<1>3. Names(table') = Names(table) \cup rows
  BY <1>0 DEF Names
<1> HIDE DEF rows
<1>4. \A o \in Deployer : o # d => cmd'[o] = cmd[o]
  BY <1>0 DEF MigInv
<1>5. ASSUME ~mixed, NEW o \in Deployer, o # d PROVE ReliesOn(cmd[o], table', schema', dialect)
  <2>1. ReliesOn(cmd[o], table, schema, dialect) /\ Together(cmd[d], cmd[o], dialect) /\ CmdInv(cmd[o], dialect)
    BY <1>5, Mover
  <2>2. cmd[o].up \cap cmd[d].up = {} /\ cmd[o].pc # "forget"
    BY <1>0, <2>1 DEF Together, CmdInv
  <2>3. dialect = "mysql" => rows = {}
    BY <1>1 DEF CmdInv, rows, Names
  <2>4. rows \subseteq cmd[d].up \cup schema
    <3>1. Held(cmd[d]) = rows
      BY <1>0 DEF Held, rows
    <3> QED BY <1>2, <1>5, <3>1, Mover DEF ReliesOn
  <2> QED BY <1>0, <1>2, <1>3, <1>5, <2>1, <2>2, <2>3, <2>4 DEF ReliesOn
<1>6. ASSUME ~mixed PROVE Exact(table', schema', cmd', halfDone, halfUndone, dialect)
  <2>1. Exact(table, schema, cmd, halfDone, halfUndone, dialect) /\ cmd[d].up \cap Names(table) = {}
    BY <1>6, Mover DEF MigInv, ReliesOn
  <2>2. \A o \in Deployer : cmd[o].pc \in {"record", "forget"} => cmd'[o] = cmd[o]
    BY <1>0, <1>4
  <2>3. ASSUME NEW x \in schema'
        PROVE  \/ x \in Names(table')
               \/ dialect = "mysql" /\ (x \in halfDone \/ \E o \in Deployer : cmd'[o].pc = "record" /\ At(cmd'[o]) = x)
    BY <1>0, <1>2, <1>3, <2>1, <2>2 DEF Exact
  <2>4. ASSUME NEW x \in Names(table')
        PROVE  x \in schema' \/ x \in halfUndone \/ \E o \in Deployer : cmd'[o].pc = "forget" /\ At(cmd'[o]) = x
    BY <1>0, <1>2, <1>3, <1>6, <2>1, <2>2 DEF Exact
  <2>5. ASSUME NEW r1 \in table', NEW r2 \in table', r1.name = r2.name, r1.name \notin UpRepeats
        PROVE  r1 = r2
    <3>1. CASE r1 \in table /\ r2 \in table
      BY <3>1, <2>1, <2>5 DEF Exact
    <3>2. CASE r1 \in cmd[d].rows /\ r2 \in cmd[d].rows
      <4>1. r1 = RowOf(cmd[d], r1.name) /\ r2 = RowOf(cmd[d], r2.name)
        BY <3>2, <1>1 DEF CmdInv
      <4> QED BY <4>1, <2>5
    <3>3. CASE \/ r1 \in table /\ r2 \in cmd[d].rows
               \/ r2 \in table /\ r1 \in cmd[d].rows
      <4>1. r1.name \in Names(table) /\ r1.name \in rows
        BY <3>3, <2>5 DEF Names, rows
      <4> QED BY <4>1, <2>1, <2>5, <1>2
    <3> QED BY <1>0, <3>1, <3>2, <3>3
  <2> QED BY <2>3, <2>4, <2>5 DEF Exact
<1>7. \A o \in Deployer :
        CmdInv(NoCmd, dialect) /\ ReliesOn(NoCmd, table', schema', dialect) /\ Together(NoCmd, cmd[o], dialect)
  BY OverInv
<1>8. ~mixed' => /\ ReliesOn(NoCmd, table', schema', dialect)
                 /\ \A o \in Deployer : o # d =>
                      ReliesOn(cmd[o], table', schema', dialect) /\ Together(NoCmd, cmd[o], dialect)
                 /\ Exact(table', schema', cmd', halfDone', halfUndone', dialect)
  BY <1>0, <1>5, <1>6, <1>7
<1> QED BY <1>0, <1>7, <1>8, CmdMoves

\* A rollback has the table to itself unless the commands are mixed.
LEMMA Alone ==
  ASSUME MigInv, ~mixed, NEW d \in Deployer, cmd[d].kind = "rollback", NEW o \in Deployer, o # d
  PROVE  cmd[o].pc = "idle" /\ cmd[o].kind = "none" /\ ReliesOn(cmd[o], table, schema, dialect)
<1>1. CmdInv(cmd[d], dialect) /\ CmdInv(cmd[o], dialect) /\ Together(cmd[d], cmd[o], dialect)
  BY Mover
<1>2. cmd[d].pc # "idle"
  BY <1>1 DEF CmdInv
<1> QED BY <1>1, <1>2, Mover DEF Together, CmdInv

\* A rollback goes on to another name with what it holds, which is nothing new.
LEMMA RollbackGoesOn ==
  ASSUME NEW c, NEW e, NEW dl, CmdInv(c, dl), IsCmd(e), c.kind = "rollback", e.kind = "rollback",
         e.pc \in {"names", "down", "forget"}, c.pc # "record", e.up = c.up, e.rows = c.rows,
         e.batch = c.batch, e.number = c.number
  PROVE  CmdInv(e, dl)
<1>1. \A r \in e.rows : r = RowOf(e, r.name)
  BY DEF CmdInv, RowOf
<1>2. dl = "mysql" => e.up = {} /\ e.rows = {}
  BY DEF CmdInv
<1>3. dl = "postgres" => e.up \subseteq Held(e) /\ Held(e) \ UpRepeats \subseteq e.up
  BY DEF CmdInv, Held
<1> QED BY <1>1, <1>2, <1>3 DEF CmdInv

LEMMA BatchNames_Inv == ASSUME MigInv, NEW d \in Deployer, BatchNames(d) PROVE MigInv'
<1> DEFINE names == {row.name : row \in {r \in table : r.batch = cmd[d].batch}}
           c == [cmd[d] EXCEPT !.pc = "down", !.todo = names]
<1>0. /\ cmd[d].pc = "names" /\ UNCHANGED <<dialect, table, schema, halfDone, halfUndone, mixed>>
      /\ mixed \in BOOLEAN /\ cmd' = [cmd EXCEPT ![d] = IF names = {} THEN NoCmd ELSE c]
  BY DEF BatchNames, Quiet, MigInv
<1>1. CmdInv(cmd[d], dialect) /\ IsCmd(cmd[d]) /\ cmd[d].kind = "rollback"
  BY <1>0, Mover DEF CmdInv, IsCmd
<1>2. /\ c.pc = "down" /\ c.kind = "rollback" /\ c.up = cmd[d].up /\ c.rows = cmd[d].rows
      /\ c.batch = cmd[d].batch /\ c.number = cmd[d].number /\ IsCmd(c)
  BY <1>1 DEF IsCmd
<1> HIDE DEF names, c
<1>3. CASE names = {}
  BY <1>0, <1>3, EndsPlainly
<1>4. CASE names # {}
  <2>1. CmdInv(c, dialect)
    BY <1>0, <1>1, <1>2, RollbackGoesOn
  <2>2. ~mixed' => ReliesOn(c, table, schema, dialect)
    BY <1>0, <1>2, Mover DEF ReliesOn
  <2>3. ~mixed' => \A o \in Deployer : o # d => Together(c, cmd[o], dialect)
    BY <1>0, <1>1, <1>2, Mover DEF Together
  <2> QED BY <1>0, <1>4, <2>1, <2>2, <2>3, PlainMove
<1> QED BY <1>3, <1>4

\* On to the next name: the command is over, or back at "down".
LEMMA NextNameInv ==
  ASSUME NEW c, NEW dl, NEW tb, NEW sc, NEW tc, NEW o, CmdInv(c, dl), c.kind = "rollback", c.pc # "record",
         NEW ok, ok => ReliesOn(c, tb, sc, dl) /\ Together(c, o, dl) /\ Names(tc) \subseteq Names(tb)
  PROVE  LET e == NextName(c) IN
         CmdInv(e, dl) /\ (ok => ReliesOn(e, tc, sc, dl) /\ Together(e, o, dl))
<1>1. CASE c.todo = {At(c)}
  BY <1>1, OverInv DEF NextName
<1>2. CASE c.todo # {At(c)}
  <2> DEFINE e == [c EXCEPT !.todo = @ \ {At(c)}, !.pc = "down"]
  <2>1. NextName(c) = e
    BY <1>2 DEF NextName
  <2>2. IsCmd(c) /\ c.pc # "idle"
    BY DEF CmdInv
  <2>3. /\ e.pc = "down" /\ e.kind = "rollback" /\ e.up = c.up /\ e.rows = c.rows
        /\ e.batch = c.batch /\ e.number = c.number /\ IsCmd(e)
    BY <2>2 DEF IsCmd
  <2> HIDE DEF e
  <2>4. CmdInv(e, dl)
    BY <2>3, RollbackGoesOn
  <2>5. ok => ReliesOn(e, tc, sc, dl)
    BY <2>3 DEF ReliesOn
  <2>6. ok => Together(e, o, dl)
    BY <2>2, <2>3 DEF Together
  <2> QED BY <2>1, <2>4, <2>5, <2>6
<1> QED BY <1>1, <1>2

\* Down: what is undone stays recorded until it is forgotten.
LEMMA Down_Inv == ASSUME MigInv, NEW d \in Deployer, Down(d) PROVE MigInv'
<1> DEFINE m == At(cmd[d])
<1>0. /\ cmd[d].pc = "down" /\ UNCHANGED <<dialect, table, halfDone, halfUndone, mixed>> /\ mixed \in BOOLEAN
  BY DEF Down, Quiet, MigInv
<1>1. CmdInv(cmd[d], dialect) /\ IsCmd(cmd[d]) /\ cmd[d].kind = "rollback"
  BY <1>0, Mover DEF CmdInv, IsCmd
<1>2. CASE m \notin Known[d] /\ cmd' = [cmd EXCEPT ![d] = NextName(@)] /\ UNCHANGED schema
  <2> DEFINE e == NextName(cmd[d])
  <2>1. ASSUME NEW o \in Deployer
        PROVE  /\ CmdInv(e, dialect)
               /\ (~mixed /\ o # d => ReliesOn(e, table, schema, dialect) /\ Together(e, cmd[o], dialect))
    <3>1. ~mixed /\ o # d => ReliesOn(cmd[d], table, schema, dialect) /\ Together(cmd[d], cmd[o], dialect)
      BY <2>1, Mover
    <3> QED BY <1>0, <1>1, <3>1, NextNameInv
  <2>2. CmdInv(e, dialect) /\ (~mixed => ReliesOn(e, table, schema, dialect))
    <3>1. ~mixed => ReliesOn(cmd[d], table, schema, dialect) /\ Together(cmd[d], NoCmd, dialect)
      <4>1. Together(NoCmd, cmd[d], dialect)
        BY OverInv
      <4> QED BY <4>1, Mover DEF Together
    <3> QED BY <1>0, <1>1, <3>1, NextNameInv
  <2>3. cmd' = [cmd EXCEPT ![d] = e]
    BY <1>2
  <2> HIDE DEF e
  <2> QED BY <1>0, <1>2, <2>1, <2>2, <2>3, PlainMove
<1>3. CASE m \in Known[d] \ (schema \cup DownRepeats) /\ cmd' = [cmd EXCEPT ![d] = NoCmd] /\ UNCHANGED schema
  BY <1>0, <1>3, EndsPlainly
<1>4. CASE m \in Known[d] \cap (schema \cup DownRepeats) /\ cmd' = [cmd EXCEPT ![d].pc = "forget"] /\ schema' = schema \ {m}
  <2> DEFINE c == [cmd[d] EXCEPT !.pc = "forget"]
  <2>1. cmd' = [cmd EXCEPT ![d] = c] /\ schema' = schema \ {m}
    BY <1>4
  <2>2. /\ c.pc = "forget" /\ c.kind = "rollback" /\ c.todo = cmd[d].todo /\ c.up = cmd[d].up
        /\ c.rows = cmd[d].rows /\ c.batch = cmd[d].batch /\ c.number = cmd[d].number /\ IsCmd(c)
    BY <1>1 DEF IsCmd
  <2> HIDE DEF c
  <2>3. At(c) = m
    BY <1>1, <2>2 DEF At
  <2> HIDE DEF m
  <2>4. CmdInv(c, dialect)
    BY <1>0, <1>1, <2>2, RollbackGoesOn
  <2>5. cmd'[d] = c /\ \A o \in Deployer : o # d => cmd'[o] = cmd[o]
    BY <2>1 DEF MigInv
  <2>6. ~mixed => ReliesOn(c, table, schema', dialect)
    BY <2>1, <2>2, <2>3, Mover DEF ReliesOn
  <2>7. ASSUME ~mixed, NEW o \in Deployer, o # d
        PROVE  ReliesOn(cmd[o], table, schema', dialect) /\ Together(c, cmd[o], dialect)
    <3>1. cmd[o].pc = "idle" /\ cmd[o].kind = "none" /\ ReliesOn(cmd[o], table, schema, dialect)
      BY <1>1, <2>7, Alone
    <3>2. Together(cmd[d], cmd[o], dialect)
      BY <2>7, Mover
    <3> QED BY <2>1, <2>2, <3>1, <3>2 DEF ReliesOn, Together
  <2>8. ~mixed => Exact(table, schema', cmd', halfDone, halfUndone, dialect)
    <3>1. ~mixed => Exact(table, schema, cmd', halfDone, halfUndone, dialect)
      BY <1>0, <2>1, StillExact
    <3> QED BY <2>1, <2>2, <2>3, <2>5, <3>1 DEF Exact
  <2>9. ~mixed' => /\ ReliesOn(c, table', schema', dialect)
                   /\ \A o \in Deployer : o # d =>
                        ReliesOn(cmd[o], table', schema', dialect) /\ Together(c, cmd[o], dialect)
                   /\ Exact(table', schema', cmd', halfDone', halfUndone', dialect)
    BY <1>0, <2>6, <2>7, <2>8
  <2> QED BY <1>0, <2>1, <2>4, <2>9, CmdMoves
<1> QED BY <1>2, <1>3, <1>4 DEF Down

\* Forget: the rows of what has been undone.
LEMMA Forget_Inv == ASSUME MigInv, NEW d \in Deployer, Forget(d) PROVE MigInv'
<1> DEFINE m == At(cmd[d])
           e == NextName(cmd[d])
<1>0. /\ cmd[d].pc = "forget" /\ UNCHANGED <<dialect, schema, halfDone, mixed>> /\ mixed \in BOOLEAN
      /\ halfUndone' = halfUndone \ {m}
      /\ table' = {row \in table : row.name # m} /\ cmd' = [cmd EXCEPT ![d] = e]
  BY DEF Forget, MigInv
<1>1. CmdInv(cmd[d], dialect) /\ cmd[d].kind = "rollback"
  BY <1>0, Mover DEF CmdInv, IsCmd
<1>2. Names(table') = Names(table) \ {m}
  <2> HIDE DEF m
  <2> QED BY <1>0 DEF Names
<1>3. CmdInv(e, dialect) /\ (~mixed => ReliesOn(e, table', schema, dialect))
  <2>1. ~mixed => /\ ReliesOn(cmd[d], table, schema, dialect) /\ Together(cmd[d], NoCmd, dialect)
                  /\ Names(table') \subseteq Names(table)
    <3>1. Together(NoCmd, cmd[d], dialect)
      BY OverInv
    <3> QED BY <3>1, <1>2, Mover DEF Together
  <2> QED BY <1>0, <1>1, <2>1, NextNameInv
<1>4. ASSUME ~mixed, NEW o \in Deployer, o # d
      PROVE  ReliesOn(cmd[o], table', schema, dialect) /\ Together(e, cmd[o], dialect)
  <2>1. cmd[o].pc = "idle" /\ cmd[o].kind = "none" /\ ReliesOn(cmd[o], table, schema, dialect)
    BY <1>1, <1>4, Alone
  <2>2. ReliesOn(cmd[d], table, schema, dialect) /\ Together(cmd[d], cmd[o], dialect)
    BY <1>4, Mover
  <2>3. ReliesOn(cmd[o], table', schema, dialect)
    BY <1>2, <2>1 DEF ReliesOn
  <2>4. Together(e, cmd[o], dialect)
    BY <1>0, <1>1, <2>2, NextNameInv
  <2> QED BY <2>3, <2>4
<1>5. \A o \in Deployer : o # d => cmd'[o] = cmd[o]
  BY <1>0 DEF MigInv
<1>6. ASSUME ~mixed PROVE Exact(table', schema, cmd', halfDone, halfUndone', dialect)
  <2>1. Exact(table, schema, cmd, halfDone, halfUndone, dialect) /\ m \notin schema
    BY <1>0, <1>6, Mover DEF MigInv, ReliesOn
  <2>2. ASSUME NEW x \in schema
        PROVE  \/ x \in Names(table')
               \/ dialect = "mysql" /\ (x \in halfDone \/ \E o \in Deployer : cmd'[o].pc = "record" /\ At(cmd'[o]) = x)
    BY <1>0, <1>2, <1>5, <2>1 DEF Exact
  <2>3. ASSUME NEW x \in Names(table')
        PROVE  x \in schema \/ x \in halfUndone' \/ \E o \in Deployer : cmd'[o].pc = "forget" /\ At(cmd'[o]) = x
    BY <1>0, <1>2, <1>5, <2>1, <2>3 DEF Exact
  <2>4. \A r1, r2 \in table' : r1.name = r2.name /\ r1.name \notin UpRepeats => r1 = r2
    BY <1>0, <2>1 DEF Exact
  <2> QED BY <2>2, <2>3, <2>4 DEF Exact
<1> HIDE DEF e
<1>7. ~mixed' => /\ ReliesOn(e, table', schema', dialect)
                 /\ \A o \in Deployer : o # d =>
                      ReliesOn(cmd[o], table', schema', dialect) /\ Together(e, cmd[o], dialect)
                 /\ Exact(table', schema', cmd', halfDone', halfUndone', dialect)
  BY <1>0, <1>3, <1>4, <1>6
<1> QED BY <1>0, <1>3, <1>7, CmdMoves

\* A crash or an error: what was between two statements is remembered as such.
LEMMA Abort_Inv == ASSUME MigInv, NEW d \in Deployer, Abort(d) PROVE MigInv'
<1> DEFINE m == At(cmd[d])
<1>0. /\ UNCHANGED <<dialect, table, schema, mixed>> /\ mixed \in BOOLEAN /\ cmd' = [cmd EXCEPT ![d] = NoCmd]
      /\ halfDone \subseteq halfDone' /\ (cmd[d].pc = "record" /\ dialect = "mysql" => m \in halfDone')
      /\ halfUndone \subseteq halfUndone' /\ (cmd[d].pc = "forget" => m \in halfUndone')
  BY DEF Abort, MigInv
<1>1. \A o \in Deployer :
        CmdInv(NoCmd, dialect) /\ ReliesOn(NoCmd, table, schema, dialect) /\ Together(NoCmd, cmd[o], dialect)
  BY OverInv
<1>2. ~mixed => \A o \in Deployer : ReliesOn(cmd[o], table, schema, dialect)
  BY DEF MigInv
<1>3. \A o \in Deployer : o # d => cmd'[o] = cmd[o]
  BY <1>0 DEF MigInv
<1>4. ASSUME ~mixed PROVE Exact(table, schema, cmd', halfDone', halfUndone', dialect)
  <2>1. Exact(table, schema, cmd, halfDone, halfUndone, dialect)
    BY <1>4 DEF MigInv
  <2>2. ASSUME NEW x \in schema
        PROVE  \/ x \in Names(table)
               \/ dialect = "mysql" /\ (x \in halfDone' \/ \E o \in Deployer : cmd'[o].pc = "record" /\ At(cmd'[o]) = x)
    BY <1>0, <1>3, <2>1 DEF Exact
  <2>3. ASSUME NEW x \in Names(table)
        PROVE  x \in schema \/ x \in halfUndone' \/ \E o \in Deployer : cmd'[o].pc = "forget" /\ At(cmd'[o]) = x
    BY <1>0, <1>3, <2>1 DEF Exact
  <2> QED BY <2>1, <2>2, <2>3 DEF Exact
<1>5. ~mixed' => /\ ReliesOn(NoCmd, table', schema', dialect)
                 /\ \A o \in Deployer : o # d =>
                      ReliesOn(cmd[o], table', schema', dialect) /\ Together(NoCmd, cmd[o], dialect)
                 /\ Exact(table', schema', cmd', halfDone', halfUndone', dialect)
  BY <1>0, <1>1, <1>2, <1>4
<1> QED BY <1>0, <1>1, <1>5, CmdMoves

LEMMA MigInit_Inv == MigratorAssumption /\ MigInit => MigInv
<1> SUFFICES ASSUME MigratorAssumption, MigInit PROVE MigInv
  OBVIOUS
<1>1. /\ dialect \in {"postgres", "mysql"} /\ cmd = [d \in Deployer |-> NoCmd] /\ table = {} /\ schema = {}
      /\ mixed = FALSE
  BY DEF MigInit, MigratorAssumption
<1>2. \A d, o \in Deployer :
        CmdInv(cmd[d], dialect) /\ ReliesOn(cmd[d], table, schema, dialect) /\ Together(cmd[d], cmd[o], dialect)
  BY <1>1, OverInv
<1>3. Exact(table, schema, cmd, halfDone, halfUndone, dialect)
  BY <1>1 DEF Exact, Names
<1> QED BY <1>1, <1>2, <1>3 DEF MigInv

LEMMA MigNext_Inv == ASSUME MigratorAssumption, MigInv, [MigNext]_migVars PROVE MigInv'
<1>1. CASE UNCHANGED migVars
  BY <1>1 DEF migVars, MigInv
<1>2. CASE MigNext
  <2> PICK d \in Deployer :
         \/ MigrateRead(d) \/ NextBatch(d) \/ Up(d) \/ UpConflict(d) \/ Record(d) \/ CommitBatch(d)
         \/ RollbackRead(d) \/ BatchNames(d) \/ Down(d) \/ Forget(d) \/ Abort(d)
    BY <1>2 DEF MigNext
  <2>1. CASE MigrateRead(d)
    BY <2>1, MigrateRead_Inv
  <2>2. CASE NextBatch(d)
    BY <2>2, NextBatch_Inv
  <2>3. CASE Up(d)
    BY <2>3, Up_Inv
  <2>4. CASE UpConflict(d)
    BY <2>4, UpConflict_Inv
  <2>5. CASE Record(d)
    BY <2>5, Record_Inv
  <2>6. CASE CommitBatch(d)
    BY <2>6, CommitBatch_Inv
  <2>7. CASE RollbackRead(d)
    BY <2>7, RollbackRead_Inv
  <2>8. CASE BatchNames(d)
    BY <2>8, BatchNames_Inv
  <2>9. CASE Down(d)
    BY <2>9, Down_Inv
  <2>10. CASE Forget(d)
    BY <2>10, Forget_Inv
  <2>11. CASE Abort(d)
    BY <2>11, Abort_Inv
  <2> QED BY <2>1, <2>2, <2>3, <2>4, <2>5, <2>6, <2>7, <2>8, <2>9, <2>10, <2>11
<1> QED BY <1>1, <1>2

\* As long as no rollback runs beside another command, the migrations table and
\* the schema agree up to the steps under way or cut off by a crash, and a
\* migration that cannot be run twice is recorded once, for any number of
\* processes, releases and migrations, on Postgres and on MySQL (migrator.go 83-178).
THEOREM MigrationsAgree == MigSpec => []MigrationsExact
<1>1. MigInit => MigInv
  BY MigratorAssumption, MigInit_Inv
<1>2. MigInv /\ [MigNext]_migVars => MigInv'
  BY MigratorAssumption, MigNext_Inv
<1>3. MigInv => MigrationsExact
  BY ExactSuffices
<1> QED BY <1>1, <1>2, <1>3, PTL DEF MigSpec

---------------------------------------------------------------------------
(* Eager loading.  The rows of the batch query, grouped by a key, are      *)
(* under a struct's key exactly the struct's own; that a field was never   *)
(* loaded means that it is empty (Untouched).                              *)

\* What a Load has not filled yet is empty.
Untouched(e) ==
  /\ "Children" \notin e.loaded => e.children = {}
  /\ "Parent" \notin e.loaded => e.parent = NoRow

RelInv == RelTypeOK /\ \A i \in DOMAIN dest : Untouched(dest[i])

LEMMA StructsTyped ==
  ASSUME RelInv
  PROVE  /\ dest \in Seq(StructType) /\ Len(dest) \in Nat /\ DOMAIN dest = 1..Len(dest)
         /\ \A i \in DOMAIN dest : dest[i] \in StructType /\ Untouched(dest[i])
  BY LenProperties, ElementOfSeq DEF RelInv, RelTypeOK

LEMMA KeysOfIntegers ==
  ASSUME NEW v, NEW w
  PROVE  /\ PKKey(v) = PKKey(w) <=> v = w
         /\ PKKey(v)[2] = v
         /\ PKKey(v) # NilKey
  BY DEF PKKey, NilKey

LEMMA KeysOfColumns ==
  ASSUME NEW v
  PROVE  /\ ~ptrFK => FKKey(v) = PKKey(v)
         /\ ptrFK => \A w : FKKey(v) # PKKey(w)
  BY DEF PKKey, FKKey

LEMMA ChildrenFound ==
  ASSUME RelInv, ~ptrFK, NEW i \in DOMAIN dest
  PROVE  LET key == [n \in Exists |-> FKKey(parentOf[n])]
             related == BuildFKMap(RowsIn(parentOf, CollectPKs(dest)), key)
             own == {n \in Exists : parentOf[n] = dest[i].id}
         IN /\ PKKey(dest[i].id) \in DOMAIN related <=> own # {}
            /\ PKKey(dest[i].id) \in DOMAIN related => related[PKKey(dest[i].id)] = own
<1> DEFINE key == [n \in Exists |-> FKKey(parentOf[n])]
           rows == RowsIn(parentOf, CollectPKs(dest))
           related == BuildFKMap(rows, key)
           own == {n \in Exists : parentOf[n] = dest[i].id}
           K == PKKey(dest[i].id)
<1>1. rows \subseteq Exists /\ own \subseteq rows
  BY Zenon DEF RowsIn, CollectPKs
<1>2. \A n \in Exists : key[n] = K <=> n \in own
  <2> TAKE n \in Exists
  <2>1. key[n] = PKKey(parentOf[n])
    BY KeysOfColumns
  <2>2. PKKey(parentOf[n]) = K <=> parentOf[n] = dest[i].id
    BY KeysOfIntegers
  <2>. QED  BY <2>1, <2>2, Zenon
<1> HIDE DEF key, rows, K, own
<1>3. related = [k \in {key[r] : r \in rows} |-> {r \in rows : key[r] = k}]
  BY Zenon DEF BuildFKMap
<1>4. DOMAIN related = {key[r] : r \in rows}
  BY <1>3, Zenon
<1>5. K \in DOMAIN related <=> own # {}
  BY <1>1, <1>2, <1>4, Zenon
<1>6. ASSUME K \in DOMAIN related  PROVE related[K] = own
  <2>1. related[K] = {r \in rows : key[r] = K}
    BY <1>3, <1>4, <1>6, Zenon
  <2>2. \A r : r \in {r2 \in rows : key[r2] = K} <=> r \in own
    BY <1>1, <1>2, Zenon
  <2>. QED  BY <2>1, <2>2, Zenon
<1>. QED  BY <1>5, <1>6, Zenon DEF key, rows, K, own

LEMMA ParentFound ==
  ASSUME RelInv, NEW i \in DOMAIN dest
  PROVE  LET fks == {dest[j].fk : j \in DOMAIN dest}
             related == BuildPKMap(RowsIn([n \in Exists |-> n], fks))
         IN /\ FKKey(dest[i].fk) \in DOMAIN related <=> (~ptrFK /\ dest[i].fk \in Exists)
            /\ FKKey(dest[i].fk) \in DOMAIN related => related[FKKey(dest[i].fk)] = dest[i].fk
<1> DEFINE fks == {dest[j].fk : j \in DOMAIN dest}
           rows == RowsIn([n \in Exists |-> n], fks)
           related == BuildPKMap(rows)
           K == FKKey(dest[i].fk)
<1>1. \A n : n \in rows <=> n \in Exists /\ n \in fks
  BY Zenon DEF RowsIn
<1>2. dest[i].fk \in fks
  BY Zenon
<1> HIDE DEF fks, rows, K
<1>3. related = [k \in {PKKey(r) : r \in rows} |-> k[2]]
  BY Zenon DEF BuildPKMap
<1>4. DOMAIN related = {PKKey(r) : r \in rows}
  BY <1>3, Zenon
<1>5. K \in DOMAIN related <=> (~ptrFK /\ dest[i].fk \in Exists)
  <2>1. CASE ptrFK
    BY <2>1, <1>4, KeysOfColumns, Zenon DEF K
  <2>2. CASE ~ptrFK
    <3>1. K = PKKey(dest[i].fk)
      BY <2>2, KeysOfColumns DEF K
    <3>. QED  BY <2>2, <3>1, <1>1, <1>2, <1>4, KeysOfIntegers, Zenon
  <2>. QED  BY <2>1, <2>2
<1>6. ASSUME K \in DOMAIN related  PROVE related[K] = dest[i].fk
  <2>1. K = PKKey(dest[i].fk)
    BY <1>5, <1>6, KeysOfColumns DEF K
  <2>2. related[K] = K[2]
    BY <1>3, <1>4, <1>6, Zenon
  <2>. QED  BY <2>1, <2>2, KeysOfIntegers
<1>. QED  BY <1>5, <1>6, Zenon DEF fks, rows, K

LEMMA SameLength ==
  ASSUME NEW T, NEW n \in Nat, NEW s, DOMAIN s = 1..n, s = [i \in 1..n |-> s[i]],
         \A i \in 1..n : s[i] \in T
  PROVE  s \in Seq(T)
<1>1. s \in [1..n -> T]
  BY Zenon
<1>. QED  BY <1>1

LEMMA GroupsOfRows ==
  ASSUME NEW rows, NEW key, NEW k \in DOMAIN BuildFKMap(rows, key)
  PROVE  BuildFKMap(rows, key)[k] \subseteq rows
<1> DEFINE map == [c \in {key[r] : r \in rows} |-> {r \in rows : key[r] = c}]
<1>1. BuildFKMap(rows, key) = map /\ DOMAIN map = {key[r] : r \in rows}
  BY Zenon DEF BuildFKMap
<1>2. map[k] = {r \in rows : key[r] = k}
  BY <1>1, Zenon
<1>. QED  BY <1>1, <1>2, Zenon

\* The structs after a Load of Children.
LEMMA ChildrenAssigned ==
  ASSUME RelInv, LoadHasMany
  PROVE  /\ DOMAIN dest' = DOMAIN dest /\ dest' \in Seq(StructType)
         /\ \A i \in DOMAIN dest :
              /\ dest'[i] \in StructType /\ Untouched(dest'[i])
              /\ dest'[i].fk = dest[i].fk /\ dest'[i].parent = dest[i].parent
              /\ dest'[i].loaded = dest[i].loaded \union {"Children"}
              /\ ~ptrFK => LET own == {n \in Exists : parentOf[n] = dest[i].id} IN
                            dest'[i].children = IF own # {} THEN own ELSE dest[i].children
<1> DEFINE key == [n \in Exists |-> FKKey(parentOf[n])]
           rows == RowsIn(parentOf, CollectPKs(dest))
           related == BuildFKMap(rows, key)
<1>1. dest' = [i \in DOMAIN dest |-> AssignHasMany(dest[i], related)]
  BY Zenon DEF LoadHasMany
<1>2. rows \subseteq Node
  BY DEF RowsIn, RelInv, RelTypeOK
<1>3. \A i \in DOMAIN dest : ~ptrFK =>
        /\ PKKey(dest[i].id) \in DOMAIN related <=> {n \in Exists : parentOf[n] = dest[i].id} # {}
        /\ PKKey(dest[i].id) \in DOMAIN related =>
             related[PKKey(dest[i].id)] = {n \in Exists : parentOf[n] = dest[i].id}
  BY ChildrenFound, Zenon
<1>4. \A k \in DOMAIN related : related[k] \subseteq Node
  BY <1>2, GroupsOfRows, Zenon
<1> HIDE DEF key, rows, related
<1>5. DOMAIN dest' = DOMAIN dest /\ \A i \in DOMAIN dest : dest'[i] = AssignHasMany(dest[i], related)
  BY <1>1, Zenon
<1>6. ASSUME NEW i \in DOMAIN dest
      PROVE  /\ dest'[i] \in StructType /\ Untouched(dest'[i])
             /\ dest'[i].fk = dest[i].fk /\ dest'[i].parent = dest[i].parent
             /\ dest'[i].loaded = dest[i].loaded \union {"Children"}
             /\ ~ptrFK => LET own == {n \in Exists : parentOf[n] = dest[i].id} IN
                           dest'[i].children = IF own # {} THEN own ELSE dest[i].children
  <2> DEFINE e == dest[i]
             own == {n \in Exists : parentOf[n] = e.id}
             c == IF PKKey(e.id) \in DOMAIN related THEN related[PKKey(e.id)] ELSE e.children
  <2>1. e \in StructType /\ Untouched(e)
    BY StructsTyped
  <2>2. c \subseteq Node
    BY <2>1, <1>4 DEF StructType
  <2>3. ~ptrFK => c = IF own # {} THEN own ELSE e.children
    BY <1>3, Zenon
  <2>4. dest'[i] = [e EXCEPT !.children = c, !.loaded = e.loaded \union {"Children"}]
    BY <1>5, Zenon DEF AssignHasMany
  <2> HIDE DEF e, c, own
  <2>5. /\ dest'[i] \in StructType /\ dest'[i].children = c /\ dest'[i].loaded = e.loaded \union {"Children"}
        /\ dest'[i].parent = e.parent /\ dest'[i].fk = e.fk
    BY <2>1, <2>2, <2>4 DEF StructType
  <2>6. Untouched(dest'[i])
    BY <2>1, <2>5 DEF Untouched
  <2>. QED  BY <2>3, <2>5, <2>6, Zenon DEF e, own
<1>7. dest' \in Seq(StructType)
  BY <1>1, <1>5, <1>6, StructsTyped, SameLength
<1>. QED  BY <1>5, <1>6, <1>7

\* The structs after a Load of Parent.
LEMMA ParentAssigned ==
  ASSUME RelInv, LoadBelongsTo
  PROVE  /\ DOMAIN dest' = DOMAIN dest /\ dest' \in Seq(StructType)
         /\ \A i \in DOMAIN dest :
              /\ dest'[i] \in StructType /\ Untouched(dest'[i])
              /\ dest'[i].parent = IF ~ptrFK /\ dest[i].fk \in Exists THEN dest[i].fk ELSE dest[i].parent
<1> DEFINE fks == {dest[j].fk : j \in DOMAIN dest}
           related == BuildPKMap(RowsIn([n \in Exists |-> n], fks))
<1>1. dest' = [i \in DOMAIN dest |-> AssignBelongsTo(dest[i], related)]
  BY Zenon DEF LoadBelongsTo
<1>2. \A i \in DOMAIN dest :
        /\ FKKey(dest[i].fk) \in DOMAIN related <=> (~ptrFK /\ dest[i].fk \in Exists)
        /\ FKKey(dest[i].fk) \in DOMAIN related => related[FKKey(dest[i].fk)] = dest[i].fk
  BY ParentFound, Zenon
<1> HIDE DEF fks, related
<1>3. DOMAIN dest' = DOMAIN dest /\ \A i \in DOMAIN dest : dest'[i] = AssignBelongsTo(dest[i], related)
  BY <1>1, Zenon
<1>4. ASSUME NEW i \in DOMAIN dest
      PROVE  /\ dest'[i] \in StructType /\ Untouched(dest'[i])
             /\ dest'[i].parent = IF ~ptrFK /\ dest[i].fk \in Exists THEN dest[i].fk ELSE dest[i].parent
  <2> DEFINE e == dest[i]
             p == IF FKKey(e.fk) \in DOMAIN related THEN related[FKKey(e.fk)] ELSE e.parent
  <2>1. e \in StructType /\ Untouched(e)
    BY StructsTyped
  <2>2. p = IF ~ptrFK /\ e.fk \in Exists THEN e.fk ELSE e.parent
    BY <1>2, Zenon
  <2>3. dest'[i] = [e EXCEPT !.parent = p, !.loaded = e.loaded \union {"Parent"}]
    BY <1>3, Zenon DEF AssignBelongsTo
  <2> HIDE DEF e, p
  <2>4. p \in Node \union {NoRow}
    BY <2>1, <2>2 DEF StructType
  <2>5. /\ dest'[i] \in StructType /\ dest'[i].children = e.children
        /\ dest'[i].parent = p /\ dest'[i].loaded = e.loaded \union {"Parent"}
    BY <2>1, <2>3, <2>4 DEF StructType
  <2>6. Untouched(dest'[i])
    BY <2>1, <2>5 DEF Untouched
  <2>. QED  BY <2>2, <2>5, <2>6, Zenon DEF e
<1>5. dest' \in Seq(StructType)
  BY <1>1, <1>3, <1>4, StructsTyped, SameLength
<1>. QED  BY <1>3, <1>4, <1>5

\* The structs after a Load of Tags: no key of a struct is nil.
LEMMA TagsAssigned ==
  ASSUME RelInv, LoadManyToMany
  PROVE  dest' = dest
<1> DEFINE rows == {l[2] : l \in {l \in linked : l[1] \in CollectPKs(dest) /\ l[2] \in Exists}}
           key == [n \in rows |-> NilKey]
           related == BuildFKMap(rows, key)
<1>1. /\ dest' = [i \in DOMAIN dest |->
           [dest[i] EXCEPT !.tags = IF PKKey(dest[i].id) \in DOMAIN related
                                    THEN related[PKKey(dest[i].id)] ELSE dest[i].tags]]
  BY Zenon DEF LoadManyToMany
<1> HIDE DEF rows
<1>2. DOMAIN related = {key[r] : r \in rows}
  BY Zenon DEF BuildFKMap
<1>3. \A v : PKKey(v) \notin DOMAIN related
  BY <1>2, KeysOfIntegers, Zenon
<1> HIDE DEF related
<1>4. \A i \in DOMAIN dest : dest'[i] = [dest[i] EXCEPT !.tags = dest[i].tags]
  BY <1>1, <1>3, Zenon
<1>5. \A i \in DOMAIN dest : dest'[i] = dest[i]
  <2> TAKE i \in DOMAIN dest
  <2>1. dest[i] \in StructType
    BY StructsTyped
  <2>. QED  BY <2>1, <1>4 DEF StructType
<1>6. dest = [i \in DOMAIN dest |-> dest[i]]
  BY StructsTyped
<1>7. dest' = [i \in DOMAIN dest |-> dest'[i]]
  BY <1>1, Zenon
<1>. QED  BY <1>5, <1>6, <1>7

LEMMA RelBegins ==
  ASSUME RelInit
  PROVE  RelInv
<1>1. Exists \subseteq Node /\ \A n \in Exists : parentOf[n] \in Node \union {NoRow}
  BY DEF RelInit, Exists
<1>. QED  BY <1>1, RelAssumption DEF RelInit, RelInv, RelTypeOK

LEMMA RelKeeps ==
  ASSUME RelInv, [RelNext]_relVars
  PROVE  RelInv'
<1> USE DEF RelInv, RelTypeOK
<1>1. CASE UNCHANGED relVars
  BY <1>1 DEF relVars, Exists
<1>2. ASSUME RelNext  PROVE relSteps' \in 0..MaxRelSteps
  BY <1>2, RelAssumption DEF RelNext, RelStep
<1>3. CASE RelStep(Query)
  <2> PICK k \in 1..MaxStructs : \E ns \in [1..k -> Exists] : dest' = [i \in 1..k |-> Struct(ns[i])]
    BY <1>3 DEF RelStep, Query
  <2> PICK ns \in [1..k -> Exists] : dest' = [i \in 1..k |-> Struct(ns[i])]
    OBVIOUS
  <2>1. \A i \in 1..k : Struct(ns[i]) \in StructType /\ Untouched(Struct(ns[i]))
    BY DEF Struct, StructType, Untouched
  <2>2. DOMAIN dest' = 1..k /\ k \in Nat /\ \A i \in 1..k : dest'[i] = Struct(ns[i])
    BY RelAssumption
  <2>3. dest' \in Seq(StructType)
    BY <2>1, <2>2, SameLength
  <2>4. \A i \in DOMAIN dest' : Untouched(dest'[i])
    BY <2>1, <2>2
  <2>. QED  BY <2>3, <2>4, <1>2, <1>3 DEF RelNext, RelStep, Query, Exists, Untouched
<1>4. CASE RelStep(OtherWrites)
  <2>1. Exists' \subseteq Node /\ \A n \in Exists' : parentOf'[n] \in Node \union {NoRow}
    BY <1>4 DEF RelStep, OtherWrites, Exists
  <2>. QED  BY <2>1, <1>2, <1>4 DEF RelNext, RelStep, OtherWrites, Untouched
<1>5. CASE RelStep(LoadHasMany)
  <2>1. /\ dest' \in Seq(StructType) /\ \A i \in DOMAIN dest' : Untouched(dest'[i])
    BY <1>5, ChildrenAssigned DEF RelStep
  <2>. QED  BY <2>1, <1>2, <1>5 DEF RelNext, RelStep, LoadHasMany, Exists, Untouched
<1>6. CASE RelStep(LoadBelongsTo)
  <2>1. /\ dest' \in Seq(StructType) /\ \A i \in DOMAIN dest' : Untouched(dest'[i])
    BY <1>6, ParentAssigned DEF RelStep
  <2>. QED  BY <2>1, <1>2, <1>6 DEF RelNext, RelStep, LoadBelongsTo, Exists, Untouched
<1>7. CASE RelStep(LoadManyToMany)
  <2>1. dest' = dest
    BY <1>7, TagsAssigned DEF RelStep
  <2>. QED  BY <2>1, <1>2, <1>7 DEF RelNext, RelStep, LoadManyToMany, Exists, Untouched
<1>. QED  BY <1>1, <1>3, <1>4, <1>5, <1>6, <1>7 DEF RelNext

\* For any tree of rows and whatever other sessions write in between, a Load
\* gives every struct its own rows and its own parent (relations.go 50-164).
THEOREM RelationsLoadExactly == RelSpec => RelationsExact
<1> DEFINE HM == LoadHasMany /\ ~ptrFK => \A i \in DOMAIN dest :
                   LET own == {n \in Exists : parentOf[n] = dest[i].id} IN
                   \/ dest'[i].children = own
                   \/ own = {} /\ "Children" \in dest[i].loaded /\ dest'[i].children = dest[i].children
           BT == \A i \in DOMAIN dest :
                   dest'[i].parent # dest[i].parent \/ "Parent" \in dest'[i].loaded \ dest[i].loaded =>
                   \/ dest'[i].parent = dest[i].fk /\ dest[i].fk \in Exists
                   \/ dest'[i].parent = NoRow /\ (ptrFK \/ dest[i].fk \notin Exists)
<1>1. RelInit => RelInv
  BY RelBegins
<1>2. RelInv /\ [RelNext]_relVars => RelInv'
  BY RelKeeps
<1>3. RelInv => HM
  <2> SUFFICES ASSUME RelInv, LoadHasMany, ~ptrFK, NEW i \in DOMAIN dest
               PROVE  LET own == {n \in Exists : parentOf[n] = dest[i].id} IN
                      \/ dest'[i].children = own
                      \/ own = {} /\ "Children" \in dest[i].loaded /\ dest'[i].children = dest[i].children
    BY Zenon
  <2> DEFINE own == {n \in Exists : parentOf[n] = dest[i].id}
  <2>1. dest'[i].children = IF own # {} THEN own ELSE dest[i].children
    BY ChildrenAssigned, Zenon
  <2>2. "Children" \notin dest[i].loaded => dest[i].children = {}
    BY StructsTyped DEF Untouched
  <2> HIDE DEF own
  <2>3. \/ dest'[i].children = own
        \/ own = {} /\ "Children" \in dest[i].loaded /\ dest'[i].children = dest[i].children
    BY <2>1, <2>2, Zenon
  <2>. QED  BY <2>3, Zenon DEF own
<1>4. RelInv /\ [RelNext]_relVars => BT
  <2> SUFFICES ASSUME RelInv, [RelNext]_relVars, NEW i \in DOMAIN dest,
                      dest'[i].parent # dest[i].parent \/ "Parent" \in dest'[i].loaded \ dest[i].loaded
               PROVE  \/ dest'[i].parent = dest[i].fk /\ dest[i].fk \in Exists
                      \/ dest'[i].parent = NoRow /\ (ptrFK \/ dest[i].fk \notin Exists)
    BY Zenon
  <2>1. LoadBelongsTo
    <3>1. dest' # dest /\ dest # <<>>
      BY StructsTyped
    <3>2. ~LoadHasMany
      <4> SUFFICES ASSUME LoadHasMany  PROVE FALSE
        OBVIOUS
      <4>1. dest'[i].parent = dest[i].parent /\ dest'[i].loaded = dest[i].loaded \union {"Children"}
        BY ChildrenAssigned, Zenon
      <4>2. "Parent" # "Children"
        OBVIOUS
      <4>. QED  BY <4>1, <4>2, Zenon
    <3>3. ~LoadManyToMany
      BY <3>1, TagsAssigned
    <3>. QED  BY <3>1, <3>2, <3>3 DEF RelNext, RelStep, relVars, Query, OtherWrites
  <2>2. dest'[i].parent = IF ~ptrFK /\ dest[i].fk \in Exists THEN dest[i].fk ELSE dest[i].parent
    BY <2>1, ParentAssigned, Zenon
  <2>3. dest[i].parent # NoRow => "Parent" \in dest[i].loaded
    BY StructsTyped DEF Untouched
  <2>. QED  BY <2>2, <2>3, Zenon
<1> HIDE DEF HM, BT
<1>5. RelInv /\ [RelNext]_relVars => [HM /\ BT]_relVars
  BY <1>3, <1>4
<1>6. RelSpec => [][HM /\ BT]_relVars
  BY <1>1, <1>2, <1>5, PTL DEF RelSpec
<1>7. [][HM /\ BT]_relVars => [][HM]_relVars /\ [][BT]_relVars
  BY PTL
<1>. QED  BY <1>6, <1>7, PTL DEF RelationsExact, HasManyExact, BelongsToExact, HM, BT

---------------------------------------------------------------------------
(* The texts of SELECT and ORDER BY.  What is accepted of a text is told   *)
(* by its fields one by one; the documented grammar puts texts together.   *)
(* The lemmas on tuples bring the two together.                            *)

LEMMA TupleOne ==
  ASSUME NEW F, NEW t \in Seq(F), NEW u
  PROVE  t = <<u>> <=> Len(t) = 1 /\ t[1] = u
  OBVIOUS

LEMMA TupleTwo ==
  ASSUME NEW F, NEW t \in Seq(F), NEW u, NEW v
  PROVE  t = <<u, v>> <=> Len(t) = 2 /\ t[1] = u /\ t[2] = v
  OBVIOUS

LEMMA TupleThree ==
  ASSUME NEW F, NEW t \in Seq(F), NEW u, NEW v, NEW w
  PROVE  t = <<u, v, w>> <=> Len(t) = 3 /\ t[1] = u /\ t[2] = v /\ t[3] = w
  OBVIOUS

LEMMA TupleFour ==
  ASSUME NEW F, NEW t \in Seq(F), NEW u, NEW v, NEW w, NEW x
  PROVE  t = <<u, v, w, x>> <=> Len(t) = 4 /\ t[1] = u /\ t[2] = v /\ t[3] = w /\ t[4] = x
  OBVIOUS

LEMMA JoinOneOne ==
  ASSUME NEW u, NEW v
  PROVE  <<u>> \o <<v>> = <<u, v>>
<1> DEFINE S == {u, v}
           c == <<u>> \o <<v>>
<1>1. /\ <<u>> \in Seq(S) /\ Len(<<u>>) = 1 /\ <<u>>[1] = u
      /\ <<v>> \in Seq(S) /\ Len(<<v>>) = 1 /\ <<v>>[1] = v
  OBVIOUS
<1> HIDE DEF S
<1>2. /\ c \in Seq(S) /\ Len(c) = 2
      /\ \A i \in 1..2 : c[i] = IF i <= 1 THEN <<u>>[i] ELSE <<v>>[i - 1]
  BY <1>1, ConcatProperties
<1> HIDE DEF c
<1>3. c[1] = u /\ c[2] = v
  BY <1>1, <1>2
<1>4. c = <<u, v>>
  BY <1>2, <1>3, TupleTwo
<1>. QED  BY <1>4 DEF c

LEMMA JoinOneTwo ==
  ASSUME NEW u, NEW v, NEW w
  PROVE  <<u>> \o <<v, w>> = <<u, v, w>>
<1> DEFINE S == {u, v, w}
           c == <<u>> \o <<v, w>>
<1>1. /\ <<u>> \in Seq(S) /\ Len(<<u>>) = 1 /\ <<u>>[1] = u
      /\ <<v, w>> \in Seq(S) /\ Len(<<v, w>>) = 2 /\ <<v, w>>[1] = v /\ <<v, w>>[2] = w
  OBVIOUS
<1> HIDE DEF S
<1>2. /\ c \in Seq(S) /\ Len(c) = 3
      /\ \A i \in 1..3 : c[i] = IF i <= 1 THEN <<u>>[i] ELSE <<v, w>>[i - 1]
  BY <1>1, ConcatProperties
<1> HIDE DEF c
<1>3. c[1] = u /\ c[2] = v /\ c[3] = w
  BY <1>1, <1>2
<1>4. c = <<u, v, w>>
  BY <1>2, <1>3, TupleThree
<1>. QED  BY <1>4 DEF c

LEMMA JoinTwoTwo ==
  ASSUME NEW u, NEW v, NEW w, NEW x
  PROVE  <<u, v>> \o <<w, x>> = <<u, v, w, x>>
<1> DEFINE S == {u, v, w, x}
           c == <<u, v>> \o <<w, x>>
<1>1. /\ <<u, v>> \in Seq(S) /\ Len(<<u, v>>) = 2 /\ <<u, v>>[1] = u /\ <<u, v>>[2] = v
      /\ <<w, x>> \in Seq(S) /\ Len(<<w, x>>) = 2 /\ <<w, x>>[1] = w /\ <<w, x>>[2] = x
  OBVIOUS
<1> HIDE DEF S
<1>2. /\ c \in Seq(S) /\ Len(c) = 4
      /\ \A i \in 1..4 : c[i] = IF i <= 2 THEN <<u, v>>[i] ELSE <<w, x>>[i - 2]
  BY <1>1, ConcatProperties
<1> HIDE DEF c
<1>3. c[1] = u /\ c[2] = v /\ c[3] = w /\ c[4] = x
  BY <1>1, <1>2
<1>4. c = <<u, v, w, x>>
  BY <1>2, <1>3, TupleFour
<1>. QED  BY <1>4 DEF c

LEMMA TailTwo ==
  ASSUME NEW F, NEW t \in Seq(F), NEW u, NEW v, Len(t) = 3
  PROVE  Tail(t) = <<u, v>> <=> t[2] = u /\ t[3] = v
<1>1. t # <<>>
  OBVIOUS
<1>2. /\ Tail(t) \in Seq(F) /\ Len(Tail(t)) = Len(t) - 1
      /\ \A i \in 1..Len(Tail(t)) : Tail(t)[i] = t[i + 1]
  BY <1>1, HeadTailProperties
<1>3. Len(Tail(t)) = 2
  BY <1>2
<1>4. Tail(t)[1] = t[2] /\ Tail(t)[2] = t[3]
  BY <1>2, <1>3
<1>5. Tail(t) = <<u, v>> <=> Len(Tail(t)) = 2 /\ Tail(t)[1] = u /\ Tail(t)[2] = v
  <2> DEFINE r == Tail(t)
  <2>1. r \in Seq(F)
    BY <1>2
  <2> HIDE DEF r
  <2>2. r = <<u, v>> <=> Len(r) = 2 /\ r[1] = u /\ r[2] = v
    BY <2>1, TupleTwo
  <2>. QED  BY <2>2 DEF r
<1>. QED  BY <1>3, <1>4, <1>5, Zenon

\* What may come out of a column reference.
Harmless == {Quote(w) : w \in Word} \union {"*"}

Suspect(f) ==
  Len(f) > 2 \/ \E i \in DOMAIN f : ~IsSafeIdentSegment(f[i]) /\ ~(f[i] = "*" /\ i = Len(f))

LEMMA SafeWords ==
  ASSUME NEW w \in Word
  PROVE  IsSafeIdentSegment(w) <=> w \notin {"*", "unsafe", "empty"}
  BY DEF IsSafeIdentSegment, Word, Keyword

LEMMA QuotedWords ==
  ASSUME NEW n \in Nat, NEW f \in [1..n -> Word], ~Suspect(f)
  PROVE  QuoteColumnRef(f).ok /\ QuoteColumnRef(f).sql \in Seq(Harmless)
<1> DEFINE quoted == [i \in DOMAIN f |-> IF f[i] = "*" THEN "*" ELSE Quote(f[i])]
<1>1. QuoteColumnRef(f) = Emit(quoted)
  BY Zenon DEF QuoteColumnRef, Suspect
<1>2. quoted \in [1..n -> Harmless]
  <2>1. DOMAIN f = 1..n
    OBVIOUS
  <2>2. \A i \in 1..n : (IF f[i] = "*" THEN "*" ELSE Quote(f[i])) \in Harmless
    BY Zenon DEF Harmless
  <2>. QED  BY <2>1, <2>2, Zenon
<1> HIDE DEF quoted
<1>3. quoted \in Seq(Harmless)
  BY <1>2
<1>. QED  BY <1>1, <1>3 DEF Emit

LEMMA RefusedWords ==
  ASSUME NEW f, Suspect(f)
  PROVE  ~QuoteColumnRef(f).ok
  BY DEF QuoteColumnRef, Suspect, Fail

LEMMA OneWord ==
  ASSUME NEW w \in Word \ {"empty"}
  PROVE  <<w>> \in [1..1 -> Word] /\ (Suspect(<<w>>) <=> w = "unsafe")
<1>1. Len(<<w>>) = 1 /\ DOMAIN <<w>> = 1..1 /\ <<w>>[1] = w
  OBVIOUS
<1>2. \A i : i \in 1..1 <=> i = 1
  OBVIOUS
<1>3. Suspect(<<w>>) <=> ~IsSafeIdentSegment(w) /\ w # "*"
  <2>1. ~(Len(<<w>>) > 2)
    BY <1>1
  <2>. QED  BY <1>1, <1>2, <2>1, Zenon DEF Suspect
<1>. QED  BY <1>3, SafeWords

LEMMA TwoWords ==
  ASSUME NEW v \in Word, NEW w \in Word
  PROVE  /\ <<v, w>> \in [1..2 -> Word]
         /\ Suspect(<<v, w>>) <=> (v \in {"*", "unsafe", "empty"} \/ w \in {"unsafe", "empty"})
<1>1. Len(<<v, w>>) = 2 /\ DOMAIN <<v, w>> = 1..2 /\ <<v, w>>[1] = v /\ <<v, w>>[2] = w
  OBVIOUS
<1>2. \A i : i \in 1..2 <=> i = 1 \/ i = 2
  OBVIOUS
<1>3. Suspect(<<v, w>>) <=> (~IsSafeIdentSegment(v) \/ (~IsSafeIdentSegment(w) /\ w # "*"))
  <2>1. ~(Len(<<v, w>>) > 2) /\ 1 # 2
    BY <1>1
  <2>. QED  BY <1>1, <1>2, <2>1, Zenon DEF Suspect
<1>. QED  BY <1>3, SafeWords

LEMMA RefExact ==
  ASSUME NEW f \in Field
  PROVE  /\ QuoteColumnRef(f).ok <=> f \in Ref
         /\ QuoteColumnRef(f).ok => QuoteColumnRef(f).sql \in Seq(Harmless)
<1>1. CASE \E w \in Word \ {"empty"} : f = <<w>>
  <2> PICK w \in Word \ {"empty"} : f = <<w>>
    BY <1>1
  <2>1. f \in Ref <=> w # "unsafe"
    BY DEF Ref, Word, Keyword
  <2>2. f \in [1..1 -> Word] /\ (Suspect(f) <=> w = "unsafe")
    BY OneWord
  <2>3. CASE w = "unsafe"
    BY <2>1, <2>2, <2>3, RefusedWords
  <2>4. CASE w # "unsafe"
    BY <2>1, <2>2, <2>4, QuotedWords
  <2>. QED  BY <2>3, <2>4
<1>2. CASE \E v, w \in Word : f = <<v, w>> /\ f \in {<<"col", "col">>, <<"col", "*">>, <<"*", "col">>, <<"col", "empty">>}
  <2> PICK v \in Word, w \in Word : f = <<v, w>> /\ f \in {<<"col", "col">>, <<"col", "*">>, <<"*", "col">>, <<"col", "empty">>}
    BY <1>2
  <2>1. f \in Ref <=> (v \notin {"*", "unsafe", "empty"} /\ w \notin {"unsafe", "empty"})
    BY DEF Ref, Keyword
  <2>2. f \in [1..2 -> Word] /\ (Suspect(f) <=> (v \in {"*", "unsafe", "empty"} \/ w \in {"unsafe", "empty"}))
    BY TwoWords
  <2>3. CASE f \notin Ref
    BY <2>1, <2>2, <2>3, RefusedWords
  <2>4. CASE f \in Ref
    BY <2>1, <2>2, <2>4, QuotedWords
  <2>. QED  BY <2>3, <2>4
<1>3. CASE f = <<"col", "col", "col">>
  <2>1. f \notin Ref
    BY <1>3 DEF Ref, Keyword
  <2>2. Suspect(f)
    BY <1>3 DEF Suspect
  <2>. QED  BY <2>1, <2>2, RefusedWords
<1>4. {"col", "*", "empty"} \subseteq Word
  BY DEF Word
<1>. QED  BY <1>1, <1>2, <1>3, <1>4 DEF Field

LEMMA InertSeq ==
  ASSUME NEW fixed, NEW sql \in Seq(Harmless \union fixed)
  PROVE  Inert(sql, fixed)
<1>1. DOMAIN sql = 1..Len(sql)
  BY LenProperties
<1>2. \A i \in 1..Len(sql) : sql[i] \in Harmless \union fixed
  BY ElementOfSeq
<1>. QED  BY <1>1, <1>2, Zenon DEF Inert, Harmless

\* The parts sanitizeOrderBy accepts, field by field.
OrderTail(t) ==
  /\ Len(t) >= 2 => t[2] \in {<<"asc">>, <<"desc">>}
  /\ Len(t) >= 3 => Len(t) = 4 /\ t[3] = <<"nulls">> /\ t[4] \in {<<"first">>, <<"last">>}

LEMMA OrderAccepts ==
  ASSUME NEW t \in Seq(Field)
  PROVE  /\ OrderTerm(t).ok <=> (t # <<>> /\ QuoteColumnRef(t[1]).ok /\ OrderTail(t))
         /\ OrderTerm(t).ok => OrderTerm(t).sql = QuoteColumnRef(t[1]).sql \o Rest(t)
<1> DEFINE sql == QuoteColumnRef(t[1]).sql \o Rest(t)
           ok == QuoteColumnRef(t[1]).ok
<1>1. Len(t) \in Nat /\ (t # <<>> <=> Len(t) >= 1)
  OBVIOUS
<1>2. Fail.ok = FALSE /\ Emit(sql).ok = TRUE /\ Emit(sql).sql = sql
  BY DEF Fail, Emit
<1>3. OrderTerm(t) = IF t # <<>> /\ ok /\ OrderTail(t) THEN Emit(sql) ELSE Fail
  <2>1. OrderTerm(t) =
          IF t = <<>> \/ ~ok THEN Fail
          ELSE IF Len(t) >= 2 /\ t[2] \notin {<<"asc">>, <<"desc">>} THEN Fail
          ELSE IF Len(t) >= 3 /\ (Len(t) < 4 \/ ~(t[3] = <<"nulls">>)) THEN Fail
          ELSE IF Len(t) >= 4 /\ t[4] \notin {<<"first">>, <<"last">>} THEN Fail
          ELSE IF Len(t) > 4 THEN Fail
          ELSE Emit(sql)
    BY Zenon DEF OrderTerm, Is
  <2>2. OrderTail(t) <=>
          /\ ~(Len(t) >= 2 /\ t[2] \notin {<<"asc">>, <<"desc">>})
          /\ ~(Len(t) >= 3 /\ (Len(t) < 4 \/ ~(t[3] = <<"nulls">>)))
          /\ ~(Len(t) >= 4 /\ t[4] \notin {<<"first">>, <<"last">>})
          /\ ~(Len(t) > 4)
    <3>1. \A n \in Nat : /\ n >= 4 => n >= 3
                         /\ n >= 3 => (n < 4 \/ n > 4 \/ n = 4)
                         /\ n = 4 => n >= 4 /\ ~(n < 4) /\ ~(n > 4)
                         /\ n > 4 => n >= 3
      OBVIOUS
    <3>. QED  BY <3>1, <1>1, Zenon DEF OrderTail
  <2> HIDE DEF sql, ok
  <2>. QED  BY <2>1, <2>2, Zenon
<1> HIDE DEF sql
<1>. QED  BY <1>2, <1>3 DEF sql

LEMMA RestWords ==
  ASSUME NEW t \in Seq(Field), t # <<>>, OrderTail(t)
  PROVE  Rest(t) \in Seq({"asc", "desc", "nulls", "first", "last"})
<1> DEFINE Fixed == {"asc", "desc", "nulls", "first", "last"}
<1>1. Len(t) \in Nat /\ Len(t) >= 1 /\ Len(t) <= 4
  <2>1. Len(t) \in Nat \ {0}
    BY EmptySeq
  <2>2. Len(t) >= 3 => Len(t) = 4
    BY DEF OrderTail
  <2>3. \A n \in Nat \ {0} : (n >= 3 => n = 4) => n \in Nat /\ n >= 1 /\ n <= 4
    OBVIOUS
  <2>. QED  BY <2>1, <2>2, <2>3, Zenon
<1>2. \A i \in 1..(Len(t) - 1) : t[i + 1][1] \in Fixed
  <2> SUFFICES ASSUME NEW i \in 1..(Len(t) - 1)  PROVE t[i + 1][1] \in Fixed
    OBVIOUS
  <2>1. i = 1 \/ i = 2 \/ i = 3
    BY <1>1
  <2>2. CASE i = 1
    <3>1. t[2] \in {<<"asc">>, <<"desc">>}
      BY <2>2, <1>1 DEF OrderTail
    <3>. QED  BY <3>1, <2>2
  <2>3. CASE i = 2
    <3>1. t[3] = <<"nulls">>
      BY <2>3, <1>1 DEF OrderTail
    <3>. QED  BY <3>1, <2>3
  <2>4. CASE i = 3
    <3>1. t[4] \in {<<"first">>, <<"last">>}
      BY <2>4, <1>1 DEF OrderTail
    <3>. QED  BY <3>1, <2>4
  <2>. QED  BY <2>1, <2>2, <2>3, <2>4
<1>3. Len(t) - 1 \in Nat
  BY <1>1
<1> HIDE DEF Fixed
<1>4. Rest(t) \in [1..(Len(t) - 1) -> Fixed]
  BY <1>2, Zenon DEF Rest
<1>5. Rest(t) \in Seq(Fixed)
  BY <1>3, <1>4
<1>. QED  BY <1>5 DEF Fixed

LEMMA OrderDocumented ==
  ASSUME NEW t \in Seq(Field)
  PROVE  TermGrammar(t) <=>
           /\ t # <<>> /\ t[1] \in Ref
           /\ OrderTail(t) \/ (Len(t) = 3 /\ Tail(t) \in Nulls)
<1> DEFINE Asc == <<<<"asc">>>>
           Desc == <<<<"desc">>>>
           NullsFirst == <<<<"nulls">>, <<"first">>>>
           NullsLast == <<<<"nulls">>, <<"last">>>>
<1>1. \A r : /\ <<r>> \o <<>> = <<r>>
             /\ <<r>> \o Asc = <<r, <<"asc">>>> /\ <<r>> \o Desc = <<r, <<"desc">>>>
             /\ <<r>> \o NullsFirst = <<r, <<"nulls">>, <<"first">>>>
             /\ <<r>> \o NullsLast = <<r, <<"nulls">>, <<"last">>>>
  <2> TAKE r
  <2>1. <<r>> \o <<>> = <<r>>
    OBVIOUS
  <2>2. <<r>> \o Asc = <<r, <<"asc">>>> /\ <<r>> \o Desc = <<r, <<"desc">>>>
    BY JoinOneOne, Zenon
  <2>3. <<r>> \o NullsFirst = <<r, <<"nulls">>, <<"first">>>> /\ <<r>> \o NullsLast = <<r, <<"nulls">>, <<"last">>>>
    BY JoinOneTwo, Zenon
  <2>. QED  BY <2>1, <2>2, <2>3, Zenon
<1>2. \A r, d : /\ <<r, d>> \o <<>> = <<r, d>>
                /\ <<r, d>> \o NullsFirst = <<r, d, <<"nulls">>, <<"first">>>>
                /\ <<r, d>> \o NullsLast = <<r, d, <<"nulls">>, <<"last">>>>
  <2> TAKE r, d
  <2>1. <<r, d>> \o <<>> = <<r, d>>
    OBVIOUS
  <2>2. /\ <<r, d>> \o NullsFirst = <<r, d, <<"nulls">>, <<"first">>>>
        /\ <<r, d>> \o NullsLast = <<r, d, <<"nulls">>, <<"last">>>>
    BY JoinTwoTwo, Zenon
  <2>. QED  BY <2>1, <2>2, Zenon
<1>3. TermGrammar(t) <=>
        \E r \in Ref :
          \/ t \in {<<r>>, <<r, <<"nulls">>, <<"first">>>>, <<r, <<"nulls">>, <<"last">>>>}
          \/ \E d \in {<<"asc">>, <<"desc">>} :
               t \in {<<r, d>>, <<r, d, <<"nulls">>, <<"first">>>>, <<r, d, <<"nulls">>, <<"last">>>>}
  <2>1. Direction = {Asc, Desc} /\ Nulls = {NullsFirst, NullsLast}
    BY DEF Direction, Nulls
  <2>2. \A r : (\E d \in {Asc, Desc} \union {<<>>}, n \in {NullsFirst, NullsLast} \union {<<>>} : t = <<r>> \o d \o n)
              <=> \/ t \in {<<r>> \o <<>> \o <<>>, <<r>> \o <<>> \o NullsFirst, <<r>> \o <<>> \o NullsLast}
                  \/ t \in {<<r>> \o Asc \o <<>>, <<r>> \o Asc \o NullsFirst, <<r>> \o Asc \o NullsLast}
                  \/ t \in {<<r>> \o Desc \o <<>>, <<r>> \o Desc \o NullsFirst, <<r>> \o Desc \o NullsLast}
    BY Zenon
  <2>3. \A r : /\ <<r>> \o <<>> \o <<>> = <<r>>
               /\ <<r>> \o <<>> \o NullsFirst = <<r, <<"nulls">>, <<"first">>>>
               /\ <<r>> \o <<>> \o NullsLast = <<r, <<"nulls">>, <<"last">>>>
    BY <1>1
  <2>4. \A r : /\ <<r>> \o Asc \o <<>> = <<r, <<"asc">>>>
               /\ <<r>> \o Asc \o NullsFirst = <<r, <<"asc">>, <<"nulls">>, <<"first">>>>
               /\ <<r>> \o Asc \o NullsLast = <<r, <<"asc">>, <<"nulls">>, <<"last">>>>
    BY <1>1, <1>2, Zenon
  <2>5. \A r : /\ <<r>> \o Desc \o <<>> = <<r, <<"desc">>>>
               /\ <<r>> \o Desc \o NullsFirst = <<r, <<"desc">>, <<"nulls">>, <<"first">>>>
               /\ <<r>> \o Desc \o NullsLast = <<r, <<"desc">>, <<"nulls">>, <<"last">>>>
    BY <1>1, <1>2, Zenon
  <2> HIDE DEF Asc, Desc, NullsFirst, NullsLast
  <2>6. TermGrammar(t) <=>
          \E r \in Ref : \E d \in {Asc, Desc} \union {<<>>}, n \in {NullsFirst, NullsLast} \union {<<>>} : t = <<r>> \o d \o n
    BY <2>1, Zenon DEF TermGrammar
  <2>7. TermGrammar(t) <=>
          \E r \in Ref :
            \/ t \in {<<r>> \o <<>> \o <<>>, <<r>> \o <<>> \o NullsFirst, <<r>> \o <<>> \o NullsLast}
            \/ t \in {<<r>> \o Asc \o <<>>, <<r>> \o Asc \o NullsFirst, <<r>> \o Asc \o NullsLast}
            \/ t \in {<<r>> \o Desc \o <<>>, <<r>> \o Desc \o NullsFirst, <<r>> \o Desc \o NullsLast}
    BY <2>6, <2>2, Zenon
  <2>8. \A r :
          ( \/ t \in {<<r>> \o <<>> \o <<>>, <<r>> \o <<>> \o NullsFirst, <<r>> \o <<>> \o NullsLast}
            \/ t \in {<<r>> \o Asc \o <<>>, <<r>> \o Asc \o NullsFirst, <<r>> \o Asc \o NullsLast}
            \/ t \in {<<r>> \o Desc \o <<>>, <<r>> \o Desc \o NullsFirst, <<r>> \o Desc \o NullsLast} )
          <=>
          ( \/ t \in {<<r>>, <<r, <<"nulls">>, <<"first">>>>, <<r, <<"nulls">>, <<"last">>>>}
            \/ \E d \in {<<"asc">>, <<"desc">>} :
                 t \in {<<r, d>>, <<r, d, <<"nulls">>, <<"first">>>>, <<r, d, <<"nulls">>, <<"last">>>>} )
    <3> TAKE r
    <3>. QED  BY <2>3, <2>4, <2>5, ZenonT(40)
  <2>. QED  BY <2>7, <2>8, Zenon
<1>4. TermGrammar(t) <=>
        \E r \in Ref :
          /\ t[1] = r
          /\ \/ Len(t) = 1
             \/ Len(t) = 3 /\ t[2] = <<"nulls">> /\ t[3] \in {<<"first">>, <<"last">>}
             \/ Len(t) = 2 /\ t[2] \in {<<"asc">>, <<"desc">>}
             \/ /\ Len(t) = 4 /\ t[2] \in {<<"asc">>, <<"desc">>}
                /\ t[3] = <<"nulls">> /\ t[4] \in {<<"first">>, <<"last">>}
  <2>1. \A r : t = <<r>> <=> Len(t) = 1 /\ t[1] = r
    BY TupleOne, Zenon
  <2>2. \A r, d : t = <<r, d>> <=> Len(t) = 2 /\ t[1] = r /\ t[2] = d
    BY TupleTwo, Zenon
  <2>3. \A r, d, e : t = <<r, d, e>> <=> Len(t) = 3 /\ t[1] = r /\ t[2] = d /\ t[3] = e
    <3> TAKE r, d, e
    <3>. QED  OBVIOUS
  <2>4. \A r, d, e, f : t = <<r, d, e, f>> <=>
                           Len(t) = 4 /\ t[1] = r /\ t[2] = d /\ t[3] = e /\ t[4] = f
    <3> TAKE r, d, e, f
    <3>. QED  OBVIOUS
  <2>5. \A r : t \in {<<r>>, <<r, <<"nulls">>, <<"first">>>>, <<r, <<"nulls">>, <<"last">>>>} <=>
               /\ t[1] = r
               /\ Len(t) = 1 \/ (Len(t) = 3 /\ t[2] = <<"nulls">> /\ t[3] \in {<<"first">>, <<"last">>})
    <3> TAKE r
    <3>1. t = <<r, <<"nulls">>, <<"first">>>> <=>
            Len(t) = 3 /\ t[1] = r /\ t[2] = <<"nulls">> /\ t[3] = <<"first">>
      BY <2>3, Zenon
    <3>2. t = <<r, <<"nulls">>, <<"last">>>> <=>
            Len(t) = 3 /\ t[1] = r /\ t[2] = <<"nulls">> /\ t[3] = <<"last">>
      BY <2>3, Zenon
    <3>3. t = <<r>> <=> Len(t) = 1 /\ t[1] = r
      BY <2>1, Zenon
    <3>. QED  BY <3>1, <3>2, <3>3, Zenon
  <2>6. \A r, d : t \in {<<r, d>>, <<r, d, <<"nulls">>, <<"first">>>>, <<r, d, <<"nulls">>, <<"last">>>>} <=>
               /\ t[1] = r /\ t[2] = d
               /\ Len(t) = 2 \/ (Len(t) = 4 /\ t[3] = <<"nulls">> /\ t[4] \in {<<"first">>, <<"last">>})
    <3> TAKE r, d
    <3>1. t = <<r, d, <<"nulls">>, <<"first">>>> <=>
            Len(t) = 4 /\ t[1] = r /\ t[2] = d /\ t[3] = <<"nulls">> /\ t[4] = <<"first">>
      BY <2>4
    <3>2. t = <<r, d, <<"nulls">>, <<"last">>>> <=>
            Len(t) = 4 /\ t[1] = r /\ t[2] = d /\ t[3] = <<"nulls">> /\ t[4] = <<"last">>
      BY <2>4
    <3>3. t = <<r, d>> <=> Len(t) = 2 /\ t[1] = r /\ t[2] = d
      BY <2>2
    <3>. QED  BY <3>1, <3>2, <3>3, Zenon
  <2>. QED  BY <1>3, <2>5, <2>6, ZenonT(60)
<1>5. Len(t) = 3 => (Tail(t) \in Nulls <=> t[2] = <<"nulls">> /\ t[3] \in {<<"first">>, <<"last">>})
  <2> SUFFICES ASSUME Len(t) = 3
               PROVE  Tail(t) \in Nulls <=> t[2] = <<"nulls">> /\ t[3] \in {<<"first">>, <<"last">>}
    OBVIOUS
  <2>1. \A u, v : Tail(t) = <<u, v>> <=> t[2] = u /\ t[3] = v
    BY TailTwo, Zenon
  <2>. QED  BY <2>1, Zenon DEF Nulls
<1>6. (Len(t) = 1 \/ (Len(t) = 2 /\ t[2] \in {<<"asc">>, <<"desc">>})
         \/ (/\ Len(t) = 4 /\ t[2] \in {<<"asc">>, <<"desc">>}
             /\ t[3] = <<"nulls">> /\ t[4] \in {<<"first">>, <<"last">>}))
        <=> (t # <<>> /\ OrderTail(t))
  <2>1. Len(t) \in Nat /\ (t # <<>> <=> Len(t) # 0)
    BY EmptySeq
  <2>2. \A n \in Nat : /\ n = 1 => ~(n >= 2) /\ ~(n >= 3)
                       /\ n = 2 => n >= 2 /\ ~(n >= 3) /\ n # 0
                       /\ n = 4 => n >= 2 /\ n >= 3 /\ n # 0
                       /\ n # 0 => n = 1 \/ n = 2 \/ n >= 3
                       /\ 1 # 0
    OBVIOUS
  <2>. QED  BY <2>1, <2>2, Zenon DEF OrderTail
<1>7. Len(t) = 3 => t # <<>>
  OBVIOUS
<1>. QED  BY <1>4, <1>5, <1>6, <1>7, Zenon

LEMMA OrderExact ==
  ASSUME NEW t \in Seq(Field)
  PROVE  /\ OrderTerm(t).ok =>
              TermGrammar(t) /\ Inert(OrderTerm(t).sql, {"asc", "desc", "nulls", "first", "last"})
         /\ TermGrammar(t) /\ ~OrderTerm(t).ok => Len(t) = 3 /\ Tail(t) \in Nulls
<1> DEFINE Fixed == {"asc", "desc", "nulls", "first", "last"}
<1>1. t # <<>> => t[1] \in Field
  <2>1. t # <<>> => 1 \in 1..Len(t)
    OBVIOUS
  <2>. QED  BY <2>1, ElementOfSeq
<1>2. t # <<>> => (QuoteColumnRef(t[1]).ok <=> t[1] \in Ref)
  BY <1>1, RefExact
<1>3. ASSUME OrderTerm(t).ok
      PROVE  Inert(OrderTerm(t).sql, Fixed)
  <2>1. /\ t # <<>> /\ QuoteColumnRef(t[1]).ok /\ OrderTail(t)
        /\ OrderTerm(t).sql = QuoteColumnRef(t[1]).sql \o Rest(t)
    BY <1>3, OrderAccepts
  <2>2. QuoteColumnRef(t[1]).sql \in Seq(Harmless)
    BY <2>1, <1>1, RefExact
  <2>3. Rest(t) \in Seq(Fixed)
    BY <2>1, RestWords
  <2> HIDE DEF Fixed
  <2>4. OrderTerm(t).sql \in Seq(Harmless \union Fixed)
    <3>1. QuoteColumnRef(t[1]).sql \in Seq(Harmless \union Fixed)
      BY <2>2, SeqMonotonic
    <3>2. Rest(t) \in Seq(Harmless \union Fixed)
      BY <2>3, SeqMonotonic
    <3>. QED  BY <2>1, <3>1, <3>2, ConcatProperties
  <2>. QED  BY <2>4, InertSeq
<1>4. OrderTerm(t).ok => TermGrammar(t)
  BY <1>2, OrderAccepts, OrderDocumented
<1>5. TermGrammar(t) /\ ~OrderTerm(t).ok => Len(t) = 3 /\ Tail(t) \in Nulls
  BY <1>2, OrderAccepts, OrderDocumented
<1>. QED  BY <1>3, <1>4, <1>5

LEMMA AliasedExact ==
  ASSUME NEW f \in Field, NEW a \in Field
  PROVE  /\ Aliased(f, a).ok <=> (f \in Ref /\ \E w \in Keyword \union {"col"} : a = <<w>>)
         /\ Aliased(f, a).ok => Inert(Aliased(f, a).sql, {"AS"})
<1> DEFINE ok == QuoteColumnRef(f).ok /\ Len(a) = 1 /\ IsSafeIdentSegment(a[1])
           tail == <<"AS", Quote(a[1])>>
           sql == QuoteColumnRef(f).sql \o tail
<1>1. Aliased(f, a) = IF ok THEN Emit(sql) ELSE Fail
  BY Zenon DEF Aliased
<1>2. (Len(a) = 1 /\ IsSafeIdentSegment(a[1])) <=> \E w \in Keyword \union {"col"} : a = <<w>>
  <2>1. CASE \E w \in Word \ {"empty"} : a = <<w>>
    BY <2>1 DEF IsSafeIdentSegment
  <2>2. CASE a \in {<<"col", "col">>, <<"col", "*">>, <<"*", "col">>, <<"col", "empty">>, <<"col", "col", "col">>}
    BY <2>2
  <2>. QED  BY <2>1, <2>2 DEF Field
<1>3. ok <=> (f \in Ref /\ \E w \in Keyword \union {"col"} : a = <<w>>)
  BY <1>2, RefExact
<1>4. ASSUME ok  PROVE Inert(sql, {"AS"})
  <2>1. QuoteColumnRef(f).sql \in Seq(Harmless \union {"AS"})
    <3>1. QuoteColumnRef(f).sql \in Seq(Harmless)
      BY <1>4, RefExact
    <3>. QED  BY <3>1, SeqMonotonic
  <2>2. tail \in Seq(Harmless \union {"AS"})
    <3>1. Quote(a[1]) \in Harmless
      BY <1>4 DEF Harmless, IsSafeIdentSegment, Word
    <3>. QED  BY <3>1
  <2> HIDE DEF tail
  <2>3. sql \in Seq(Harmless \union {"AS"})
    BY <2>1, <2>2, ConcatProperties
  <2>. QED  BY <2>3, InertSeq
<1> HIDE DEF sql, ok
<1>5. Emit(sql).ok = TRUE /\ Emit(sql).sql = sql /\ Fail.ok = FALSE
  BY DEF Emit, Fail
<1>. QED  BY <1>1, <1>3, <1>4, <1>5

LEMMA SelectExact ==
  ASSUME NEW t \in Seq(Field)
  PROVE  /\ QuoteSelectExpr(t).ok <=> SelectGrammar(t)
         /\ QuoteSelectExpr(t).ok => Inert(QuoteSelectExpr(t).sql, {"AS"})
<1> DEFINE Quoted == Keyword \union {"col"}
<1>0. Len(t) \in Nat /\ \A i \in 1..Len(t) : t[i] \in Field
  BY LenProperties, ElementOfSeq
<1>1. SelectGrammar(t) <=>
        \/ Len(t) = 1 /\ t[1] \in Ref
        \/ Len(t) = 2 /\ t[1] \in Ref /\ \E w \in Quoted : t[2] = <<w>>
        \/ Len(t) = 3 /\ t[1] \in Ref /\ t[2] = <<"as">> /\ \E w \in Quoted : t[3] = <<w>>
  <2>1. \A r : t = <<r>> <=> Len(t) = 1 /\ t[1] = r
    BY TupleOne, Zenon
  <2>2. \A r, d : t = <<r, d>> <=> Len(t) = 2 /\ t[1] = r /\ t[2] = d
    BY TupleTwo, Zenon
  <2>3. \A r, d, e : t = <<r, d, e>> <=> Len(t) = 3 /\ t[1] = r /\ t[2] = d /\ t[3] = e
    <3> TAKE r, d, e
    <3>. QED  OBVIOUS
  <2>4. "col" \in Quoted
    OBVIOUS
  <2> HIDE DEF Quoted
  <2>5. SelectGrammar(t) <=>
          \E r \in Ref, w \in Quoted : t = <<r>> \/ t = <<r, <<w>>>> \/ t = <<r, <<"as">>, <<w>>>>
    BY Zenon DEF SelectGrammar, Quoted
  <2>6. \A r, w : t = <<r, <<"as">>, <<w>>>> <=>
                     Len(t) = 3 /\ t[1] = r /\ t[2] = <<"as">> /\ t[3] = <<w>>
    <3> TAKE r, w
    <3>. QED  BY <2>3
  <2>7. \A r, w : t = <<r, <<w>>>> <=> Len(t) = 2 /\ t[1] = r /\ t[2] = <<w>>
    BY <2>2, Zenon
  <2>8. SelectGrammar(t) <=>
          \E r \in Ref, w \in Quoted :
            \/ Len(t) = 1 /\ t[1] = r
            \/ Len(t) = 2 /\ t[1] = r /\ t[2] = <<w>>
            \/ Len(t) = 3 /\ t[1] = r /\ t[2] = <<"as">> /\ t[3] = <<w>>
    BY <2>1, <2>5, <2>6, <2>7, Zenon
  <2>. QED  BY <2>4, <2>8, Zenon
<1>2. QuoteSelectExpr(t) =
        IF Len(t) = 1 THEN QuoteColumnRef(t[1])
        ELSE IF Len(t) = 2 THEN Aliased(t[1], t[2])
        ELSE IF Len(t) = 3 /\ t[2] = <<"as">> THEN Aliased(t[1], t[3]) ELSE Fail
  BY <1>0 DEF QuoteSelectExpr, Is
<1>3. CASE Len(t) = 1
  <2>1. t[1] \in Field
    BY <1>0, <1>3
  <2>2. QuoteSelectExpr(t) = QuoteColumnRef(t[1])
    BY <1>2, <1>3, Zenon
  <2>3. QuoteColumnRef(t[1]).ok => Inert(QuoteColumnRef(t[1]).sql, {"AS"})
    <3> SUFFICES ASSUME QuoteColumnRef(t[1]).ok  PROVE Inert(QuoteColumnRef(t[1]).sql, {"AS"})
      OBVIOUS
    <3>1. QuoteColumnRef(t[1]).sql \in Seq(Harmless)
      BY <2>1, RefExact
    <3>2. QuoteColumnRef(t[1]).sql \in Seq(Harmless \union {"AS"})
      BY <3>1, SeqMonotonic
    <3>. QED  BY <3>2, InertSeq
  <2>4. SelectGrammar(t) <=> t[1] \in Ref
    BY <1>1, <1>3
  <2>. QED  BY <2>1, <2>2, <2>3, <2>4, RefExact, Zenon
<1>4. CASE Len(t) = 2
  <2>1. t[1] \in Field /\ t[2] \in Field
    BY <1>0, <1>4
  <2>2. QuoteSelectExpr(t) = Aliased(t[1], t[2])
    BY <1>2, <1>4
  <2>4. SelectGrammar(t) <=> t[1] \in Ref /\ \E w \in Quoted : t[2] = <<w>>
    BY <1>1, <1>4
  <2>. QED  BY <2>1, <2>2, <2>4, AliasedExact, Zenon
<1>5. CASE Len(t) = 3 /\ t[2] = <<"as">>
  <2>1. t[1] \in Field /\ t[3] \in Field
    BY <1>0, <1>5
  <2>2. QuoteSelectExpr(t) = Aliased(t[1], t[3])
    BY <1>2, <1>5
  <2>4. SelectGrammar(t) <=> t[1] \in Ref /\ \E w \in Quoted : t[3] = <<w>>
    BY <1>1, <1>5
  <2>. QED  BY <2>1, <2>2, <2>4, AliasedExact, Zenon
<1>6. CASE Len(t) # 1 /\ Len(t) # 2 /\ ~(Len(t) = 3 /\ t[2] = <<"as">>)
  <2>1. QuoteSelectExpr(t) = Fail
    BY <1>2, <1>6, Zenon
  <2>2. ~SelectGrammar(t)
    BY <1>1, <1>6, Zenon
  <2>. QED  BY <2>1, <2>2 DEF Fail
<1>. QED  BY <1>3, <1>4, <1>5, <1>6

\* A list of parts: sanitizeOrderBy accepts it part by part.
LEMMA OrderListExact ==
  ASSUME NEW x \in Seq(Seq(Field)), NEW o, o = SanitizeOrderBy(x)
  PROVE  /\ o.ok => /\ DocumentedOrder(x)
                    /\ \A i \in DOMAIN x : Inert(o.sql[i], {"asc", "desc", "nulls", "first", "last"})
         /\ DocumentedOrder(x) /\ (\A i \in DOMAIN x : ~NullsAlone(x[i])) => o.ok
<1> DEFINE Fixed == {"asc", "desc", "nulls", "first", "last"}
           good == \A i \in DOMAIN x : OrderTerm(x[i]).ok
           sql == [i \in DOMAIN x |-> OrderTerm(x[i]).sql]
<1>1. \A i \in DOMAIN x : x[i] \in Seq(Field)
  <2>1. \A S : \A y \in Seq(S) : \A i \in DOMAIN y : y[i] \in S
    BY LenProperties, ElementOfSeq
  <2>. QED  BY <2>1, Zenon
<1>2. \A i \in DOMAIN x :
         /\ OrderTerm(x[i]).ok => TermGrammar(x[i]) /\ Inert(OrderTerm(x[i]).sql, Fixed)
         /\ TermGrammar(x[i]) /\ ~OrderTerm(x[i]).ok => NullsAlone(x[i])
  <2>1. \A t \in Seq(Field) :
          /\ OrderTerm(t).ok => TermGrammar(t) /\ Inert(OrderTerm(t).sql, Fixed)
          /\ TermGrammar(t) /\ ~OrderTerm(t).ok => NullsAlone(t)
    BY OrderExact, Zenon DEF NullsAlone
  <2>. QED  BY <1>1, <2>1, Zenon
<1> HIDE DEF Fixed
<1>3. o = IF good THEN Emit(sql) ELSE Fail
  BY Zenon DEF SanitizeOrderBy
<1>4. \A i \in DOMAIN x : sql[i] = OrderTerm(x[i]).sql
  BY Zenon
<1> HIDE DEF good, sql
<1>5. Emit(sql).ok = TRUE /\ Emit(sql).sql = sql /\ Fail.ok = FALSE
  BY DEF Emit, Fail
<1>6. (o.ok <=> good) /\ (o.ok => o.sql = sql)
  BY <1>3, <1>5
<1>7. ASSUME o.ok
      PROVE  DocumentedOrder(x) /\ \A i \in DOMAIN x : Inert(o.sql[i], Fixed)
  <2>1. \A i \in DOMAIN x : TermGrammar(x[i]) /\ Inert(OrderTerm(x[i]).sql, Fixed)
    BY <1>2, <1>6, <1>7, Zenon DEF good
  <2>2. o.sql = sql
    BY <1>6, <1>7
  <2>. QED  BY <1>4, <2>1, <2>2, Zenon DEF DocumentedOrder
<1>8. ASSUME DocumentedOrder(x), \A i \in DOMAIN x : ~NullsAlone(x[i])
      PROVE  o.ok
  <2>1. good
    BY <1>2, <1>8, Zenon DEF DocumentedOrder, good
  <2>. QED  BY <1>6, <2>1
<1>. QED  BY <1>7, <1>8, Zenon DEF Fixed

\* For texts of any length and any number of parts: what ORDER BY accepts is in
\* the grammar and inert, what the grammar produces with a direction wherever
\* it places the NULLs is accepted, and SELECT accepts exactly its grammar
\* (builder.go 822-941).
THEOREM TextsSafe == IdentSpec => []TextsSanitized
<1> DEFINE Part == Seq(Field)
           Inv == text \in Seq(Part) /\ text # <<>>
<1>1. <<>> \in Part /\ \A t \in Part, f \in Sample : Append(t, f) \in Part
  BY IdentAssumption
<1> HIDE DEF Part
<1>2. IdentInit => Inv
  BY <1>1 DEF IdentInit
<1>3. Inv /\ [IdentNext]_identVars => Inv'
  <2> SUFFICES ASSUME Inv, [IdentNext]_identVars  PROVE Inv'
    OBVIOUS
  <2>1. CASE UNCHANGED identVars
    BY <2>1 DEF identVars
  <2>2. CASE AddField
    <3> PICK f \in Sample : text' = [text EXCEPT ![Len(text)] = Append(@, f)]
      BY <2>2 DEF AddField
    <3>1. Len(text) \in 1..Len(text) /\ DOMAIN text = 1..Len(text)
      OBVIOUS
    <3>2. text[Len(text)] \in Part
      BY <3>1
    <3>3. Append(text[Len(text)], f) \in Part
      BY <3>2, <1>1
    <3>. QED  BY <3>1, <3>3
  <2>3. CASE AddComma
    BY <2>3, <1>1 DEF AddComma
  <2>. QED  BY <2>1, <2>2, <2>3 DEF IdentNext
<1>4. Inv => TextsSanitized
  <2> SUFFICES ASSUME Inv  PROVE TextsSanitized
    OBVIOUS
  <2>1. text \in Seq(Seq(Field))
    BY DEF Part
  <2>2. text[1] \in Seq(Field)
    <3>1. 1 \in 1..Len(text)
      OBVIOUS
    <3>2. text[1] \in Part
      BY <3>1
    <3>. QED  BY <3>2 DEF Part
  <2>3. /\ SanitizeOrderBy(text).ok =>
             /\ DocumentedOrder(text)
             /\ \A i \in DOMAIN text : Inert(SanitizeOrderBy(text).sql[i], {"asc", "desc", "nulls", "first", "last"})
        /\ DocumentedOrder(text) /\ (\A i \in DOMAIN text : ~NullsAlone(text[i])) => SanitizeOrderBy(text).ok
    BY <2>1, OrderListExact, Zenon
  <2>4. /\ QuoteSelectExpr(text[1]).ok <=> SelectGrammar(text[1])
        /\ QuoteSelectExpr(text[1]).ok => Inert(QuoteSelectExpr(text[1]).sql, {"AS"})
    BY <2>2, SelectExact, Zenon
  <2>. QED  BY <2>3, <2>4, Zenon DEF TextsSanitized
<1>. QED  BY <1>2, <1>3, <1>4, PTL DEF IdentSpec

---------------------------------------------------------------------------
(* Query builders.  While a chain runs, the clauses of the builder are     *)
(* those of the calls that add one, in their order (Linked), its flags say *)
(* which calls were made, and its arguments are bound to the clauses they  *)
(* came with, whatever SET and HAVING put before and behind them           *)
(* (ClauseBinds).  The rows follow from that, and the pages from the place *)
(* of a row in key order.                                                  *)

\* Counting up: a set of numbers that has 0, and each number after one it has.
LEMMA CountUp ==
  ASSUME NEW n \in Nat, NEW S, 0 \in S, \A k \in 1..n : k - 1 \in S => k \in S
  PROVE  \A k \in 0..n : k \in S
<1> DEFINE T == {k \in 0..n : k \notin S}
<1> SUFFICES ASSUME T # {} PROVE FALSE
  OBVIOUS
<1>1. T \subseteq Nat
  OBVIOUS
<1>2. PICK i \in T : \A k \in T : ~(<<k, i>> \in OpToRel(<, Nat))
  BY <1>1, WFMin, NatLessThanWellFounded
<1>3. i \in 0..n /\ i \notin S /\ i # 0
  OBVIOUS
<1>4. i \in 1..n /\ i - 1 \in 0..n /\ i - 1 < i /\ i - 1 \in Nat /\ i \in Nat
  BY <1>3
<1>5. i - 1 \in T
  BY <1>3, <1>4
<1>6. <<i - 1, i>> \in OpToRel(<, Nat)
  BY <1>4 DEF OpToRel
<1> QED BY <1>2, <1>5, <1>6

\* g starts with x and goes on by step.
RunsBy(g, n, V, x, step) ==
  g \in [0..n -> V] /\ g[0] = x /\ \A k \in 1..n : g[k] = step[<<g[k - 1], k>>]

\* A run from x by step exists, however long.
LEMMA RunExists ==
  ASSUME NEW n \in Nat, NEW V, NEW x \in V, NEW step \in [V \X (1..n) -> V]
  PROVE  \E g : RunsBy(g, n, V, x, step)
<1> DEFINE Runs(i) == \E g : RunsBy(g, i, V, x, step)
           S == {i \in 0..n : Runs(i)}
<1>1. Runs(0)
  <2> DEFINE g == [j \in 0..0 |-> x]
  <2>1. g \in [0..0 -> V] /\ g[0] = x /\ \A k \in 1..0 : g[k] = step[<<g[k - 1], k>>]
    OBVIOUS
  <2> QED BY <2>1 DEF RunsBy
<1>2. ASSUME NEW i \in 1..n, Runs(i - 1) PROVE Runs(i)
  <2>1. PICK g \in [0..(i - 1) -> V] : g[0] = x /\ \A k \in 1..(i - 1) : g[k] = step[<<g[k - 1], k>>]
    BY <1>2 DEF RunsBy
  <2>2. i - 1 \in 0..(i - 1) /\ 0 \in 0..(i - 1) /\ ~(i <= i - 1) /\ i \in 0..i /\ 0 \in 0..i
    OBVIOUS
  <2>3. <<g[i - 1], i>> \in V \X (1..n)
    BY <2>1, <2>2
  <2> DEFINE y == step[<<g[i - 1], i>>]
             f == [j \in 0..i |-> IF j = i THEN y ELSE g[j]]
  <2>4. y \in V
    BY <2>3
  <2>5. \A j \in 0..i : j # i => j \in 0..(i - 1)
    OBVIOUS
  <2> HIDE DEF y
  <2>6. f \in [0..i -> V]
    BY <2>1, <2>4, <2>5
  <2>7. f[i] = y /\ \A j \in 0..(i - 1) : f[j] = g[j]
    <3>1. \A j \in 0..(i - 1) : j \in 0..i /\ j # i
      OBVIOUS
    <3> QED BY <2>2, <3>1, Zenon
  <2> HIDE DEF f
  <2>8. f[0] = x
    BY <2>1, <2>2, <2>7
  <2>9. ASSUME NEW k \in 1..i PROVE f[k] = step[<<f[k - 1], k>>]
    <3>1. CASE k = i
      BY <2>2, <2>7, <3>1 DEF y
    <3>2. CASE k # i
      <4>1. k \in 1..(i - 1) /\ k \in 0..(i - 1) /\ k - 1 \in 0..(i - 1)
        BY <3>2
      <4> QED BY <2>1, <2>7, <4>1
    <3> QED BY <3>1, <3>2
  <2> QED BY <2>6, <2>8, <2>9 DEF RunsBy
<1> HIDE DEF Runs
<1>3. 0 \in S
  BY <1>1
<1>4. \A k \in 1..n : k - 1 \in S => k \in S
  BY <1>2
<1> HIDE DEF S
<1>5. n \in S
  BY <1>3, <1>4, CountUp
<1>6. Runs(n)
  BY <1>5 DEF S
<1> QED BY <1>6 DEF Runs

ClauseText == {"in", "notin", "true", "false"}
WhereRec == [text : ClauseText, args : Seq(Id), or : BOOLEAN]

\* The arguments of the first k clauses are those of the first k - 1 and then those
\* of the k-th.
LEMMA ArgsOfIs ==
  ASSUME NEW w \in Seq(WhereRec)
  PROVE  /\ ArgsOf(w)[0] = <<>>
         /\ \A k \in 1..Len(w) : ArgsOf(w)[k] = ArgsOf(w)[k - 1] \o w[k].args
         /\ \A k \in 0..Len(w) : ArgsOf(w)[k] \in Seq(Id)
<1> DEFINE n == Len(w)
           F(g, k) == IF k = 0 THEN <<>> ELSE g[k - 1] \o w[k].args
           P(g) == g = [k \in 0..n |-> F(g, k)]
           a == CHOOSE g : P(g)
           V == Seq(Id)
           step == [vk \in V \X (1..n) |-> vk[1] \o w[vk[2]].args]
<1>1. ArgsOf(w) = a
  BY DEF ArgsOf
<1>2. n \in Nat /\ \A k \in 1..n : w[k].args \in V
  <2>1. n \in Nat /\ \A k \in 1..n : w[k] \in WhereRec
    OBVIOUS
  <2> HIDE DEF n
  <2>2. \A r \in WhereRec : r.args \in Seq(Id)
    BY Zenon DEF WhereRec
  <2> QED BY <2>1, <2>2, Zenon
<1>3. <<>> \in V
  OBVIOUS
<1> HIDE DEF n
<1>4. \A v \in V, u \in V : v \o u \in V
  OBVIOUS
<1>5. step \in [V \X (1..n) -> V]
  <2> HIDE DEF V
  <2> QED BY <1>2, <1>4
<1>6. \A v \in V, k \in 1..n : step[<<v, k>>] = v \o w[k].args
  <2> HIDE DEF V
  <2> QED OBVIOUS
<1> HIDE DEF step, V
<1>7. PICK h \in [0..n -> V] : h[0] = <<>> /\ \A k \in 1..n : h[k] = step[<<h[k - 1], k>>]
  <2>1. \E h : RunsBy(h, n, V, <<>>, step)
    BY <1>2, <1>3, <1>5, RunExists
  <2> QED BY <2>1 DEF RunsBy
<1>8. \A k \in 0..n : h[k] = F(h, k)
  <2>1. \A k \in 0..n : k # 0 => k \in 1..n /\ k - 1 \in 0..n
    BY <1>2
  <2> QED BY <1>6, <1>7, <2>1
<1> HIDE DEF F
<1>9. P(h)
  <2>1. h = [k \in 0..n |-> h[k]]
    BY <1>7
  <2> QED BY <1>8, <2>1, Zenon
<1> HIDE DEF P
<1>10. P(a)
  BY <1>9, Zenon
<1> HIDE DEF a
<1>11. \A k \in 0..n : a[k] = F(a, k)
  BY <1>10, Zenon DEF P
<1>12. a[0] = <<>> /\ \A k \in 1..n : a[k] = a[k - 1] \o w[k].args
  <2>1. 0 \in 0..n /\ \A k \in 1..n : k \in 0..n /\ k # 0
    BY <1>2
  <2> QED BY <1>11, <2>1 DEF F
<1>13. \A k \in 0..n : a[k] \in V
  <2> DEFINE S == {k \in 0..n : a[k] \in V}
  <2>1. 0 \in S
    BY <1>2, <1>3, <1>12
  <2>2. ASSUME NEW k \in 1..n, k - 1 \in S PROVE k \in S
    <3>1. k \in 0..n /\ a[k - 1] \in V /\ w[k].args \in V
      BY <1>2, <2>2
    <3>2. a[k] \in V
      BY <1>4, <1>12, <3>1
    <3> QED BY <3>1, <3>2
  <2> HIDE DEF S
  <2>3. \A k \in 1..n : k - 1 \in S => k \in S
    BY <2>2
  <2>4. \A k \in 0..n : k \in S
    BY <1>2, <2>1, <2>3, CountUp, Zenon
  <2> QED BY <2>4 DEF S
<1> QED BY <1>1, <1>12, <1>13 DEF n, V

\* The placeholders of the first k clauses.
LEMMA PlaceholdersIs ==
  ASSUME NEW s, Len(s.where) \in Nat, s.sets \in Nat, \A k \in 1..Len(s.where) : s.where[k].n \in Nat
  PROVE  /\ Placeholders(s)[0] = s.sets
         /\ \A k \in 1..Len(s.where) : Placeholders(s)[k] = Placeholders(s)[k - 1] + s.where[k].n
         /\ \A k \in 0..Len(s.where) : Placeholders(s)[k] \in Nat
<1> DEFINE n == Len(s.where)
           F(g, k) == IF k = 0 THEN s.sets ELSE g[k - 1] + s.where[k].n
           P(g) == g = [k \in 0..n |-> F(g, k)]
           a == CHOOSE g : P(g)
           step == [vk \in Nat \X (1..n) |-> vk[1] + s.where[vk[2]].n]
<1>1. Placeholders(s) = a
  BY DEF Placeholders
<1>2. n \in Nat /\ \A k \in 1..n : s.where[k].n \in Nat
  OBVIOUS
<1> HIDE DEF n
<1>5. step \in [Nat \X (1..n) -> Nat]
  BY <1>2
<1>6. \A v \in Nat, k \in 1..n : step[<<v, k>>] = v + s.where[k].n
  OBVIOUS
<1> HIDE DEF step
<1>7. PICK h \in [0..n -> Nat] : h[0] = s.sets /\ \A k \in 1..n : h[k] = step[<<h[k - 1], k>>]
  <2>1. \E h : RunsBy(h, n, Nat, s.sets, step)
    BY <1>2, <1>5, RunExists
  <2> QED BY <2>1 DEF RunsBy
<1>8. \A k \in 0..n : h[k] = F(h, k)
  <2>1. \A k \in 0..n : k # 0 => k \in 1..n /\ k - 1 \in 0..n
    BY <1>2
  <2> QED BY <1>6, <1>7, <2>1
<1> HIDE DEF F
<1>9. P(h)
  <2>1. h = [k \in 0..n |-> h[k]]
    BY <1>7
  <2> QED BY <1>8, <2>1, Zenon
<1> HIDE DEF P
<1>10. P(a)
  BY <1>9, Zenon
<1> HIDE DEF a
<1>11. \A k \in 0..n : a[k] = F(a, k)
  BY <1>10, Zenon DEF P
<1>12. a[0] = s.sets /\ \A k \in 1..n : a[k] = a[k - 1] + s.where[k].n
  <2>1. 0 \in 0..n /\ \A k \in 1..n : k \in 0..n /\ k # 0
    BY <1>2
  <2> QED BY <1>11, <2>1 DEF F
<1>13. \A k \in 0..n : a[k] \in Nat
  <2> DEFINE S == {k \in 0..n : a[k] \in Nat}
  <2>1. 0 \in S
    BY <1>2, <1>12
  <2>2. ASSUME NEW k \in 1..n, k - 1 \in S PROVE k \in S
    <3>1. k \in 0..n /\ a[k - 1] \in Nat /\ s.where[k].n \in Nat
      BY <1>2, <2>2
    <3>2. a[k] \in Nat
      BY <1>12, <3>1
    <3> QED BY <3>1, <3>2
  <2> HIDE DEF S
  <2>3. \A k \in 1..n : k - 1 \in S => k \in S
    BY <2>2
  <2>4. \A k \in 0..n : k \in S
    BY <1>2, <2>1, <2>3, CountUp, Zenon
  <2> QED BY <2>4 DEF S
<1> QED BY <1>1, <1>12, <1>13 DEF n

\* What a list of clauses is made of.
LEMMA WheresAre ==
  ASSUME NEW w \in Seq(WhereRec)
  PROVE  /\ Len(w) \in Nat /\ DOMAIN w = 1..Len(w)
         /\ \A k \in 1..Len(w) : /\ w[k] \in WhereRec /\ w[k].args \in Seq(Id) /\ Len(w[k].args) \in Nat
                                 /\ w[k].text \in ClauseText /\ w[k].or \in BOOLEAN
<1>1. Len(w) \in Nat /\ DOMAIN w = 1..Len(w) /\ \A k \in 1..Len(w) : w[k] \in WhereRec
  OBVIOUS
<1>2. \A r \in WhereRec : r.args \in Seq(Id) /\ r.text \in ClauseText /\ r.or \in BOOLEAN
  BY Zenon DEF WhereRec
<1>3. \A q \in Seq(Id) : Len(q) \in Nat
  OBVIOUS
<1> QED BY <1>1, <1>2, <1>3, Zenon

\* Two sequences one after the other.
LEMMA CatIs ==
  ASSUME NEW E, NEW p \in Seq(E), NEW q \in Seq(E)
  PROVE  /\ p \o q \in Seq(E) /\ Len(p) \in Nat /\ Len(q) \in Nat /\ Len(p \o q) = Len(p) + Len(q)
         /\ \A j \in 1..Len(p) : (p \o q)[j] = p[j]
         /\ \A j \in 1..Len(q) : (p \o q)[Len(p) + j] = q[j]
OBVIOUS

LEMMA AddUp ==
  ASSUME NEW a \in Nat, NEW c \in Nat, NEW d \in Nat, NEW x, NEW y, NEW z, x = y + d, y = a + c, z = c + d
  PROVE  x = a + z /\ y \in Nat /\ x \in Nat
OBVIOUS

LEMMA RunAfter ==
  ASSUME NEW a \in Nat, NEW c \in Nat, NEW m, m = a + c
  PROVE  \A j \in 1..c : a + j \in 1..m
OBVIOUS

LEMMA IdSeq ==
  ASSUME NEW q \in Seq(Id)
  PROVE  q \in Seq(Nat) /\ Len(q) \in Nat
<1>1. Id \subseteq Nat
  BY BuilderAssumption
<1>2. Len(q) \in Nat /\ q \in [1..Len(q) -> Id]
  OBVIOUS
<1>3. q \in [1..Len(q) -> Nat]
  BY <1>1, <1>2, Zenon
<1> QED BY <1>2, <1>3

\* A run of places and the same run from 1.
Same(f, o, n, q) == \A j \in 1..n : f[o + j] = q[j]

SameSet(f, o, n, q) == {f[j] : j \in (o + 1) .. (o + n)} = {q[j] : j \in 1..n}

\* Both runs have the same values.
LEMMA Shifted ==
  ASSUME NEW o \in Nat, NEW n \in Nat, NEW f, NEW q, Same(f, o, n, q)
  PROVE  SameSet(f, o, n, q)
<1>1. \A j \in (o + 1) .. (o + n) : j - o \in 1..n /\ o + (j - o) = j
  OBVIOUS
<1>2. \A j \in 1..n : o + j \in (o + 1) .. (o + n)
  OBVIOUS
<1>3. \A j \in (o + 1) .. (o + n) : f[j] = q[j - o]
  BY <1>1 DEF Same
<1>4. ASSUME NEW v \in {f[j] : j \in (o + 1) .. (o + n)} PROVE v \in {q[j] : j \in 1..n}
  <2>1. PICK j \in (o + 1) .. (o + n) : v = f[j]
    OBVIOUS
  <2> QED BY <1>1, <1>3, <2>1
<1>5. ASSUME NEW v \in {q[j] : j \in 1..n} PROVE v \in {f[j] : j \in (o + 1) .. (o + n)}
  <2>1. PICK j \in 1..n : v = q[j]
    OBVIOUS
  <2> QED BY <1>2, <2>1 DEF Same
<1> QED BY <1>4, <1>5 DEF SameSet

\* The arguments of the first clauses come first.
LEMMA ArgsPrefix ==
  ASSUME NEW w \in Seq(WhereRec), NEW k \in 0..Len(w)
  PROVE  /\ Len(ArgsOf(w)[k]) <= Len(ArgsOf(w)[Len(w)])
         /\ \A j \in 1..Len(ArgsOf(w)[k]) : ArgsOf(w)[Len(w)][j] = ArgsOf(w)[k][j]
<1> DEFINE n == Len(w)
           A == ArgsOf(w)
           Begins(m) == Len(A[k]) <= Len(A[m]) /\ \A j \in 1..Len(A[k]) : A[m][j] = A[k][j]
           S == {m \in 0..n : k <= m => Begins(m)}
<1>1. n \in Nat /\ k \in 0..n /\ \A m \in 1..n : w[m].args \in Seq(Id)
  BY WheresAre
<1>2. /\ \A m \in 1..n : A[m] = A[m - 1] \o w[m].args
      /\ \A m \in 0..n : A[m] \in Seq(Id)
  BY ArgsOfIs
<1> HIDE DEF n, A
<1>3. Begins(k)
  <2>1. Len(A[k]) \in Nat
    BY <1>1, <1>2
  <2> QED BY <2>1
<1>4. ASSUME NEW m \in 1..n, k <= m - 1, Begins(m - 1) PROVE Begins(m)
  <2>1. m - 1 \in 0..n /\ A[m - 1] \in Seq(Id) /\ w[m].args \in Seq(Id) /\ A[k] \in Seq(Id)
    BY <1>1, <1>2
  <2>2. A[m] = A[m - 1] \o w[m].args
    BY <1>2
  <2> DEFINE p == A[m - 1]
             q == w[m].args
  <2>3. Len(p) <= Len(p \o q) /\ \A j \in 1..Len(p) : (p \o q)[j] = p[j]
    <3>1. p \in Seq(Id) /\ q \in Seq(Id)
      BY <2>1
    <3> HIDE DEF p, q
    <3> QED BY <3>1, CatIs
  <2>4. Len(A[m - 1]) <= Len(A[m]) /\ \A j \in 1..Len(A[m - 1]) : A[m][j] = A[m - 1][j]
    BY <2>2, <2>3
  <2>5. Len(A[k]) \in Nat /\ Len(A[m - 1]) \in Nat /\ Len(A[m]) \in Nat
    <3>1. m \in 0..n
      OBVIOUS
    <3> QED BY <1>2, <2>1, <3>1
  <2> QED BY <1>4, <2>4, <2>5
<1> HIDE DEF Begins
<1>5. 0 \in S
  BY <1>1, <1>3 DEF S
<1>6. \A m \in 1..n : m - 1 \in S => m \in S
  <2> SUFFICES ASSUME NEW m \in 1..n, m - 1 \in S, k <= m PROVE Begins(m) /\ m \in 0..n
    OBVIOUS
  <2>1. CASE m = k
    BY <1>3, <2>1
  <2>2. CASE m # k
    <3>1. k <= m - 1 /\ m - 1 \in 0..n
      BY <1>1, <2>2
    <3> QED BY <1>4, <3>1
  <2> QED BY <2>1, <2>2
<1> HIDE DEF S
<1>7. n \in S
  <2>1. n \in 0..n
    BY <1>1
  <2> QED BY <1>1, <1>5, <1>6, <2>1, CountUp
<1>8. Begins(n)
  BY <1>1, <1>7 DEF S
<1> QED BY <1>8 DEF Begins, n, A

\* A statement with the WHERE clauses w, behind the values of SET and before the
\* argument of HAVING.
Statement(s, w, vals, tail) ==
  /\ s.where = [k \in DOMAIN w |-> [text |-> w[k].text, n |-> Len(w[k].args), or |-> w[k].or]]
  /\ s.sets = Len(vals)
  /\ s.args = vals \o ArgsOf(w)[Len(w)] \o tail

\* The texts of s are those of the clauses w.
Worded(s, w) ==
  /\ DOMAIN s.where = 1..Len(w) /\ Len(s.where) = Len(w)
  /\ \A k \in 1..Len(w) : /\ s.where[k].text = w[k].text /\ s.where[k].or = w[k].or
                          /\ s.where[k].n = Len(w[k].args)

\* Texts and counts of a statement are those of its clauses.
LEMMA StatementWhere ==
  ASSUME NEW w \in Seq(WhereRec), NEW vals, NEW tail, NEW s, Statement(s, w, vals, tail)
  PROVE  Worded(s, w)
<1> DEFINE rec(k) == [text |-> w[k].text, n |-> Len(w[k].args), or |-> w[k].or]
           f == [k \in 1..Len(w) |-> rec(k)]
<1>1. Len(w) \in Nat /\ DOMAIN w = 1..Len(w)
  BY WheresAre
<1>2. s.where = f
  BY <1>1 DEF Statement
<1>3. \A k : rec(k).text = w[k].text /\ rec(k).or = w[k].or /\ rec(k).n = Len(w[k].args)
  OBVIOUS
<1> HIDE DEF rec
<1>4. DOMAIN f = 1..Len(w) /\ Len(f) = Len(w) /\ \A k \in 1..Len(w) : f[k] = rec(k)
  BY <1>1
<1> QED BY <1>2, <1>3, <1>4 DEF Worded

\* The arguments a clause is evaluated with are the ones it was added with.
Binds(s, w, tail) ==
  /\ \A k \in 1..Len(w) :
       {s.args[j] : j \in Placeholders(s)[k - 1] + 1 .. Placeholders(s)[k]} = ToSet(w[k].args)
  /\ tail # <<>> => s.args[Placeholders(s)[Len(w)] + 1] = tail[1]

\* The k-th placeholder of a clause is bound to the k-th argument of its call,
\* and that of HAVING to its own.
LEMMA ClauseBinds ==
  ASSUME NEW w \in Seq(WhereRec), NEW vals \in Seq(Nat), NEW tail \in Seq(Nat), NEW s,
         Statement(s, w, vals, tail)
  PROVE  Binds(s, w, tail)
<1> DEFINE n == Len(w)
           A == ArgsOf(w)
           P == Placeholders(s)
           all == vals \o A[n] \o tail
<1>1. n \in Nat /\ \A k \in 1..n : w[k].args \in Seq(Id) /\ Len(w[k].args) \in Nat
  BY WheresAre
<1>2. /\ Len(s.where) = n /\ \A k \in 1..n : s.where[k].n = Len(w[k].args)
      /\ s.sets = Len(vals) /\ Len(vals) \in Nat /\ s.args = all
  <2>1. Worded(s, w)
    BY StatementWhere
  <2> QED BY <2>1 DEF Worded, Statement
<1>3. /\ A[0] = <<>> /\ \A k \in 1..n : A[k] = A[k - 1] \o w[k].args
      /\ \A k \in 0..n : A[k] \in Seq(Id)
  BY ArgsOfIs
<1>4. /\ P[0] = s.sets /\ \A k \in 1..n : P[k] = P[k - 1] + s.where[k].n
      /\ \A k \in 0..n : P[k] \in Nat
  <2>1. Len(s.where) \in Nat /\ s.sets \in Nat /\ \A k \in 1..Len(s.where) : s.where[k].n \in Nat
    BY <1>1, <1>2
  <2>2. /\ Placeholders(s)[0] = s.sets
        /\ \A k \in 1..Len(s.where) : Placeholders(s)[k] = Placeholders(s)[k - 1] + s.where[k].n
        /\ \A k \in 0..Len(s.where) : Placeholders(s)[k] \in Nat
    BY <2>1, PlaceholdersIs
  <2> QED BY <1>2, <2>2
<1>5. \A k \in 0..n : /\ Len(A[k]) <= Len(A[n])
                       /\ \A j \in 1..Len(A[k]) : A[n][j] = A[k][j]
  BY ArgsPrefix
<1> HIDE DEF n, A, P
<1>6. \A k \in 0..n : P[k] = Len(vals) + Len(A[k])
  <2> DEFINE S == {k \in 0..n : P[k] = Len(vals) + Len(A[k])}
  <2>1. 0 \in S
    BY <1>1, <1>2, <1>3, <1>4
  <2>2. ASSUME NEW k \in 1..n, k - 1 \in S PROVE k \in S
    <3>1. k \in 0..n /\ k - 1 \in 0..n
      BY <1>1
    <3>2. A[k - 1] \in Seq(Id) /\ w[k].args \in Seq(Id) /\ A[k] = A[k - 1] \o w[k].args
      BY <1>1, <1>3, <3>1
    <3>3. Len(A[k]) = Len(A[k - 1]) + Len(w[k].args) /\ Len(A[k - 1]) \in Nat
      BY <3>2, CatIs
    <3>4. P[k] = P[k - 1] + Len(w[k].args) /\ P[k - 1] = Len(vals) + Len(A[k - 1])
      BY <1>2, <1>4, <2>2
    <3>6. Len(w[k].args) \in Nat /\ Len(vals) \in Nat
      BY <1>1, <1>2
    <3>5. P[k] = Len(vals) + Len(A[k])
      <4> DEFINE v == Len(vals)
                 a == Len(A[k - 1])
                 c == Len(w[k].args)
      <4>1. P[k] = (v + a) + c /\ Len(A[k]) = a + c
        BY <3>3, <3>4
      <4>2. v \in Nat /\ a \in Nat /\ c \in Nat
        BY <3>3, <3>6
      <4> HIDE DEF v, a, c
      <4>3. (v + a) + c = v + (a + c)
        BY <4>2
      <4>4. P[k] = v + Len(A[k])
        BY <4>1, <4>3
      <4> QED BY <4>4 DEF v
    <3> QED BY <3>1, <3>5
  <2> HIDE DEF S
  <2>3. \A k \in 1..n : k - 1 \in S => k \in S
    BY <2>2
  <2>4. \A k \in 0..n : k \in S
    BY <1>1, <2>1, <2>3, CountUp
  <2> QED BY <2>4 DEF S
<1>7. /\ A[n] \in Seq(Nat) /\ Len(A[n]) \in Nat
  <2>1. n \in 0..n
    BY <1>1
  <2>4. A[n] \in Seq(Id)
    BY <1>3, <2>1
  <2> QED BY <2>4, IdSeq
<1>8. /\ \A j \in 1..Len(A[n]) : all[Len(vals) + j] = A[n][j]
      /\ tail # <<>> => all[Len(vals) + Len(A[n]) + 1] = tail[1]
  <2>1. \A p, q \in Seq(Nat) : /\ p \o q \in Seq(Nat) /\ Len(p \o q) = Len(p) + Len(q)
                               /\ \A j \in 1..Len(p) : (p \o q)[j] = p[j]
                               /\ \A j \in 1..Len(q) : (p \o q)[Len(p) + j] = q[j]
    OBVIOUS
  <2> DEFINE m == vals \o A[n]
  <2>2. /\ m \in Seq(Nat) /\ Len(m) = Len(vals) + Len(A[n])
        /\ \A j \in 1..Len(A[n]) : m[Len(vals) + j] = A[n][j]
    BY <1>7, <2>1
  <2>3. all = m \o tail
    OBVIOUS
  <2> HIDE DEF m, all
  <2>4. \A j \in 1..Len(m) : all[j] = m[j]
    BY <2>1, <2>2, <2>3
  <2>5. \A j \in 1..Len(A[n]) : Len(vals) + j \in 1..Len(m)
    <3>1. Len(vals) \in Nat /\ Len(A[n]) \in Nat /\ Len(m) = Len(vals) + Len(A[n])
      BY <1>2, <1>7, <2>2
    <3> QED BY <3>1, RunAfter
  <2>6. tail # <<>> => 1 \in 1..Len(tail)
    OBVIOUS
  <2>7. tail # <<>> => all[Len(m) + 1] = tail[1]
    BY <2>1, <2>2, <2>3, <2>6
  <2> QED BY <2>2, <2>4, <2>5, <2>7
<1> HIDE DEF all
<1>9. ASSUME NEW k \in 1..n
      PROVE  {s.args[j] : j \in P[k - 1] + 1 .. P[k]} = ToSet(w[k].args)
  <2> DEFINE q == w[k].args
             o == Len(vals) + Len(A[k - 1])
  <2>1. k \in 0..n /\ k - 1 \in 0..n
    BY <1>1
  <2>2. A[k - 1] \in Seq(Id) /\ q \in Seq(Id) /\ A[k] = A[k - 1] \o q
    BY <1>1, <1>3, <2>1
  <2>3. Len(A[k - 1]) \in Nat /\ Len(q) \in Nat /\ Len(A[k]) = Len(A[k - 1]) + Len(q)
        /\ \A j \in 1..Len(q) : A[k][Len(A[k - 1]) + j] = q[j]
    <3> HIDE DEF q
    <3> QED BY <2>2, CatIs
  <2> HIDE DEF q
  <2>4. P[k - 1] = o /\ P[k] = o + Len(q) /\ o \in Nat
    <3>1. P[k - 1] = Len(vals) + Len(A[k - 1]) /\ P[k] = Len(vals) + Len(A[k])
      BY <1>6, <2>1
    <3>2. Len(vals) \in Nat
      BY <1>2
    <3>3. o + Len(q) = Len(vals) + Len(A[k]) /\ o \in Nat
      BY <2>3, <3>2, AddUp
    <3> QED BY <3>1, <3>3
  <2>5. ASSUME NEW j \in 1..Len(q) PROVE s.args[o + j] = q[j]
    <3>1. Len(A[k - 1]) + j \in 1..Len(A[k])
      BY <2>3
    <3>2. A[n][Len(A[k - 1]) + j] = q[j] /\ Len(A[k]) <= Len(A[n])
      BY <1>5, <2>1, <2>3, <3>1
    <3>3. Len(A[k - 1]) + j \in 1..Len(A[n])
      BY <1>7, <2>3, <3>1, <3>2
    <3>4. Len(vals) \in Nat /\ j \in Nat
      BY <1>2
    <3>5. o + j = Len(vals) + (Len(A[k - 1]) + j)
      BY <2>3, <3>4, AddUp
    <3> QED BY <1>2, <1>8, <3>2, <3>3, <3>5
  <2> HIDE DEF o
  <2>6. {s.args[j] : j \in (o + 1) .. (o + Len(q))} = {q[j] : j \in 1..Len(q)}
    <3>1. Same(s.args, o, Len(q), q)
      BY <2>5 DEF Same
    <3>2. o \in Nat /\ Len(q) \in Nat
      BY <2>3, <2>4
    <3>3. SameSet(s.args, o, Len(q), q)
      BY <3>1, <3>2, Shifted
    <3> QED BY <3>3 DEF SameSet
  <2>7. ToSet(q) = {q[j] : j \in 1..Len(q)}
    BY <2>2 DEF ToSet, q
  <2> QED BY <2>4, <2>6, <2>7 DEF q
<1>10. tail # <<>> => s.args[P[n] + 1] = tail[1]
  <2>1. n \in 0..n
    BY <1>1
  <2> QED BY <1>2, <1>6, <1>8, <2>1
<1> QED BY <1>9, <1>10 DEF n, P, Binds

\* A clause of the statement holds for the rows the call that added it means.
LEMMA ClauseExact ==
  ASSUME NEW w \in Seq(WhereRec), NEW vals \in Seq(Nat), NEW tail \in Seq(Nat), NEW s,
         Statement(s, w, vals, tail), NEW k \in 1..Len(w), NEW i
  PROVE  ClauseHolds(s, k, i) <=> AskedHolds(w[k], i)
<1> DEFINE vs == {s.args[j] : j \in Placeholders(s)[k - 1] + 1 .. Placeholders(s)[k]}
<1>1. vs = ToSet(w[k].args)
  <2>1. Binds(s, w, tail)
    BY ClauseBinds
  <2> QED BY <2>1 DEF Binds
<1> HIDE DEF vs
<1>2. s.where[k].text = w[k].text /\ w[k].text \in ClauseText
  <2>1. Worded(s, w)
    BY StatementWhere
  <2> QED BY <2>1, WheresAre DEF Worded
<1>3. ClauseHolds(s, k, i) <=>
        CASE s.where[k].text = "in" -> i \in vs
          [] s.where[k].text = "notin" -> i \notin vs
          [] s.where[k].text = "true" -> TRUE
          [] s.where[k].text = "false" -> FALSE
  BY DEF ClauseHolds, vs
<1> QED BY <1>1, <1>2, <1>3 DEF ClauseText, AskedHolds

\* The k-th clause of a builder is the one of the call f[k]; the calls that add
\* no clause are left out, and the order is kept.
LinkedBy(f, w, q) ==
  /\ f \in [1..Len(w) -> 1..Len(q)]
  /\ \A k \in 1..Len(w) : /\ q[f[k]].op = "where" /\ w[k].text = q[f[k]].clause.text
                          /\ w[k].args = q[f[k]].clause.args /\ w[k].or = q[f[k]].or
  /\ \A j \in 1..Len(q) : q[j].op = "where" => \E k \in 1..Len(w) : f[k] = j
  /\ \A k, l \in 1..Len(w) : k < l => f[k] < f[l]

Linked(w, q) == \E f : LinkedBy(f, w, q)

Calls ==
  [op : {"notin_empty", "soft", "trashed", "group", "unsafe"}]
    \union [op : {"where"}, clause : Clause, or : BOOLEAN]
    \union [op : {"having", "limit", "offset"}, n : Number]

\* The rows the clauses w let through, of one alternative at least.
Selected(s, w, i) ==
  \E k \in Starts(s.where, 1..Len(w)) :
    \A j \in Alternative(s.where, 1..Len(w), k) : ClauseHolds(s, j, i)

LEMMA CallsAre ==
  ASSUME asked \in Seq(Calls)
  PROVE  Len(asked) \in Nat /\ DOMAIN asked = 1..Len(asked)
OBVIOUS

\* A link respects the order both ways, hence is one to one.
LEMMA LinkOrder ==
  ASSUME NEW w, NEW q, NEW f, LinkedBy(f, w, q), Len(w) \in Nat, Len(q) \in Nat
  PROVE  /\ \A k \in 1..Len(w) : f[k] \in 1..Len(q)
         /\ \A k, l \in 1..Len(w) : k <= l <=> f[k] <= f[l]
         /\ \A k, l \in 1..Len(w) : k < l <=> f[k] < f[l]
         /\ \A k, l \in 1..Len(w) : f[k] = f[l] => k = l
<1>1. \A k \in 1..Len(w) : f[k] \in 1..Len(q)
  BY DEF LinkedBy
<1>2. \A k, l \in 1..Len(w) : k < l => f[k] < f[l]
  BY DEF LinkedBy
<1>3. \A k \in 1..Len(w) : k \in Int /\ f[k] \in Int
  BY <1>1
<1>4. \A k, l \in 1..Len(w) : k < l \/ k = l \/ l < k
  OBVIOUS
<1> QED BY <1>1, <1>2, <1>3, <1>4

\* The clauses of the builder and those the chain asked for let the same rows
\* through.
LEMMA SelectedIsAsked ==
  ASSUME NEW w \in Seq(WhereRec), asked \in Seq(Calls), Linked(w, asked),
         NEW vals \in Seq(Nat), NEW tail \in Seq(Nat), NEW s, Statement(s, w, vals, tail), NEW i
  PROVE  /\ w = <<>> <=> AskedAt("where") = {}
         /\ w # <<>> => (Selected(s, w, i) <=> AskedRow(i))
<1> DEFINE n == Len(w)
           at == AskedAt("where")
<1>1. PICK f : LinkedBy(f, w, asked)
  BY DEF Linked
<1>2. n \in Nat /\ Len(asked) \in Nat /\ DOMAIN asked = 1..Len(asked)
  BY WheresAre, CallsAre
<1>3. /\ \A k \in 1..n : f[k] \in 1..Len(asked)
      /\ \A k, l \in 1..n : k <= l <=> f[k] <= f[l]
      /\ \A k, l \in 1..n : k < l <=> f[k] < f[l]
  BY <1>1, <1>2, LinkOrder
<1>4. /\ \A k \in 1..n : f[k] \in at
      /\ \A j \in at : \E k \in 1..n : f[k] = j
  BY <1>1, <1>2, <1>3 DEF LinkedBy, AskedAt
<1>5. \A k \in 1..n : /\ s.where[k].or = asked[f[k]].or
                      /\ ClauseHolds(s, k, i) <=> AskedHolds(asked[f[k]].clause, i)
  <2> SUFFICES ASSUME NEW k \in 1..n
               PROVE  /\ s.where[k].or = asked[f[k]].or
                      /\ ClauseHolds(s, k, i) <=> AskedHolds(asked[f[k]].clause, i)
    OBVIOUS
  <2>1. s.where[k].or = w[k].or
    <3>1. Worded(s, w)
      BY StatementWhere
    <3> QED BY <3>1 DEF Worded
  <2>2. /\ w[k].text = asked[f[k]].clause.text /\ w[k].args = asked[f[k]].clause.args
        /\ w[k].or = asked[f[k]].or
    BY <1>1 DEF LinkedBy
  <2>3. ClauseHolds(s, k, i) <=> AskedHolds(w[k], i)
    BY ClauseExact
  <2>4. AskedHolds(w[k], i) <=> AskedHolds(asked[f[k]].clause, i)
    BY <2>2, Zenon DEF AskedHolds
  <2> QED BY <2>1, <2>2, <2>3, <2>4, Zenon
<1>6. w = <<>> <=> n = 0
  OBVIOUS
<1>7. w = <<>> <=> at = {}
  <2>1. n = 0 => at = {}
    BY <1>4
  <2>2. n # 0 => 1 \in 1..n
    BY <1>2
  <2> QED BY <1>4, <1>6, <2>1, <2>2
<1> HIDE DEF n, at
<1>8. \A k \in 1..n : k \in Starts(s.where, 1..n) <=> f[k] \in Starts(asked, at)
  <2> SUFFICES ASSUME NEW k \in 1..n
               PROVE  k \in Starts(s.where, 1..n) <=> f[k] \in Starts(asked, at)
    OBVIOUS
  <2>1. (\A j \in 1..n : k <= j) <=> (\A j \in at : f[k] <= j)
    BY <1>3, <1>4
  <2>2. k \in Starts(s.where, 1..n) <=> (s.where[k].or \/ \A j \in 1..n : k <= j)
    BY DEF Starts
  <2>3. f[k] \in Starts(asked, at) <=> (asked[f[k]].or \/ \A j \in at : f[k] <= j)
    BY <1>4 DEF Starts
  <2> QED BY <1>5, <2>1, <2>2, <2>3
<1>9. \A k, j \in 1..n : j \in Alternative(s.where, 1..n, k) <=> f[j] \in Alternative(asked, at, f[k])
  <2> SUFFICES ASSUME NEW k \in 1..n, NEW j \in 1..n
               PROVE  j \in Alternative(s.where, 1..n, k) <=> f[j] \in Alternative(asked, at, f[k])
    OBVIOUS
  <2>1. (\A l \in 1..n : k < l /\ l <= j => ~s.where[l].or)
          <=> (\A l \in at : f[k] < l /\ l <= f[j] => ~asked[l].or)
    <3>1. \A l \in 1..n : (k < l <=> f[k] < f[l]) /\ (l <= j <=> f[l] <= f[j]) /\ s.where[l].or = asked[f[l]].or
      BY <1>3, <1>5
    <3>2. ASSUME \A l \in 1..n : k < l /\ l <= j => ~s.where[l].or,
                 NEW m \in at, f[k] < m, m <= f[j]
          PROVE  ~asked[m].or
      <4>1. PICK l \in 1..n : f[l] = m
        BY <1>4
      <4>2. ~s.where[l].or
        BY <3>1, <3>2, <4>1
      <4>3. s.where[l].or = asked[m].or
        BY <3>1, <4>1
      <4> QED BY <4>2, <4>3, Zenon
    <3>3. ASSUME \A l \in at : f[k] < l /\ l <= f[j] => ~asked[l].or,
                 NEW l \in 1..n, k < l, l <= j
          PROVE  ~s.where[l].or
      <4>1. ~asked[f[l]].or
        BY <1>4, <3>1, <3>3
      <4>2. s.where[l].or = asked[f[l]].or
        BY <3>1
      <4> QED BY <4>1, <4>2, Zenon
    <3> QED BY <3>2, <3>3
  <2>2. j \in Alternative(s.where, 1..n, k)
          <=> k <= j /\ \A l \in 1..n : k < l /\ l <= j => ~s.where[l].or
    BY DEF Alternative
  <2>3. f[j] \in Alternative(asked, at, f[k])
          <=> f[k] <= f[j] /\ \A l \in at : f[k] < l /\ l <= f[j] => ~asked[l].or
    BY <1>4 DEF Alternative
  <2>4. k <= j <=> f[k] <= f[j]
    BY <1>3
  <2> QED BY <2>1, <2>2, <2>3, <2>4
<1> DEFINE Passes(k) == \A j \in Alternative(s.where, 1..n, k) : ClauseHolds(s, j, i)
           AskedPasses(k) == \A j \in Alternative(asked, at, k) : AskedHolds(asked[j].clause, i)
<1>10. \A k \in 1..n : Passes(k) <=> AskedPasses(f[k])
  <2>1. \A k : Alternative(s.where, 1..n, k) \subseteq 1..n /\ Alternative(asked, at, k) \subseteq at
    BY DEF Alternative
  <2> QED BY <1>4, <1>5, <1>9, <2>1
<1> HIDE DEF Passes, AskedPasses
<1>11. (\E k \in Starts(s.where, 1..n) : Passes(k)) <=> (\E k \in Starts(asked, at) : AskedPasses(k))
  <2>1. Starts(s.where, 1..n) \subseteq 1..n /\ Starts(asked, at) \subseteq at
    BY DEF Starts
  <2> QED BY <1>4, <1>8, <1>10, <2>1
<1>12. at # {} => (AskedRow(i) <=> \E k \in Starts(asked, at) : AskedPasses(k))
  BY Zenon DEF AskedRow, AskedPasses, at
<1>13. Selected(s, w, i) <=> \E k \in Starts(s.where, 1..n) : Passes(k)
  BY Zenon DEF Selected, Passes, n
<1> QED BY <1>7, <1>11, <1>12, <1>13 DEF at

BuilderFields(x) ==
  /\ x.wheres \in Seq(WhereRec) /\ x.having \in Seq(Number)
  /\ x.limit \in Nat /\ x.offset \in Nat

LEMMA NumberSeq ==
  ASSUME NEW q \in Seq(Number)
  PROVE  q \in Seq(Nat)
<1>1. Number \subseteq Nat
  BY BuilderAssumption
<1>2. Len(q) \in Nat /\ q \in [1..Len(q) -> Number]
  OBVIOUS
<1>3. q \in [1..Len(q) -> Nat]
  BY <1>1, <1>2, Zenon
<1> QED BY <1>2, <1>3

LEMMA AllArgs ==
  ASSUME NEW w \in Seq(WhereRec)
  PROVE  ArgsOf(w)[Len(w)] \in Seq(Nat)
<1>1. Len(w) \in 0..Len(w)
  BY WheresAre
<1>2. ArgsOf(w)[Len(w)] \in Seq(Id)
  BY <1>1, ArgsOfIs
<1> QED BY <1>2, IdSeq

\* The statement of a read.
LEMMA SelectIs ==
  ASSUME NEW x, BuilderFields(x), NEW s, s = BuildSelect(x)
  PROVE  /\ Statement(s, x.wheres, <<>>, x.having)
         /\ s.hide = (x.soft /\ ~x.trashed) /\ s.parens = TRUE /\ s.group = x.group
         /\ s.having = (x.having # <<>>) /\ s.limit = x.limit /\ s.offset = x.offset
<1> DEFINE w == x.wheres
           a == ArgsOf(w)[Len(w)]
<1>1. a \in Seq(Nat) /\ x.having \in Seq(Nat)
  BY AllArgs, NumberSeq DEF BuilderFields
<1>2. s.args = a \o x.having
  BY DEF BuildSelect, SelectArgs, WhereArgs
<1>3. \A p \in Seq(Nat) : <<>> \o p = p
  OBVIOUS
<1>4. s.where = Texts(x) /\ s.sets = 0
  BY DEF BuildSelect
<1>5. s.args = <<>> \o a \o x.having
  <2> HIDE DEF a
  <2> QED BY <1>1, <1>2, <1>3
<1>6. /\ s.hide = (x.soft /\ ~x.trashed) /\ s.parens = TRUE /\ s.group = x.group
      /\ s.having = (x.having # <<>>) /\ s.limit = x.limit /\ s.offset = x.offset
  BY DEF BuildSelect, Parens
<1>7. s.where = [k \in DOMAIN w |-> [text |-> w[k].text, n |-> Len(w[k].args), or |-> w[k].or]]
  BY <1>4, Zenon DEF Texts
<1>8. Statement(s, w, <<>>, x.having)
  <2>1. s.sets = Len(<<>>)
    BY <1>4
  <2> HIDE DEF w
  <2> QED BY <1>5, <1>7, <2>1, Zenon DEF Statement, a
<1> QED BY <1>6, <1>8

\* The statement of a write.
LEMMA WriteIs ==
  ASSUME NEW x, x.wheres \in Seq(WhereRec), NEW vals \in Seq(Nat), NEW s, s = BuildWrite(x, vals)
  PROVE  /\ Statement(s, x.wheres, vals, <<>>)
         /\ s.hide = FALSE /\ s.parens = TRUE
         /\ SubSeq(s.args, 1, s.sets) = vals
<1> DEFINE w == x.wheres
           a == ArgsOf(w)[Len(w)]
<1>1. a \in Seq(Nat)
  BY AllArgs
<1>2. s.args = vals \o a
  BY DEF BuildWrite, WhereArgs
<1>3. \A p, r \in Seq(Nat) : (p \o r) \o <<>> = p \o r /\ SubSeq(p \o r, 1, Len(p)) = p
  OBVIOUS
<1>4. s.where = Texts(x) /\ s.sets = Len(vals) /\ s.hide = FALSE /\ s.parens = TRUE
  BY DEF BuildWrite
<1>5. s.args = vals \o a \o <<>> /\ SubSeq(s.args, 1, s.sets) = vals
  <2> HIDE DEF a
  <2> QED BY <1>1, <1>2, <1>3, <1>4
<1>7. s.where = [k \in DOMAIN w |-> [text |-> w[k].text, n |-> Len(w[k].args), or |-> w[k].or]]
  BY <1>4, Zenon DEF Texts
<1>8. Statement(s, w, vals, <<>>)
  <2> HIDE DEF w
  <2> QED BY <1>4, <1>5, <1>7, Zenon DEF Statement, a
<1> QED BY <1>4, <1>5, <1>8

\* The filter of deleted rows and the clauses, each in its parentheses.
Passes(s, w, d, i) ==
  /\ d[i] # "gone" /\ (~s.hide \/ d[i] = "live")
  /\ w = <<>> \/ Selected(s, w, i)

\* What a statement in parentheses lets through.
LEMMA MatchesIs ==
  ASSUME NEW w \in Seq(WhereRec), NEW vals, NEW tail, NEW s, Statement(s, w, vals, tail),
         s.parens = TRUE, NEW d, NEW i
  PROVE  Matches(s, d, i) <=> Passes(s, w, d, i)
<1>1. DOMAIN s.where = 1..Len(w) /\ Len(w) \in Nat
  <2>1. Worded(s, w)
    BY StatementWhere
  <2> QED BY <2>1, WheresAre DEF Worded
<1>2. w = <<>> <=> Len(w) = 0
  OBVIOUS
<1>3. s.where = [k \in 1..Len(w) |-> s.where[k]]
  BY <1>1 DEF Statement
<1>4. s.where = <<>> <=> w = <<>>
  <2>1. Len(w) = 0 => s.where = <<>>
    BY <1>1, <1>3
  <2>2. DOMAIN <<>> = 1..0
    OBVIOUS
  <2>3. Len(w) # 0 => 1 \in DOMAIN s.where
    BY <1>1
  <2> QED BY <1>2, <2>1, <2>2, <2>3
<1> DEFINE live == ~s.hide \/ d[i] = "live"
           St == Starts(s.where, 1..Len(w))
           P(k) == \A j \in Alternative(s.where, 1..Len(w), k) : ClauseHolds(s, j, i)
<1>5. Matches(s, d, i) <=>
        /\ d[i] # "gone"
        /\ IF s.where = <<>> THEN live
           ELSE live /\ \E k \in St : P(k) /\ (k = 1 => live)
  BY <1>1, Zenon DEF Matches
<1>6. Selected(s, w, i) <=> \E k \in St : P(k)
  BY Zenon DEF Selected
<1> HIDE DEF St, P
<1> QED BY <1>4, <1>5, <1>6, Zenon DEF Passes

\* A row of the table.
RowStates == {"live", "trashed", "gone"}

\* A read matches the visible rows the chain asked for.
LEMMA ReadMatches ==
  ASSUME NEW x, BuilderFields(x), Linked(x.wheres, asked), asked \in Seq(Calls),
         x.soft <=> Asks("soft"), x.trashed <=> Asks("trashed"),
         data \in [Id -> RowStates], NEW s, s = BuildSelect(x)
  PROVE  Matched(s, data) = {i \in Id : Visible(i) /\ AskedRow(i)}
<1> DEFINE w == x.wheres
<1>1. /\ Statement(s, w, <<>>, x.having) /\ w \in Seq(WhereRec) /\ x.having \in Seq(Nat) /\ <<>> \in Seq(Nat)
      /\ s.hide = (x.soft /\ ~x.trashed) /\ s.parens = TRUE
  <2>1. x.having \in Seq(Nat) /\ w \in Seq(WhereRec)
    BY NumberSeq DEF BuilderFields
  <2>2. <<>> \in Seq(Nat)
    OBVIOUS
  <2>3. Statement(s, w, <<>>, x.having) /\ s.hide = (x.soft /\ ~x.trashed) /\ s.parens = TRUE
    BY SelectIs
  <2> QED BY <2>1, <2>2, <2>3
<1> HIDE DEF w
<1>2. ASSUME NEW i \in Id PROVE Matches(s, data, i) <=> Visible(i) /\ AskedRow(i)
  <2>1. Matches(s, data, i) <=> Passes(s, w, data, i)
    <3>1. w \in Seq(WhereRec) /\ s.parens = TRUE
      BY <1>1
    <3>2. Statement(s, w, <<>>, x.having)
      BY <1>1
    <3> DEFINE e == <<>>
               t == x.having
    <3>3. Statement(s, w, e, t)
      BY <3>2
    <3> HIDE DEF e, t
    <3> QED BY <3>1, <3>3, MatchesIs
  <2>2. (w = <<>> \/ Selected(s, w, i)) <=> AskedRow(i)
    <3>1. /\ w = <<>> <=> AskedAt("where") = {}
          /\ w # <<>> => (Selected(s, w, i) <=> AskedRow(i))
      BY <1>1, SelectedIsAsked DEF w
    <3>2. AskedAt("where") = {} => AskedRow(i)
      BY DEF AskedRow
    <3> QED BY <3>1, <3>2
  <2>3. data[i] \in RowStates
    OBVIOUS
  <2>4. Visible(i) <=> data[i] # "gone" /\ (~s.hide \/ data[i] = "live")
    BY <1>1, <2>3 DEF Visible, Seen, RowStates
  <2> QED BY <2>1, <2>2, <2>4 DEF Passes
<1>3. DOMAIN data = Id
  OBVIOUS
<1> QED BY <1>2, <1>3, Zenon DEF Matched

\* A write matches the rows its clauses name, deleted ones too.
LEMMA WriteMatches ==
  ASSUME NEW x, x.wheres \in Seq(WhereRec), Linked(x.wheres, asked), asked \in Seq(Calls),
         x.wheres # <<>>, NEW vals \in Seq(Nat), data \in [Id -> RowStates], NEW s, s = BuildWrite(x, vals)
  PROVE  /\ Asks("where")
         /\ Matched(s, data) = {i \in Id : data[i] # "gone" /\ AskedRow(i)}
<1> DEFINE w == x.wheres
<1>0. <<>> \in Seq(Nat)
  OBVIOUS
<1>1. Statement(s, w, vals, <<>>) /\ s.hide = FALSE /\ s.parens = TRUE /\ w \in Seq(WhereRec) /\ w # <<>>
  BY WriteIs
<1>2. \A i : w = <<>> <=> AskedAt("where") = {}
  BY <1>0, <1>1, SelectedIsAsked
<1>3. Asks("where")
  BY <1>1, <1>2 DEF AskedAt, Asks
<1> HIDE DEF w
<1>4. ASSUME NEW i \in Id PROVE Matches(s, data, i) <=> data[i] # "gone" /\ AskedRow(i)
  <2>1. Matches(s, data, i) <=> Passes(s, w, data, i)
    BY <1>1, MatchesIs
  <2>2. w # <<>> => (Selected(s, w, i) <=> AskedRow(i))
    BY <1>0, <1>1, SelectedIsAsked DEF w
  <2> QED BY <1>1, <2>1, <2>2 DEF Passes
<1>5. DOMAIN data = Id
  OBVIOUS
<1> QED BY <1>3, <1>4, <1>5, Zenon DEF Matched

---------------------------------------------------------------------------
(* Paging.                                                                 *)

LEMMA MaxOfTwo ==
  ASSUME NEW x \in Int, NEW y \in Int
  PROVE  Max({x, y}) \in {x, y} /\ Max({x, y}) >= x /\ Max({x, y}) >= y
<1> DEFINE S == {x, y}
<1>1. \E m \in S : \A z \in S : m >= z
  <2>1. CASE x >= y
    BY <2>1
  <2>2. CASE ~(x >= y)
    BY <2>2
  <2> QED BY <2>1, <2>2
<1>2. Max(S) \in S /\ \A z \in S : Max(S) >= z
  <2> HIDE DEF S
  <2> QED BY <1>1, Zenon DEF Max
<1> QED BY <1>2

LEMMA MinOfTwo ==
  ASSUME NEW x \in Int, NEW y \in Int
  PROVE  Min({x, y}) \in {x, y} /\ Min({x, y}) <= x /\ Min({x, y}) <= y
<1> DEFINE S == {x, y}
<1>1. \E m \in S : \A z \in S : m <= z
  <2>1. CASE x <= y
    BY <2>1
  <2>2. CASE ~(x <= y)
    BY <2>2
  <2> QED BY <2>1, <2>2
<1>2. Min(S) \in S /\ \A z \in S : Min(S) <= z
  <2> HIDE DEF S
  <2> QED BY <1>1, Zenon DEF Min
<1> QED BY <1>2

\* A row of a finite result has a place in it.
LEMMA PlaceIs ==
  ASSUME NEW R, IsFiniteSet(R), R \subseteq Nat, NEW r \in R
  PROVE  Place(R, r) \in Nat /\ 1 <= Place(R, r) /\ Place(R, r) <= Cardinality(R)
<1> DEFINE U == {x \in R : x <= r}
<1>1. U \subseteq R /\ r \in U
  OBVIOUS
<1>2. IsFiniteSet(U) /\ Cardinality(U) <= Cardinality(R) /\ Cardinality(U) \in Nat /\ Cardinality(R) \in Nat
  BY <1>1, FS_Subset, FS_CardinalityType
<1>3. Cardinality(U) # 0
  BY <1>1, <1>2, FS_EmptySet
<1> QED BY <1>2, <1>3 DEF Place

\* A result that is not empty has a first row.
LEMMA FirstPlace ==
  ASSUME NEW R, R \subseteq Nat, R # {}
  PROVE  \E r \in R : Place(R, r) = 1
<1>1. PICK r \in R : \A k \in R : ~(<<k, r>> \in OpToRel(<, Nat))
  BY WFMin, NatLessThanWellFounded
<1>2. \A k \in R : ~(k < r)
  BY <1>1 DEF OpToRel
<1>3. {x \in R : x <= r} = {r}
  <2>1. \A x \in R : x \in Nat /\ r \in Nat /\ ~(x < r)
    BY <1>2
  <2>2. \A x \in R : x <= r <=> x = r
    BY <2>1
  <2> QED BY <2>2, Zenon
<1>4. Cardinality({r}) = 1
  BY FS_Singleton
<1> QED BY <1>3, <1>4 DEF Place

\* Division with a remainder.
LEMMA DivIs ==
  ASSUME NEW a \in Nat, NEW p \in Nat, p >= 1
  PROVE  a \div p \in Nat /\ (a \div p) * p <= a /\ a < (a \div p) * p + p
OBVIOUS

LEMMA MulLess ==
  ASSUME NEW x \in Nat, NEW y \in Nat, NEW p \in Nat, x <= y
  PROVE  x * p <= y * p /\ (x + 1) * p = x * p + p /\ x * p \in Nat
OBVIOUS

LEMMA DivUp ==
  ASSUME NEW x \in Nat, NEW y \in Nat, NEW p \in Nat, p >= 1, x * p < y * p + p
  PROVE  x <= y
<1> SUFFICES ASSUME y + 1 <= x PROVE FALSE
  OBVIOUS
<1>1. (y + 1) * p <= x * p /\ (y + 1) * p = y * p + p /\ x * p \in Nat /\ y * p \in Nat
  <2>1. y + 1 \in Nat
    OBVIOUS
  <2>2. (y + 1) * p <= x * p
    BY <2>1, MulLess
  <2> QED BY <2>2, MulLess
<1> QED BY <1>1

\* The quotients of the places before T are the numbers before the last page.
LEMMA LastPage ==
  ASSUME NEW T \in Nat, NEW p \in Nat, p >= 1
  PROVE  LET L == Max({1, (T + p - 1) \div p}) IN
         /\ L \in Nat /\ L >= 1 /\ T <= L * p
         /\ L = Cardinality({k \div p : k \in 0..T - 1} \union {0})
<1> DEFINE c == (T + p - 1) \div p
           L == Max({1, c})
           Q == {k \div p : k \in 0..T - 1} \union {0}
<1>1. T + p - 1 \in Nat
  OBVIOUS
<1>2. c \in Nat /\ c * p <= T + p - 1 /\ T + p - 1 < c * p + p
  BY <1>1, DivIs
<1> HIDE DEF c
<1>3. L \in {1, c} /\ L >= 1 /\ L >= c
  BY <1>2, MaxOfTwo
<1>4. L \in Nat
  BY <1>2, <1>3
<1> HIDE DEF L
<1>5. T <= L * p
  <2>1. c * p <= L * p /\ c * p \in Nat /\ L * p \in Nat
    BY <1>2, <1>3, <1>4, MulLess
  <2> QED BY <1>2, <2>1
<1>6. Q \subseteq 0..(L - 1)
  <2>1. 0 \in 0..(L - 1)
    BY <1>3, <1>4
  <2>2. ASSUME NEW k \in 0..T - 1 PROVE k \div p \in 0..(L - 1)
    <3> DEFINE v == k \div p
    <3>1. v \in Nat /\ v * p <= k /\ k \in Nat
      BY DivIs
    <3> HIDE DEF v
    <3>2. v * p < T
      BY <3>1
    <3>3. v + 1 <= L
      <4>1. v * p < L * p /\ L * p \in Nat /\ v * p \in Nat
        <5>1. L * p \in Nat /\ v * p \in Nat
          BY <1>4, <3>1, MulLess
        <5> QED BY <1>5, <3>2, <5>1
      <4> SUFFICES ASSUME L <= v PROVE FALSE
        BY <1>4, <3>1
      <4>2. L * p <= v * p
        BY <1>4, <3>1, MulLess
      <4> QED BY <4>1, <4>2
    <3>4. v \in 0..(L - 1)
      BY <1>4, <3>1, <3>3
    <3> QED BY <3>4 DEF v
  <2> QED BY <2>1, <2>2
<1>7. 0..(L - 1) \subseteq Q
  <2> SUFFICES ASSUME NEW v \in 0..(L - 1), v # 0 PROVE v \in {k \div p : k \in 0..T - 1}
    OBVIOUS
  <2>1. v \in Nat /\ v >= 1 /\ L = c /\ v + 1 <= c
    BY <1>3, <1>4
  <2> DEFINE k == v * p
  <2>2. (v + 1) * p <= c * p /\ (v + 1) * p = v * p + p /\ v * p \in Nat /\ c * p \in Nat
    <3>1. v + 1 \in Nat
      BY <2>1
    <3>2. (v + 1) * p <= c * p
      BY <1>2, <2>1, <3>1, MulLess
    <3> QED BY <1>2, <2>1, <3>2, MulLess
  <2>3. k \in Nat /\ k + p <= T + p - 1
    BY <1>2, <2>2
  <2>4. k \in 0..T - 1
    BY <2>3
  <2> DEFINE u == k \div p
  <2>5. u \in Nat /\ u * p <= k /\ k < u * p + p
    BY <2>3, DivIs
  <2> HIDE DEF u
  <2>6. u <= v /\ v <= u
    <3>1. u * p \in Nat /\ v * p \in Nat
      BY <2>1, <2>5, MulLess
    <3>2. u * p < v * p + p
      BY <2>5, <3>1
    <3>3. v * p < u * p + p
      BY <2>5
    <3> QED BY <2>1, <2>5, <3>2, <3>3, DivUp
  <2>7. u = v
    BY <2>1, <2>5, <2>6
  <2> QED BY <2>4, <2>7 DEF u
<1>8. Cardinality(0..(L - 1)) = L
  <2>1. 0 \in Int /\ L - 1 \in Int /\ ~(0 > L - 1)
    BY <1>3, <1>4
  <2>2. Cardinality(0..(L - 1)) = (L - 1) - 0 + 1
    BY <2>1, FS_Interval
  <2> QED BY <1>4, <2>2
<1>9. Q = 0..(L - 1)
  BY <1>6, <1>7
<1> HIDE DEF Q
<1>10. L \in Nat /\ L >= 1 /\ T <= L * p /\ L = Cardinality(Q)
  BY <1>3, <1>4, <1>5, <1>8, <1>9
<1> QED BY <1>10, Zenon DEF L, Q, c

Filters(x) ==
  /\ BuilderFields(x) /\ Linked(x.wheres, asked)
  /\ x.soft <=> Asks("soft")
  /\ x.trashed <=> Asks("trashed")
  /\ x.group <=> Asks("group")
  /\ x.having = (IF Asks("having") THEN <<AskedNumber("having")>> ELSE <<>>)
  /\ Asks("having") => AskedNumber("having") \in Nat

AskedRows == {i \in Id : Visible(i) /\ AskedRow(i)}
GroupSize(g) == Cardinality({i \in AskedRows : Group(i) = g})

LEMMA AskedResultsAre ==
  AskedResults = IF Asks("group")
                 THEN {g \in {Group(i) : i \in AskedRows} : GroupSize(g) >= AskedNumber("having")}
                 ELSE AskedRows
BY Zenon DEF AskedResults, AskedRows, GroupSize

\* What the chain asked for is a finite set of numbers.
LEMMA AskedFinite ==
  /\ AskedResults \subseteq Nat /\ IsFiniteSet(AskedResults) /\ Cardinality(AskedResults) \in Nat
  /\ \A g : GroupSize(g) \in Nat
<1> DEFINE rows == AskedRows
           Groups == {Group(i) : i \in rows}
<1>1. Id \subseteq Nat /\ IsFiniteSet(Id)
  BY BuilderAssumption
<1>2. rows \subseteq Id
  BY DEF AskedRows
<1> HIDE DEF rows
<1>3. IsFiniteSet(rows) /\ rows \subseteq Nat
  BY <1>1, <1>2, FS_Subset
<1>4. Groups \subseteq 0..1
  <2>1. \A i \in rows : i % 2 \in 0..1
    BY <1>3
  <2> QED BY <2>1 DEF Group
<1>5. IsFiniteSet(0..1)
  <2>1. 0 \in Int /\ 1 \in Int
    OBVIOUS
  <2> QED BY <2>1, FS_Interval, Zenon
<1> HIDE DEF Groups
<1>6. IsFiniteSet(Groups) /\ Groups \subseteq Nat
  <2>1. 0..1 \subseteq Nat
    OBVIOUS
  <2>2. IsFiniteSet(Groups)
    BY <1>4, <1>5, FS_Subset, Zenon
  <2> QED BY <1>4, <2>1, <2>2, Zenon
<1>7. AskedResults \subseteq Groups \/ AskedResults \subseteq rows
  BY AskedResultsAre DEF Groups, rows
<1>8. AskedResults \subseteq Nat /\ IsFiniteSet(AskedResults)
  BY <1>3, <1>6, <1>7, FS_Subset
<1>9. ASSUME NEW g PROVE GroupSize(g) \in Nat
  <2> DEFINE T == {i \in rows : Group(i) = g}
  <2>1. T \subseteq rows
    OBVIOUS
  <2> HIDE DEF T
  <2>2. Cardinality(T) \in Nat
    BY <1>3, <2>1, FS_Subset, FS_CardinalityType
  <2> QED BY <2>2 DEF GroupSize, T, rows
<1> QED BY <1>8, <1>9, FS_CardinalityType

\* A read finds what the chain asked for, before paging.
LEMMA ResultsAre ==
  ASSUME NEW x, Filters(x), asked \in Seq(Calls), data \in [Id -> RowStates], NEW s, s = BuildSelect(x)
  PROVE  Results(s, data) = AskedResults
<1>1. BuilderFields(x)
  BY DEF Filters
<1>2. Matched(s, data) = AskedRows
  BY <1>1, ReadMatches DEF Filters, AskedRows
<1>3. s.group <=> Asks("group")
  BY <1>1, SelectIs DEF Filters
<1> DEFINE least == s.args[Placeholders(s)[Len(s.where)] + 1]
<1>4. s.having <=> Asks("having")
  <2>1. s.having = (x.having # <<>>)
    BY <1>1, SelectIs
  <2>2. Asks("having") => x.having = <<AskedNumber("having")>>
    BY DEF Filters
  <2>3. ~Asks("having") => x.having = <<>>
    BY DEF Filters
  <2>4. <<AskedNumber("having")>> # <<>>
    OBVIOUS
  <2> QED BY <2>1, <2>2, <2>3, <2>4
<1>5. Asks("having") => least = AskedNumber("having")
  <2> SUFFICES ASSUME Asks("having") PROVE least = AskedNumber("having")
    OBVIOUS
  <2> DEFINE w == x.wheres
             t == x.having
             e == <<>>
  <2>1. t = <<AskedNumber("having")>> /\ t # <<>> /\ t[1] = AskedNumber("having")
    BY DEF Filters
  <2>2. w \in Seq(WhereRec) /\ t \in Seq(Nat) /\ e \in Seq(Nat)
    BY <1>1, NumberSeq DEF BuilderFields
  <2>3. Statement(s, w, e, t)
    BY <1>1, SelectIs
  <2> HIDE DEF w, t, e
  <2>4. Len(s.where) = Len(w)
    BY <2>2, <2>3, StatementWhere DEF Worded
  <2>5. Binds(s, w, t)
    BY <2>2, <2>3, ClauseBinds
  <2> QED BY <2>1, <2>4, <2>5 DEF Binds
<1> HIDE DEF least
<1>6. Results(s, data) = IF s.group
        THEN {g \in {Group(i) : i \in AskedRows} : s.having => GroupSize(g) >= least}
        ELSE AskedRows
  BY <1>2, Zenon DEF Results, GroupSize, least
<1>7. ASSUME NEW g PROVE (s.having => GroupSize(g) >= least) <=> GroupSize(g) >= AskedNumber("having")
  <2>1. CASE Asks("having")
    BY <1>4, <1>5, <2>1
  <2>2. CASE ~Asks("having")
    <3>1. AskedNumber("having") = 0
      BY <2>2 DEF AskedNumber
    <3> QED BY <1>4, <2>2, <3>1, AskedFinite
  <2> QED BY <2>1, <2>2
<1> QED BY <1>3, <1>6, <1>7, AskedResultsAre, Zenon

\* The pages of a read.
LEMMA PagedIs ==
  ASSUME NEW s, NEW R, R \subseteq Nat, IsFiniteSet(R), s.limit \in Nat, s.offset \in Nat
  PROVE  /\ Paged(s, R) \subseteq R
         /\ s.limit = 0 /\ s.offset = 0 => Paged(s, R) = R
         /\ s.limit = 1 /\ s.offset = 0 => (Paged(s, R) = {} <=> R = {})
<1>1. Paged(s, R) \subseteq R
  BY DEF Paged
<1>2. \A r \in R : Place(R, r) \in Nat /\ 1 <= Place(R, r)
  BY PlaceIs
<1>3. s.limit = 0 /\ s.offset = 0 => Paged(s, R) = R
  <2> SUFFICES ASSUME s.limit = 0, s.offset = 0 PROVE Paged(s, R) = R
    OBVIOUS
  <2>1. \A r \in R : s.offset < Place(R, r) /\ ~(s.limit > 0)
    BY <1>2
  <2> QED BY <2>1, Zenon DEF Paged
<1>4. ASSUME s.limit = 1, s.offset = 0, R # {} PROVE Paged(s, R) # {}
  <2>1. PICK r \in R : Place(R, r) = 1
    BY <1>4, FirstPlace
  <2>2. r \in Paged(s, R)
    BY <1>4, <2>1 DEF Paged
  <2> QED BY <2>2
<1> QED BY <1>1, <1>3, <1>4

\* A page of R as Paginate computes it, and what it has to be.
PageOf(s, R, page, per, T, L, from, to) ==
  /\ s.limit = per /\ s.offset = (page - 1) * per /\ T = Cardinality(R)
  /\ L = Max({1, (T + per - 1) \div per})
  /\ from = (IF T = 0 THEN 0 ELSE (page - 1) * per + 1)
  /\ to = Min({page * per, T})

Tiled(s, R, page, per, T, L, from, to) ==
  /\ L = Cardinality({k \div per : k \in 0..T - 1} \union {0})
  /\ Paged(s, R) = {r \in R : Place(R, r) \in from..to}
  /\ page > L => Paged(s, R) = {}

\* A page holds the rows From..To, and none is left behind the last page.
LEMMA PageIs ==
  ASSUME NEW s, NEW R, R \subseteq Nat, IsFiniteSet(R), NEW page \in Nat, NEW per \in Nat,
         page >= 1, per >= 1, NEW T, NEW L, NEW from, NEW to, PageOf(s, R, page, per, T, L, from, to)
  PROVE  Tiled(s, R, page, per, T, L, from, to)
<1>0. /\ s.limit = per /\ s.offset = (page - 1) * per /\ T = Cardinality(R)
      /\ L = Max({1, (T + per - 1) \div per})
      /\ from = (IF T = 0 THEN 0 ELSE (page - 1) * per + 1)
      /\ to = Min({page * per, T})
  BY Zenon DEF PageOf
<1>1. T \in Nat
  BY <1>0, FS_CardinalityType
<1>2. L \in Nat /\ L >= 1 /\ T <= L * per /\ L = Cardinality({k \div per : k \in 0..T - 1} \union {0})
  BY <1>0, <1>1, LastPage
<1> DEFINE o == (page - 1) * per
<1>3. o \in Nat /\ page * per = o + per
  <2>1. page - 1 \in Nat /\ (page - 1) + 1 = page /\ page - 1 <= page
    OBVIOUS
  <2> QED BY <2>1, MulLess
<1>4. s.offset = o /\ s.limit = per /\ s.limit > 0
  BY <1>0
<1>5. to \in {o + per, T} /\ to <= o + per /\ to <= T
  <2>1. o + per \in Int /\ T \in Int
    BY <1>1, <1>3
  <2>2. to = Min({o + per, T})
    BY <1>0, <1>3
  <2> QED BY <2>1, <2>2, MinOfTwo
<1>6. from = IF T = 0 THEN 0 ELSE o + 1
  BY <1>0
<1>7. page > L => T <= o
  <2> SUFFICES ASSUME page > L PROVE T <= o
    OBVIOUS
  <2>1. page - 1 \in Nat /\ L <= page - 1
    BY <1>2
  <2>2. L * per <= o /\ L * per \in Nat
    BY <1>2, <2>1, MulLess
  <2> QED BY <1>1, <1>2, <1>3, <2>2
<1> HIDE DEF o
<1>8. \A r \in R : Place(R, r) \in Nat /\ 1 <= Place(R, r) /\ Place(R, r) <= T
  BY <1>0, PlaceIs
<1>9. Paged(s, R) = {r \in R : o < Place(R, r) /\ Place(R, r) <= o + per}
  BY <1>4, Zenon DEF Paged
<1>10. \A r \in R : (o < Place(R, r) /\ Place(R, r) <= o + per) <=> Place(R, r) \in from..to
  <2> SUFFICES ASSUME NEW r \in R
               PROVE  (o < Place(R, r) /\ Place(R, r) <= o + per) <=> Place(R, r) \in from..to
    OBVIOUS
  <2> DEFINE y == Place(R, r)
  <2>1. y \in Nat /\ 1 <= y /\ y <= T
    BY <1>8
  <2> HIDE DEF y
  <2>2. from = o + 1
    BY <1>1, <1>6, <2>1
  <2>3. (o < y /\ y <= o + per) <=> y \in from..to
    BY <1>1, <1>3, <1>5, <2>1, <2>2
  <2> QED BY <2>3 DEF y
<1>11. Paged(s, R) = {r \in R : Place(R, r) \in from..to}
  BY <1>9, <1>10, Zenon
<1>12. page > L => Paged(s, R) = {}
  <2> SUFFICES ASSUME page > L PROVE Paged(s, R) = {}
    OBVIOUS
  <2>1. T <= o
    BY <1>7
  <2>2. \A r \in R : ~(o < Place(R, r))
    BY <1>1, <1>3, <1>8, <2>1
  <2> QED BY <1>9, <2>2, Zenon
<1> QED BY <1>2, <1>11, <1>12 DEF Tiled

---------------------------------------------------------------------------
(* A chain of calls.                                                       *)

Tracks(x) ==
  /\ Filters(x)
  /\ x.err <=> Asks("unsafe")
  /\ ~Asks("limit") => x.limit = 0
  /\ ~Asks("offset") => x.offset = 0

BuilderRec(W, H) ==
  [wheres : W, group : BOOLEAN, having : H, limit : Nat, offset : Nat,
   trashed : BOOLEAN, soft : BOOLEAN, err : BOOLEAN]

Builders == BuilderRec(Seq(WhereRec), Seq(Number))

\* x is r but for one field.
Others(x, r, f) ==
  /\ f # "wheres" => x.wheres = r.wheres
  /\ f # "group" => x.group = r.group
  /\ f # "having" => x.having = r.having
  /\ f # "limit" => x.limit = r.limit
  /\ f # "offset" => x.offset = r.offset
  /\ f # "trashed" => x.trashed = r.trashed
  /\ f # "soft" => x.soft = r.soft
  /\ f # "err" => x.err = r.err

LEMMA FieldTypes ==
  ASSUME NEW W, NEW H, NEW r \in BuilderRec(W, H)
  PROVE  /\ r.wheres \in W /\ r.having \in H /\ r.limit \in Nat /\ r.offset \in Nat
         /\ r.group \in BOOLEAN /\ r.trashed \in BOOLEAN /\ r.soft \in BOOLEAN /\ r.err \in BOOLEAN
BY Zenon DEF BuilderRec

\* Setting one field changes no other.
LEMMA SetWheres ==
  ASSUME NEW W, NEW H, NEW r \in BuilderRec(W, H), NEW v \in W, NEW x, x = [r EXCEPT !.wheres = v]
  PROVE  x \in BuilderRec(W, H) /\ x.wheres = v /\ Others(x, r, "wheres")
BY DEF BuilderRec, Others

LEMMA SetHaving ==
  ASSUME NEW W, NEW H, NEW r \in BuilderRec(W, H), NEW v \in H, NEW x, x = [r EXCEPT !.having = v]
  PROVE  x \in BuilderRec(W, H) /\ x.having = v /\ Others(x, r, "having")
BY DEF BuilderRec, Others

LEMMA SetFlags ==
  ASSUME NEW W, NEW H, NEW r \in BuilderRec(W, H), NEW v \in BOOLEAN, NEW x
  PROVE  /\ x = [r EXCEPT !.group = v] => x \in BuilderRec(W, H) /\ x.group = v /\ Others(x, r, "group")
         /\ x = [r EXCEPT !.trashed = v] => x \in BuilderRec(W, H) /\ x.trashed = v /\ Others(x, r, "trashed")
         /\ x = [r EXCEPT !.soft = v] => x \in BuilderRec(W, H) /\ x.soft = v /\ Others(x, r, "soft")
         /\ x = [r EXCEPT !.err = v] => x \in BuilderRec(W, H) /\ x.err = v /\ Others(x, r, "err")
BY DEF BuilderRec, Others

LEMMA SetLimits ==
  ASSUME NEW W, NEW H, NEW r \in BuilderRec(W, H), NEW v \in Nat, NEW x
  PROVE  /\ x = [r EXCEPT !.limit = v] => x \in BuilderRec(W, H) /\ x.limit = v /\ Others(x, r, "limit")
         /\ x = [r EXCEPT !.offset = v] => x \in BuilderRec(W, H) /\ x.offset = v /\ Others(x, r, "offset")
BY DEF BuilderRec, Others

LEMMA BuilderFieldsAre ==
  ASSUME NEW x \in Builders
  PROVE  /\ BuilderFields(x) /\ x.soft \in BOOLEAN /\ x.trashed \in BOOLEAN /\ x.group \in BOOLEAN
         /\ x.err \in BOOLEAN
BY FieldTypes DEF Builders, BuilderFields

\* Some places of a sequence have a last one.
LEMMA GreatestPlace ==
  ASSUME NEW n \in Nat, NEW S, S \subseteq 1..n, S # {}
  PROVE  Max(S) \in S /\ \A k \in S : Max(S) >= k
<1> DEFINE T == {n - k : k \in S}
<1>1. \A k \in S : k \in Int /\ 1 <= k /\ k <= n /\ n - k \in Nat
  OBVIOUS
<1>2. T \subseteq Nat /\ T # {}
  BY <1>1
<1>3. PICK t \in T : \A u \in T : ~(<<u, t>> \in OpToRel(<, Nat))
  <2> HIDE DEF T
  <2> QED BY <1>2, WFMin, NatLessThanWellFounded
<1>4. PICK m \in S : t = n - m
  OBVIOUS
<1>5. \A k \in S : ~(n - k < n - m)
  BY <1>1, <1>2, <1>3, <1>4 DEF OpToRel
<1>6. \A k \in S : m >= k
  BY <1>1, <1>5
<1> QED BY <1>6, Zenon DEF Max

\* One more call of the chain.
LEMMA MoreAsked ==
  ASSUME asked \in Seq(Calls), NEW c \in Calls, asked' = Append(asked, c)
  PROVE  /\ asked' \in Seq(Calls)
         /\ \A op : Asks(op)' <=> (Asks(op) \/ c.op = op)
         /\ \A op : AskedNumber(op)' = IF c.op = op THEN c.n ELSE AskedNumber(op)
<1> DEFINE n == Len(asked)
<1>1. /\ asked' \in Seq(Calls) /\ n \in Nat /\ DOMAIN asked = 1..n /\ DOMAIN asked' = 1..(n + 1)
      /\ asked'[n + 1] = c /\ \A k \in 1..n : asked'[k] = asked[k]
  OBVIOUS
<1> HIDE DEF n
<1>2. \A k : k \in 1..(n + 1) <=> k \in 1..n \/ k = n + 1
  BY <1>1
<1>3. ASSUME NEW op PROVE Asks(op)' <=> (Asks(op) \/ c.op = op)
  BY <1>1, <1>2 DEF Asks
<1>4. ASSUME NEW op PROVE AskedNumber(op)' = IF c.op = op THEN c.n ELSE AskedNumber(op)
  <2> DEFINE S == AskedAt(op)
             S1 == AskedAt(op)'
  <2>1. S = {k \in 1..n : asked[k].op = op} /\ S1 = {k \in 1..(n + 1) : asked'[k].op = op}
    BY <1>1, Zenon DEF AskedAt
  <2>2. CASE c.op = op
    <3>1. n + 1 \in S1 /\ \A k \in S1 : n + 1 >= k
      BY <1>1, <1>2, <2>1, <2>2
    <3>2. S1 \subseteq Int
      BY <1>1, <2>1
    <3> HIDE DEF S1
    <3>3. Max(S1) \in S1 /\ \A k \in S1 : Max(S1) >= k
      BY <3>1, Zenon DEF Max
    <3>4. Max(S1) = n + 1
      <4> DEFINE m == Max(S1)
      <4>1. m \in S1 /\ m >= n + 1
        BY <3>1, <3>3
      <4> HIDE DEF m
      <4>2. m \in Int /\ n + 1 >= m
        BY <3>1, <3>2, <4>1
      <4>3. m = n + 1
        BY <1>1, <4>1, <4>2
      <4> QED BY <4>3 DEF m
    <3>5. Asks(op)'
      BY <1>3, <2>2
    <3>6. AskedNumber(op)' = asked'[Max(S1)].n
      BY <3>5, Zenon DEF AskedNumber, S1
    <3> QED BY <1>1, <2>2, <3>4, <3>6
  <2>3. CASE c.op # op
    <3>1. S1 = S
      BY <1>1, <1>2, <2>1, <2>3
    <3>2. Asks(op)' <=> Asks(op)
      BY <1>3, <2>3
    <3>3. CASE ~Asks(op)
      BY <2>3, <3>2, <3>3 DEF AskedNumber
    <3>4. CASE Asks(op)
      <4>1. PICK m \in S : TRUE
        BY <1>1, <2>1, <3>4 DEF Asks
      <4>3. S \subseteq 1..n
        BY <2>1
      <4>4. Max(S) \in S
        <5> HIDE DEF S
        <5> QED BY <1>1, <4>1, <4>3, GreatestPlace
      <4>5. asked'[Max(S)] = asked[Max(S)]
        BY <1>1, <4>3, <4>4
      <4>6. AskedNumber(op)' = asked'[Max(S1)].n /\ AskedNumber(op) = asked[Max(S)].n
        BY <3>2, <3>4, Zenon DEF AskedNumber, S, S1
      <4> QED BY <2>3, <3>1, <4>5, <4>6
    <3> QED BY <3>3, <3>4
  <2> QED BY <2>2, <2>3
<1> QED BY <1>1, <1>3, <1>4

\* A call that adds no clause leaves the link as it is.
LEMMA LinkKept ==
  ASSUME NEW w, Len(w) \in Nat, NEW q \in Seq(Calls), NEW c \in Calls, c.op # "where", Linked(w, q)
  PROVE  Linked(w, Append(q, c))
<1>1. PICK f : LinkedBy(f, w, q)
  BY DEF Linked
<1> DEFINE m == Len(q)
           r == Append(q, c)
<1>2. m \in Nat /\ Len(r) = m + 1 /\ r[m + 1] = c /\ \A k \in 1..m : r[k] = q[k]
  OBVIOUS
<1>3. f \in [1..Len(w) -> 1..m] /\ \A k \in 1..Len(w) : f[k] \in 1..m /\ r[f[k]] = q[f[k]]
  BY <1>1, <1>2 DEF LinkedBy
<1>4. \A j \in 1..(m + 1) : j \in 1..m \/ j = m + 1
  BY <1>2
<1>5. f \in [1..Len(w) -> 1..(m + 1)]
  <2>1. 1..m \subseteq 1..(m + 1)
    BY <1>2
  <2> HIDE DEF m
  <2> QED BY <1>3, <2>1
<1> HIDE DEF m, r
<1>6. \A k \in 1..Len(w) : /\ r[f[k]].op = "where" /\ w[k].text = r[f[k]].clause.text
                           /\ w[k].args = r[f[k]].clause.args /\ w[k].or = r[f[k]].or
  BY <1>1, <1>3, Zenon DEF LinkedBy
<1>7. \A j \in 1..(m + 1) : r[j].op = "where" => \E k \in 1..Len(w) : f[k] = j
  <2>1. \A j \in 1..m : q[j].op = "where" => \E k \in 1..Len(w) : f[k] = j
    BY <1>1 DEF LinkedBy, m
  <2> QED BY <1>2, <1>4, <2>1
<1>8. \A k, l \in 1..Len(w) : k < l => f[k] < f[l]
  BY <1>1 DEF LinkedBy
<1>9. LinkedBy(f, w, r)
  BY <1>2, <1>5, <1>6, <1>7, <1>8, Zenon DEF LinkedBy
<1> QED BY <1>9, Zenon DEF Linked, r

\* Where adds its clause at the end of both.
LEMMA LinkGrows ==
  ASSUME NEW w \in Seq(WhereRec), NEW q \in Seq(Calls), NEW c \in Calls, NEW v \in WhereRec,
         c.op = "where", v.text = c.clause.text, v.args = c.clause.args, v.or = c.or,
         Linked(w, q)
  PROVE  Linked(Append(w, v), Append(q, c))
<1>1. PICK g : LinkedBy(g, w, q)
  BY DEF Linked
<1> DEFINE m == Len(q)
           n == Len(w)
           r == Append(q, c)
           u == Append(w, v)
           f == [k \in 1..(n + 1) |-> IF k = n + 1 THEN m + 1 ELSE g[k]]
<1>2. m \in Nat /\ Len(r) = m + 1 /\ r[m + 1] = c /\ \A k \in 1..m : r[k] = q[k]
  OBVIOUS
<1>3. n \in Nat /\ Len(u) = n + 1 /\ u[n + 1] = v /\ \A k \in 1..n : u[k] = w[k]
  OBVIOUS
<1>4. /\ g \in [1..n -> 1..m]
      /\ \A k \in 1..n : /\ q[g[k]].op = "where" /\ w[k].text = q[g[k]].clause.text
                         /\ w[k].args = q[g[k]].clause.args /\ w[k].or = q[g[k]].or
      /\ \A j \in 1..m : q[j].op = "where" => \E k \in 1..n : g[k] = j
      /\ \A k, l \in 1..n : k < l => g[k] < g[l]
  BY <1>1 DEF LinkedBy
<1> HIDE DEF m, n, r, u
<1>5. \A k \in 1..(n + 1) : (k \in 1..n /\ k # n + 1) \/ k = n + 1
  BY <1>3
<1>6. \A k \in 1..n : k \in 1..(n + 1) /\ k # n + 1
  BY <1>3
<1>7. n + 1 \in 1..(n + 1) /\ m + 1 \in 1..(m + 1) /\ \A j \in 1..m : j \in 1..(m + 1) /\ j < m + 1
  BY <1>2, <1>3
<1>8. f[n + 1] = m + 1 /\ \A k \in 1..n : f[k] = g[k]
  BY <1>6, <1>7, Zenon
<1>9. f \in [1..(n + 1) -> 1..(m + 1)]
  BY <1>4, <1>5, <1>7
<1> HIDE DEF f
<1>10. ASSUME NEW k \in 1..(n + 1)
       PROVE  /\ r[f[k]].op = "where" /\ u[k].text = r[f[k]].clause.text
              /\ u[k].args = r[f[k]].clause.args /\ u[k].or = r[f[k]].or
  <2>1. CASE k = n + 1
    <3>1. u[k] = v /\ r[f[k]] = c
      BY <1>2, <1>3, <1>8, <2>1
    <3> QED BY <3>1, Zenon
  <2>2. CASE k \in 1..n
    <3>1. u[k] = w[k] /\ g[k] \in 1..m /\ f[k] = g[k]
      BY <1>3, <1>4, <1>8, <2>2
    <3>2. r[f[k]] = q[g[k]]
      BY <1>2, <3>1
    <3> QED BY <1>4, <2>2, <3>1, <3>2, Zenon
  <2> QED BY <1>5, <2>1, <2>2
<1>11. ASSUME NEW j \in 1..(m + 1), r[j].op = "where" PROVE \E k \in 1..(n + 1) : f[k] = j
  <2>1. CASE j = m + 1
    BY <1>7, <1>8, <2>1
  <2>2. CASE j # m + 1
    <3>1. j \in 1..m
      BY <1>2, <2>2
    <3>2. PICK k \in 1..n : g[k] = j
      BY <1>2, <1>4, <1>11, <3>1
    <3> QED BY <1>6, <1>8, <3>2
  <2> QED BY <2>1, <2>2
<1>12. ASSUME NEW k \in 1..(n + 1), NEW l \in 1..(n + 1), k < l PROVE f[k] < f[l]
  <2>1. k \in 1..n
    BY <1>3, <1>12
  <2>2. CASE l = n + 1
    BY <1>4, <1>7, <1>8, <2>1, <2>2
  <2>3. CASE l \in 1..n
    BY <1>4, <1>8, <1>12, <2>1, <2>3
  <2> QED BY <1>5, <2>2, <2>3
<1>13. LinkedBy(f, u, r)
  <2>1. \A k \in 1..(n + 1) : /\ r[f[k]].op = "where" /\ u[k].text = r[f[k]].clause.text
                              /\ u[k].args = r[f[k]].clause.args /\ u[k].or = r[f[k]].or
    BY <1>10
  <2>2. \A j \in 1..(m + 1) : r[j].op = "where" => \E k \in 1..(n + 1) : f[k] = j
    BY <1>11
  <2>3. \A k, l \in 1..(n + 1) : k < l => f[k] < f[l]
    BY <1>12
  <2> QED BY <1>2, <1>3, <1>9, <2>1, <2>2, <2>3, Zenon DEF LinkedBy
<1> QED BY <1>13, Zenon DEF Linked, u, r

\* While a chain runs, the builder holds what its calls asked for.
BuilderInv ==
  /\ data \in [Id -> RowStates] /\ asked \in Seq(Calls)
  /\ busy => b \in Builders /\ Tracks(b) /\ out.op = "none"
  /\ BuilderExact

LEMMA NothingYet ==
  ASSUME out.op = "none"
  PROVE  BuilderExact
BY DEF BuilderExact, ReadsWhatWasAsked, WritesWhatWasAsked, PagesTile

LEMMA NothingYetPrimed ==
  ASSUME (out.op)' = "none"
  PROVE  BuilderExact'
BY DEF BuilderExact, ReadsWhatWasAsked, WritesWhatWasAsked, PagesTile

\* What a call c leaves the builder as.
Follows(x, c) ==
  /\ Linked(x.wheres, Append(asked, c))
  /\ x.soft <=> (b.soft \/ c.op = "soft")
  /\ x.trashed <=> (b.trashed \/ c.op = "trashed")
  /\ x.group <=> (b.group \/ c.op = "group")
  /\ x.err <=> (b.err \/ c.op = "unsafe")
  /\ x.having = (IF c.op = "having" THEN <<c.n>> ELSE b.having)
  /\ c.op = "having" => c.n \in Nat
  /\ c.op # "limit" => x.limit = b.limit
  /\ c.op # "offset" => x.offset = b.offset

\* A call that leaves the builder as Follows says keeps the invariant.
LEMMA ChainStep ==
  ASSUME BuilderInv, NEW c \in Calls, NEW x \in Builders, Chain(c, x), Follows(x, c)
  PROVE  BuilderInv'
<1>1. /\ busy /\ asked' = Append(asked, c) /\ b' = x /\ data' = data /\ out' = out
      /\ Tracks(b) /\ out.op = "none" /\ asked \in Seq(Calls) /\ data \in [Id -> RowStates]
  BY DEF Chain, BuilderInv
<1>2. /\ asked' \in Seq(Calls)
      /\ \A op : Asks(op)' <=> (Asks(op) \/ c.op = op)
      /\ \A op : AskedNumber(op)' = IF c.op = op THEN c.n ELSE AskedNumber(op)
  BY <1>1, MoreAsked
<1>3. Linked(x.wheres, asked)'
  <2>1. Linked(x.wheres, Append(asked, c))
    BY DEF Follows
  <2> QED BY <1>1, <2>1
<1>4. BuilderFields(x)
  BY BuilderFieldsAre
<1>5. /\ x.soft <=> Asks("soft")'
      /\ x.trashed <=> Asks("trashed")'
      /\ x.group <=> Asks("group")'
      /\ x.err <=> Asks("unsafe")'
  <2>1. /\ x.soft <=> (b.soft \/ c.op = "soft")
        /\ x.trashed <=> (b.trashed \/ c.op = "trashed")
        /\ x.group <=> (b.group \/ c.op = "group")
        /\ x.err <=> (b.err \/ c.op = "unsafe")
    BY DEF Follows
  <2>2. /\ b.soft <=> Asks("soft")
        /\ b.trashed <=> Asks("trashed")
        /\ b.group <=> Asks("group")
        /\ b.err <=> Asks("unsafe")
    BY <1>1 DEF Tracks, Filters
  <2> QED BY <1>2, <2>1, <2>2
<1>6. /\ x.having = (IF Asks("having")' THEN <<AskedNumber("having")'>> ELSE <<>>)
      /\ Asks("having")' => AskedNumber("having")' \in Nat
  <2>1. /\ x.having = (IF c.op = "having" THEN <<c.n>> ELSE b.having)
        /\ c.op = "having" => c.n \in Nat
    BY DEF Follows
  <2>2. /\ b.having = (IF Asks("having") THEN <<AskedNumber("having")>> ELSE <<>>)
        /\ Asks("having") => AskedNumber("having") \in Nat
    BY <1>1 DEF Tracks, Filters
  <2>3. Asks("having")' <=> (Asks("having") \/ c.op = "having")
    BY <1>2
  <2>4. AskedNumber("having")' = IF c.op = "having" THEN c.n ELSE AskedNumber("having")
    BY <1>2
  <2>5. CASE c.op = "having"
    BY <2>1, <2>3, <2>4, <2>5
  <2>6. CASE c.op # "having"
    BY <2>1, <2>2, <2>3, <2>4, <2>6
  <2> QED BY <2>5, <2>6
<1>7. /\ ~Asks("limit")' => x.limit = 0
      /\ ~Asks("offset")' => x.offset = 0
  <2>1. (~Asks("limit") => b.limit = 0) /\ (~Asks("offset") => b.offset = 0)
    BY <1>1 DEF Tracks
  <2>2. (c.op # "limit" => x.limit = b.limit) /\ (c.op # "offset" => x.offset = b.offset)
    BY DEF Follows
  <2> QED BY <1>2, <2>1, <2>2
<1>8. Tracks(b)'
  <2>1. BuilderFields(b)' /\ Linked(b.wheres, asked)'
    BY <1>1, <1>3, <1>4 DEF BuilderFields
  <2> QED BY <1>1, <1>5, <1>6, <1>7, <2>1 DEF Tracks, Filters
<1>9. (out.op)' = "none"
  BY <1>1
<1>10. BuilderExact'
  BY <1>9, NothingYetPrimed
<1> QED BY <1>1, <1>2, <1>8, <1>9, <1>10 DEF BuilderInv

\* A call that sets one field other than the clauses.
LEMMA KeepsClauses ==
  ASSUME BuilderInv, busy, NEW c \in Calls, c.op # "where", NEW x, x.wheres = b.wheres
  PROVE  Linked(x.wheres, Append(asked, c))
<1>1. Linked(b.wheres, asked) /\ b.wheres \in Seq(WhereRec) /\ asked \in Seq(Calls)
  BY DEF BuilderInv, Tracks, Filters, BuilderFields
<1>2. Len(b.wheres) \in Nat
  BY <1>1, WheresAre
<1> QED BY <1>1, <1>2, LinkKept

LEMMA CallIn ==
  /\ \A op \in {"notin_empty", "soft", "trashed", "group", "unsafe"} : Call(op) \in Calls /\ Call(op).op = op
  /\ \A cl \in Clause, or \in BOOLEAN :
       LET c == [op |-> "where", clause |-> cl, or |-> or] IN
       c \in Calls /\ c.op = "where" /\ c.clause = cl /\ c.or = or
  /\ \A op \in {"having", "limit", "offset"}, n \in Number :
       LET c == [op |-> op, n |-> n] IN c \in Calls /\ c.op = op /\ c.n = n
BY DEF Calls, Call

\* The calls that set a flag, or nothing.
LEMMA ChainFlags ==
  ASSUME BuilderInv, WhereNotInEmpty \/ SoftDelete \/ WithTrashed \/ GroupBy \/ Unsafe
  PROVE  BuilderInv'
<1>1. busy
  BY DEF WhereNotInEmpty, SoftDelete, WithTrashed, GroupBy, Unsafe, Chain
<1>2. b \in Builders
  BY <1>1 DEF BuilderInv
<1>3. TRUE \in BOOLEAN
  OBVIOUS
<1>4. CASE WhereNotInEmpty
  <2> DEFINE c == Call("notin_empty")
  <2>1. c \in Calls /\ c.op = "notin_empty"
    BY CallIn
  <2>2. Chain(c, b)
    BY <1>4 DEF WhereNotInEmpty
  <2> HIDE DEF c
  <2>3. Linked(b.wheres, Append(asked, c))
    BY <1>1, <2>1, KeepsClauses
  <2>4. Follows(b, c)
    BY <2>1, <2>3 DEF Follows
  <2> QED BY <1>2, <2>1, <2>2, <2>4, ChainStep
<1>5. CASE SoftDelete
  <2> DEFINE c == Call("soft")
             x == [b EXCEPT !.soft = TRUE]
  <2>1. c \in Calls /\ c.op = "soft"
    BY CallIn
  <2>2. Chain(c, x)
    BY <1>5 DEF SoftDelete
  <2>3. x \in Builders /\ x.soft = TRUE /\ Others(x, b, "soft")
    BY <1>2, <1>3, SetFlags DEF Builders
  <2> HIDE DEF c, x
  <2>4. Linked(x.wheres, Append(asked, c))
    BY <1>1, <2>1, <2>3, KeepsClauses DEF Others
  <2>5. Follows(x, c)
    BY <2>1, <2>3, <2>4 DEF Follows, Others
  <2> QED BY <2>1, <2>2, <2>3, <2>5, ChainStep
<1>6. CASE WithTrashed
  <2> DEFINE c == Call("trashed")
             x == [b EXCEPT !.trashed = TRUE]
  <2>1. c \in Calls /\ c.op = "trashed"
    BY CallIn
  <2>2. Chain(c, x)
    BY <1>6 DEF WithTrashed
  <2>3. x \in Builders /\ x.trashed = TRUE /\ Others(x, b, "trashed")
    BY <1>2, <1>3, SetFlags DEF Builders
  <2> HIDE DEF c, x
  <2>4. Linked(x.wheres, Append(asked, c))
    BY <1>1, <2>1, <2>3, KeepsClauses DEF Others
  <2>5. Follows(x, c)
    BY <2>1, <2>3, <2>4 DEF Follows, Others
  <2> QED BY <2>1, <2>2, <2>3, <2>5, ChainStep
<1>7. CASE GroupBy
  <2> DEFINE c == Call("group")
             x == [b EXCEPT !.group = TRUE]
  <2>1. c \in Calls /\ c.op = "group"
    BY CallIn
  <2>2. Chain(c, x)
    BY <1>7 DEF GroupBy
  <2>3. x \in Builders /\ x.group = TRUE /\ Others(x, b, "group")
    BY <1>2, <1>3, SetFlags DEF Builders
  <2> HIDE DEF c, x
  <2>4. Linked(x.wheres, Append(asked, c))
    BY <1>1, <2>1, <2>3, KeepsClauses DEF Others
  <2>5. Follows(x, c)
    BY <2>1, <2>3, <2>4 DEF Follows, Others
  <2> QED BY <2>1, <2>2, <2>3, <2>5, ChainStep
<1>8. CASE Unsafe
  <2> DEFINE c == Call("unsafe")
             x == [b EXCEPT !.err = TRUE]
  <2>1. c \in Calls /\ c.op = "unsafe"
    BY CallIn
  <2>2. Chain(c, x)
    BY <1>8 DEF Unsafe
  <2>3. x \in Builders /\ x.err = TRUE /\ Others(x, b, "err")
    BY <1>2, <1>3, SetFlags DEF Builders
  <2> HIDE DEF c, x
  <2>4. Linked(x.wheres, Append(asked, c))
    BY <1>1, <2>1, <2>3, KeepsClauses DEF Others
  <2>5. Follows(x, c)
    BY <2>1, <2>3, <2>4 DEF Follows, Others
  <2> QED BY <2>1, <2>2, <2>3, <2>5, ChainStep
<1> QED BY <1>4, <1>5, <1>6, <1>7, <1>8

\* The calls that set a number.
LEMMA ChainNumbers ==
  ASSUME BuilderInv, NEW v \in Number, Having(v) \/ Limit(v) \/ Offset(v)
  PROVE  BuilderInv'
<1>1. busy
  BY DEF Having, Limit, Offset, Chain
<1>2. b \in Builders
  BY <1>1 DEF BuilderInv
<1>3. v \in Nat
  BY BuilderAssumption
<1>4. CASE Having(v)
  <2> DEFINE c == [op |-> "having", n |-> v]
             x == [b EXCEPT !.having = <<v>>]
  <2>1. c \in Calls /\ c.op = "having" /\ c.n = v
    BY CallIn
  <2>2. Chain(c, x)
    BY <1>4 DEF Having
  <2>3. <<v>> \in Seq(Number)
    OBVIOUS
  <2>4. x \in Builders /\ x.having = <<v>> /\ Others(x, b, "having")
    BY <1>2, <2>3, SetHaving DEF Builders
  <2> HIDE DEF c, x
  <2>5. Linked(x.wheres, Append(asked, c))
    BY <1>1, <2>1, <2>4, KeepsClauses DEF Others
  <2>6. Follows(x, c)
    BY <1>3, <2>1, <2>4, <2>5 DEF Follows, Others
  <2> QED BY <2>1, <2>2, <2>4, <2>6, ChainStep
<1>5. CASE Limit(v)
  <2> DEFINE c == [op |-> "limit", n |-> v]
             x == [b EXCEPT !.limit = v]
  <2>1. c \in Calls /\ c.op = "limit" /\ c.n = v
    BY CallIn
  <2>2. Chain(c, x)
    BY <1>5 DEF Limit
  <2>4. x \in Builders /\ x.limit = v /\ Others(x, b, "limit")
    BY <1>2, <1>3, SetLimits DEF Builders
  <2> HIDE DEF c, x
  <2>5. Linked(x.wheres, Append(asked, c))
    BY <1>1, <2>1, <2>4, KeepsClauses DEF Others
  <2>6. Follows(x, c)
    BY <1>3, <2>1, <2>4, <2>5 DEF Follows, Others
  <2> QED BY <2>1, <2>2, <2>4, <2>6, ChainStep
<1>6. CASE Offset(v)
  <2> DEFINE c == [op |-> "offset", n |-> v]
             x == [b EXCEPT !.offset = v]
  <2>1. c \in Calls /\ c.op = "offset" /\ c.n = v
    BY CallIn
  <2>2. Chain(c, x)
    BY <1>6 DEF Offset
  <2>4. x \in Builders /\ x.offset = v /\ Others(x, b, "offset")
    BY <1>2, <1>3, SetLimits DEF Builders
  <2> HIDE DEF c, x
  <2>5. Linked(x.wheres, Append(asked, c))
    BY <1>1, <2>1, <2>4, KeepsClauses DEF Others
  <2>6. Follows(x, c)
    BY <1>3, <2>1, <2>4, <2>5 DEF Follows, Others
  <2> QED BY <2>1, <2>2, <2>4, <2>6, ChainStep
<1> QED BY <1>4, <1>5, <1>6

\* The calls that add a clause.
LEMMA ChainWhere ==
  ASSUME BuilderInv, NEW cl \in Clause, NEW or \in BOOLEAN, Where(cl, or)
  PROVE  BuilderInv'
<1> DEFINE v == [text |-> cl.text, args |-> cl.args, or |-> or]
           c == [op |-> "where", clause |-> cl, or |-> or]
           w == Append(b.wheres, v)
           x == [b EXCEPT !.wheres = w]
<1>1. busy /\ Chain(c, x)
  BY DEF Where, Chain
<1>2. /\ b \in Builders /\ Linked(b.wheres, asked) /\ b.wheres \in Seq(WhereRec)
      /\ asked \in Seq(Calls)
  BY <1>1 DEF BuilderInv, Tracks, Filters, BuilderFields
<1>3. c \in Calls /\ c.op = "where" /\ c.clause = cl /\ c.or = or
  BY CallIn
<1>4. v \in WhereRec /\ v.text = cl.text /\ v.args = cl.args /\ v.or = or
  <2>1. cl.args \in Seq(Id) /\ cl.text \in ClauseText
    BY BuilderAssumption DEF ClauseText
  <2> DEFINE a == cl.args
             t == cl.text
             A == Seq(Id)
  <2> HIDE DEF a, t, A
  <2>2. a \in A /\ t \in ClauseText
    BY <2>1 DEF a, t, A
  <2>3. [text |-> t, args |-> a, or |-> or] \in [text : ClauseText, args : A, or : BOOLEAN]
    BY <2>2
  <2> QED BY <2>3 DEF WhereRec, a, t, A
<1> HIDE DEF v, c
<1>5. w \in Seq(WhereRec)
  <2> DEFINE E == WhereRec
  <2> HIDE DEF E
  <2>1. b.wheres \in Seq(E) /\ v \in E
    BY <1>2, <1>4 DEF E
  <2>2. Append(b.wheres, v) \in Seq(E)
    BY <2>1
  <2> QED BY <2>2 DEF E
<1>6. Linked(w, Append(asked, c))
  BY <1>2, <1>3, <1>4, LinkGrows
<1> HIDE DEF w
<1>7. x \in Builders /\ x.wheres = w /\ Others(x, b, "wheres")
  BY <1>2, <1>5, SetWheres DEF Builders
<1> HIDE DEF x
<1>8. Follows(x, c)
  BY <1>3, <1>6, <1>7 DEF Follows, Others
<1> QED BY <1>1, <1>3, <1>7, <1>8, ChainStep

---------------------------------------------------------------------------
(* The methods that end a chain.                                           *)

\* The calls of the chain stay what they are.
LEMMA SameChain ==
  ASSUME asked' = asked
  PROVE  /\ \A op : Asks(op)' <=> Asks(op)
         /\ \A op : AskedNumber(op)' = AskedNumber(op)
         /\ \A op : AskedAt(op)' = AskedAt(op)
         /\ \A i : AskedRow(i)' <=> AskedRow(i)
<1>1. \A op : (Asks(op)' <=> Asks(op)) /\ AskedAt(op)' = AskedAt(op)
  BY Zenon DEF Asks, AskedAt
<1>2. \A op : AskedNumber(op)' = AskedNumber(op)
  BY <1>1, Zenon DEF AskedNumber
<1>3. \A i : AskedRow(i)' <=> AskedRow(i)
  BY <1>1, Zenon DEF AskedRow
<1> QED BY <1>1, <1>2, <1>3

\* What was asked for is the same while neither the calls nor the rows change.
LEMMA SameAsked ==
  ASSUME asked' = asked, data' = data
  PROVE  AskedResults' = AskedResults
<1>1. \A i : Visible(i)' <=> Visible(i)
  BY SameChain, Zenon DEF Visible, Seen
<1>2. AskedRows' = AskedRows
  BY <1>1, SameChain, Zenon DEF AskedRows
<1>3. \A g : GroupSize(g)' = GroupSize(g)
  BY <1>2, Zenon DEF GroupSize
<1>4. (Asks("group")' <=> Asks("group")) /\ AskedNumber("having")' = AskedNumber("having")
  BY SameChain
<1>5. AskedResults' = IF Asks("group")'
                      THEN {g \in {Group(i) : i \in AskedRows'} : GroupSize(g)' >= AskedNumber("having")'}
                      ELSE AskedRows'
  BY Zenon DEF AskedResults, AskedRows, GroupSize
<1> QED BY <1>2, <1>3, <1>4, <1>5, AskedResultsAre, Zenon

\* A chain ends: only the result has to be right.
LEMMA FinishStep ==
  ASSUME BuilderInv, NEW x, NEW res, NEW d \in [Id -> RowStates], Finish(x, res, d), BuilderExact'
  PROVE  BuilderInv'
BY DEF BuilderInv, Finish

\* A chain that fails returns nothing.
LEMMA FailedStep ==
  ASSUME BuilderInv, Failed
  PROVE  BuilderInv'
<1>1. out' = [op |-> "error"] /\ Finish(b, [op |-> "error"], data)
  BY DEF Failed, Finish
<1>2. BuilderExact'
  BY <1>1 DEF BuilderExact, ReadsWhatWasAsked, WritesWhatWasAsked, PagesTile
<1> QED BY <1>1, <1>2, FinishStep DEF BuilderInv

LEMMA BusyIs ==
  ASSUME BuilderInv, busy
  PROVE  /\ data \in [Id -> RowStates] /\ asked \in Seq(Calls) /\ b \in Builders
         /\ Tracks(b) /\ Filters(b) /\ b.wheres \in Seq(WhereRec) /\ Linked(b.wheres, asked)
         /\ b.err \in BOOLEAN /\ (b.err <=> Asks("unsafe")) /\ b.limit \in Nat /\ b.offset \in Nat
BY BuilderFieldsAre DEF BuilderInv, Tracks, Filters, BuilderFields

\* The filters stay those of the chain when only the paging changes.
LEMMA SamePaging ==
  ASSUME NEW x \in Builders, Filters(b), x.wheres = b.wheres, x.group = b.group,
         x.having = b.having, x.soft = b.soft, x.trashed = b.trashed
  PROVE  Filters(x)
BY BuilderFieldsAre DEF Filters

PagedAs(x, l, o) == x = [b EXCEPT !.limit = l, !.offset = o]

LEMMA SetPaging ==
  ASSUME b \in Builders, Filters(b), NEW l \in Nat, NEW o \in Nat, NEW x, PagedAs(x, l, o)
  PROVE  x \in Builders /\ Filters(x) /\ x.limit = l /\ x.offset = o /\ x.group = b.group
<1> DEFINE y == [b EXCEPT !.limit = l]
<1>1. y \in Builders /\ y.limit = l /\ Others(y, b, "limit")
  BY SetLimits DEF Builders
<1>2. x = [y EXCEPT !.offset = o]
  BY DEF PagedAs
<1> HIDE DEF y
<1>3. x \in Builders /\ x.offset = o /\ Others(x, y, "offset")
  BY <1>1, <1>2, SetLimits DEF Builders
<1> QED BY <1>1, <1>3, SamePaging DEF Others

\* All and First.
LEMMA ReadExact ==
  ASSUME asked' = asked, data' = data, asked \in Seq(Calls), data \in [Id -> RowStates],
         NEW x, Filters(x), ~Asks("unsafe"), NEW op \in {"all", "first"},
         op = "all" => (~Asks("limit") => x.limit = 0), op = "first" => x.limit = 1,
         ~Asks("offset") => x.offset = 0,
         out' = [op |-> op, rows |-> Paged(BuildSelect(x), Results(BuildSelect(x), data))]
  PROVE  BuilderExact'
<1> DEFINE s == BuildSelect(x)
           R == AskedResults
           P == Paged(s, R)
<1>1. Results(s, data) = R
  BY ResultsAre
<1>2. s.limit = x.limit /\ s.offset = x.offset /\ x.limit \in Nat /\ x.offset \in Nat
  <2>1. BuilderFields(x)
    BY DEF Filters
  <2> QED BY <2>1, SelectIs DEF BuilderFields
<1>3. R \subseteq Nat /\ IsFiniteSet(R)
  BY AskedFinite
<1>4. out' = [op |-> op, rows |-> P]
  BY <1>1
<1> HIDE DEF s, R
<1>5. /\ P \subseteq R
      /\ s.limit = 0 /\ s.offset = 0 => P = R
      /\ s.limit = 1 /\ s.offset = 0 => (P = {} <=> R = {})
  BY <1>2, <1>3, PagedIs
<1> HIDE DEF P
<1>6. (out.op)' = op /\ (out.rows)' = P
  BY <1>4
<1>7. \A o : Asks(o)' <=> Asks(o)
  BY SameChain
<1>8. AskedResults' = R
  BY SameAsked DEF R
<1>9. op = "all" /\ ~Asks("limit")' /\ ~Asks("offset")' => P = R
  BY <1>2, <1>5, <1>7
<1>10. op = "first" /\ ~Asks("offset")' => (P = {} <=> R = {})
  BY <1>2, <1>5, <1>7
<1>11. ReadsWhatWasAsked'
  BY <1>5, <1>6, <1>7, <1>8, <1>9, <1>10 DEF ReadsWhatWasAsked
<1>12. WritesWhatWasAsked' /\ PagesTile'
  BY <1>6 DEF WritesWhatWasAsked, PagesTile
<1> QED BY <1>11, <1>12 DEF BuilderExact

LEMMA ReadStep ==
  ASSUME BuilderInv, All \/ First
  PROVE  BuilderInv'
<1>1. busy
  BY DEF All, First, Read, Failed, Finish
<1>2. /\ data \in [Id -> RowStates] /\ asked \in Seq(Calls) /\ b \in Builders
      /\ Tracks(b) /\ Filters(b) /\ (b.err <=> Asks("unsafe"))
  BY <1>1, BusyIs
<1>3. CASE b.err
  <2>1. Failed
    BY <1>3 DEF All, First, Read
  <2> QED BY <2>1, FailedStep
<1>4. CASE ~b.err
  <2> DEFINE res(op, x) == [op |-> op, rows |-> Paged(BuildSelect(x), Results(BuildSelect(x), data))]
  <2>1. CASE All
    <3>1. Finish(b, res("all", b), data)
      BY <1>4, <2>1 DEF All, Read
    <3>2. asked' = asked /\ data' = data /\ out' = res("all", b)
      BY <3>1 DEF Finish
    <3>3. (~Asks("limit") => b.limit = 0) /\ (~Asks("offset") => b.offset = 0)
      BY <1>2 DEF Tracks
    <3>4. BuilderExact'
      BY <1>2, <1>4, <3>2, <3>3, ReadExact
    <3> QED BY <1>2, <3>1, <3>4, FinishStep
  <2>2. CASE First
    <3> DEFINE x == [b EXCEPT !.limit = 1]
    <3>1. Finish(x, res("first", x), data)
      BY <1>4, <2>2 DEF First, Read
    <3>2. asked' = asked /\ data' = data /\ out' = res("first", x)
      BY <3>1 DEF Finish
    <3>3. x \in Builders /\ x.limit = 1 /\ Others(x, b, "limit")
      BY <1>2, SetLimits DEF Builders
    <3> HIDE DEF x
    <3>4. Filters(x) /\ (~Asks("offset") => x.offset = 0)
      BY <1>2, <3>3, SamePaging DEF Others, Tracks
    <3>5. BuilderExact'
      BY <1>2, <1>4, <3>2, <3>3, <3>4, ReadExact
    <3> QED BY <1>2, <3>1, <3>5, FinishStep
  <2> QED BY <2>1, <2>2
<1> QED BY <1>3, <1>4

LEMMA CountStep ==
  ASSUME BuilderInv, Count
  PROVE  BuilderInv'
<1>1. busy
  BY DEF Count, Failed, Finish
<1>2. /\ data \in [Id -> RowStates] /\ asked \in Seq(Calls) /\ b \in Builders
      /\ Tracks(b) /\ Filters(b) /\ (b.err <=> Asks("unsafe"))
  BY <1>1, BusyIs
<1>3. CASE b.err
  BY <1>3, FailedStep DEF Count
<1>4. CASE ~b.err
  <2>1. Finish(b, [op |-> "count", total |-> CountOf(b)], data)
    BY <1>4 DEF Count
  <2>2. asked' = asked /\ data' = data /\ (out.op)' = "count" /\ (out.total)' = CountOf(b)
    BY <2>1 DEF Finish
  <2>3. (Asks("offset") => Asks("group")) => CountOf(b) = Cardinality(AskedResults)
    <3>1. Results(BuildSelect(b), data) = AskedResults
      BY <1>2, ResultsAre
    <3>2. (b.group <=> Asks("group")) /\ (~Asks("offset") => b.offset = 0)
      BY <1>2 DEF Tracks, Filters
    <3>3. ~(b.offset > 0) \/ b.group => CountOf(b) = Cardinality(AskedResults)
      BY <3>1, Zenon DEF CountOf
    <3> QED BY <3>2, <3>3
  <2>4. (\A op : Asks(op)' <=> Asks(op)) /\ AskedResults' = AskedResults
    BY <2>2, SameChain, SameAsked
  <2>5. ReadsWhatWasAsked'
    BY <1>2, <1>4, <2>2, <2>3, <2>4 DEF ReadsWhatWasAsked
  <2>6. WritesWhatWasAsked' /\ PagesTile'
    BY <2>2 DEF WritesWhatWasAsked, PagesTile
  <2>7. BuilderExact'
    BY <2>5, <2>6 DEF BuilderExact
  <2> QED BY <1>2, <2>1, <2>7, FinishStep
<1> QED BY <1>3, <1>4

LEMMA PaginateStep ==
  ASSUME BuilderInv, NEW p \in Number, NEW n \in Number, Paginate(p, n)
  PROVE  BuilderInv'
<1> DEFINE page == IF p < 1 THEN 1 ELSE p
           per == IF n < 1 THEN 15 ELSE n
           total == CountOf(CountClone(b))
           x == [b EXCEPT !.limit = per, !.offset = (page - 1) * per]
           s == BuildSelect(x)
           L == Max({1, (total + per - 1) \div per})
           from == IF total = 0 THEN 0 ELSE (page - 1) * per + 1
           to == Min({page * per, total})
           res == [op |-> "page", total |-> total, page |-> page, per |-> per,
                   items |-> Paged(s, Results(s, data)), last |-> L, from |-> from, to |-> to]
           R == AskedResults
<1>1. IF b.err THEN Failed ELSE Finish(x, res, data)
  BY Zenon DEF Paginate
<1>2. busy
  BY <1>1 DEF Failed, Finish
<1>3. /\ data \in [Id -> RowStates] /\ asked \in Seq(Calls) /\ b \in Builders
      /\ Tracks(b) /\ Filters(b) /\ (b.err <=> Asks("unsafe"))
  BY <1>2, BusyIs
<1>4. CASE b.err
  BY <1>1, <1>4, FailedStep
<1>5. CASE ~b.err
  <2>1. Finish(x, res, data)
    BY <1>1, <1>5
  <2>2. p \in Nat /\ n \in Nat
    BY BuilderAssumption
  <2>3. page \in Nat /\ page >= 1 /\ per \in Nat /\ per >= 1 /\ page - 1 \in Nat
    BY <2>2
  <2> HIDE DEF page, per
  <2>4. (page - 1) * per \in Nat
    BY <2>3, MulLess
  <2>5. x \in Builders /\ Filters(x) /\ x.limit = per /\ x.offset = (page - 1) * per
    <3>1. PagedAs(x, per, (page - 1) * per)
      BY Zenon DEF PagedAs
    <3> HIDE DEF x
    <3> QED BY <1>3, <2>3, <2>4, <3>1, SetPaging
  <2> HIDE DEF x
  <2>6. Results(s, data) = R
    BY <1>3, <2>5, ResultsAre
  <2>7. s.limit = per /\ s.offset = (page - 1) * per
    <3>1. BuilderFields(x)
      BY <2>5 DEF Filters
    <3> QED BY <2>5, <3>1, SelectIs
  <2>8. total = Cardinality(R)
    <3> DEFINE y == CountClone(b)
    <3>1. PagedAs(y, 0, 0)
      BY Zenon DEF CountClone, PagedAs
    <3>2. 0 \in Nat
      OBVIOUS
    <3> HIDE DEF y
    <3>3. y \in Builders /\ Filters(y) /\ y.offset = 0
      BY <1>3, <3>1, <3>2, SetPaging
    <3>4. Results(BuildSelect(y), data) = R
      BY <1>3, <3>3, ResultsAre
    <3>5. ~(y.offset > 0)
      BY <3>3
    <3>6. CountOf(y) = Cardinality(R)
      BY <3>4, <3>5, Zenon DEF CountOf
    <3> QED BY <3>6 DEF y
  <2>9. R \subseteq Nat /\ IsFiniteSet(R)
    BY AskedFinite
  <2> HIDE DEF s, total, R
  <2>10. /\ L = Cardinality({k \div per : k \in 0..total - 1} \union {0})
         /\ Paged(s, R) = {r \in R : Place(R, r) \in from..to}
         /\ page > L => Paged(s, R) = {}
    <3>1. PageOf(s, R, page, per, total, L, from, to)
      BY <2>7, <2>8, Zenon DEF PageOf
    <3> HIDE DEF L, from, to
    <3>2. Tiled(s, R, page, per, total, L, from, to)
      BY <2>3, <2>9, <3>1, PageIs
    <3> QED BY <3>2 DEF Tiled
  <2> HIDE DEF L, from, to
  <2>11. asked' = asked /\ data' = data /\ out' = res
    BY <2>1 DEF Finish
  <2>12. /\ (out.op)' = "page" /\ (out.total)' = total /\ (out.page)' = page /\ (out.per)' = per
         /\ (out.items)' = Paged(s, R) /\ (out.last)' = L /\ (out.from)' = from /\ (out.to)' = to
    BY <2>6, <2>11
  <2>13. AskedResults' = R
    BY <2>11, SameAsked DEF R
  <2>14. PagesTile'
    BY <2>8, <2>10, <2>12, <2>13, Zenon DEF PagesTile
  <2>15. ReadsWhatWasAsked' /\ WritesWhatWasAsked'
    BY <2>12 DEF ReadsWhatWasAsked, WritesWhatWasAsked
  <2>16. BuilderExact'
    BY <2>14, <2>15 DEF BuilderExact
  <2> HIDE DEF res
  <2> QED BY <1>3, <2>1, <2>16, FinishStep
<1> QED BY <1>4, <1>5

\* Update and Delete touch the rows the WHERE of the chain names.
LEMMA WroteExact ==
  ASSUME asked' = asked, asked \in Seq(Calls), data \in [Id -> RowStates], ~Asks("unsafe"),
         NEW x, x.wheres \in Seq(WhereRec), Linked(x.wheres, asked), x.wheres # <<>>,
         NEW vals \in Seq(Nat), NEW op \in {"update", "delete"}, op = "update" => vals = <<SetValue>>,
         out' = Wrote(op, BuildWrite(x, vals), data)
  PROVE  BuilderExact'
<1> DEFINE s == BuildWrite(x, vals)
           M == Matched(s, data)
           set == SubSeq(s.args, 1, s.sets)
<1>1. Asks("where") /\ M = {i \in Id : data[i] # "gone" /\ AskedRow(i)}
  BY WriteMatches
<1>2. set = vals
  BY WriteIs
<1>3. out' = [op |-> op, rows |-> M, set |-> set, before |-> data]
  BY Zenon DEF Wrote
<1> HIDE DEF M, set
<1>4. (out.op)' = op /\ (out.rows)' = M /\ (out.set)' = set /\ (out.before)' = data
  BY <1>3
<1>5. \A o : Asks(o)' <=> Asks(o)
  BY SameChain
<1>6. /\ \A i : AskedRow(i)' <=> AskedRow(i)
      /\ \A st : Seen(st)' <=> Seen(st)
  BY SameChain, Zenon DEF Seen
<1>7. WritesWhatWasAsked'
  <2>1. ~Asks("unsafe")' /\ Asks("where")'
    BY <1>1, <1>5
  <2>2. \A i \in (out.rows)' : i \in Id /\ (out.before)'[i] # "gone" /\ AskedRow(i)'
    BY <1>1, <1>4, <1>6, Zenon
  <2>5. (\A i \in Id : AskedRow(i) /\ Seen(out.before[i]) => i \in out.rows)'
    <3>1. \A st : Seen(st) => st # "gone"
      BY DEF Seen
    <3> QED BY <1>1, <1>4, <1>6, <3>1, Zenon
  <2>3. (out.op)' \in {"update", "save"} => (out.set)' = <<SetValue>>
    BY <1>2, <1>4
  <2>4. (out.op)' # "save"
    BY <1>4
  <2> QED BY <2>1, <2>2, <2>3, <2>4, <2>5, Zenon DEF WritesWhatWasAsked
<1>8. ReadsWhatWasAsked' /\ PagesTile'
  BY <1>4 DEF ReadsWhatWasAsked, PagesTile
<1> QED BY <1>7, <1>8 DEF BuilderExact

LEMMA SetValueSeq == <<SetValue>> \in Seq(Nat) /\ <<>> \in Seq(Nat)
BY DEF SetValue

LEMMA UpdateStep ==
  ASSUME BuilderInv, Update
  PROVE  BuilderInv'
<1> DEFINE res == Wrote("update", BuildWrite(b, <<SetValue>>), data)
<1>1. IF b.err \/ b.wheres = <<>> THEN Failed ELSE Finish(b, res, data)
  BY Zenon DEF Update, Guarded
<1>2. busy
  BY <1>1 DEF Failed, Finish
<1>3. /\ data \in [Id -> RowStates] /\ asked \in Seq(Calls) /\ (b.err <=> Asks("unsafe"))
      /\ b.wheres \in Seq(WhereRec) /\ Linked(b.wheres, asked)
  BY <1>2, BusyIs
<1>4. CASE b.err \/ b.wheres = <<>>
  BY <1>1, <1>4, FailedStep
<1>5. CASE ~(b.err \/ b.wheres = <<>>)
  <2>1. Finish(b, res, data)
    BY <1>1, <1>5
  <2>2. asked' = asked /\ out' = res
    BY <2>1 DEF Finish
  <2>3. BuilderExact'
    BY <1>3, <1>5, <2>2, SetValueSeq, WroteExact
  <2> QED BY <1>3, <2>1, <2>3, FinishStep
<1> QED BY <1>4, <1>5

\* DELETE of a chain with clauses, soft or not.
LEMMA DeleteFromStep ==
  ASSUME BuilderInv, busy, NEW x, x.wheres = b.wheres, b.wheres # <<>>, ~b.err, DeleteFrom(x)
  PROVE  BuilderInv'
<1>1. /\ data \in [Id -> RowStates] /\ asked \in Seq(Calls) /\ ~Asks("unsafe")
      /\ x.wheres \in Seq(WhereRec) /\ Linked(x.wheres, asked) /\ x.wheres # <<>>
  BY BusyIs
<1>2. PICK vals \in {<<>>, <<SetValue>>}, to \in {"trashed", "gone"} :
        Finish(x, Wrote("delete", BuildWrite(x, vals), data),
               [i \in Id |-> IF i \in Matched(BuildWrite(x, vals), data) THEN to ELSE data[i]])
  BY Zenon DEF DeleteFrom
<1> DEFINE d == [i \in Id |-> IF i \in Matched(BuildWrite(x, vals), data) THEN to ELSE data[i]]
<1>3. d \in [Id -> RowStates]
  BY <1>1 DEF RowStates
<1>4. asked' = asked /\ out' = Wrote("delete", BuildWrite(x, vals), data)
  BY <1>2 DEF Finish
<1>5. vals \in Seq(Nat)
  BY SetValueSeq
<1>6. BuilderExact'
  BY <1>1, <1>4, <1>5, WroteExact
<1> HIDE DEF d
<1>7. Finish(x, Wrote("delete", BuildWrite(x, vals), data), d)
  BY <1>2 DEF d
<1> QED BY <1>3, <1>6, <1>7, FinishStep

LEMMA DeleteStep ==
  ASSUME BuilderInv, Delete \/ ForceDelete
  PROVE  BuilderInv'
<1> DEFINE y == [b EXCEPT !.soft = FALSE]
<1>1. /\ Delete => IF b.err \/ b.wheres = <<>> THEN Failed ELSE DeleteFrom(b)
      /\ ForceDelete => IF b.err \/ b.wheres = <<>> THEN Failed ELSE DeleteFrom(y)
  BY Zenon DEF Delete, ForceDelete, Guarded
<1>2. busy
  <2>1. \A x : DeleteFrom(x) => busy
    BY Zenon DEF DeleteFrom, Finish
  <2>2. Failed => busy
    BY DEF Failed, Finish
  <2> QED BY <1>1, <2>1, <2>2, Zenon
<1>3. b \in Builders
  BY <1>2, BusyIs
<1>4. y.wheres = b.wheres
  <2>1. FALSE \in BOOLEAN
    OBVIOUS
  <2>2. Others(y, b, "soft")
    BY <1>3, <2>1, SetFlags DEF Builders
  <2> QED BY <2>2 DEF Others
<1> HIDE DEF y
<1>5. CASE b.err \/ b.wheres = <<>>
  <2>1. Failed
    BY <1>1, <1>5, Zenon
  <2> QED BY <2>1, FailedStep
<1>6. CASE ~(b.err \/ b.wheres = <<>>)
  <2>1. DeleteFrom(b) \/ DeleteFrom(y)
    BY <1>1, <1>6, Zenon
  <2> QED BY <1>2, <1>4, <1>6, <2>1, DeleteFromStep
<1> QED BY <1>5, <1>6

\* Save of a chain without OrWhere changes no row but its own.
SavedAs(w, pk, u) == u = Append(w, [text |-> "in", args |-> <<pk>>, or |-> FALSE])

\* The clause of the key narrows a chain without OrWhere to that row.
LEMMA SavedRows ==
  ASSUME NEW w \in Seq(WhereRec), NEW pk \in Id, NEW u, SavedAs(w, pk, u),
         u \in Seq(WhereRec), \A k \in 1..Len(w) : ~w[k].or,
         NEW vals \in Seq(Nat), NEW s, Statement(s, u, vals, <<>>), s.parens = TRUE
  PROVE  Matched(s, data) \subseteq {pk}
<1> DEFINE n == Len(w) + 1
           v == [text |-> "in", args |-> <<pk>>, or |-> FALSE]
<1>1. Len(w) \in Nat
  BY WheresAre
<1>2. v.text = "in" /\ v.args = <<pk>> /\ v.or = FALSE
  OBVIOUS
<1>3. Len(u) = n /\ u[n] = v /\ \A k \in 1..Len(w) : u[k] = w[k]
  <2> HIDE DEF v
  <2>1. u = Append(w, v)
    BY DEF v, SavedAs
  <2> QED BY <1>1, <2>1
<1> HIDE DEF v
<1>4. n \in Nat /\ n \in 1..n /\ n >= 1 /\ \A k \in 1..n : k \in 1..Len(w) \/ k = n
  BY <1>1
<1> HIDE DEF n
<1>5. \A k \in 1..n : ~s.where[k].or
  <2> SUFFICES ASSUME NEW k \in 1..n PROVE ~s.where[k].or
    OBVIOUS
  <2>1. s.where[k].or = u[k].or
    <3>1. Worded(s, u)
      BY StatementWhere
    <3> QED BY <1>3, <3>1 DEF Worded
  <2>2. ~u[k].or
    <3>1. CASE k = n
      BY <1>2, <1>3, <3>1
    <3>2. CASE k \in 1..Len(w)
      <4>1. u[k] = w[k] /\ ~w[k].or
        BY <1>3, <3>2
      <4> QED BY <4>1, Zenon
    <3> QED BY <1>4, <3>1, <3>2
  <2> QED BY <2>1, <2>2, Zenon
<1>6. ASSUME NEW i, Matches(s, data, i) PROVE i = pk
  <2>1. u # <<>>
    BY <1>3, <1>4
  <2>2. Selected(s, u, i)
    <3>1. Passes(s, u, data, i)
      BY <1>6, MatchesIs
    <3> QED BY <2>1, <3>1 DEF Passes
  <2>3. PICK k \in Starts(s.where, 1..n) : \A j \in Alternative(s.where, 1..n, k) : ClauseHolds(s, j, i)
    BY <1>3, <2>2, Zenon DEF Selected
  <2>4. k \in 1..n
    BY <2>3 DEF Starts
  <2>5. k <= n
    BY <1>4, <2>4
  <2>6. n \in Alternative(s.where, 1..n, k)
    BY <1>4, <1>5, <2>5 DEF Alternative
  <2>7. ClauseHolds(s, n, i)
    BY <2>3, <2>6
  <2>8. <<>> \in Seq(Nat) /\ n \in 1..Len(u)
    BY <1>3, <1>4
  <2>9. AskedHolds(u[n], i)
    BY <2>7, <2>8, ClauseExact
  <2>10. i \in ToSet(<<pk>>)
    BY <1>2, <1>3, <2>9 DEF AskedHolds
  <2> QED BY <2>10 DEF ToSet
<1> QED BY <1>6, Zenon DEF Matched

LEMMA SaveStep ==
  ASSUME BuilderInv, NEW pk \in Id, Save(pk)
  PROVE  BuilderInv'
<1> DEFINE v == [text |-> "in", args |-> <<pk>>, or |-> FALSE]
           w == b.wheres
           u == Append(w, v)
           x == [b EXCEPT !.wheres = u]
           s == BuildWrite(x, <<SetValue>>)
           M == Matched(s, data)
           set == SubSeq(s.args, 1, s.sets)
           res == [op |-> "save", rows |-> M, set |-> set, pk |-> pk]
<1>1. Finish(x, res, data)
  BY Zenon DEF Save
<1>2. busy /\ asked' = asked /\ data' = data /\ out' = res
  BY <1>1 DEF Finish
<1>3. /\ data \in [Id -> RowStates] /\ asked \in Seq(Calls) /\ b \in Builders
      /\ w \in Seq(WhereRec) /\ Linked(w, asked)
  BY <1>2, BusyIs
<1>4. v \in WhereRec
  <2> DEFINE a == <<pk>>
             A == Seq(Id)
  <2>1. a \in A
    OBVIOUS
  <2> HIDE DEF a, A
  <2>2. [text |-> "in", args |-> a, or |-> FALSE] \in [text : ClauseText, args : A, or : BOOLEAN]
    BY <2>1 DEF ClauseText
  <2> QED BY <2>2 DEF WhereRec, a, A
<1>5. u \in Seq(WhereRec)
  <2> DEFINE E == WhereRec
  <2> HIDE DEF E, v
  <2>1. w \in Seq(E) /\ v \in E
    BY <1>3, <1>4 DEF E
  <2> HIDE DEF w
  <2>2. Append(w, v) \in Seq(E)
    BY <2>1
  <2> QED BY <2>2 DEF E
<1>6. x.wheres = u
  <2> HIDE DEF u
  <2> QED BY <1>3, <1>5, SetWheres DEF Builders
<1> HIDE DEF x
<1>7. Statement(s, u, <<SetValue>>, <<>>) /\ s.parens = TRUE /\ set = <<SetValue>>
  <2> HIDE DEF u
  <2> QED BY <1>5, <1>6, SetValueSeq, WriteIs
<1> HIDE DEF s, set
<1>8. (\A k \in AskedAt("where") : ~asked[k].or) => M \subseteq {pk}
  <2> SUFFICES ASSUME \A k \in AskedAt("where") : ~asked[k].or PROVE M \subseteq {pk}
    OBVIOUS
  <2>1. PICK f : LinkedBy(f, w, asked)
    BY <1>3 DEF Linked
  <2>2. DOMAIN asked = 1..Len(asked)
    BY <1>3, CallsAre
  <2>3. ASSUME NEW k \in 1..Len(w) PROVE ~w[k].or
    <3>1. f[k] \in 1..Len(asked) /\ asked[f[k]].op = "where" /\ w[k].or = asked[f[k]].or
      BY <2>1 DEF LinkedBy
    <3>2. f[k] \in AskedAt("where")
      BY <2>2, <3>1 DEF AskedAt
    <3>3. ~asked[f[k]].or
      BY <3>2
    <3> QED BY <3>1, <3>3, Zenon
  <2>4. \A k \in 1..Len(w) : ~w[k].or
    BY <2>3
  <2>5. SavedAs(w, pk, u)
    BY Zenon DEF SavedAs
  <2> HIDE DEF w, u
  <2> QED BY <1>3, <1>5, <1>7, <2>4, <2>5, SetValueSeq, SavedRows DEF w
<1> HIDE DEF M
<1>9. (out.op)' = "save" /\ (out.rows)' = M /\ (out.set)' = set /\ (out.pk)' = pk
  BY <1>2
<1>10. (\A k \in AskedAt("where")' : ~asked'[k].or) => M \subseteq {pk}
  <2>1. AskedAt("where")' = AskedAt("where") /\ asked' = asked
    BY <1>2, SameChain
  <2> QED BY <1>8, <2>1, Zenon
<1>11. WritesWhatWasAsked'
  BY <1>7, <1>9, <1>10, Zenon DEF WritesWhatWasAsked
<1>12. ReadsWhatWasAsked' /\ PagesTile'
  BY <1>9 DEF ReadsWhatWasAsked, PagesTile
<1>13. BuilderExact'
  BY <1>11, <1>12 DEF BuilderExact
<1> HIDE DEF res
<1> QED BY <1>1, <1>3, <1>13, FinishStep

\* A builder of the pool starts with nothing asked.
LEMMA TableStep ==
  ASSUME BuilderInv, TableCall
  PROVE  BuilderInv'
<1>1. b' = Zero /\ asked' = <<>> /\ out' = [op |-> "none"] /\ data' = data
  BY DEF TableCall, Reset
<1>2. (out.op)' = "none"
  BY <1>1
<1>3. BuilderExact'
  BY <1>2, NothingYetPrimed
<1>4. asked' \in Seq(Calls) /\ DOMAIN asked' = {}
  BY <1>1
<1>5. \A op : ~Asks(op)'
  BY <1>4 DEF Asks
<1>6. /\ Zero.wheres = <<>> /\ Zero.group = FALSE /\ Zero.having = <<>> /\ Zero.limit = 0
      /\ Zero.offset = 0 /\ Zero.trashed = FALSE /\ Zero.soft = FALSE /\ Zero.err = FALSE
  BY DEF Zero
<1>7. <<>> \in Seq(WhereRec) /\ <<>> \in Seq(Number)
  OBVIOUS
<1>8. Zero \in Builders
  <2> DEFINE W == Seq(WhereRec)
             H == Seq(Number)
             e == <<>>
  <2> HIDE DEF W, H, e
  <2>1. e \in W /\ e \in H
    BY <1>7 DEF W, H, e
  <2>2. [wheres |-> e, group |-> FALSE, having |-> e, limit |-> 0, offset |-> 0,
         trashed |-> FALSE, soft |-> FALSE, err |-> FALSE] \in BuilderRec(W, H)
    BY <2>1 DEF BuilderRec
  <2> QED BY <2>2 DEF Zero, Builders, W, H, e
<1>9. Linked(<<>>, <<>>)
  <2> DEFINE f == [k \in 1..0 |-> 0]
  <2>1. f \in [1..Len(<<>>) -> 1..Len(<<>>)]
    OBVIOUS
  <2>2. LinkedBy(f, <<>>, <<>>)
    BY <2>1 DEF LinkedBy
  <2> QED BY <2>2 DEF Linked
<1>10. Tracks(b)'
  <2>1. BuilderFields(b)' /\ Linked(b.wheres, asked)'
    BY <1>1, <1>6, <1>7, <1>9 DEF BuilderFields
  <2> QED BY <1>1, <1>5, <1>6, <2>1 DEF Tracks, Filters
<1> QED BY <1>1, <1>2, <1>3, <1>4, <1>8, <1>10 DEF BuilderInv

LEMMA BuilderInvInit ==
  ASSUME BuilderInit
  PROVE  BuilderInv
<1>1. out.op = "none" /\ busy = FALSE /\ data = [i \in Id |-> "live"] /\ asked = <<>>
  BY DEF BuilderInit
<1>2. data \in [Id -> RowStates] /\ asked \in Seq(Calls)
  BY <1>1 DEF RowStates
<1> QED BY <1>1, <1>2, NothingYet DEF BuilderInv

\* Every step of a builder keeps the invariant.
LEMMA BuilderInvStep ==
  ASSUME BuilderInv, [BuilderNext]_builderVars
  PROVE  BuilderInv'
<1>1. CASE UNCHANGED builderVars
  <2>1. asked' = asked /\ data' = data /\ out' = out /\ b' = b /\ busy' = busy
    BY <1>1 DEF builderVars
  <2>2. BuilderExact'
    <3>1. (\A op : Asks(op)' <=> Asks(op)) /\ (\A i : AskedRow(i)' <=> AskedRow(i))
          /\ AskedAt("where")' = AskedAt("where") /\ AskedResults' = AskedResults
      BY <2>1, SameChain, SameAsked
    <3>2. ReadsWhatWasAsked'
      BY <2>1, <3>1, Zenon DEF BuilderInv, BuilderExact, ReadsWhatWasAsked
    <3>5. \A st : Seen(st)' <=> Seen(st)
      BY <3>1, Zenon DEF Seen
    <3>3. WritesWhatWasAsked'
      BY <2>1, <3>1, <3>5, Zenon DEF BuilderInv, BuilderExact, WritesWhatWasAsked
    <3>4. PagesTile'
      BY <2>1, <3>1, Zenon DEF BuilderInv, BuilderExact, PagesTile
    <3> QED BY <3>2, <3>3, <3>4 DEF BuilderExact
  <2>3. Tracks(b) => Tracks(b)'
    <3>1. (\A op : Asks(op)' <=> Asks(op)) /\ (\A op : AskedNumber(op)' = AskedNumber(op))
      BY <2>1, SameChain
    <3>2. Linked(b.wheres, asked)' <=> Linked(b.wheres, asked)
      BY <2>1, Zenon
    <3>3. BuilderFields(b)' <=> BuilderFields(b)
      BY <2>1, Zenon DEF BuilderFields
    <3>4. Filters(b) => Filters(b)'
      BY <2>1, <3>1, <3>2, <3>3, Zenon DEF Filters
    <3> QED BY <2>1, <3>1, <3>4, Zenon DEF Tracks
  <2> QED BY <2>1, <2>2, <2>3 DEF BuilderInv
<1>2. CASE TableCall
  BY <1>2, TableStep
<1>3. ASSUME NEW c \in Clause, NEW or \in BOOLEAN, Where(c, or) PROVE BuilderInv'
  BY <1>3, ChainWhere
<1>4. CASE WhereNotInEmpty \/ SoftDelete \/ WithTrashed \/ GroupBy \/ Unsafe
  BY <1>4, ChainFlags
<1>5. ASSUME NEW n \in Number, Having(n) \/ Limit(n) \/ Offset(n) PROVE BuilderInv'
  BY <1>5, ChainNumbers
<1>6. CASE All \/ First
  BY <1>6, ReadStep
<1>7. CASE Count
  BY <1>7, CountStep
<1>8. CASE Update
  BY <1>8, UpdateStep
<1>9. CASE Delete \/ ForceDelete
  BY <1>9, DeleteStep
<1>10. ASSUME NEW p \in Number, NEW n \in Number, Paginate(p, n) PROVE BuilderInv'
  BY <1>10, PaginateStep
<1>11. ASSUME NEW i \in Id, Save(i) PROVE BuilderInv'
  BY <1>11, SaveStep
<1> QED BY <1>1, <1>2, <1>3, <1>4, <1>5, <1>6, <1>7, <1>8, <1>9, <1>10, <1>11 DEF BuilderNext

\* First, All, Count, Paginate, Update, Delete, ForceDelete and Save read, change
\* or page the rows the chain asked for, for every set of keys, clauses and
\* numbers (builder.go 292-434, 548-628, 674-830).  BuilderExact says what it
\* leaves open.
THEOREM BuildersExact == BuilderSpec => []BuilderExact
<1>1. BuilderInit => BuilderInv
  BY BuilderInvInit
<1>2. BuilderInv /\ [BuilderNext]_builderVars => BuilderInv'
  BY BuilderInvStep
<1>3. BuilderInv => BuilderExact
  BY DEF BuilderInv
<1> QED BY <1>1, <1>2, <1>3, PTL DEF BuilderSpec
=============================================================================
