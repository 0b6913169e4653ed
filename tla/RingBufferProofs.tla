-------------------------- MODULE RingBufferProofs --------------------------
(***************************************************************************)
(* The ring of recent events is correct for every capacity: its slots stay *)
(* well formed, it implements the sequence of the last Cap events, and     *)
(* since returns exactly the events the client has still to get, in order. *)
(* And so is the replay built on such rings: nothing arrives twice or out  *)
(* of order, and a client that comes back in a calm history lost nothing.  *)
(***************************************************************************)
EXTENDS RingBuffer, MCEventResume, SequenceTheorems, FiniteSetTheorems,
        WellFoundedInduction, TLAPS

\* The index arithmetic of push and since: one wrap-around at most.
LEMMA ModWrap ==
  ASSUME NEW c \in Int, c > 0, NEW x \in Int, 0 <= x, x < c + c
  PROVE  x % c = IF x < c THEN x ELSE x - c
<1>1. CASE x < c
  BY <1>1, SMT
<1>2. CASE x >= c
  BY <1>2, SMT
<1> QED
  BY <1>1, <1>2

LEMMA OneLess ==
  ASSUME NEW i \in Int, NEW n \in Int
  PROVE  (i - 1) + 1 = i /\ ((i - 1 = n - 1) <=> (i = n))
OBVIOUS

LEMMA CapPositive == Cap \in Int /\ Cap > 0
BY RingAssumption

\* The same for every place of start and every index push and since use.
LEMMA SlotArith ==
  ASSUME NEW a \in 0..Cap-1, NEW i \in 0..Cap
  PROVE  (a + i) % Cap = IF a + i < Cap THEN a + i ELSE a + i - Cap
<1>1. a + i \in Int /\ 0 <= a + i /\ a + i < Cap + Cap
  BY CapPositive
<1> QED
  BY <1>1, ModWrap, CapPositive

\* Slot without the modulus.
LEMMA SlotValue ==
  ASSUME RingTypeOK, NEW i \in 0..Cap
  PROVE  Slot(i) = IF start + i < Cap THEN start + i ELSE start + i - Cap
BY SlotArith DEF Slot, RingTypeOK

\* The value of start after a push.
LEMMA StartValue ==
  ASSUME RingTypeOK
  PROVE  (start + 1) % Cap = IF start + 1 < Cap THEN start + 1 ELSE 0
<1>1. /\ start \in 0..Cap-1
      /\ start + 1 \in Int /\ 0 <= start + 1 /\ start + 1 < Cap + Cap
  BY CapPositive DEF RingTypeOK
<1>2. (start + 1) % Cap = IF start + 1 < Cap THEN start + 1 ELSE start + 1 - Cap
  BY <1>1, ModWrap, CapPositive
<1> QED
  BY <1>1, <1>2, CapPositive

LEMMA TypePush ==
  ASSUME RingTypeOK, NEW e \in Event, Push(e)
  PROVE  RingTypeOK'
<1>1. Slot(count) \in 0..Cap-1
  BY SlotValue, CapPositive DEF RingTypeOK
<1>2. events' \in [0..Cap-1 -> Event \cup {Nil}]
  BY <1>1 DEF RingTypeOK, Push
<1>3. start' \in 0..Cap-1
  BY StartValue, CapPositive DEF RingTypeOK, Push
<1>4. count' \in 0..Cap
  BY CapPositive DEF RingTypeOK, Push
<1> QED
  BY <1>2, <1>3, <1>4 DEF RingTypeOK

\* What a push does to the events in the order they are read: when the ring is
\* full every event moves down by one and the oldest goes.
LEMMA PushShifts ==
  ASSUME RingTypeOK, NEW e \in Event, Push(e), NEW i \in 0..Cap-1, i < count'
  PROVE  events'[Slot(i)'] =
           IF i = count' - 1 THEN e
           ELSE IF count = Cap THEN events[Slot(i + 1)] ELSE events[Slot(i)]
<1>1. RingTypeOK'
  BY TypePush
<1>2. Slot(i)' = IF start' + i < Cap THEN start' + i ELSE start' + i - Cap
  <2>1. start' \in 0..Cap-1
    BY <1>1 DEF RingTypeOK
  <2>2. i \in 0..Cap
    BY CapPositive
  <2> QED
    BY <2>1, <2>2, SlotArith DEF Slot
<1>3. Slot(count) = IF start + count < Cap THEN start + count ELSE start + count - Cap
  BY SlotValue DEF RingTypeOK
<1>4. CASE count = Cap
  <2>1. Slot(count) = start
    BY <1>3, <1>4, CapPositive DEF RingTypeOK
  <2>2. events' = [events EXCEPT ![start] = e]
    BY <2>1 DEF Push
  <2>3. start' = IF start + 1 < Cap THEN start + 1 ELSE 0
    BY <1>4, StartValue DEF Push
  <2>4. count' = Cap
    BY <1>4 DEF Push
  <2>5. i + 1 \in 0..Cap
    BY CapPositive
  <2>6. Slot(i + 1) = IF start + (i + 1) < Cap THEN start + (i + 1) ELSE start + (i + 1) - Cap
    BY <2>5, SlotValue
  <2>7. CASE i = Cap - 1
    BY <1>2, <2>2, <2>3, <2>4, <2>7, CapPositive DEF RingTypeOK
  <2>8. CASE i < Cap - 1
    <3>1. Slot(i)' = Slot(i + 1)
      BY <1>2, <2>3, <2>6, <2>8, CapPositive DEF RingTypeOK
    <3>2. Slot(i + 1) # start /\ Slot(i + 1) \in 0..Cap-1
      BY <2>6, <2>8, CapPositive DEF RingTypeOK
    <3> QED
      BY <1>4, <2>2, <2>4, <2>8, <3>1, <3>2, CapPositive DEF RingTypeOK
  <2> QED
    BY <2>7, <2>8, CapPositive
<1>5. CASE count # Cap
  <2>1. start' = start /\ count' = count + 1
    BY <1>5 DEF Push
  <2>2. events' = [events EXCEPT ![Slot(count)] = e] /\ Slot(count) \in 0..Cap-1
    BY <1>3, <1>5, CapPositive DEF Push, RingTypeOK
  <2>3. Slot(i)' = Slot(i)
    BY <2>1 DEF Slot
  <2>4. CASE i = count
    BY <1>5, <2>1, <2>2, <2>3, <2>4 DEF RingTypeOK
  <2>5. CASE i < count
    <3>1. i \in 0..Cap
      BY CapPositive
    <3>2. Slot(i) = IF start + i < Cap THEN start + i ELSE start + i - Cap
      BY <3>1, SlotValue
    <3>3. Slot(i) # Slot(count) /\ Slot(i) \in 0..Cap-1
      BY <1>3, <1>5, <2>5, <3>2, CapPositive DEF RingTypeOK
    <3> QED
      BY <1>5, <2>1, <2>2, <2>3, <2>5, <3>3 DEF RingTypeOK
  <2> QED
    BY <2>1, <2>4, <2>5 DEF RingTypeOK
<1> QED
  BY <1>4, <1>5

\* push keeps the ring well formed (framework/realtime/resume.go, ringBuffer):
\* indices in range and an event in every slot that since reads, for every
\* capacity and every history of pushes.
THEOREM RingSafe == RingSpec => []RingOK
<1>1. RingInit => RingOK
  BY CapPositive DEF RingInit, RingOK, RingTypeOK
<1>2. RingOK /\ [RingNext]_ringVars => RingOK'
  <2> SUFFICES ASSUME RingOK, [RingNext]_ringVars PROVE RingOK'
    OBVIOUS
  <2>1. CASE UNCHANGED ringVars
    BY <2>1 DEF ringVars, RingOK, RingTypeOK, Slot
  <2>2. ASSUME NEW e \in Event, Push(e) PROVE RingOK'
    <3>1. RingTypeOK'
      BY <2>2, TypePush DEF RingOK
    <3>2. ASSUME NEW i \in 0..Cap-1, i < count' PROVE events'[Slot(i)'] # Nil
      <4>1. events'[Slot(i)'] =
              IF i = count' - 1 THEN e
              ELSE IF count = Cap THEN events[Slot(i + 1)] ELSE events[Slot(i)]
        BY <2>2, <3>2, PushShifts DEF RingOK
      <4>2. CASE i = count' - 1
        BY <4>1, <4>2, RingAssumption
      <4>3. CASE i # count' - 1 /\ count = Cap
        <5>1. i + 1 \in 0..Cap-1 /\ i + 1 < count
          BY <2>2, <3>2, <4>3, CapPositive DEF RingOK, RingTypeOK, Push
        <5> QED
          BY <4>1, <4>3, <5>1 DEF RingOK
      <4>4. CASE i # count' - 1 /\ count # Cap
        <5>1. i < count
          BY <2>2, <3>2, <4>4, CapPositive DEF RingOK, RingTypeOK, Push
        <5> QED
          BY <4>1, <4>4, <5>1 DEF RingOK
      <4> QED
        BY <4>2, <4>3, <4>4
    <3> QED
      BY <3>1, <3>2 DEF RingOK
  <2> QED
    BY <2>1, <2>2 DEF RingNext
<1> QED
  BY <1>1, <1>2, PTL DEF RingSpec

\* The ring implements "the last maxSize events" (resume.go, NewEventBuffer):
\* every push appends its event and drops the oldest one when Cap are there.
THEOREM RingImplementsRecent == RingSpec => ImplementsRecent
<1>1. RingInit => Recent!Init
  BY CapPositive DEF RingInit, Recent!Init, Contents
<1>2. RingOK /\ [RingNext]_ringVars => [Recent!Next]_Contents
  <2> SUFFICES ASSUME RingOK, [RingNext]_ringVars PROVE [Recent!Next]_Contents
    OBVIOUS
  <2>1. CASE UNCHANGED ringVars
    BY <2>1 DEF ringVars, Contents, Slot
  <2>2. ASSUME NEW e \in Event, Push(e) PROVE Recent!Push(e)
    <3> DEFINE C == Contents
    <3>1. count \in 0..Cap /\ count' \in 0..Cap
      BY <2>2, TypePush DEF RingOK, RingTypeOK
    <3>2. C = [i \in 1..count |-> events[Slot(i - 1)]]
      BY DEF Contents
    <3>3. C' = [i \in 1..count' |-> events'[Slot(i - 1)']]
      BY DEF Contents
    <3>4. ASSUME NEW i \in 1..count' PROVE
            C'[i] = IF i = count' THEN e
                    ELSE IF count = Cap THEN events[Slot(i)] ELSE events[Slot(i - 1)]
      <4>1. i - 1 \in 0..Cap-1 /\ i - 1 < count'
        BY <3>1, CapPositive
      <4>2. events'[Slot(i - 1)'] =
              IF i - 1 = count' - 1 THEN e
              ELSE IF count = Cap THEN events[Slot((i - 1) + 1)] ELSE events[Slot(i - 1)]
        BY <2>2, <4>1, PushShifts DEF RingOK
      <4>3. i \in Int /\ count' \in Int
        BY <3>1, CapPositive
      <4>4. (i - 1) + 1 = i /\ ((i - 1 = count' - 1) <=> (i = count'))
        BY <4>3, OneLess
      <4> QED
        BY <3>3, <4>2, <4>4
    <3>5. ASSUME NEW i \in 1..count PROVE C[i] \in Event
      <4>1. i - 1 \in 0..Cap-1 /\ i - 1 < count /\ i - 1 \in 0..Cap
        BY <3>1, CapPositive
      <4>2. Slot(i - 1) \in 0..Cap-1
        BY <4>1, SlotValue, CapPositive DEF RingOK, RingTypeOK
      <4>3. events[Slot(i - 1)] \in Event
        BY <4>1, <4>2 DEF RingOK, RingTypeOK
      <4> QED
        BY <3>2, <4>3
    <3>6. C \in Seq(Event) /\ Len(C) = count
      BY <3>1, <3>2, <3>5
    <3>7. C' \in Seq(Event) /\ Len(C') = count'
      <4>1. ASSUME NEW i \in 1..count' PROVE C'[i] \in Event
        <5>1. CASE i = count'
          BY <3>4, <5>1
        <5>2. CASE i # count' /\ count = Cap
          <6>1. i + 1 \in 1..count /\ (i + 1) - 1 = i
            BY <2>2, <3>1, <5>2 DEF Push
          <6>2. C[i + 1] = events[Slot(i)]
            BY <3>2, <6>1
          <6> QED
            BY <3>4, <3>5, <5>2, <6>1, <6>2
        <5>3. CASE i # count' /\ count # Cap
          <6>1. i \in 1..count
            BY <2>2, <3>1, <5>3 DEF Push
          <6>2. C[i] = events[Slot(i - 1)]
            BY <3>2, <6>1
          <6> QED
            BY <3>4, <3>5, <5>3, <6>1, <6>2
        <5> QED
          BY <5>1, <5>2, <5>3
      <4> QED
        BY <3>1, <3>3, <4>1
    <3>8. CASE count < Cap
      <4>1. count' = count + 1
        BY <2>2, <3>8, CapPositive DEF Push
      <4>2. /\ Append(C, e) \in Seq(Event) /\ Len(Append(C, e)) = count + 1
            /\ \A i \in 1..count + 1 : Append(C, e)[i] = IF i = count + 1 THEN e ELSE C[i]
        <5> HIDE DEF C
        <5> QED
          BY <3>1, <3>6, AppendProperties
      <4>3. ASSUME NEW i \in 1..count + 1 PROVE C'[i] = IF i = count + 1 THEN e ELSE C[i]
        BY <3>1, <3>2, <3>4, <3>8, <4>1, <4>3
      <4>4. C' \in Seq(Event) /\ Len(C') = count + 1
        BY <3>7, <4>1
      <4>5. C' = Append(C, e)
        <5> HIDE DEF C
        <5> QED
          BY <4>2, <4>3, <4>4, SeqEqual
      <4> QED
        BY <3>6, <3>8, <4>5 DEF Recent!Push
    <3>9. CASE count = Cap
      <4>1. count' = count
        BY <2>2, <3>9 DEF Push
      <4>2. C # << >> /\ Tail(C) \in Seq(Event) /\ Len(Tail(C)) = count - 1
        BY <3>6, <3>9, CapPositive
      <4>3. /\ Append(Tail(C), e) \in Seq(Event) /\ Len(Append(Tail(C), e)) = count
            /\ \A i \in 1..count : Append(Tail(C), e)[i] = IF i = count THEN e ELSE C[i + 1]
        <5> HIDE DEF C
        <5>1. \A i \in 1..count - 1 : Tail(C)[i] = C[i + 1]
          BY <3>6, <4>2, HeadTailProperties
        <5>2. /\ Append(Tail(C), e) \in Seq(Event) /\ Len(Append(Tail(C), e)) = (count - 1) + 1
              /\ \A i \in 1..count - 1 : Append(Tail(C), e)[i] = Tail(C)[i]
              /\ Append(Tail(C), e)[(count - 1) + 1] = e
          BY <4>2, AppendProperties
        <5> QED
          BY <3>1, <5>1, <5>2
      <4>4. ASSUME NEW i \in 1..count PROVE C'[i] = IF i = count THEN e ELSE C[i + 1]
        <5>1. CASE i = count
          BY <3>4, <4>1, <5>1
        <5>2. CASE i # count
          <6>1. i + 1 \in 1..count /\ (i + 1) - 1 = i
            BY <3>1, <5>2
          <6> QED
            BY <3>2, <3>4, <3>9, <4>1, <5>2, <6>1
        <5> QED
          BY <5>1, <5>2
      <4>5. C' = Append(Tail(C), e)
        <5>1. C' \in Seq(Event) /\ Len(C') = count
          BY <3>7, <4>1
        <5> HIDE DEF C
        <5> QED
          BY <4>3, <4>4, <5>1, SeqEqual
      <4> QED
        BY <3>6, <3>9, <4>5, CapPositive DEF Recent!Push
    <3> QED
      BY <3>1, <3>8, <3>9, CapPositive
  <2> QED
    BY <2>1, <2>2 DEF RingNext, Recent!Next
<1> QED
  BY <1>1, <1>2, RingSafe, PTL DEF RingSpec, ImplementsRecent, Recent!Spec

----------------------------------------------------------------------------
(* What since returns *)

LEMMA LeastOf ==
  ASSUME NEW S, S \subseteq Nat, S # {}
  PROVE  \E i \in S : \A k \in S : i <= k
<1>1. PICK i \in S : \A k \in S : ~(<<k, i>> \in OpToRel(<, Nat))
  BY WFMin, NatLessThanWellFounded
<1>2. \A k \in S : ~(k < i)
  BY <1>1 DEF OpToRel
<1> QED BY <1>2

LEMMA GreatestOf ==
  ASSUME NEW n \in Nat, NEW S, \A k \in S : k \in Int /\ 0 <= k /\ k <= n, S # {}
  PROVE  \E i \in S : \A k \in S : k <= i
<1> DEFINE T == {n - k : k \in S}
<1>1. T \subseteq Nat /\ T # {}
  <2>1. \A k \in S : n - k \in Nat
    OBVIOUS
  <2> HIDE DEF T
  <2>2. \A t \in T : \E k \in S : t = n - k
    BY DEF T
  <2>3. \A k \in S : n - k \in T
    BY DEF T
  <2> QED BY <2>1, <2>2, <2>3
<1>2. PICK t \in T : \A u \in T : t <= u
  <2> HIDE DEF T
  <2> QED BY <1>1, LeastOf
<1>3. PICK i \in S : t = n - i
  BY <1>2
<1>4. \A k \in S : n - i <= n - k
  BY <1>2, <1>3
<1> QED BY <1>3, <1>4

Places(S, n) == \A k \in S : k \in Int /\ 1 <= k /\ k <= n

\* How many of the positions 1..i are in S.
UpTo(S, i) == Cardinality({k \in S : k <= i})

LEMMA UpToIs ==
  ASSUME NEW n \in Nat, NEW S, Places(S, n)
  PROVE  /\ UpTo(S, 0) = 0 /\ UpTo(S, n) = Cardinality(S)
         /\ \A i \in 0..n : UpTo(S, i) \in Nat /\ IsFiniteSet({k \in S : k <= i})
         /\ \A i \in 1..n : UpTo(S, i) = IF i \in S THEN UpTo(S, i - 1) + 1 ELSE UpTo(S, i - 1)
<1>1. \A k \in S : k \in Int /\ 1 <= k /\ k <= n
  BY DEF Places
<1>2. IsFiniteSet(S)
  <2>1. IsFiniteSet(1..n) /\ S \in SUBSET (1..n)
    BY <1>1, FS_Interval
  <2> QED BY <2>1, FS_Subset
<1>3. \A i \in 0..n : IsFiniteSet({k \in S : k <= i})
  <2>1. \A i \in 0..n : {k \in S : k <= i} \in SUBSET S
    OBVIOUS
  <2> QED BY <1>2, <2>1, FS_Subset
<1>4. \A i \in 0..n : UpTo(S, i) \in Nat
  BY <1>3, FS_CardinalityType DEF UpTo
<1>5. UpTo(S, 0) = 0
  <2>1. \A k \in S : ~(k <= 0)
    BY <1>1
  <2>2. {k \in S : k <= 0} = {}
    BY <2>1
  <2> QED BY <2>2, FS_EmptySet DEF UpTo
<1>6. UpTo(S, n) = Cardinality(S)
  <2>1. {k \in S : k <= n} = S
    BY <1>1
  <2> QED BY <2>1 DEF UpTo
<1>7. ASSUME NEW i \in 1..n
      PROVE  UpTo(S, i) = IF i \in S THEN UpTo(S, i - 1) + 1 ELSE UpTo(S, i - 1)
  <2> DEFINE A == {k \in S : k <= i - 1}
  <2>1. IsFiniteSet(A) /\ i \notin A
    <3>1. i - 1 \in 0..n /\ ~(i <= i - 1)
      OBVIOUS
    <3> QED BY <1>3, <3>1
  <2>2. \A k \in S : k <= i <=> k <= i - 1 \/ k = i
    BY <1>1
  <2>3. CASE i \in S
    <3>1. {k \in S : k <= i} = A \cup {i}
      BY <2>2, <2>3
    <3>2. Cardinality(A \cup {i}) = Cardinality(A) + 1
      BY <2>1, FS_AddElement
    <3> QED BY <2>3, <3>1, <3>2 DEF UpTo
  <2>4. CASE i \notin S
    <3>1. {k \in S : k <= i} = A
      BY <2>2, <2>4
    <3> QED BY <2>4, <3>1 DEF UpTo
  <2> QED BY <2>3, <2>4
<1> QED BY <1>3, <1>4, <1>5, <1>6, <1>7

LEMMA UpToGrows ==
  ASSUME NEW n \in Nat, NEW S, Places(S, n), NEW i \in 0..n, NEW j \in 0..n, i <= j
  PROVE  UpTo(S, i) <= UpTo(S, j) /\ (i < j /\ j \in S => UpTo(S, i) < UpTo(S, j))
<1> DEFINE A == {k \in S : k <= i}
           B == {k \in S : k <= j}
<1>1. IsFiniteSet(A) /\ IsFiniteSet(B) /\ UpTo(S, i) \in Nat /\ UpTo(S, j) \in Nat
  <2>1. IsFiniteSet(A) /\ UpTo(S, i) \in Nat
    BY UpToIs
  <2>2. IsFiniteSet(B) /\ UpTo(S, j) \in Nat
    BY UpToIs
  <2> QED BY <2>1, <2>2
<1>2. \A k \in S : k \in Int /\ 1 <= k /\ k <= n
  BY DEF Places
<1>3. A \in SUBSET B
  <2>1. \A k \in S : k <= i => k <= j
    BY <1>2
  <2> QED BY <2>1
<1>4. UpTo(S, i) <= UpTo(S, j)
  BY <1>1, <1>3, FS_Subset DEF UpTo
<1>5. ASSUME i < j, j \in S PROVE UpTo(S, i) < UpTo(S, j)
  <2>1. A # B
    <3>1. j \in B /\ ~(j <= i)
      BY <1>5
    <3> QED BY <3>1
  <2>2. Cardinality(A) # Cardinality(B)
    BY <1>1, <1>3, <2>1, FS_Subset
  <2> QED BY <1>1, <1>4, <2>2 DEF UpTo
<1> QED BY <1>4, <1>5

\* The positions after m.
LEMMA UpToAfter ==
  ASSUME NEW n \in Nat, NEW S, Places(S, n), NEW m \in 0..n, NEW j \in 0..n, m <= j
  PROVE  Cardinality({k \in S : k > m /\ k <= j}) = UpTo(S, j) - UpTo(S, m)
<1> DEFINE A == {k \in S : k <= m}
           B == {k \in S : k <= j}
           C == {k \in S : k > m /\ k <= j}
<1>1. IsFiniteSet(A) /\ IsFiniteSet(B) /\ UpTo(S, m) \in Nat /\ UpTo(S, j) \in Nat
  <2>1. IsFiniteSet(A) /\ UpTo(S, m) \in Nat
    BY UpToIs
  <2>2. IsFiniteSet(B) /\ UpTo(S, j) \in Nat
    BY UpToIs
  <2> QED BY <2>1, <2>2
<1>2. \A k \in S : k \in Int /\ 1 <= k /\ k <= n
  BY DEF Places
<1>3. C = B \ A /\ A = B \cap A
  <2>1. \A k \in S : (k > m <=> ~(k <= m)) /\ (k <= m => k <= j)
    BY <1>2
  <2> QED BY <2>1
<1>4. Cardinality(B \ A) = Cardinality(B) - Cardinality(B \cap A)
  BY <1>1, FS_Difference
<1> QED BY <1>3, <1>4 DEF UpTo

\* The loop of since has a result: one turn after the other.
LEMMA CollectedIs ==
  ASSUME RingTypeOK, NEW cutoff
  PROVE  /\ Collected(cutoff)[0] = <<>>
         /\ \A i \in 1..count :
              Collected(cutoff)[i] = Collect(Collected(cutoff)[i - 1], events[Slot(i - 1)], cutoff)
<1> DEFINE F(g, i) == IF i = 0 THEN <<>> ELSE Collect(g[i - 1], events[Slot(i - 1)], cutoff)
           Runs(i) == \E g : g = [j \in 0..i |-> F(g, j)]
<1>1. count \in Nat
  BY CapPositive DEF RingTypeOK
<1>2. Runs(0)
  <2> DEFINE g == [j \in 0..0 |-> <<>>]
  <2>1. \A j \in 0..0 : F(g, j) = <<>>
    OBVIOUS
  <2>2. g = [j \in 0..0 |-> F(g, j)]
    BY <2>1
  <2> QED BY <2>2
<1>3. ASSUME NEW i \in Nat, Runs(i) PROVE Runs(i + 1)
  <2>1. PICK g : g = [j \in 0..i |-> F(g, j)]
    BY <1>3
  <2> DEFINE x == Collect(g[i], events[Slot(i)], cutoff)
             f == [j \in 0..(i + 1) |-> IF j <= i THEN g[j] ELSE x]
  <2>2. \A j \in 0..i : g[j] = F(g, j)
    <3> HIDE DEF F
    <3> QED BY <2>1, Zenon
  <2>3. \A j \in 0..i : j \in 0..(i + 1) /\ j <= i
    OBVIOUS
  <2>4. \A j \in 0..i : f[j] = g[j]
    <3> HIDE DEF x
    <3> QED BY <2>3, Zenon
  <2>5. f[i + 1] = x
    <3>1. i + 1 \in 0..(i + 1) /\ ~(i + 1 <= i)
      OBVIOUS
    <3> HIDE DEF x
    <3> QED BY <3>1
  <2> HIDE DEF f
  <2>6. ASSUME NEW j \in 0..(i + 1) PROVE f[j] = F(f, j)
    <3>1. CASE j = 0
      <4>1. 0 \in 0..i
        OBVIOUS
      <4> QED BY <2>2, <2>4, <3>1, <4>1
    <3>2. CASE j \in 0..i /\ j # 0
      <4>1. j - 1 \in 0..i
        BY <3>2
      <4>2. f[j - 1] = g[j - 1] /\ f[j] = g[j] /\ g[j] = F(g, j)
        BY <2>2, <2>4, <3>2, <4>1
      <4> QED BY <3>2, <4>2
    <3>3. CASE j = i + 1
      <4>1. j - 1 = i /\ j # 0 /\ i \in 0..i
        BY <3>3
      <4>2. f[i] = g[i] /\ f[j] = x
        BY <2>4, <2>5, <3>3, <4>1
      <4> QED BY <4>1, <4>2
    <3>4. j \in 0..i \/ j = i + 1
      OBVIOUS
    <3> QED BY <3>1, <3>2, <3>3, <3>4
  <2>7. f = [j \in 0..(i + 1) |-> f[j]]
    BY DEF f
  <2>8. f = [j \in 0..(i + 1) |-> F(f, j)]
    <3> HIDE DEF F
    <3> QED BY <2>6, <2>7, Zenon
  <2> HIDE DEF F
  <2> QED BY <2>8
<1> HIDE DEF Runs
<1>4. Runs(count)
  <2> DEFINE S == {i \in Nat : ~Runs(i)}
  <2> SUFFICES ASSUME S # {} PROVE FALSE
    BY <1>1
  <2>1. PICK i \in S : \A k \in S : i <= k
    BY LeastOf
  <2>2. i \in Nat /\ i # 0 /\ ~Runs(i)
    BY <1>2, <2>1
  <2>3. i - 1 \in Nat /\ (i - 1) + 1 = i /\ ~(i <= i - 1)
    BY <2>2
  <2>4. Runs(i - 1)
    BY <2>1, <2>3
  <2> QED BY <1>3, <2>2, <2>3, <2>4
<1>5. Collected(cutoff) = [j \in 0..count |-> F(Collected(cutoff), j)]
  <2> DEFINE P(g) == g = [j \in 0..count |-> F(g, j)]
             w == CHOOSE g : P(g)
  <2>1. Collected(cutoff) = w
    BY DEF Collected
  <2>2. \E g : P(g)
    BY <1>4 DEF Runs
  <2> HIDE DEF P
  <2>3. P(w)
    BY <2>2, Zenon
  <2> HIDE DEF w
  <2> QED BY <2>1, <2>3 DEF P
<1> HIDE DEF F
<1>6. \A j \in 0..count : Collected(cutoff)[j] = F(Collected(cutoff), j)
  BY <1>5, Zenon
<1>7. 0 \in 0..count /\ \A i \in 1..count : i \in 0..count /\ i # 0
  BY <1>1
<1> QED BY <1>6, <1>7 DEF F

\* What a loop has after i turns that appends c[k] for the turns k in S: the
\* entries of S up to i, each at the place of its rank, and nothing else.
Ranked(w, c, S, i) ==
  /\ Len(w) = UpTo(S, i)
  /\ \A j \in S : j <= i => UpTo(S, j) \in 1..Len(w) /\ w[UpTo(S, j)] = c[j]
  /\ \A x \in 1..Len(w) : \E j \in S : j <= i /\ UpTo(S, j) = x

LEMMA RankedSkip ==
  ASSUME NEW n \in Nat, NEW S, Places(S, n), NEW i \in 1..n, i \notin S,
         NEW c, NEW w, Ranked(w, c, S, i - 1)
  PROVE  Ranked(w, c, S, i)
<1>1. \A k \in S : k \in Int /\ 1 <= k /\ k <= n
  BY DEF Places
<1>2. UpTo(S, i) = UpTo(S, i - 1)
  BY UpToIs
<1>3. \A j \in S : j <= i <=> j <= i - 1
  BY <1>1
<1> QED BY <1>2, <1>3 DEF Ranked

LEMMA RankedAppend ==
  ASSUME NEW n \in Nat, NEW S, Places(S, n), NEW i \in 1..n, i \in S,
         NEW E, NEW c, c[i] \in E, NEW w \in Seq(E), Ranked(w, c, S, i - 1)
  PROVE  Ranked(Append(w, c[i]), c, S, i)
<1> DEFINE v == Append(w, c[i])
<1>1. \A k \in S : k \in Int /\ 1 <= k /\ k <= n
  BY DEF Places
<1>2. UpTo(S, i) = UpTo(S, i - 1) + 1
  BY UpToIs
<1>3. Len(w) \in Nat /\ Len(w) = UpTo(S, i - 1)
  BY DEF Ranked
<1>4. Len(v) = Len(w) + 1 /\ v[Len(w) + 1] = c[i] /\ \A x \in 1..Len(w) : v[x] = w[x]
  OBVIOUS
<1> HIDE DEF v
<1>5. ASSUME NEW j \in S, j <= i PROVE UpTo(S, j) \in 1..Len(v) /\ v[UpTo(S, j)] = c[j]
  <2>1. CASE j = i
    <3>1. UpTo(S, j) = Len(w) + 1
      BY <1>2, <1>3, <2>1
    <3>2. Len(w) + 1 \in 1..Len(v)
      BY <1>3, <1>4
    <3> QED BY <1>4, <2>1, <3>1, <3>2
  <2>2. CASE j # i
    <3>1. j <= i - 1
      BY <1>1, <1>5, <2>2
    <3>2. UpTo(S, j) \in 1..Len(w) /\ w[UpTo(S, j)] = c[j]
      BY <3>1 DEF Ranked
    <3>3. 1..Len(w) \subseteq 1..Len(v)
      BY <1>3, <1>4
    <3> QED BY <1>4, <3>2, <3>3
  <2> QED BY <2>1, <2>2
<1>6. ASSUME NEW x \in 1..Len(v) PROVE \E j \in S : j <= i /\ UpTo(S, j) = x
  <2>1. CASE x = Len(w) + 1
    <3>1. i <= i /\ UpTo(S, i) = x
      BY <1>2, <1>3, <2>1
    <3> QED BY <3>1
  <2>2. CASE x # Len(w) + 1
    <3>1. x \in 1..Len(w)
      BY <1>3, <1>4, <2>2
    <3>2. PICK j \in S : j <= i - 1 /\ UpTo(S, j) = x
      BY <3>1 DEF Ranked
    <3>3. j <= i
      BY <1>1, <3>2
    <3> QED BY <3>2, <3>3
  <2> QED BY <2>1, <2>2
<1>7. Len(v) = UpTo(S, i)
  BY <1>2, <1>3, <1>4
<1> QED BY <1>5, <1>6, <1>7 DEF Ranked, v

LEMMA RankedLoop ==
  ASSUME NEW n \in Nat, NEW S, Places(S, n), NEW E, NEW c, \A i \in 1..n : c[i] \in E,
         NEW W, W[0] = <<>>,
         \A i \in 1..n : W[i] = IF i \in S THEN Append(W[i - 1], c[i]) ELSE W[i - 1]
  PROVE  W[n] \in Seq(E) /\ Ranked(W[n], c, S, n)
<1> DEFINE G(i) == W[i] \in Seq(E) /\ Ranked(W[i], c, S, i)
           B == {i \in 0..n : ~G(i)}
<1>1. G(0)
  <2>1. \A j \in S : ~(j <= 0)
    BY DEF Places
  <2>2. UpTo(S, 0) = 0
    BY UpToIs
  <2>3. <<>> \in Seq(E) /\ Len(<<>>) = 0
    OBVIOUS
  <2>4. 1..0 = {}
    OBVIOUS
  <2> QED BY <2>1, <2>2, <2>3, <2>4 DEF Ranked
<1>2. ASSUME NEW i \in 1..n, G(i - 1) PROVE G(i)
  <2>1. CASE i \in S
    <3>1. W[i] = Append(W[i - 1], c[i]) /\ c[i] \in E
      BY <2>1
    <3>2. Ranked(Append(W[i - 1], c[i]), c, S, i)
      BY <1>2, <2>1, <3>1, RankedAppend
    <3>3. Append(W[i - 1], c[i]) \in Seq(E)
      BY <1>2, <3>1
    <3> QED BY <3>1, <3>2, <3>3
  <2>2. CASE i \notin S
    <3>1. W[i] = W[i - 1]
      BY <2>2
    <3>2. Ranked(W[i - 1], c, S, i)
      BY <1>2, <2>2, RankedSkip
    <3> QED BY <1>2, <3>1, <3>2
  <2> QED BY <2>1, <2>2
<1> HIDE DEF G
<1> SUFFICES ASSUME B # {} PROVE FALSE
  <2>1. n \in 0..n
    OBVIOUS
  <2> QED BY <2>1 DEF G
<1>3. B \subseteq Nat
  OBVIOUS
<1>4. PICK i \in B : \A k \in B : i <= k
  <2> HIDE DEF B
  <2> QED BY <1>3, LeastOf
<1>5. i \in 0..n /\ ~G(i)
  BY <1>4
<1>6. i # 0
  BY <1>1, <1>5
<1>7. i \in 1..n /\ i - 1 \in 0..n /\ ~(i <= i - 1)
  BY <1>5, <1>6
<1>8. G(i - 1)
  BY <1>4, <1>7
<1> QED BY <1>2, <1>5, <1>7, <1>8

\* T holds the places of S with no event `last` of S at or after them; w has no
\* event `last`, or has its last one at a place.
AfterLast(T, S, c, last) == \A j : j \in T <=> j \in S /\ \A k \in S : k >= j => c[k].ID # last

Unmarked(w, last) == \A x \in 1..Len(w) : w[x].ID # last

LastMark(w, last, at) ==
  /\ at \in 1..Len(w) /\ w[at].ID = last
  /\ \A x \in 1..Len(w) : w[x].ID = last => x <= at

\* r is the entries of c at the places in T, in order.
Lists(r, c, T) ==
  Len(r) = Cardinality(T) /\ \A j \in T : r[Cardinality({k \in T : k <= j})] = c[j]

\* Nothing marked: the whole window is wanted.
LEMMA RestOfUnmarked ==
  ASSUME NEW n \in Nat, NEW S, Places(S, n), NEW c, NEW w, Ranked(w, c, S, n), NEW last,
         Unmarked(w, last), NEW T, AfterLast(T, S, c, last)
  PROVE  Lists(w, c, T)
<1>1. \A k \in S : k \in Int /\ 1 <= k /\ k <= n
  BY DEF Places
<1>2. ASSUME NEW k \in S PROVE c[k].ID # last /\ w[UpTo(S, k)] = c[k]
  <2>1. UpTo(S, k) \in 1..Len(w) /\ w[UpTo(S, k)] = c[k]
    BY <1>1 DEF Ranked
  <2> QED BY <2>1 DEF Unmarked
<1>3. T = S
  BY <1>2 DEF AfterLast
<1>4. Len(w) = Cardinality(S)
  BY UpToIs DEF Ranked
<1> QED BY <1>2, <1>3, <1>4 DEF UpTo, Lists

\* The last marked place is that of m: what is wanted comes after m.
LEMMA RestAfterMark ==
  ASSUME NEW n \in Nat, NEW S, Places(S, n), NEW c, NEW w \in Seq(Event), Ranked(w, c, S, n),
         NEW last, NEW at, LastMark(w, last, at), NEW T, AfterLast(T, S, c, last)
  PROVE  Lists(SubSeq(w, at + 1, Len(w)), c, T)
<1>1. \A k \in S : k \in Int /\ 1 <= k /\ k <= n
  BY DEF Places
<1>2. PICK m \in S : m <= n /\ UpTo(S, m) = at
  BY DEF Ranked, LastMark
<1>3. Len(w) \in Nat /\ at \in Int /\ 1 <= at /\ at <= Len(w)
  BY DEF LastMark
<1>4. c[m].ID = last
  <2>1. w[UpTo(S, m)] = c[m]
    BY <1>2 DEF Ranked
  <2> QED BY <1>2, <2>1 DEF LastMark
<1>5. ASSUME NEW k \in S, k > m PROVE c[k].ID # last /\ UpTo(S, k) > at /\ UpTo(S, k) <= Len(w) /\ UpTo(S, k) \in Int
  <2>1. UpTo(S, k) \in 1..Len(w) /\ w[UpTo(S, k)] = c[k]
    BY <1>1 DEF Ranked
  <2>2. m \in 0..n /\ k \in 0..n /\ m <= k /\ m < k
    BY <1>1, <1>5
  <2>3. UpTo(S, m) < UpTo(S, k)
    BY <2>2, UpToGrows
  <2>4. UpTo(S, k) \in Int /\ UpTo(S, k) <= Len(w)
    BY <2>1
  <2>5. UpTo(S, k) > at
    BY <1>2, <2>3, <2>4
  <2>6. ~(UpTo(S, k) <= at)
    BY <1>3, <2>4, <2>5
  <2> QED BY <2>1, <2>4, <2>5, <2>6 DEF LastMark
<1>6. T = {k \in S : k > m}
  <2>1. ASSUME NEW j \in T PROVE j \in S /\ j > m
    <3>1. j \in S /\ ~(m >= j)
      BY <1>4 DEF AfterLast
    <3> QED BY <1>1, <3>1
  <2>2. ASSUME NEW j \in S, j > m PROVE j \in T
    <3>1. \A k \in S : k >= j => k > m
      BY <1>1, <2>2
    <3> QED BY <1>5, <3>1 DEF AfterLast
  <2> QED BY <2>1, <2>2
<1>7. m \in 0..n /\ n \in 0..n
  BY <1>1
<1>8. ASSUME NEW j \in 0..n, m <= j
      PROVE  Cardinality({k \in T : k <= j}) = UpTo(S, j) - at
  <2>1. {k \in T : k <= j} = {k \in S : k > m /\ k <= j}
    BY <1>6
  <2>2. Cardinality({k \in S : k > m /\ k <= j}) = UpTo(S, j) - UpTo(S, m)
    BY <1>7, <1>8, UpToAfter
  <2> QED BY <1>2, <2>1, <2>2
<1>9. /\ Len(SubSeq(w, at + 1, Len(w))) = Len(w) - at
      /\ \A x \in 1..(Len(w) - at) : SubSeq(w, at + 1, Len(w))[x] = w[at + x]
  <2>1. at + 1 \in 1..(Len(w) + 1) /\ Len(w) \in at..Len(w)
    BY <1>3
  <2> QED BY <1>3, <2>1
<1>10. Cardinality(T) = Len(w) - at
  <2>1. {k \in T : k <= n} = T
    BY <1>1, <1>6
  <2>2. Cardinality({k \in T : k <= n}) = UpTo(S, n) - at
    BY <1>2, <1>7, <1>8
  <2> QED BY <2>1, <2>2 DEF Ranked
<1>11. ASSUME NEW j \in T
       PROVE  SubSeq(w, at + 1, Len(w))[Cardinality({k \in T : k <= j})] = c[j]
  <2>1. j \in S /\ j > m
    BY <1>6
  <2>2. j \in 0..n /\ m <= j
    BY <1>1, <2>1
  <2>3. Cardinality({k \in T : k <= j}) = UpTo(S, j) - at
    BY <1>8, <2>2
  <2>4. UpTo(S, j) > at /\ UpTo(S, j) <= Len(w) /\ UpTo(S, j) \in Int
    BY <1>5, <2>1
  <2>5. UpTo(S, j) - at \in 1..(Len(w) - at) /\ at + (UpTo(S, j) - at) = UpTo(S, j)
    BY <1>3, <2>4
  <2>6. w[UpTo(S, j)] = c[j]
    BY <1>1, <2>1 DEF Ranked
  <2>7. SubSeq(w, at + 1, Len(w))[UpTo(S, j) - at] = w[at + (UpTo(S, j) - at)]
    BY <1>9, <2>5
  <2> QED BY <2>3, <2>5, <2>6, <2>7
<1> QED BY <1>9, <1>10, <1>11 DEF Lists

\* The places in the age window.
Young(cutoff) == {j \in 1..count : ~TooOld(Contents[j], cutoff)}

LEMMA ContentsType ==
  ASSUME RingOK
  PROVE  /\ count \in Nat
         /\ \A i \in 1..count : /\ Contents[i] = events[Slot(i - 1)]
                                /\ Contents[i] \in Event /\ Contents[i] # Nil
<1>1. count \in Nat /\ count <= Cap
  BY CapPositive DEF RingOK, RingTypeOK
<1>2. ASSUME NEW i \in 1..count
      PROVE  Contents[i] = events[Slot(i - 1)] /\ Contents[i] \in Event /\ Contents[i] # Nil
  <2>1. Contents[i] = events[Slot(i - 1)]
    BY DEF Contents
  <2>2. i - 1 \in 0..Cap-1 /\ i - 1 < count /\ i - 1 \in 0..Cap
    BY <1>1, CapPositive
  <2>3. events[Slot(i - 1)] # Nil
    BY <2>2 DEF RingOK
  <2>4. Slot(i - 1) \in 0..Cap-1
    BY <2>2, SlotValue, CapPositive DEF RingOK, RingTypeOK
  <2>5. events[Slot(i - 1)] \in Event \cup {Nil}
    BY <2>4 DEF RingOK, RingTypeOK
  <2> QED BY <2>1, <2>3, <2>5
<1> QED BY <1>1, <1>2

LEMMA YoungPlaces ==
  ASSUME RingOK, NEW cutoff
  PROVE  Places(Young(cutoff), count)
BY ContentsType DEF Young, Places

\* The loop of since keeps the events in the age window, in their order.
LEMMA WindowIs ==
  ASSUME RingOK, NEW cutoff
  PROVE  Window(cutoff) \in Seq(Event) /\ Ranked(Window(cutoff), Contents, Young(cutoff), count)
<1> DEFINE W == Collected(cutoff)
           S == Young(cutoff)
           c == Contents
<1>1. count \in Nat /\ \A i \in 1..count : c[i] = events[Slot(i - 1)] /\ c[i] \in Event /\ c[i] # Nil
  BY ContentsType
<1>2. W[0] = <<>> /\ \A i \in 1..count : W[i] = Collect(W[i - 1], events[Slot(i - 1)], cutoff)
  BY CollectedIs DEF RingOK
<1>3. ASSUME NEW i \in 1..count
      PROVE  W[i] = IF i \in S THEN Append(W[i - 1], c[i]) ELSE W[i - 1]
  <2>1. W[i] = Collect(W[i - 1], c[i], cutoff)
    BY <1>1, <1>2
  <2>2. i \in S <=> ~TooOld(c[i], cutoff)
    BY DEF Young
  <2>3. c[i] # Nil
    BY <1>1
  <2> HIDE DEF W, S, c
  <2> QED BY <2>1, <2>2, <2>3 DEF Collect
<1>4. Places(S, count)
  BY YoungPlaces
<1>5. Window(cutoff) = W[count]
  BY DEF Window
<1>6. \A i \in 1..count : c[i] \in Event
  BY <1>1
<1>7. W[0] = <<>>
  BY <1>2
<1> HIDE DEF W, S, c
<1>8. W[count] \in Seq(Event) /\ Ranked(W[count], c, S, count)
  BY <1>1, <1>3, <1>4, <1>6, <1>7, RankedLoop
<1> QED BY <1>5, <1>8 DEF W, S, c

LEMMA WantedIs ==
  ASSUME RingOK, NEW last, NEW cutoff, NEW j
  PROVE  j \in Wanted(last, cutoff) <=>
           j \in Young(cutoff) /\ \A k \in Young(cutoff) : k >= j => Contents[k].ID # last
<1>1. count \in Nat
  BY ContentsType
<1>2. \A k \in 1..count : k \in Young(cutoff) <=> ~TooOld(Contents[k], cutoff)
  BY DEF Young
<1>3. \A k \in Young(cutoff) : k \in 1..count
  BY DEF Young
<1>4. j \in 1..count => \A k : k \in j..count <=> k \in 1..count /\ k >= j
  BY <1>1
<1> QED BY <1>1, <1>2, <1>3, <1>4 DEF Wanted

LEMMA SinceIsExact ==
  ASSUME RingOK, NEW last, NEW cutoff
  PROVE  Lists(Since(last, cutoff), Contents, Wanted(last, cutoff))
<1> DEFINE w == Window(cutoff)
           S == Young(cutoff)
           c == Contents
           T == Wanted(last, cutoff)
           M == {i \in 1..Len(w) : w[i].ID = last}
           at == CHOOSE i \in M : \A j \in M : j <= i
<1>1. count \in Nat
  BY ContentsType
<1>2. Places(S, count)
  BY YoungPlaces
<1>3. w \in Seq(Event) /\ Ranked(w, c, S, count)
  BY WindowIs
<1>4. AfterLast(T, S, c, last)
  BY WantedIs DEF AfterLast
<1>5. Since(last, cutoff) = IF M = {} THEN w ELSE SubSeq(w, at + 1, Len(w))
  BY DEF Since
<1>6. CASE M = {}
  <2>1. Unmarked(w, last)
    BY <1>6 DEF Unmarked
  <2>2. Since(last, cutoff) = w
    BY <1>5, <1>6
  <2> HIDE DEF w, S, c, T, M, at
  <2>3. Lists(w, c, T)
    BY <1>1, <1>2, <1>3, <1>4, <2>1, RestOfUnmarked
  <2> QED BY <2>2, <2>3 DEF T, c
<1>7. CASE M # {}
  <2>1. \A k \in M : k \in Int /\ 0 <= k /\ k <= Len(w)
    OBVIOUS
  <2>2. Len(w) \in Nat
    BY <1>3
  <2>3. \E i \in M : \A k \in M : k <= i
    <3> HIDE DEF M
    <3> QED BY <1>7, <2>1, <2>2, GreatestOf
  <2>4. at \in M /\ \A k \in M : k <= at
    <3> HIDE DEF M
    <3> QED BY <2>3, Zenon
  <2> HIDE DEF at
  <2>5. LastMark(w, last, at)
    BY <2>4 DEF LastMark
  <2>6. Since(last, cutoff) = SubSeq(w, at + 1, Len(w))
    BY <1>5, <1>7
  <2> HIDE DEF w, S, c, T, M
  <2>7. Lists(SubSeq(w, at + 1, Len(w)), c, T)
    BY <1>1, <1>2, <1>3, <1>4, <2>5, RestAfterMark
  <2> QED BY <2>6, <2>7 DEF T, c
<1> QED BY <1>6, <1>7

\* since after any history of pushes replays exactly what the client has still to
\* get, for every capacity, every marker and every age (resume.go, ringBuffer.since).
THEOREM SinceExact == RingSpec => []SinceReplaysRest
<1>1. RingOK => SinceReplaysRest
  BY SinceIsExact DEF SinceReplaysRest, Lists
<1> QED BY <1>1, RingSafe, PTL

----------------------------------------------------------------------------
(* Reconnect and resume *)

\* Records with all their fields, for the steps that change one of them.
BcastType == [pc : {"idle", "push", "collect", "send"}, e : HubEvent, epoch : Nat]
ConnType == [up : BOOLEAN, epoch : Nat, subs : SUBSET Channel, send : Seq(HubEvent)]
FrameType == [type : {"subscribe", "resume"}, ch : Channel \cup {"*"}, id : 0..MaxEvents]
ReplayType == [active : BOOLEAN, since : 0..MaxEvents, todo : SUBSET Channel, out : Seq(HubEvent)]
ClientType == [last : 0..MaxEvents, seen : Seq(1..MaxEvents)]

ResumeTypes ==
  /\ nextID \in 0..MaxEvents
  /\ bcast \in [Broadcaster -> BcastType]
  /\ \A p \in Broadcaster : bcast[p].pc # "idle" => bcast[p].e.ch \in Channel
  /\ buffer \in [Channel -> Seq(HubEvent)]
  /\ \A ch \in Channel : Len(buffer[ch]) <= Size
  /\ conn \in ConnType /\ Len(conn.send) <= SendBuf
  /\ inbox \in Seq(FrameType)
  /\ \A i \in 1..Len(inbox) : inbox[i].type = "subscribe" => inbox[i].ch \in Channel
  /\ replay \in ReplayType
  /\ client \in ClientType
  /\ losses \in 0..MaxDrops
  /\ subscribedOnce \in SUBSET Channel
  /\ due \in SUBSET HubEvent /\ \A e \in due : e.ch \in Channel

\* The client's last ID is the greatest it has seen.
SeenInOrder == AtMostOnceInOrder /\ \A i \in 1..Len(client.seen) : client.seen[i] <= client.last

\* What the client still has to get: due, in a ring and newer than its last ID.
Missing == {e \in due : Buffered(e) /\ e.id > client.last}

\* What is on its way to the client, in the order in which it arrives.
Way == conn.send \o replay.out

\* No frame of q that the client would accept overtakes an event of M.
NoneOvertaken(q, M, last) ==
  \A k \in 1..Len(q) : q[k].id > last =>
    \A e \in M : e.id < q[k].id => \E j \in 1..(k - 1) : q[j] = e

\* A ring is in the order of the IDs.
Ascending(r) == \A i, j \in 1..Len(r) : i < j => r[i].id < r[j].id
RingsOrdered ==
  \A ch \in Channel :
    /\ Ascending(buffer[ch])
    /\ \A i \in 1..Len(buffer[ch]) : buffer[ch][i].ch = ch /\ buffer[ch][i].id \in 1..nextID

\* One event is broadcast at a time, to a client that has caught up or is cut off.
OneInFlight ==
  \A p \in Broadcaster : bcast[p].pc # "idle" =>
    /\ \A q \in Broadcaster : q # p => bcast[q].pc = "idle"
    /\ bcast[p].e.id = nextID
    /\ bcast[p].pc = "push" =>
         /\ client.last < nextID
         /\ \A ch \in Channel : \A i \in 1..Len(buffer[ch]) : buffer[ch][i].id < nextID
         /\ \A m \in Missing : m.ch = bcast[p].e.ch
    /\ conn.up =>
         /\ inbox = << >> /\ ~replay.active /\ conn.send = << >>
         /\ \A m \in Missing : bcast[p].pc # "push" /\ m = bcast[p].e
         /\ bcast[p].pc = "send" => bcast[p].epoch = conn.epoch

\* A client that has seen an event was subscribed to all its channels before.
OnceCaughtUp ==
  /\ client.last <= nextID
  /\ client.last # 0 =>
       /\ subscribedOnce = Channel
       /\ \A ch \in Channel : \A i \in 1..Len(buffer[ch]) :
            buffer[ch][i].id > client.last => buffer[ch][i] \in due
  /\ client.last = 0 => ~replay.active /\ (~conn.up => due = {} /\ subscribedOnce = {})

\* What is behind the client's last ID it has seen; what is ahead is on one channel.
SeenDue == \A e \in due : Buffered(e) /\ e.id <= client.last => Seen(e)
OneChannel == \A e, g \in Missing : e.ch = g.ch

\* The connection, its frames and its replay.
ConnOrdered ==
  /\ ~conn.up => conn.send = << >> /\ inbox = << >> /\ ~replay.active
  /\ ~replay.active => replay = NoReplay
  /\ replay.active => inbox = << >> /\ replay.since <= client.last
  /\ conn.subs \subseteq subscribedOnce
  /\ conn.up => \A ch \in Channel : ch \in conn.subs \/
                  \E i \in 1..Len(inbox) : inbox[i].type = "subscribe" /\ inbox[i].ch = ch
  /\ \A i \in 1..Len(inbox) : inbox[i].type = "resume" =>
       /\ i = Len(inbox) /\ inbox[i].id = client.last /\ client.last # 0
       /\ \A k \in 1..Len(conn.send) : conn.send[k].id = 0

WayOrdered ==
  /\ \A k \in 1..Len(Way) : Way[k].id # 0 =>
       Way[k].id <= nextID /\ subscribedOnce = Channel /\ (client.last = 0 => Way[k].id = nextID)
  /\ NoneOvertaken(Way, Missing, client.last)

\* Every missing event will come: the client has asked for a replay, the replay
\* comes to its channel, or it is on its way.
WillCome ==
  conn.up /\ AllIdle => \A e \in Missing :
    \/ \E i \in 1..Len(inbox) : inbox[i].type = "resume"
    \/ replay.active /\ e.ch \in replay.todo
    \/ \E k \in 1..Len(Way) : Way[k] = e

CalmInv ==
  /\ RingsOrdered /\ OneInFlight /\ OnceCaughtUp /\ SeenDue /\ OneChannel
  /\ ConnOrdered /\ WayOrdered /\ WillCome

ResumeInv == ResumeTypes /\ SeenInOrder /\ calm \in BOOLEAN /\ (calm => CalmInv)

----------------------------------------------------------------------------
LEMMA QueueProps ==
  ASSUME NEW q \in Seq(HubEvent), NEW f \in HubEvent, Len(q) <= SendBuf
  PROVE  Queue(q, f) \in Seq(HubEvent) /\ Len(Queue(q, f)) <= SendBuf
BY ResumeAssumption, AppendProperties, LenProperties DEF Queue

\* What a ring holds after a push: the event last, before it the old ring, whole
\* or without its oldest event.
LEMMA PushedProps ==
  ASSUME NEW r \in Seq(HubEvent), Len(r) <= Size, NEW e \in HubEvent
  PROVE  \E d \in {0, 1} :
           /\ Pushed(r, e) \in Seq(HubEvent) /\ Len(Pushed(r, e)) <= Size
           /\ Len(Pushed(r, e)) = Len(r) + 1 - d /\ d <= Len(r) /\ Len(r) \in Nat
           /\ Pushed(r, e)[Len(r) + 1 - d] = e
           /\ \A i \in 1..(Len(r) - d) : Pushed(r, e)[i] = r[i + d]
<1>1. Len(r) \in Nat /\ Size \in Nat \ {0}
  BY LenProperties, ResumeAssumption
<1>2. CASE Len(r) < Size
  <2>1. Pushed(r, e) = Append(r, e)
    BY <1>2 DEF Pushed
  <2>2. /\ Append(r, e) \in Seq(HubEvent) /\ Len(Append(r, e)) = Len(r) + 1
        /\ \A i \in 1..Len(r) : Append(r, e)[i] = r[i]
        /\ Append(r, e)[Len(r) + 1] = e
    BY AppendProperties
  <2> HIDE DEF Pushed
  <2> QED
    BY <1>1, <1>2, <2>1, <2>2
<1>3. CASE ~(Len(r) < Size)
  <2>1. Pushed(r, e) = Append(Tail(r), e)
    BY <1>3 DEF Pushed
  <2>2. r # << >>
    BY <1>1, <1>3, EmptySeq
  <2>3. /\ Tail(r) \in Seq(HubEvent) /\ Len(Tail(r)) = Len(r) - 1
        /\ \A i \in 1..Len(Tail(r)) : Tail(r)[i] = r[i + 1]
    BY <2>2, HeadTailProperties
  <2>4. /\ Append(Tail(r), e) \in Seq(HubEvent) /\ Len(Append(Tail(r), e)) = Len(Tail(r)) + 1
        /\ \A i \in 1..Len(Tail(r)) : Append(Tail(r), e)[i] = Tail(r)[i]
        /\ Append(Tail(r), e)[Len(Tail(r)) + 1] = e
    BY <2>3, AppendProperties
  <2>5. Len(r) = Size
    BY <1>1, <1>3
  <2> DEFINE t == Append(Tail(r), e)
  <2>6. t[Len(r)] = e /\ \A i \in 1..(Len(r) - 1) : t[i] = r[i + 1]
    BY <1>1, <2>3, <2>4
  <2>7. t \in Seq(HubEvent) /\ Len(t) = Len(r)
    BY <1>1, <2>3, <2>4
  <2>8. t = Pushed(r, e)
    BY <2>1
  <2> HIDE DEF t
  <2>9. Len(r) + 1 - 1 = Len(r) /\ 1 <= Len(r) /\ Len(r) <= Size
    BY <1>1, <2>5
  <2>10. t \in Seq(HubEvent) /\ Len(t) <= Size /\ Len(t) = Len(r) + 1 - 1 /\ t[Len(r) + 1 - 1] = e
    BY <2>6, <2>7, <2>9, Zenon
  <2> QED
    BY <1>1, <2>6, <2>8, <2>9, <2>10
<1> QED
  BY <1>2, <1>3

\* Since leaves out at most events that are no newer than the marker.
LEMMA SinceProps ==
  ASSUME NEW r \in Seq(HubEvent), NEW id
  PROVE  \E d \in 0..Len(r) :
           /\ BufferSince(r, id) \in Seq(HubEvent)
           /\ Len(BufferSince(r, id)) = Len(r) - d
           /\ \A i \in 1..(Len(r) - d) : BufferSince(r, id)[i] = r[i + d]
           /\ d # 0 => r[d].id = id
<1> DEFINE marker == {i \in 1..Len(r) : r[i].id = id}
           b == BufferSince(r, id)
<1>1. Len(r) \in Nat /\ \A i \in 1..Len(r) : r[i] \in HubEvent
  BY LenProperties, ElementOfSeq
<1>2. CASE marker = {}
  <2>1. b = r
    BY <1>2 DEF BufferSince
  <2> HIDE DEF b
  <2>2. 0 \in 0..Len(r) /\ Len(b) = Len(r) - 0 /\ \A i \in 1..(Len(r) - 0) : b[i] = r[i + 0]
    BY <1>1, <2>1
  <2>3. b \in Seq(HubEvent)
    BY <2>1
  <2> QED
    BY <2>2, <2>3 DEF b
<1>3. CASE marker # {}
  <2> DEFINE d == CHOOSE i \in marker : TRUE
  <2>1. d \in marker
    BY <1>3
  <2>2. b = SubSeq(r, d + 1, Len(r))
    BY <1>3 DEF BufferSince
  <2>3. d \in 1..Len(r) /\ r[d].id = id
    BY <2>1
  <2> HIDE DEF d, b
  <2>4. \A i \in (d + 1)..Len(r) : r[i] \in HubEvent
    BY <1>1, <2>3
  <2>5. d + 1 \in Int /\ Len(r) \in Int
    BY <1>1, <2>3
  <2>6. /\ b \in Seq(HubEvent) /\ Len(b) = IF d + 1 <= Len(r) THEN Len(r) - (d + 1) + 1 ELSE 0
        /\ \A i \in 1..(Len(r) - (d + 1) + 1) : b[i] = r[d + 1 + i - 1]
    BY <2>2, <2>4, <2>5, SubSeqProperties
  <2>7. Len(b) = Len(r) - d
    BY <1>1, <2>3, <2>6
  <2>8. ASSUME NEW i \in 1..(Len(r) - d) PROVE b[i] = r[i + d]
    <3>1. i \in 1..(Len(r) - (d + 1) + 1) /\ d + 1 + i - 1 = i + d
      BY <1>1, <2>3
    <3> QED
      BY <2>6, <3>1
  <2>9. b \in Seq(HubEvent) /\ d \in 0..Len(r)
    BY <1>1, <2>3, <2>6
  <2>10. \E c \in 0..Len(r) :
           b \in Seq(HubEvent) /\ Len(b) = Len(r) - c /\ (\A i \in 1..(Len(r) - c) : b[i] = r[i + c])
           /\ (c # 0 => r[c].id = id)
    BY <2>3, <2>7, <2>8, <2>9
  <2> QED
    BY <2>10 DEF b
<1> QED
  BY <1>2, <1>3

\* The client subscribes to every channel, and only to its channels.
LEMMA SubscribesAll ==
  /\ Subscribes \in Seq(FrameType) /\ Len(Subscribes) \in Nat
  /\ \A i \in 1..Len(Subscribes) : Subscribes[i].type = "subscribe" /\ Subscribes[i].ch \in Channel
  /\ \A ch \in Channel : \E i \in 1..Len(Subscribes) : Subscribes[i].ch = ch
<1> DEFINE n == Cardinality(Channel)
           f == SetToSeq(Channel)
<1>1. IsFiniteSet(Channel) /\ n \in Nat /\ ExistsBijection(1..n, Channel) /\ MaxEvents \in Nat
  BY ResumeAssumption, FS_CardinalityType
<1>2. \E g \in [1..n -> Channel] : IsInjective(g)
  BY <1>1, Zenon DEF ExistsBijection, Bijection, Injection
<1>3. f \in [1..n -> Channel] /\ IsInjective(f)
  BY <1>2, Zenon DEF SetToSeq
<1> HIDE DEF f
<1>4. f \in Injection(1..n, Channel)
  BY <1>3, Zenon DEF Injection
<1>5. Cardinality(1..n) = n
  BY <1>1, FS_Interval
<1> HIDE DEF n
<1>6. f \in Surjection(1..n, Channel)
  BY <1>1, <1>4, <1>5, FS_Injection DEF n
<1>7. \A ch \in Channel : \E i \in 1..n : f[i] = ch
  BY <1>6, Zenon DEF Surjection
<1> DEFINE s == [i \in 1..n |-> [type |-> "subscribe", ch |-> f[i], id |-> 0]]
<1>8. Subscribes = s
  BY DEF Subscribes, f, n
<1>9. s \in [1..n -> FrameType]
  BY <1>1, <1>3 DEF FrameType
<1>10. s \in Seq(FrameType)
  BY <1>1, <1>9, SeqDef
<1>11. Len(s) = n
  BY <1>1, <1>9, <1>10, LenProperties
<1>12. \A i \in 1..n : s[i].type = "subscribe" /\ s[i].ch = f[i]
  OBVIOUS
<1> HIDE DEF s
<1> QED
  BY <1>1, <1>3, <1>7, <1>8, <1>10, <1>11, <1>12

----------------------------------------------------------------------------
(* The types, one action at a time *)

LEMMA SysType == Sys \in HubEvent /\ NoReplay \in ReplayType /\ Sys.id = 0
<1>1. 0 \in 0..MaxEvents
  BY ResumeAssumption
<1>2. Sys \in HubEvent
  BY <1>1 DEF Sys, HubEvent
<1>3. << >> \in Seq(HubEvent)
  BY EmptySeq
<1>4. NoReplay \in ReplayType
  BY <1>1, <1>3 DEF NoReplay, ReplayType
<1> QED
  BY <1>2, <1>4 DEF Sys

LEMMA ResumeInitTypes == ResumeInit => ResumeTypes
<1> SUFFICES ASSUME ResumeInit PROVE ResumeTypes
  OBVIOUS
<1> USE ResumeAssumption
<1>1. bcast \in [Broadcaster -> BcastType] /\ \A p \in Broadcaster : bcast[p].pc = "idle"
  BY SysType DEF ResumeInit, BcastType
<1>2. << >> \in Seq(HubEvent) /\ << >> \in Seq(FrameType) /\ << >> \in Seq(1..MaxEvents) /\ Len(<< >>) = 0
  BY EmptySeq
<1>3. buffer \in [Channel -> Seq(HubEvent)] /\ \A ch \in Channel : buffer[ch] = << >>
  BY <1>2 DEF ResumeInit
<1>4. conn \in ConnType /\ conn.send = << >>
  BY <1>2 DEF ResumeInit, ConnType
<1>5. client \in ClientType
  BY <1>2 DEF ResumeInit, ClientType
<1>6. replay \in ReplayType
  BY SysType DEF ResumeInit
<1>7. inbox = << >> /\ nextID \in 0..MaxEvents /\ losses \in 0..MaxDrops
  BY DEF ResumeInit
<1>8. \A i \in 1..Len(inbox) : inbox[i].type = "subscribe" => inbox[i].ch \in Channel
  BY <1>2, <1>7
<1>9. subscribedOnce \in SUBSET Channel /\ due \in SUBSET HubEvent /\ \A e \in due : e.ch \in Channel
  BY DEF ResumeInit
<1>10. \A ch \in Channel : Len(buffer[ch]) <= Size
  BY <1>2, <1>3
<1>11. Len(conn.send) <= SendBuf
  BY <1>2, <1>4
<1> QED
  BY <1>1, <1>2, <1>3, <1>4, <1>5, <1>6, <1>7, <1>8, <1>9, <1>10, <1>11 DEF ResumeTypes

LEMMA DrawTypes ==
  ASSUME ResumeTypes, NEW p \in Broadcaster, NEW ch \in Channel, DrawID(p, ch)
  PROVE  /\ ResumeTypes'
         /\ bcast'[p].pc = "push" /\ bcast'[p].e.id = nextID + 1 /\ bcast'[p].e.ch = ch
         /\ \A q \in Broadcaster : q # p => bcast'[q] = bcast[q]
<1> DEFINE e == [id |-> nextID + 1, ch |-> ch]
           b == [pc |-> "push", e |-> e, epoch |-> 0]
<1>1. nextID' \in 0..MaxEvents /\ nextID' = nextID + 1 /\ nextID + 1 \in 0..MaxEvents
  BY ResumeAssumption DEF ResumeTypes, DrawID
<1>2. e \in HubEvent /\ e.ch = ch /\ e.id = nextID + 1
  BY <1>1 DEF HubEvent
<1>3. bcast' = [bcast EXCEPT ![p] = b]
  BY DEF DrawID
<1> HIDE DEF e
<1>4. b \in BcastType /\ b.pc = "push" /\ b.e = e
  BY <1>2 DEF BcastType
<1> HIDE DEF b
<1>5. /\ bcast' \in [Broadcaster -> BcastType] /\ bcast'[p] = b
      /\ \A q \in Broadcaster : q # p => bcast'[q] = bcast[q]
  BY <1>3, <1>4 DEF ResumeTypes
<1>6. \A q \in Broadcaster : bcast'[q].pc # "idle" => bcast'[q].e.ch \in Channel
  BY <1>2, <1>4, <1>5 DEF ResumeTypes
<1>7. ResumeTypes'
  BY <1>1, <1>5, <1>6 DEF ResumeTypes, DrawID
<1> QED
  BY <1>2, <1>4, <1>5, <1>7

LEMMA PushTypes ==
  ASSUME ResumeTypes, NEW p \in Broadcaster, BufferPush(p)
  PROVE  /\ ResumeTypes'
         /\ bcast[p].e \in HubEvent /\ bcast[p].e.ch \in Channel
         /\ bcast'[p].pc = "collect" /\ bcast'[p].e = bcast[p].e
         /\ \A q \in Broadcaster : q # p => bcast'[q] = bcast[q]
         /\ buffer'[bcast[p].e.ch] = Pushed(buffer[bcast[p].e.ch], bcast[p].e)
         /\ \A ch \in Channel : ch # bcast[p].e.ch => buffer'[ch] = buffer[ch]
<1> DEFINE e == bcast[p].e
           b == [bcast[p] EXCEPT !.pc = "collect"]
           r == Pushed(buffer[e.ch], e)
<1>1. bcast[p] \in BcastType /\ e \in HubEvent /\ e.ch \in Channel
  BY DEF ResumeTypes, BufferPush, BcastType
<1>2. b \in BcastType /\ b.pc = "collect" /\ b.e = e
  BY <1>1 DEF BcastType
<1>3. bcast' = [bcast EXCEPT ![p] = b]
  BY DEF BufferPush
<1>4. buffer[e.ch] \in Seq(HubEvent) /\ Len(buffer[e.ch]) <= Size
  BY <1>1 DEF ResumeTypes
<1>5. r \in Seq(HubEvent) /\ Len(r) <= Size
  BY <1>1, <1>4, PushedProps
<1>6. buffer' = [buffer EXCEPT ![e.ch] = r]
  BY DEF BufferPush
<1>7. due' \in SUBSET HubEvent /\ \A m \in due' : m.ch \in Channel
  BY <1>1 DEF BufferPush, ResumeTypes
<1> HIDE DEF b, r, e
<1>8. /\ bcast' \in [Broadcaster -> BcastType] /\ bcast'[p] = b
      /\ \A q \in Broadcaster : q # p => bcast'[q] = bcast[q]
  BY <1>2, <1>3 DEF ResumeTypes
<1>9. /\ buffer' \in [Channel -> Seq(HubEvent)] /\ buffer'[e.ch] = r
      /\ \A ch \in Channel : ch # e.ch => buffer'[ch] = buffer[ch]
  BY <1>1, <1>5, <1>6 DEF ResumeTypes
<1>10. \A ch \in Channel : Len(buffer'[ch]) <= Size
  BY <1>5, <1>9 DEF ResumeTypes
<1>11. \A q \in Broadcaster : bcast'[q].pc # "idle" => bcast'[q].e.ch \in Channel
  BY <1>1, <1>2, <1>8 DEF ResumeTypes
<1>12. ResumeTypes'
  BY <1>7, <1>8, <1>9, <1>10, <1>11 DEF ResumeTypes, BufferPush
<1> QED
  BY <1>1, <1>2, <1>8, <1>9, <1>12 DEF e, r

LEMMA CollectTypes ==
  ASSUME ResumeTypes, NEW p \in Broadcaster, CollectConns(p)
  PROVE  /\ ResumeTypes'
         /\ bcast'[p].pc = (IF conn.up /\ bcast[p].e.ch \in conn.subs THEN "send" ELSE "idle")
         /\ bcast'[p].e = bcast[p].e /\ bcast'[p].epoch = conn.epoch
         /\ \A q \in Broadcaster : q # p => bcast'[q] = bcast[q]
<1> DEFINE pc == IF conn.up /\ bcast[p].e.ch \in conn.subs THEN "send" ELSE "idle"
           b == [bcast[p] EXCEPT !.pc = pc, !.epoch = conn.epoch]
<1>1. bcast[p] \in BcastType /\ conn.epoch \in Nat /\ bcast[p].e.ch \in Channel
  BY DEF ResumeTypes, ConnType, CollectConns
<1>2. pc \in {"idle", "send"}
  OBVIOUS
<1>3. bcast' = [bcast EXCEPT ![p] = b]
  BY <1>1 DEF CollectConns, ResumeTypes, BcastType
<1> HIDE DEF pc
<1>4. b \in BcastType /\ b.pc = pc /\ b.e = bcast[p].e /\ b.epoch = conn.epoch
  BY <1>1, <1>2 DEF BcastType
<1> HIDE DEF b
<1>5. /\ bcast' \in [Broadcaster -> BcastType] /\ bcast'[p] = b
      /\ \A q \in Broadcaster : q # p => bcast'[q] = bcast[q]
  BY <1>3, <1>4 DEF ResumeTypes
<1>6. \A q \in Broadcaster : bcast'[q].pc # "idle" => bcast'[q].e.ch \in Channel
  BY <1>1, <1>4, <1>5 DEF ResumeTypes
<1>7. ResumeTypes'
  BY <1>5, <1>6 DEF ResumeTypes, CollectConns
<1> QED
  BY <1>4, <1>5, <1>7 DEF pc

LEMMA SendTypes ==
  ASSUME ResumeTypes, NEW p \in Broadcaster, SendLive(p)
  PROVE  /\ ResumeTypes'
         /\ bcast'[p].pc = "idle" /\ \A q \in Broadcaster : q # p => bcast'[q] = bcast[q]
         /\ conn'.up = conn.up /\ conn'.epoch = conn.epoch /\ conn'.subs = conn.subs
         /\ conn'.send = (IF conn.up /\ bcast[p].epoch = conn.epoch
                          THEN Queue(conn.send, bcast[p].e) ELSE conn.send)
<1> DEFINE b == [bcast[p] EXCEPT !.pc = "idle"]
           s == Queue(conn.send, bcast[p].e)
<1>1. bcast[p] \in BcastType /\ bcast[p].e \in HubEvent /\ conn \in ConnType
  BY DEF ResumeTypes, BcastType
<1>2. b \in BcastType /\ b.pc = "idle"
  BY <1>1 DEF BcastType
<1>3. s \in Seq(HubEvent) /\ Len(s) <= SendBuf
  BY <1>1, QueueProps DEF ResumeTypes, ConnType
<1>4. /\ conn' = (IF conn.up /\ bcast[p].epoch = conn.epoch THEN [conn EXCEPT !.send = s] ELSE conn)
      /\ bcast' = [bcast EXCEPT ![p] = b]
  BY DEF SendLive
<1> HIDE DEF b, s
<1>5. /\ bcast' \in [Broadcaster -> BcastType] /\ bcast'[p] = b
      /\ \A q \in Broadcaster : q # p => bcast'[q] = bcast[q]
  BY <1>2, <1>4 DEF ResumeTypes
<1>6. \A q \in Broadcaster : bcast'[q].pc # "idle" => bcast'[q].e.ch \in Channel
  BY <1>2, <1>5 DEF ResumeTypes
<1>7. /\ conn' \in ConnType /\ conn'.up = conn.up /\ conn'.epoch = conn.epoch /\ conn'.subs = conn.subs
      /\ conn'.send = (IF conn.up /\ bcast[p].epoch = conn.epoch THEN s ELSE conn.send)
  BY <1>1, <1>3, <1>4 DEF ConnType
<1>8. Len(conn'.send) <= SendBuf
  BY <1>3, <1>7 DEF ResumeTypes
<1>9. ResumeTypes'
  BY <1>5, <1>6, <1>7, <1>8 DEF ResumeTypes, SendLive
<1> QED
  BY <1>2, <1>5, <1>7, <1>9 DEF s

LEMMA InboxTail ==
  ASSUME NEW q \in Seq(FrameType), q # << >>
  PROVE  /\ Head(q) \in FrameType /\ Head(q) = q[1] /\ Len(q) \in Nat /\ 1 \in 1..Len(q)
         /\ Tail(q) \in Seq(FrameType) /\ Len(Tail(q)) = Len(q) - 1
         /\ \A i \in 1..(Len(q) - 1) : Tail(q)[i] = q[i + 1] /\ i + 1 \in 1..Len(q)
<1>1. Len(q) \in Nat \ {0}
  BY EmptySeq
<1>2. /\ Head(q) \in FrameType /\ Tail(q) \in Seq(FrameType) /\ Len(Tail(q)) = Len(q) - 1
      /\ \A i \in 1..Len(Tail(q)) : Tail(q)[i] = q[i + 1]
  BY HeadTailProperties
<1>3. Head(q) = q[1]
  BY <1>1
<1>4. 1 \in 1..Len(q) /\ \A i \in 1..(Len(q) - 1) : i + 1 \in 1..Len(q)
  BY <1>1
<1> QED
  BY <1>1, <1>2, <1>3, <1>4

LEMMA SubscribeTypes ==
  ASSUME ResumeTypes, Dispatch, Head(inbox).type = "subscribe"
  PROVE  /\ ResumeTypes'
         /\ Head(inbox).ch \in Channel /\ replay' = replay
         /\ subscribedOnce' = subscribedOnce \cup {Head(inbox).ch}
         /\ conn'.up = conn.up /\ conn'.epoch = conn.epoch
         /\ conn'.subs = conn.subs \cup {Head(inbox).ch}
         /\ conn'.send = Queue(conn.send, Sys)
<1> DEFINE f == Head(inbox)
           s == Queue(conn.send, Sys)
<1>1. inbox \in Seq(FrameType) /\ inbox # << >> /\ conn \in ConnType
  BY DEF ResumeTypes, Dispatch
<1>2. f = inbox[1] /\ Tail(inbox) \in Seq(FrameType) /\ 1 \in 1..Len(inbox)
  BY <1>1, InboxTail
<1>3. f.ch \in Channel
  BY <1>2 DEF ResumeTypes
<1>4. s \in Seq(HubEvent) /\ Len(s) <= SendBuf
  BY <1>1, SysType, QueueProps DEF ResumeTypes, ConnType
<1>5. /\ conn' = [[conn EXCEPT !.subs = conn.subs \cup {f.ch}] EXCEPT !.send = s]
      /\ subscribedOnce' = subscribedOnce \cup {f.ch} /\ replay' = replay
  BY <1>1 DEF Dispatch, ConnType
<1>6. \A i \in 1..Len(Tail(inbox)) : Tail(inbox)[i].type = "subscribe" => Tail(inbox)[i].ch \in Channel
  BY <1>1, InboxTail DEF ResumeTypes
<1> HIDE DEF f, s
<1>7. /\ conn' \in ConnType /\ conn'.up = conn.up /\ conn'.epoch = conn.epoch
      /\ conn'.subs = conn.subs \cup {f.ch} /\ conn'.send = s
  BY <1>1, <1>3, <1>4, <1>5 DEF ConnType
<1>8. subscribedOnce' \in SUBSET Channel
  BY <1>3, <1>5 DEF ResumeTypes
<1>9. ResumeTypes'
  BY <1>2, <1>4, <1>5, <1>6, <1>7, <1>8 DEF ResumeTypes, Dispatch
<1> QED
  BY <1>3, <1>5, <1>7, <1>9 DEF f, s

LEMMA ResumeFrameTypes ==
  ASSUME ResumeTypes, Dispatch, Head(inbox).type # "subscribe"
  PROVE  /\ ResumeTypes'
         /\ conn' = conn /\ subscribedOnce' = subscribedOnce
         /\ Head(inbox).type = "resume"
         /\ replay'.active = TRUE /\ replay'.since = Head(inbox).id
         /\ replay'.todo = conn.subs /\ replay'.out = << >>
<1> DEFINE f == Head(inbox)
<1>1. inbox \in Seq(FrameType) /\ inbox # << >> /\ conn \in ConnType
  BY DEF ResumeTypes, Dispatch
<1>2. f \in FrameType /\ Tail(inbox) \in Seq(FrameType)
  BY <1>1, InboxTail
<1>3. << >> \in Seq(HubEvent)
  BY EmptySeq
<1>4. /\ replay' = [active |-> TRUE, since |-> f.id, todo |-> conn.subs, out |-> << >>]
      /\ conn' = conn /\ subscribedOnce' = subscribedOnce /\ f.type = "resume"
  BY DEF Dispatch
<1>5. \A i \in 1..Len(Tail(inbox)) : Tail(inbox)[i].type = "subscribe" => Tail(inbox)[i].ch \in Channel
  BY <1>1, InboxTail DEF ResumeTypes
<1> HIDE DEF f
<1>6. replay' \in ReplayType
  BY <1>1, <1>2, <1>3, <1>4 DEF ReplayType, ConnType, FrameType
<1>7. /\ replay'.active = TRUE /\ replay'.since = f.id
      /\ replay'.todo = conn.subs /\ replay'.out = << >>
  BY <1>4
<1>8. ResumeTypes'
  BY <1>2, <1>4, <1>5, <1>6 DEF ResumeTypes, Dispatch
<1> QED
  BY <1>4, <1>7, <1>8 DEF f

LEMMA ReplayChannelTypes ==
  ASSUME ResumeTypes, NEW ch \in Channel, ReplayChannel(ch)
  PROVE  /\ ResumeTypes'
         /\ replay'.active = replay.active /\ replay'.since = replay.since
         /\ replay'.todo = replay.todo \ {ch}
         /\ replay'.out = BufferSince(buffer[ch], replay.since)
<1> DEFINE b == BufferSince(buffer[ch], replay.since)
<1>1. buffer[ch] \in Seq(HubEvent) /\ replay \in ReplayType
  BY DEF ResumeTypes
<1>2. b \in Seq(HubEvent)
  BY <1>1, SinceProps
<1>3. replay' = [[replay EXCEPT !.todo = replay.todo \ {ch}] EXCEPT !.out = b]
  BY <1>1 DEF ReplayChannel, ReplayType
<1> HIDE DEF b
<1>4. /\ replay' \in ReplayType /\ replay'.active = replay.active /\ replay'.since = replay.since
      /\ replay'.todo = replay.todo \ {ch} /\ replay'.out = b
  BY <1>1, <1>2, <1>3 DEF ReplayType
<1>5. ResumeTypes'
  BY <1>4 DEF ResumeTypes, ReplayChannel
<1> QED
  BY <1>4, <1>5 DEF b

LEMMA ReplaySendTypes ==
  ASSUME ResumeTypes, ReplaySend
  PROVE  /\ ResumeTypes'
         /\ Head(replay.out) \in HubEvent /\ replay.out \in Seq(HubEvent)
         /\ conn'.up = conn.up /\ conn'.epoch = conn.epoch /\ conn'.subs = conn.subs
         /\ conn'.send = Queue(conn.send, Head(replay.out))
         /\ replay'.active = replay.active /\ replay'.since = replay.since
         /\ replay'.todo = replay.todo /\ replay'.out = Tail(replay.out)
<1> DEFINE f == Head(replay.out)
           s == Queue(conn.send, f)
           o == Tail(replay.out)
<1>1. conn \in ConnType /\ replay \in ReplayType /\ replay.out \in Seq(HubEvent) /\ replay.out # << >>
  BY DEF ResumeTypes, ReplaySend, ReplayType
<1>2. f \in HubEvent /\ o \in Seq(HubEvent)
  BY <1>1, HeadTailProperties
<1>3. s \in Seq(HubEvent) /\ Len(s) <= SendBuf
  BY <1>1, <1>2, QueueProps DEF ResumeTypes, ConnType
<1>4. conn' = [conn EXCEPT !.send = s] /\ replay' = [replay EXCEPT !.out = o]
  BY DEF ReplaySend
<1> HIDE DEF f, s, o
<1>5. /\ conn' \in ConnType /\ conn'.up = conn.up /\ conn'.epoch = conn.epoch
      /\ conn'.subs = conn.subs /\ conn'.send = s
  BY <1>1, <1>3, <1>4 DEF ConnType
<1>6. /\ replay' \in ReplayType /\ replay'.active = replay.active /\ replay'.since = replay.since
      /\ replay'.todo = replay.todo /\ replay'.out = o
  BY <1>1, <1>2, <1>4 DEF ReplayType
<1>7. ResumeTypes'
  BY <1>3, <1>5, <1>6 DEF ResumeTypes, ReplaySend
<1> QED
  BY <1>1, <1>2, <1>5, <1>6, <1>7 DEF f, s, o

LEMMA ReplayEndTypes ==
  ASSUME ResumeTypes, ReplayEnd
  PROVE  ResumeTypes'
BY SysType DEF ResumeTypes, ReplayEnd

LEMMA DisconnectTypes ==
  ASSUME ResumeTypes, ConnectionLost
  PROVE  ResumeTypes' /\ conn'.up = FALSE /\ conn'.epoch = conn.epoch /\ conn'.subs = {} /\ conn'.send = << >>
<1>1. conn \in ConnType
  BY DEF ResumeTypes
<1>2. << >> \in Seq(HubEvent) /\ << >> \in Seq(FrameType) /\ Len(<< >>) = 0
  BY EmptySeq
<1>3. conn' = [[[conn EXCEPT !.up = FALSE] EXCEPT !.subs = {}] EXCEPT !.send = << >>]
  BY DEF ConnectionLost
<1>4. /\ conn' \in ConnType /\ conn'.up = FALSE /\ conn'.epoch = conn.epoch
      /\ conn'.subs = {} /\ conn'.send = << >>
  BY <1>1, <1>2, <1>3 DEF ConnType
<1>5. losses' \in 0..MaxDrops /\ Len(conn'.send) <= SendBuf
  BY <1>2, <1>4, ResumeAssumption DEF ResumeTypes, ConnectionLost
<1>6. inbox' \in Seq(FrameType) /\ \A i \in 1..Len(inbox') : FALSE
  BY <1>2 DEF ConnectionLost
<1>7. ResumeTypes'
  BY <1>4, <1>5, <1>6, SysType DEF ResumeTypes, ConnectionLost
<1> QED
  BY <1>4, <1>7

LEMMA ResumeFrame ==
  ASSUME NEW last \in 0..MaxEvents
  PROVE  /\ Resume(last) \in Seq(FrameType) /\ Len(Resume(last)) = (IF last = 0 THEN 0 ELSE 1)
         /\ \A i \in 1..Len(Resume(last)) : i = 1 /\ Resume(last)[i].type = "resume" /\ Resume(last)[i].id = last
<1>1. CASE last = 0
  BY <1>1, EmptySeq DEF Resume
<1>2. CASE last # 0
  <2> DEFINE f == [type |-> "resume", ch |-> "*", id |-> last]
  <2>1. f \in FrameType /\ f.type = "resume" /\ f.id = last
    BY DEF FrameType
  <2>2. Resume(last) = <<f>>
    BY <1>2 DEF Resume
  <2> HIDE DEF f
  <2>3. <<f>> \in Seq(FrameType) /\ Len(<<f>>) = 1 /\ <<f>>[1] = f
    BY <2>1
  <2> QED
    BY <1>2, <2>1, <2>2, <2>3
<1> QED
  BY <1>1, <1>2

\* The frames the client sends when the socket opens.
OpensWith(q, last) ==
  /\ q \in Seq(FrameType)
  /\ \A i \in 1..Len(q) : q[i].type = "subscribe" => q[i].ch \in Channel
  /\ \A i \in 1..Len(q) : q[i].type = "resume" => i = Len(q) /\ q[i].id = last /\ last # 0
  /\ \A ch \in Channel : \E i \in 1..Len(q) : q[i].type = "subscribe" /\ q[i].ch = ch
  /\ last # 0 => \E i \in 1..Len(q) : q[i].type = "resume"

LEMMA OpenFrames ==
  ASSUME NEW last \in 0..MaxEvents
  PROVE  OpensWith(Subscribes \o Resume(last), last)
<1> DEFINE s == Subscribes
           r == Resume(last)
           q == Subscribes \o Resume(last)
<1>1. /\ s \in Seq(FrameType) /\ Len(s) \in Nat
      /\ \A i \in 1..Len(s) : s[i].type = "subscribe" /\ s[i].ch \in Channel
      /\ \A ch \in Channel : \E i \in 1..Len(s) : s[i].ch = ch
  BY SubscribesAll
<1>2. /\ r \in Seq(FrameType) /\ Len(r) = (IF last = 0 THEN 0 ELSE 1)
      /\ \A i \in 1..Len(r) : i = 1 /\ r[i].type = "resume" /\ r[i].id = last
  BY ResumeFrame
<1>3. q = s \o r
  OBVIOUS
<1> HIDE DEF s, r, q
<1>4. q \in Seq(FrameType) /\ Len(q) = Len(s) + Len(r)
  BY <1>1, <1>2, <1>3, ConcatProperties
<1>5. /\ \A i \in 1..Len(s) : i \in 1..Len(q) /\ i <= Len(s)
      /\ \A i \in 1..Len(q) : i \in 1..Len(s) + Len(r)
      /\ \A i \in 1..Len(q) : ~(i <= Len(s)) => i - Len(s) \in 1..Len(r) /\ last # 0
      /\ \A i \in 1..Len(q) : i <= Len(s) => i \in 1..Len(s)
  BY <1>1, <1>2, <1>4
<1>6. \A i \in 1..Len(q) : q[i] = IF i <= Len(s) THEN s[i] ELSE r[i - Len(s)]
  BY <1>1, <1>2, <1>3, <1>5, ConcatProperties
<1>7. \A i \in 1..Len(s) : i \in 1..Len(q) /\ q[i] = s[i]
  BY <1>5, <1>6
<1>8. ASSUME NEW i \in 1..Len(q), ~(i <= Len(s))
      PROVE  q[i].type = "resume" /\ q[i].id = last /\ i - Len(s) = 1 /\ last # 0
  BY <1>2, <1>5, <1>6, <1>8
<1>9. \A i \in 1..Len(q) : q[i].type = "subscribe" => i \in 1..Len(s)
  BY <1>5, <1>8
<1>10. \A i \in 1..Len(q) : q[i].type = "subscribe" => q[i].ch \in Channel
  BY <1>1, <1>7, <1>9
<1>11. ASSUME NEW i \in 1..Len(q), q[i].type = "resume"
       PROVE  i = Len(q) /\ q[i].id = last /\ last # 0
  <2>1. ~(i <= Len(s))
    BY <1>1, <1>5, <1>7, <1>11
  <2>2. q[i].id = last /\ i - Len(s) = 1 /\ last # 0
    BY <1>8, <2>1
  <2>3. i = Len(q)
    BY <1>1, <1>2, <1>4, <2>2
  <2> QED
    BY <2>2, <2>3
<1>12. \A ch \in Channel : \E i \in 1..Len(q) : q[i].type = "subscribe" /\ q[i].ch = ch
  BY <1>1, <1>7
<1>13. last # 0 => Len(q) \in 1..Len(q) /\ ~(Len(q) <= Len(s))
  BY <1>1, <1>2, <1>4
<1>14. last # 0 => \E i \in 1..Len(q) : q[i].type = "resume"
  BY <1>8, <1>13
<1>15. OpensWith(q, last)
  BY <1>4, <1>10, <1>11, <1>12, <1>14, Zenon DEF OpensWith
<1> QED
  BY <1>15 DEF q

LEMMA OneFrame == <<Sys>> \in Seq(HubEvent) /\ Len(<<Sys>>) = 1 /\ <<Sys>>[1] = Sys
BY SysType

LEMMA OpenTypes ==
  ASSUME ResumeTypes, Open
  PROVE  /\ ResumeTypes' /\ conn'.up = TRUE /\ conn'.epoch = conn.epoch + 1 /\ conn'.subs = {}
         /\ conn'.send = <<Sys>> /\ OpensWith(inbox', client.last)
<1>1. conn.epoch + 1 \in Nat /\ client.last \in 0..MaxEvents
  BY DEF ResumeTypes, ConnType, ClientType
<1>2. conn' = [up |-> TRUE, epoch |-> conn.epoch + 1, subs |-> {}, send |-> <<Sys>>]
  BY DEF Open
<1>3. /\ conn' \in ConnType /\ conn'.up = TRUE /\ conn'.epoch = conn.epoch + 1 /\ conn'.subs = {}
      /\ conn'.send = <<Sys>>
  BY <1>1, <1>2, OneFrame DEF ConnType
<1>4. Len(conn'.send) <= SendBuf
  BY <1>3, OneFrame, ResumeAssumption
<1>5. inbox' = Subscribes \o Resume(client.last)
  BY DEF Open
<1>6. OpensWith(inbox', client.last)
  BY <1>1, <1>5, OpenFrames
<1>7. ResumeTypes'
  BY <1>3, <1>4, <1>6 DEF ResumeTypes, Open, OpensWith
<1> QED
  BY <1>3, <1>6, <1>7

LEMMA MessageTypes ==
  ASSUME ResumeTypes, OnMessage
  PROVE  /\ ResumeTypes'
         /\ Head(conn.send) \in HubEvent
         /\ conn'.up = conn.up /\ conn'.epoch = conn.epoch /\ conn'.subs = conn.subs
         /\ conn'.send = Tail(conn.send)
         /\ (Head(conn.send).id # 0 /\ Head(conn.send).id > client.last) =>
              client'.last = Head(conn.send).id /\ client'.seen = Append(client.seen, Head(conn.send).id)
         /\ ~(Head(conn.send).id # 0 /\ Head(conn.send).id > client.last) => client' = client
<1> DEFINE f == Head(conn.send)
           t == Tail(conn.send)
<1>1. conn \in ConnType /\ conn.send \in Seq(HubEvent) /\ conn.send # << >> /\ client \in ClientType
  BY DEF ResumeTypes, OnMessage, ConnType
<1>2. f \in HubEvent /\ t \in Seq(HubEvent) /\ Len(t) = Len(conn.send) - 1 /\ Len(conn.send) \in Nat
  BY <1>1, HeadTailProperties, LenProperties
<1>3. Len(t) <= SendBuf
  BY <1>2, ResumeAssumption DEF ResumeTypes
<1>4. /\ conn' = [conn EXCEPT !.send = t]
      /\ client' = IF f.id # 0 /\ f.id > client.last
                   THEN [last |-> f.id, seen |-> Append(client.seen, f.id)] ELSE client
  BY DEF OnMessage, IsNew
<1> HIDE DEF f, t
<1>5. /\ conn' \in ConnType /\ conn'.up = conn.up /\ conn'.epoch = conn.epoch
      /\ conn'.subs = conn.subs /\ conn'.send = t
  BY <1>1, <1>2, <1>4 DEF ConnType
<1>6. f.id \in 0..MaxEvents
  BY <1>2 DEF HubEvent
<1>7. CASE f.id # 0 /\ f.id > client.last
  <2> DEFINE a == Append(client.seen, f.id)
  <2>1. f.id \in 1..MaxEvents /\ client.seen \in Seq(1..MaxEvents)
    BY <1>1, <1>6, <1>7 DEF ClientType
  <2>2. a \in Seq(1..MaxEvents)
    BY <2>1, AppendProperties
  <2>3. client' = [last |-> f.id, seen |-> a]
    BY <1>4, <1>7
  <2> HIDE DEF a
  <2>4. client' \in ClientType /\ client'.last = f.id /\ client'.seen = a
    BY <1>6, <2>2, <2>3 DEF ClientType
  <2>5. ResumeTypes'
    BY <1>3, <1>5, <2>4 DEF ResumeTypes, OnMessage
  <2> QED
    BY <1>2, <1>5, <1>7, <2>4, <2>5 DEF f, t, a
<1>8. CASE ~(f.id # 0 /\ f.id > client.last)
  <2>1. client' = client
    BY <1>4, <1>8
  <2>2. ResumeTypes'
    BY <1>3, <1>5, <2>1 DEF ResumeTypes, OnMessage
  <2> QED
    BY <1>2, <1>5, <1>8, <2>1, <2>2 DEF f, t
<1> QED
  BY <1>7, <1>8

LEMMA ResumeStepTypes ==
  ASSUME ResumeTypes, ResumeNext
  PROVE  ResumeTypes'
<1>1. ASSUME NEW p \in Broadcaster, HubStep(p) PROVE ResumeTypes'
  BY <1>1, PushTypes, CollectTypes, SendTypes DEF HubStep
<1>2. ASSUME NEW p \in Broadcaster, NEW ch \in Channel, DrawID(p, ch) PROVE ResumeTypes'
  BY <1>2, DrawTypes
<1>3. CASE Dispatch
  BY <1>3, SubscribeTypes, ResumeFrameTypes
<1>4. ASSUME NEW ch \in Channel, ReplayChannel(ch) PROVE ResumeTypes'
  BY <1>4, ReplayChannelTypes
<1>5. CASE ReplaySend \/ ReplayEnd
  BY <1>5, ReplaySendTypes, ReplayEndTypes
<1>6. CASE ConnectionLost \/ Open \/ OnMessage
  BY <1>6, DisconnectTypes, OpenTypes, MessageTypes
<1> QED
  BY <1>1, <1>2, <1>3, <1>4, <1>5, <1>6 DEF ResumeNext, ConnStep

----------------------------------------------------------------------------
(* In a calm history nothing is lost *)

LEMMA PushedRing ==
  ASSUME NEW r \in Seq(HubEvent), Len(r) <= Size, NEW e \in HubEvent,
         Ascending(r), \A i \in 1..Len(r) : r[i].id < e.id
  PROVE  /\ Ascending(Pushed(r, e))
         /\ \A i \in 1..Len(Pushed(r, e)) : Pushed(r, e)[i] = e \/ \E j \in 1..Len(r) : Pushed(r, e)[i] = r[j]
<1> DEFINE t == Pushed(r, e)
<1>1. PICK d \in {0, 1} :
           /\ t \in Seq(HubEvent) /\ Len(t) <= Size
           /\ Len(t) = Len(r) + 1 - d /\ d <= Len(r) /\ Len(r) \in Nat
           /\ t[Len(r) + 1 - d] = e
           /\ \A i \in 1..(Len(r) - d) : t[i] = r[i + d]
  BY PushedProps
<1> HIDE DEF t
<1>2. \A i \in 1..Len(t) : i # Len(r) + 1 - d => i \in 1..(Len(r) - d) /\ i + d \in 1..Len(r)
  BY <1>1
<1>3. \A i \in 1..Len(t) : t[i] = e \/ \E j \in 1..Len(r) : t[i] = r[j]
  BY <1>1, <1>2
<1>4. ASSUME NEW i \in 1..Len(t), NEW j \in 1..Len(t), i < j PROVE t[i].id < t[j].id
  <2>1. i \in 1..(Len(r) - d) /\ i + d \in 1..Len(r) /\ t[i] = r[i + d]
    <3>1. i # Len(r) + 1 - d
      BY <1>1, <1>4
    <3> QED
      BY <1>1, <1>2, <3>1
  <2>2. CASE j = Len(r) + 1 - d
    BY <1>1, <2>1, <2>2
  <2>3. CASE j # Len(r) + 1 - d
    <3>1. j \in 1..(Len(r) - d) /\ j + d \in 1..Len(r) /\ t[j] = r[j + d]
      BY <1>1, <1>2, <2>3
    <3>2. i + d < j + d
      BY <1>4
    <3> QED
      BY <2>1, <3>1, <3>2 DEF Ascending
  <2> QED
    BY <2>2, <2>3
<1> QED
  BY <1>3, <1>4 DEF Ascending, t

LEMMA SomewhereInRing ==
  ASSUME ResumeTypes, NEW ch \in Channel, NEW i \in 1..Len(buffer[ch])
  PROVE  buffer[ch][i] \in HubEvent
BY ElementOfSeq DEF ResumeTypes

LEMMA MissingType ==
  ASSUME ResumeTypes
  PROVE  /\ client.last \in Nat /\ nextID \in Nat
         /\ \A m \in Missing : /\ m \in due /\ m \in HubEvent /\ m.id \in Nat /\ m.id > client.last
                               /\ m.ch \in Channel /\ \E i \in 1..Len(buffer[m.ch]) : buffer[m.ch][i] = m
BY ResumeAssumption DEF ResumeTypes, Missing, Buffered, HubEvent, ClientType

\* What only the rings, the due events and the client's ID decide.
LEMMA SameMissing ==
  ASSUME due' = due, buffer' = buffer, client' = client
  PROVE  /\ Missing' = Missing
         /\ SeenDue => SeenDue'
         /\ OneChannel => OneChannel'
<1>1. Missing' = Missing
  BY DEF Missing, Buffered
<1>2. SeenDue => SeenDue'
  BY DEF SeenDue, Buffered, Seen
<1> QED
  BY <1>1, <1>2 DEF OneChannel

LEMMA WayType ==
  ASSUME ResumeTypes
  PROVE  /\ Way \in Seq(HubEvent) /\ Len(Way) \in Nat
         /\ conn.send \in Seq(HubEvent) /\ Len(conn.send) \in Nat
         /\ replay.out \in Seq(HubEvent) /\ Len(replay.out) \in Nat
         /\ replay.out = << >> => Way = conn.send
<1>1. conn.send \in Seq(HubEvent) /\ replay.out \in Seq(HubEvent)
  BY DEF ResumeTypes, ConnType, ReplayType
<1>2. Way \in Seq(HubEvent)
  BY <1>1, ConcatProperties DEF Way
<1>3. replay.out = << >> => Way = conn.send
  BY <1>1, ConcatEmptySeq DEF Way
<1> QED
  BY <1>1, <1>2, <1>3, LenProperties

\* While an event is broadcast nothing is on its way.
LEMMA NothingOnItsWay ==
  ASSUME ResumeTypes, ConnOrdered, conn.send = << >>, ~replay.active
  PROVE  Way = << >> /\ replay.out = << >>
<1>1. replay.out = << >>
  BY DEF ConnOrdered, NoReplay
<1> QED
  BY <1>1, WayType

LEMMA SettledHasAll ==
  ASSUME ResumeTypes, ConnOrdered, WillCome, Settled
  PROVE  Missing = {}
<1>1. AllIdle /\ conn.up /\ inbox = << >> /\ ~replay.active /\ conn.send = << >>
  BY DEF Settled, AllIdle
<1>2. Way = << >>
  BY <1>1, NothingOnItsWay
<1>3. Len(inbox) = 0 /\ Len(Way) = 0
  BY <1>1, <1>2, EmptySeq
<1> QED
  BY <1>1, <1>3 DEF WillCome

LEMMA AllSubscribed ==
  ASSUME ConnOrdered, conn.up, inbox = << >>
  PROVE  \A ch \in Channel : ch \in conn.subs /\ ch \in subscribedOnce
<1>1. Len(inbox) = 0
  BY EmptySeq
<1> QED
  BY <1>1 DEF ConnOrdered

\* The connection and what is on its way, unchanged.
LEMMA SameConn ==
  ASSUME ConnOrdered, conn' = conn, inbox' = inbox, replay' = replay, client' = client,
         subscribedOnce' = subscribedOnce
  PROVE  ConnOrdered' /\ Way' = Way
BY DEF ConnOrdered, Way, NoReplay

LEMMA DrawCalm ==
  ASSUME ResumeTypes, SeenInOrder, CalmInv, CalmStep, NEW p \in Broadcaster, NEW ch \in Channel, DrawID(p, ch)
  PROVE  CalmInv'
<1> USE DEF CalmInv
<1>1. /\ nextID' = nextID + 1 /\ due' = due /\ buffer' = buffer /\ client' = client /\ conn' = conn
      /\ inbox' = inbox /\ replay' = replay /\ subscribedOnce' = subscribedOnce
  BY DEF DrawID
<1>2. /\ ResumeTypes'
      /\ bcast'[p].pc = "push" /\ bcast'[p].e.id = nextID + 1 /\ bcast'[p].e.ch = ch
      /\ \A q \in Broadcaster : q # p => bcast'[q] = bcast[q]
  BY DrawTypes
<1>3. nextID \in Nat /\ client.last \in Nat /\ client.last <= nextID
  BY MissingType DEF OnceCaughtUp
<1>4. CalmBroadcast
  BY <1>1, <1>3 DEF CalmStep
<1>5. AllIdle /\ (Settled \/ ~conn.up)
  BY <1>4 DEF CalmBroadcast
<1>6. Missing' = Missing /\ SeenDue' /\ OneChannel'
  BY <1>1, SameMissing
<1>7. ConnOrdered' /\ Way' = Way
  BY <1>1, SameConn
<1>8. conn.send = << >> /\ ~replay.active
  BY <1>5 DEF Settled, ConnOrdered
<1>9. WayOrdered'
  <2>1. Way' = << >>
    BY <1>7, <1>8, NothingOnItsWay
  <2>2. \A k \in 1..Len(Way') : FALSE
    BY <2>1, EmptySeq
  <2> QED
    BY <2>2 DEF WayOrdered, NoneOvertaken
<1>10. RingsOrdered'
  <2>1. \A i \in 1..nextID : i \in 1..(nextID + 1)
    BY <1>3
  <2> QED
    BY <1>1, <2>1 DEF RingsOrdered
<1>11. OnceCaughtUp'
  BY <1>1, <1>3 DEF OnceCaughtUp
<1>12. WillCome'
  BY <1>2 DEF WillCome, AllIdle
<1>13. \A m \in Missing : ~conn.up /\ m.ch = ch
  <2>1. CASE Settled
    BY <2>1, SettledHasAll
  <2>2. CASE ~Settled
    <3> SUFFICES ASSUME NEW m \in Missing PROVE m.ch = ch /\ ~conn.up
      OBVIOUS
    <3>1. m \in due /\ m.id \in Nat /\ m.id > client.last
      BY MissingType
    <3>2. Seen(m) \/ m.ch = ch
      BY <1>2, <1>4, <2>2, <3>1 DEF CalmBroadcast
    <3>3. ~Seen(m)
      <4> SUFFICES ASSUME NEW i \in 1..Len(client.seen), client.seen[i] = m.id PROVE FALSE
        BY DEF Seen
      <4>1. m.id <= client.last
        BY DEF SeenInOrder
      <4> QED
        BY <1>3, <3>1, <4>1
    <3> QED
      BY <1>5, <2>2, <3>2, <3>3
  <2> QED
    BY <2>1, <2>2
<1>14. OneInFlight'
  <2>1. \A q \in Broadcaster : q # p => bcast'[q].pc = "idle"
    BY <1>2, <1>5 DEF AllIdle
  <2>2. \A c \in Channel : \A i \in 1..Len(buffer[c]) : buffer[c][i].id < nextID + 1
    BY <1>3 DEF RingsOrdered
  <2>3. client.last < nextID + 1
    BY <1>3
  <2>4. conn.up => inbox = << >> /\ ~replay.active /\ conn.send = << >>
    BY <1>5 DEF Settled
  <2> QED
    BY <1>1, <1>2, <1>6, <1>13, <2>1, <2>2, <2>3, <2>4 DEF OneInFlight
<1> QED
  BY <1>6, <1>7, <1>9, <1>10, <1>11, <1>12, <1>14

LEMMA NonIdle ==
  ASSUME ResumeTypes, ConnOrdered, OneInFlight, NEW p \in Broadcaster, bcast[p].pc # "idle"
  PROVE  Way = << >> /\ replay.out = << >> /\ conn.send = << >> /\ inbox = << >> /\ ~replay.active
<1>1. conn.send = << >> /\ inbox = << >> /\ ~replay.active
  BY DEF OneInFlight, ConnOrdered
<1> QED
  BY <1>1, NothingOnItsWay

LEMMA PushCalm ==
  ASSUME ResumeTypes, SeenInOrder, CalmInv, NEW p \in Broadcaster, BufferPush(p)
  PROVE  CalmInv'
<1> USE DEF CalmInv
<1> DEFINE e == bcast[p].e
<1>1. /\ nextID' = nextID /\ client' = client /\ conn' = conn
      /\ inbox' = inbox /\ replay' = replay /\ subscribedOnce' = subscribedOnce
      /\ due' = (IF e.ch \in subscribedOnce THEN due \cup {e} ELSE due)
      /\ bcast[p].pc = "push"
  BY DEF BufferPush
<1>2. /\ ResumeTypes' /\ e \in HubEvent /\ e.ch \in Channel
      /\ bcast'[p].pc = "collect" /\ bcast'[p].e = e
      /\ \A q \in Broadcaster : q # p => bcast'[q] = bcast[q]
      /\ buffer'[e.ch] = Pushed(buffer[e.ch], e)
      /\ \A ch \in Channel : ch # e.ch => buffer'[ch] = buffer[ch]
  BY PushTypes
<1>3. /\ \A q \in Broadcaster : q # p => bcast[q].pc = "idle"
      /\ e.id = nextID /\ client.last < nextID
      /\ \A ch \in Channel : \A i \in 1..Len(buffer[ch]) : buffer[ch][i].id < nextID
      /\ \A m \in Missing : m.ch = e.ch
      /\ conn.up => \A m \in Missing : FALSE
  BY <1>1 DEF OneInFlight
<1>4. nextID \in Nat /\ client.last \in Nat /\ client.last <= nextID
  BY MissingType DEF OnceCaughtUp
<1>5. inbox = << >> /\ ~replay.active /\ conn.send = << >> /\ Way = << >>
  BY <1>1, NonIdle
<1> HIDE DEF e
<1>6. /\ Ascending(buffer'[e.ch])
      /\ \A i \in 1..Len(buffer'[e.ch]) : buffer'[e.ch][i] = e \/ \E j \in 1..Len(buffer[e.ch]) : buffer'[e.ch][i] = buffer[e.ch][j]
  <2>1. buffer[e.ch] \in Seq(HubEvent) /\ Len(buffer[e.ch]) <= Size /\ Ascending(buffer[e.ch])
    BY <1>2 DEF ResumeTypes, RingsOrdered
  <2>2. \A i \in 1..Len(buffer[e.ch]) : buffer[e.ch][i].id < e.id
    BY <1>2, <1>3
  <2> QED
    BY <1>2, <2>1, <2>2, PushedRing
<1>7. ASSUME NEW ch \in Channel, NEW i \in 1..Len(buffer'[ch])
      PROVE  (ch = e.ch /\ buffer'[ch][i] = e) \/ \E j \in 1..Len(buffer[ch]) : buffer'[ch][i] = buffer[ch][j]
  BY <1>2, <1>6
<1>8. RingsOrdered'
  <2>1. \A ch \in Channel : Ascending(buffer'[ch])
    BY <1>2, <1>6 DEF RingsOrdered
  <2>2. ASSUME NEW ch \in Channel, NEW i \in 1..Len(buffer'[ch])
        PROVE  buffer'[ch][i].ch = ch /\ buffer'[ch][i].id \in 1..nextID
    <3>1. e.id \in 1..nextID
      BY <1>3, <1>4
    <3> QED
      BY <1>7, <3>1 DEF RingsOrdered
  <2> QED
    BY <1>1, <2>1, <2>2 DEF RingsOrdered
<1>9. \A m : Buffered(m)' /\ m.ch \in Channel => m = e \/ Buffered(m)
  BY <1>7 DEF Buffered
<1>10. \A m \in due' : m = e \/ m \in due
  BY <1>1
<1>11. \A m \in Missing' : m = e \/ m \in Missing
  <2> SUFFICES ASSUME NEW m \in Missing', m # e PROVE m \in Missing
    OBVIOUS
  <2>1. m \in due' /\ Buffered(m)' /\ m.id > client.last
    BY <1>1 DEF Missing
  <2>2. m \in due /\ m.ch \in Channel
    BY <1>10, <2>1 DEF ResumeTypes
  <2> QED
    BY <1>9, <2>1, <2>2 DEF Missing
<1>12. OneChannel'
  <2>1. \A m \in Missing' : m.ch = e.ch
    BY <1>3, <1>11
  <2> QED
    BY <2>1 DEF OneChannel
<1>13. SeenDue'
  <2> SUFFICES ASSUME NEW m \in due', Buffered(m)', m.id <= client.last PROVE Seen(m)'
    BY <1>1 DEF SeenDue
  <2>1. m # e
    BY <1>3, <1>4
  <2>2. m \in due /\ m.ch \in Channel /\ Buffered(m)
    BY <1>9, <1>10, <2>1 DEF ResumeTypes
  <2>3. Seen(m)
    BY <2>2 DEF SeenDue
  <2> QED
    BY <1>1, <2>3 DEF Seen
<1>14. OnceCaughtUp'
  <2>1. client.last # 0 => \A ch \in Channel : \A i \in 1..Len(buffer'[ch]) :
            buffer'[ch][i].id > client.last => buffer'[ch][i] \in due'
    <3> SUFFICES ASSUME client.last # 0, NEW ch \in Channel, NEW i \in 1..Len(buffer'[ch]),
                        buffer'[ch][i].id > client.last
                 PROVE  buffer'[ch][i] \in due'
      OBVIOUS
    <3>1. subscribedOnce = Channel
      BY DEF OnceCaughtUp
    <3>2. due \subseteq due' /\ e \in due'
      BY <1>1, <1>2, <3>1
    <3>3. CASE buffer'[ch][i] = e
      BY <3>2, <3>3
    <3>4. CASE \E j \in 1..Len(buffer[ch]) : buffer'[ch][i] = buffer[ch][j]
      BY <3>2, <3>4 DEF OnceCaughtUp
    <3> QED
      BY <1>7, <3>3, <3>4
  <2>2. client.last = 0 /\ ~conn.up => due' = {} /\ subscribedOnce' = {}
    BY <1>1 DEF OnceCaughtUp
  <2> QED
    BY <1>1, <1>4, <1>5, <2>1, <2>2 DEF OnceCaughtUp
<1>15. ConnOrdered' /\ Way' = << >>
  BY <1>1, <1>5, SameConn
<1>16. WayOrdered'
  <2>1. \A k \in 1..Len(Way') : FALSE
    BY <1>15, EmptySeq
  <2> QED
    BY <2>1 DEF WayOrdered, NoneOvertaken
<1>17. WillCome'
  BY <1>2 DEF WillCome, AllIdle
<1>18. OneInFlight'
  <2>1. \A q \in Broadcaster : q # p => bcast'[q].pc = "idle"
    BY <1>2, <1>3
  <2>2. conn'.up => \A m \in Missing' : m = e
    BY <1>1, <1>3, <1>11
  <2>3. bcast'[p].pc # "push" /\ bcast'[p].pc # "send" /\ bcast'[p].e = e /\ e.id = nextID'
    BY <1>1, <1>2, <1>3
  <2>4. inbox' = << >> /\ ~replay'.active /\ conn'.send = << >>
    BY <1>1, <1>5
  <2> QED
    BY <2>1, <2>2, <2>3, <2>4 DEF OneInFlight
<1> QED
  BY <1>8, <1>12, <1>13, <1>14, <1>15, <1>16, <1>17, <1>18

LEMMA CollectCalm ==
  ASSUME ResumeTypes, SeenInOrder, CalmInv, NEW p \in Broadcaster, CollectConns(p)
  PROVE  CalmInv'
<1> USE DEF CalmInv
<1>1. /\ nextID' = nextID /\ due' = due /\ buffer' = buffer /\ client' = client /\ conn' = conn
      /\ inbox' = inbox /\ replay' = replay /\ subscribedOnce' = subscribedOnce
      /\ bcast[p].pc = "collect"
  BY DEF CollectConns
<1>2. /\ bcast'[p].pc = (IF conn.up /\ bcast[p].e.ch \in conn.subs THEN "send" ELSE "idle")
      /\ bcast'[p].e = bcast[p].e /\ bcast'[p].epoch = conn.epoch
      /\ \A q \in Broadcaster : q # p => bcast'[q] = bcast[q]
  BY CollectTypes
<1>3. Missing' = Missing /\ SeenDue' /\ OneChannel'
  BY <1>1, SameMissing
<1>4. ConnOrdered' /\ Way' = Way
  BY <1>1, SameConn
<1>5. WayOrdered' /\ RingsOrdered' /\ OnceCaughtUp'
  BY <1>1, <1>3, <1>4 DEF WayOrdered, RingsOrdered, OnceCaughtUp
<1>6. inbox = << >> /\ ~replay.active /\ conn.send = << >>
  BY <1>1, NonIdle
<1>7. bcast[p].e.ch \in Channel
  BY <1>1 DEF ResumeTypes
<1>8. conn.up => bcast'[p].pc = "send"
  BY <1>2, <1>6, <1>7, AllSubscribed
<1>9. WillCome'
  BY <1>1, <1>8 DEF WillCome, AllIdle
<1>10. OneInFlight'
  <2>1. bcast'[p].pc # "push" /\ bcast'[p].pc \in {"send", "idle"}
    BY <1>2
  <2>2. /\ \A q \in Broadcaster : q # p => bcast[q].pc = "idle"
        /\ bcast[p].e.id = nextID
        /\ conn.up => \A m \in Missing : m = bcast[p].e
    BY <1>1 DEF OneInFlight
  <2>3. \A q \in Broadcaster : q # p => bcast'[q].pc = "idle"
    BY <1>2, <2>2
  <2> QED
    BY <1>1, <1>2, <1>3, <1>6, <2>1, <2>2, <2>3 DEF OneInFlight
<1> QED
  BY <1>3, <1>4, <1>5, <1>9, <1>10

LEMMA SendCalm ==
  ASSUME ResumeTypes, SeenInOrder, CalmInv, CalmStep, NEW p \in Broadcaster, SendLive(p)
  PROVE  CalmInv'
<1> USE DEF CalmInv
<1> DEFINE e == bcast[p].e
<1>1. /\ nextID' = nextID /\ due' = due /\ buffer' = buffer /\ client' = client
      /\ inbox' = inbox /\ replay' = replay /\ subscribedOnce' = subscribedOnce
      /\ bcast[p].pc = "send"
  BY DEF SendLive
<1>2. /\ ResumeTypes' /\ bcast'[p].pc = "idle" /\ \A q \in Broadcaster : q # p => bcast'[q] = bcast[q]
      /\ conn'.up = conn.up /\ conn'.epoch = conn.epoch /\ conn'.subs = conn.subs
      /\ conn'.send = (IF conn.up /\ bcast[p].epoch = conn.epoch THEN Queue(conn.send, e) ELSE conn.send)
  BY SendTypes
<1>3. /\ \A q \in Broadcaster : q # p => bcast[q].pc = "idle"
      /\ e.id = nextID
      /\ conn.up => bcast[p].epoch = conn.epoch /\ \A m \in Missing : m = e
  BY <1>1 DEF OneInFlight
<1>4. inbox = << >> /\ ~replay.active /\ conn.send = << >> /\ Way = << >> /\ replay.out = << >>
  BY <1>1, NonIdle
<1>5. e \in HubEvent /\ e.id \in Nat
  BY <1>3, MissingType DEF ResumeTypes, BcastType
<1> HIDE DEF e
<1>6. Missing' = Missing /\ SeenDue' /\ OneChannel'
  BY <1>1, SameMissing
<1>7. RingsOrdered' /\ OnceCaughtUp'
  BY <1>1, <1>2 DEF RingsOrdered, OnceCaughtUp
<1>8. \A q \in Broadcaster : bcast'[q].pc = "idle"
  BY <1>2, <1>3
<1>9. OneInFlight'
  BY <1>8 DEF OneInFlight
<1>10. Len(inbox') = 0
  BY <1>1, <1>4, EmptySeq
<1>11. ConnOrdered'
  <2>1. \A i \in 1..Len(inbox') : FALSE
    BY <1>10
  <2>2. ~conn'.up => conn'.send = << >>
    BY <1>2, <1>4
  <2>3. conn'.up => \A ch \in Channel : ch \in conn'.subs
    BY <1>2, <1>4, AllSubscribed
  <2> QED
    BY <1>1, <1>2, <1>4, <2>1, <2>2, <2>3 DEF ConnOrdered, NoReplay
<1>12. Way' = conn'.send
  <2>1. replay'.out = << >> /\ conn'.send \in Seq(HubEvent)
    BY <1>1, <1>2, <1>4 DEF ResumeTypes, ConnType
  <2> QED
    BY <2>1, ConcatEmptySeq DEF Way
<1>13. CASE conn.up
  <2>1. conn'.send = Append(<< >>, e)
    <3>1. Len(conn.send) < SendBuf
      BY DEF CalmStep
    <3>2. conn'.send = Queue(conn.send, e)
      BY <1>2, <1>3, <1>13
    <3> QED
      BY <1>4, <3>1, <3>2 DEF Queue
  <2>2. Len(Way') = 1 /\ Way'[1] = e
    BY <1>5, <1>12, <2>1
  <2>3. \A k \in 1..Len(Way') : k = 1
    BY <2>2
  <2>4. subscribedOnce = Channel
    BY <1>4, <1>13, AllSubscribed DEF ResumeTypes
  <2>5. WayOrdered'
    <3>1. \A k \in 1..Len(Way') : Way'[k].id = nextID
      BY <1>3, <2>2, <2>3
    <3>2. \A m \in Missing' : ~(m.id < nextID)
      BY <1>3, <1>5, <1>6, <1>13
    <3>3. \A k \in 1..Len(Way') : Way'[k].id <= nextID' /\ subscribedOnce' = Channel /\ Way'[k].id = nextID'
      BY <1>1, <1>3, <1>5, <2>4, <3>1
    <3>4. NoneOvertaken(Way', Missing', client'.last)
      BY <3>1, <3>2 DEF NoneOvertaken
    <3> QED
      BY <3>3, <3>4 DEF WayOrdered
  <2>6. WillCome'
    <3>1. 1 \in 1..Len(Way')
      BY <2>2
    <3>2. \A m \in Missing' : Way'[1] = m
      BY <1>3, <1>6, <1>13, <2>2
    <3> QED
      BY <3>1, <3>2 DEF WillCome
  <2> QED
    BY <1>6, <1>7, <1>9, <1>11, <2>5, <2>6
<1>14. CASE ~conn.up
  <2>1. Way' = << >>
    BY <1>2, <1>4, <1>12, <1>14
  <2>2. \A k \in 1..Len(Way') : FALSE
    BY <2>1, EmptySeq
  <2>3. WayOrdered'
    BY <2>2 DEF WayOrdered, NoneOvertaken
  <2>4. WillCome'
    BY <1>2, <1>14 DEF WillCome
  <2> QED
    BY <1>6, <1>7, <1>9, <1>11, <2>3, <2>4
<1> QED
  BY <1>13, <1>14

\* Steps of the connection and of the client happen between broadcasts.
LEMMA Between ==
  ASSUME ConnOrdered, OneInFlight, conn.up, inbox # << >> \/ replay.active \/ conn.send # << >>
  PROVE  \A p \in Broadcaster : bcast[p].pc = "idle"
BY DEF OneInFlight

LEMMA QueueAppends ==
  ASSUME CalmStep, NEW f
  PROVE  Queue(conn.send, f) = Append(conn.send, f)
BY DEF CalmStep, Queue

LEMMA SubscribeCalm ==
  ASSUME ResumeTypes, SeenInOrder, CalmInv, CalmStep, Dispatch, Head(inbox).type = "subscribe"
  PROVE  CalmInv'
<1> USE DEF CalmInv
<1> DEFINE c == Head(inbox).ch
<1>1. /\ nextID' = nextID /\ due' = due /\ buffer' = buffer /\ client' = client /\ bcast' = bcast
      /\ inbox' = Tail(inbox) /\ conn.up /\ inbox # << >> /\ ~replay.active
  BY DEF Dispatch
<1>2. /\ ResumeTypes' /\ c \in Channel /\ replay' = replay
      /\ subscribedOnce' = subscribedOnce \cup {c}
      /\ conn'.up = conn.up /\ conn'.epoch = conn.epoch /\ conn'.subs = conn.subs \cup {c}
      /\ conn'.send = Append(conn.send, Sys)
  BY SubscribeTypes, QueueAppends
<1>3. /\ Head(inbox) = inbox[1] /\ Len(inbox) \in Nat /\ 1 \in 1..Len(inbox)
      /\ Len(inbox') = Len(inbox) - 1
      /\ \A i \in 1..Len(inbox') : inbox'[i] = inbox[i + 1] /\ i + 1 \in 1..Len(inbox)
  BY <1>1, InboxTail DEF ResumeTypes
<1> HIDE DEF c
<1>4. Missing' = Missing /\ SeenDue' /\ OneChannel'
  BY <1>1, SameMissing
<1>5. \A p \in Broadcaster : bcast[p].pc = "idle"
  BY <1>1, Between
<1>6. OneInFlight' /\ RingsOrdered'
  BY <1>1, <1>5 DEF OneInFlight, RingsOrdered
<1>7. replay.out = << >> /\ Way = conn.send /\ conn.send \in Seq(HubEvent) /\ Len(conn.send) \in Nat
  BY <1>1, WayType DEF ConnOrdered, NoReplay
<1>8. Way' = Append(conn.send, Sys)
  <2>1. conn'.send \in Seq(HubEvent) /\ replay'.out = << >>
    BY <1>2, <1>7 DEF ResumeTypes, ConnType
  <2> QED
    BY <1>2, <2>1, ConcatEmptySeq DEF Way
<1>9. /\ Len(Way') = Len(Way) + 1 /\ Way'[Len(Way) + 1] = Sys /\ Len(Way) \in Nat
      /\ \A k \in 1..Len(Way) : Way'[k] = Way[k] /\ k \in 1..Len(Way')
  BY <1>7, <1>8, SysType, AppendProperties
<1>10. \A k \in 1..Len(Way') : Way'[k].id = 0 \/ (k \in 1..Len(Way) /\ Way'[k] = Way[k])
  BY <1>9, SysType
<1>11. OnceCaughtUp'
  <2>1. subscribedOnce = Channel => subscribedOnce' = Channel
    BY <1>2
  <2> QED
    BY <1>1, <1>2, <2>1 DEF OnceCaughtUp
<1>12. WayOrdered'
  <2>1. subscribedOnce = Channel => subscribedOnce' = Channel
    BY <1>2
  <2>2. ASSUME NEW k \in 1..Len(Way'), Way'[k].id # 0
        PROVE  Way'[k].id <= nextID' /\ subscribedOnce' = Channel /\ (client'.last = 0 => Way'[k].id = nextID')
    BY <1>1, <1>10, <2>1, <2>2 DEF WayOrdered
  <2>3. ASSUME NEW k \in 1..Len(Way'), Way'[k].id > client.last, NEW m \in Missing, m.id < Way'[k].id
        PROVE  \E j \in 1..(k - 1) : Way'[j] = m
    <3>1. k \in 1..Len(Way) /\ Way'[k] = Way[k]
      BY <1>10, <2>3, MissingType
    <3>2. PICK j \in 1..(k - 1) : Way[j] = m
      BY <2>3, <3>1 DEF WayOrdered, NoneOvertaken
    <3>3. j \in 1..Len(Way)
      BY <1>9, <3>1
    <3> QED
      BY <1>9, <3>2, <3>3
  <2> QED
    BY <1>1, <1>4, <2>2, <2>3 DEF WayOrdered, NoneOvertaken
<1>13. ConnOrdered'
  <2>1. \A ch \in Channel : ch \in conn'.subs \/
           \E i \in 1..Len(inbox') : inbox'[i].type = "subscribe" /\ inbox'[i].ch = ch
    <3> SUFFICES ASSUME NEW ch \in Channel, ch \notin conn'.subs
                 PROVE  \E i \in 1..Len(inbox') : inbox'[i].type = "subscribe" /\ inbox'[i].ch = ch
      OBVIOUS
    <3>1. PICK i \in 1..Len(inbox) : inbox[i].type = "subscribe" /\ inbox[i].ch = ch
      BY <1>1, <1>2 DEF ConnOrdered
    <3>2. i # 1
      BY <1>2, <1>3, <3>1 DEF c
    <3>3. i - 1 \in 1..Len(inbox') /\ (i - 1) + 1 = i
      BY <1>3, <3>2
    <3>4. inbox'[i - 1] = inbox[i]
      BY <1>3, <3>3
    <3> QED
      BY <3>1, <3>3, <3>4
  <2>2. ASSUME NEW i \in 1..Len(inbox'), inbox'[i].type = "resume"
        PROVE  /\ i = Len(inbox') /\ inbox'[i].id = client'.last /\ client'.last # 0
               /\ \A k \in 1..Len(conn'.send) : conn'.send[k].id = 0
    <3>1. i + 1 \in 1..Len(inbox) /\ inbox[i + 1].type = "resume" /\ inbox'[i] = inbox[i + 1]
      BY <1>3, <2>2
    <3>2. /\ i + 1 = Len(inbox) /\ inbox[i + 1].id = client.last /\ client.last # 0
          /\ \A k \in 1..Len(conn.send) : conn.send[k].id = 0
      BY <3>1 DEF ConnOrdered
    <3>3. i = Len(inbox')
      BY <1>3, <3>2
    <3>4. \A k \in 1..Len(Way') : Way'[k].id = 0
      BY <1>7, <1>10, <3>2
    <3>5. Way' = conn'.send
      BY <1>2, <1>8
    <3> QED
      BY <1>1, <3>1, <3>2, <3>3, <3>4, <3>5
  <2>3. conn'.subs \subseteq subscribedOnce'
    BY <1>2 DEF ConnOrdered
  <2> QED
    BY <1>1, <1>2, <2>1, <2>2, <2>3 DEF ConnOrdered, NoReplay
<1>14. WillCome'
  <2> SUFFICES ASSUME NEW m \in Missing
               PROVE  \/ \E i \in 1..Len(inbox') : inbox'[i].type = "resume"
                      \/ \E k \in 1..Len(Way') : Way'[k] = m
    BY <1>4 DEF WillCome
  <2>1. \/ \E i \in 1..Len(inbox) : inbox[i].type = "resume"
        \/ \E k \in 1..Len(Way) : Way[k] = m
    BY <1>1, <1>5 DEF WillCome, AllIdle
  <2>2. ASSUME NEW i \in 1..Len(inbox), inbox[i].type = "resume"
        PROVE  \E j \in 1..Len(inbox') : inbox'[j].type = "resume"
    <3>1. i # 1
      BY <1>3, <2>2
    <3>2. i - 1 \in 1..Len(inbox') /\ (i - 1) + 1 = i
      BY <1>3, <3>1
    <3> QED
      BY <1>3, <2>2, <3>2
  <2> QED
    BY <1>9, <2>1, <2>2
<1> QED
  BY <1>4, <1>6, <1>11, <1>12, <1>13, <1>14

LEMMA ResumeFrameCalm ==
  ASSUME ResumeTypes, SeenInOrder, CalmInv, Dispatch, Head(inbox).type # "subscribe"
  PROVE  CalmInv'
<1> USE DEF CalmInv
<1>1. /\ nextID' = nextID /\ due' = due /\ buffer' = buffer /\ client' = client /\ bcast' = bcast
      /\ inbox' = Tail(inbox) /\ conn.up /\ inbox # << >> /\ ~replay.active
  BY DEF Dispatch
<1>2. /\ ResumeTypes' /\ conn' = conn /\ subscribedOnce' = subscribedOnce
      /\ Head(inbox).type = "resume"
      /\ replay'.active = TRUE /\ replay'.since = Head(inbox).id
      /\ replay'.todo = conn.subs /\ replay'.out = << >>
  BY ResumeFrameTypes
<1>3. /\ Head(inbox) = inbox[1] /\ Len(inbox) \in Nat /\ 1 \in 1..Len(inbox)
      /\ inbox' \in Seq(FrameType) /\ Len(inbox') = Len(inbox) - 1
  BY <1>1, InboxTail DEF ResumeTypes
<1>4. Len(inbox) = 1 /\ inbox[1].id = client.last /\ client.last # 0
  BY <1>2, <1>3 DEF ConnOrdered
<1>5. inbox' = << >> /\ \A i \in 1..Len(inbox') : FALSE
  BY <1>3, <1>4, EmptySeq
<1>6. conn.subs = Channel
  <2>1. \A i \in 1..Len(inbox) : inbox[i].type # "subscribe"
    BY <1>2, <1>3, <1>4
  <2> QED
    BY <1>1, <2>1 DEF ConnOrdered, ResumeTypes, ConnType
<1>7. Missing' = Missing /\ SeenDue' /\ OneChannel'
  BY <1>1, SameMissing
<1>8. \A p \in Broadcaster : bcast[p].pc = "idle"
  BY <1>1, Between
<1>9. OneInFlight' /\ RingsOrdered' /\ OnceCaughtUp'
  BY <1>1, <1>2, <1>4, <1>8 DEF OneInFlight, RingsOrdered, OnceCaughtUp
<1>10. Way' = Way
  <2>1. replay.out = << >> /\ replay'.out = << >>
    BY <1>1, <1>2 DEF ConnOrdered, NoReplay
  <2> QED
    BY <1>2, <2>1 DEF Way
<1>11. WayOrdered'
  BY <1>1, <1>2, <1>7, <1>10 DEF WayOrdered
<1>12. replay'.since <= client'.last
  BY <1>1, <1>2, <1>3, <1>4, MissingType
<1>13. ConnOrdered'
  BY <1>1, <1>2, <1>5, <1>6, <1>12 DEF ConnOrdered
<1>14. WillCome'
  BY <1>2, <1>6, <1>7, MissingType DEF WillCome
<1> QED
  BY <1>7, <1>9, <1>11, <1>13, <1>14

LEMMA OvertakenConcat ==
  ASSUME NEW q \in Seq(HubEvent), NEW b \in Seq(HubEvent), NEW M, NEW last,
         NoneOvertaken(q, M, last), NoneOvertaken(b, M, last)
  PROVE  NoneOvertaken(q \o b, M, last)
<1> DEFINE w == q \o b
<1>1. /\ w \in Seq(HubEvent) /\ Len(w) = Len(q) + Len(b)
      /\ \A i \in 1..Len(q) + Len(b) : w[i] = IF i <= Len(q) THEN q[i] ELSE b[i - Len(q)]
  BY ConcatProperties
<1>2. Len(q) \in Nat /\ Len(b) \in Nat
  BY LenProperties
<1> HIDE DEF w
<1>3. ASSUME NEW k \in 1..Len(w), w[k].id > last, NEW e \in M, e.id < w[k].id
      PROVE  \E j \in 1..(k - 1) : w[j] = e
  <2>1. CASE k <= Len(q)
    <3>1. k \in 1..Len(q) /\ w[k] = q[k]
      BY <1>1, <1>2, <2>1
    <3>2. PICK j \in 1..(k - 1) : q[j] = e
      BY <1>3, <3>1 DEF NoneOvertaken
    <3>3. j \in 1..Len(q) + Len(b) /\ j <= Len(q)
      BY <1>2, <3>1
    <3> QED
      BY <1>1, <3>2, <3>3
  <2>2. CASE ~(k <= Len(q))
    <3>1. k - Len(q) \in 1..Len(b) /\ w[k] = b[k - Len(q)]
      BY <1>1, <1>2, <2>2
    <3>2. PICK j \in 1..(k - Len(q) - 1) : b[j] = e
      BY <1>3, <3>1 DEF NoneOvertaken
    <3>3. j + Len(q) \in 1..Len(q) + Len(b) /\ ~(j + Len(q) <= Len(q)) /\ (j + Len(q)) - Len(q) = j
          /\ j + Len(q) \in 1..(k - 1)
      BY <1>2, <3>1
    <3>4. w[j + Len(q)] = e
      BY <1>1, <3>2, <3>3
    <3> QED
      BY <3>3, <3>4
  <2> QED
    BY <2>1, <2>2
<1> QED
  BY <1>3 DEF NoneOvertaken, w

LEMMA ReplayChannelCalm ==
  ASSUME ResumeTypes, SeenInOrder, CalmInv, NEW ch \in Channel, ReplayChannel(ch)
  PROVE  CalmInv'
<1> USE DEF CalmInv
<1> DEFINE r == buffer[ch]
           b == BufferSince(r, replay.since)
<1>1. /\ nextID' = nextID /\ due' = due /\ buffer' = buffer /\ client' = client /\ bcast' = bcast
      /\ inbox' = inbox /\ conn' = conn /\ subscribedOnce' = subscribedOnce
      /\ replay.active /\ replay.out = << >>
  BY DEF ReplayChannel
<1>2. /\ ResumeTypes' /\ replay'.active = replay.active /\ replay'.since = replay.since
      /\ replay'.todo = replay.todo \ {ch} /\ replay'.out = b
  BY ReplayChannelTypes
<1>3. conn.up /\ inbox = << >> /\ replay.since <= client.last /\ client.last # 0
  BY <1>1 DEF ConnOrdered, OnceCaughtUp
<1>4. /\ subscribedOnce = Channel
      /\ \A c \in Channel : \A i \in 1..Len(buffer[c]) :
            buffer[c][i].id > client.last => buffer[c][i] \in due
  BY <1>3 DEF OnceCaughtUp
<1>5. \A p \in Broadcaster : bcast[p].pc = "idle"
  BY <1>1, <1>3, Between
<1>6. Missing' = Missing /\ SeenDue' /\ OneChannel'
  BY <1>1, SameMissing
<1>7. OneInFlight' /\ RingsOrdered' /\ OnceCaughtUp'
  BY <1>1, <1>2, <1>3, <1>5 DEF OneInFlight, RingsOrdered, OnceCaughtUp
<1>8. ConnOrdered'
  BY <1>1, <1>2 DEF ConnOrdered
<1>9. r \in Seq(HubEvent) /\ Len(r) \in Nat /\ Ascending(r)
  BY LenProperties DEF ResumeTypes, RingsOrdered
<1>10. PICK d \in 0..Len(r) :
           /\ b \in Seq(HubEvent) /\ Len(b) = Len(r) - d
           /\ \A i \in 1..(Len(r) - d) : b[i] = r[i + d]
           /\ d # 0 => r[d].id = replay.since
  BY <1>9, SinceProps
<1>11. Way = conn.send /\ Way' = conn.send \o b /\ conn.send \in Seq(HubEvent) /\ Len(conn.send) \in Nat
  BY <1>1, <1>2, WayType DEF Way
<1> HIDE DEF b
\* An event of this channel that is missing is in what since returns.
<1>12. ASSUME NEW m \in Missing, m.ch = ch, NEW i \in 1..Len(r), r[i] = m
       PROVE  i - d \in 1..Len(b) /\ b[i - d] = m
  <2>1. m.id \in Nat /\ m.id > client.last /\ client.last \in Nat /\ replay.since \in Nat
    BY MissingType DEF ResumeTypes, ReplayType
  <2>2. i > d
    <3> SUFFICES ASSUME ~(i > d) PROVE FALSE
      OBVIOUS
    <3>1. d \in 1..Len(r) /\ i <= d /\ d # 0
      BY <1>9, <1>10
    <3>2. r[d].id = replay.since
      BY <1>10, <3>1
    <3>3. CASE i = d
      BY <1>3, <1>12, <2>1, <3>2, <3>3
    <3>4. CASE i < d
      <4>1. r[i].id < r[d].id
        BY <1>9, <3>1, <3>4 DEF Ascending
      <4> QED
        BY <1>3, <1>12, <2>1, <3>2, <4>1
    <3> QED
      BY <3>1, <3>3, <3>4
  <2>3. i - d \in 1..(Len(r) - d) /\ (i - d) + d = i
    BY <1>9, <1>10, <2>2
  <2> QED
    BY <1>10, <1>12, <2>3
<1>13. ASSUME NEW k \in 1..Len(b), b[k].id > client.last
       PROVE  /\ k + d \in 1..Len(r) /\ b[k] = r[k + d] /\ b[k] \in Missing /\ b[k].ch = ch
  <2>1. k + d \in 1..Len(r) /\ k \in 1..(Len(r) - d)
    BY <1>9, <1>10
  <2>2. b[k] = r[k + d]
    BY <1>10, <2>1
  <2>3. r[k + d].ch = ch
    BY <2>1 DEF RingsOrdered
  <2>4. r[k + d] \in due
    BY <1>4, <1>13, <2>1, <2>2
  <2>5. Buffered(r[k + d])
    BY <2>1, <2>3 DEF Buffered
  <2> QED
    BY <1>13, <2>1, <2>2, <2>3, <2>4, <2>5 DEF Missing
<1>14. NoneOvertaken(b, Missing, client.last)
  <2> SUFFICES ASSUME NEW k \in 1..Len(b), b[k].id > client.last, NEW m \in Missing, m.id < b[k].id
               PROVE  \E j \in 1..(k - 1) : b[j] = m
    BY DEF NoneOvertaken
  <2>1. k + d \in 1..Len(r) /\ b[k] = r[k + d] /\ b[k] \in Missing /\ b[k].ch = ch
    BY <1>13
  <2>2. m.ch = ch
    BY <2>1 DEF OneChannel
  <2>3. PICK i \in 1..Len(r) : r[i] = m
    BY <2>2, MissingType
  <2>4. i - d \in 1..Len(b) /\ b[i - d] = m
    BY <1>12, <2>2, <2>3
  <2>5. i < k + d
    <3> SUFFICES ASSUME ~(i < k + d) PROVE FALSE
      OBVIOUS
    <3>1. i = k + d \/ k + d < i
      BY <2>1, <2>3, <1>9
    <3>2. m.id \in Nat /\ r[k + d].id \in Nat /\ m.id < r[k + d].id
      BY <2>1, MissingType
    <3>3. CASE i = k + d
      BY <2>3, <3>2, <3>3
    <3>4. CASE k + d < i
      <4>1. r[k + d].id < r[i].id
        BY <1>9, <2>1, <3>4 DEF Ascending
      <4> QED
        BY <2>3, <3>2, <4>1
    <3> QED
      BY <3>1, <3>3, <3>4
  <2>6. i - d \in 1..(k - 1)
    BY <1>9, <1>10, <2>4, <2>5
  <2> QED
    BY <2>4, <2>6
<1>15. /\ Len(Way') = Len(conn.send) + Len(b) /\ Len(b) \in Nat
       /\ \A i \in 1..Len(conn.send) + Len(b) : Way'[i] = IF i <= Len(conn.send) THEN conn.send[i] ELSE b[i - Len(conn.send)]
  BY <1>10, <1>11, ConcatProperties, LenProperties
<1>16. WayOrdered'
  <2>1. NoneOvertaken(conn.send \o b, Missing, client.last)
    BY <1>10, <1>11, <1>14, OvertakenConcat DEF WayOrdered
  <2>2. ASSUME NEW k \in 1..Len(Way')
        PROVE  Way'[k].id # 0 => Way'[k].id <= nextID
    <3>1. CASE k <= Len(conn.send)
      <4>1. k \in 1..Len(Way) /\ Way'[k] = Way[k]
        BY <1>11, <1>15, <3>1
      <4> QED
        BY <4>1 DEF WayOrdered
    <3>2. CASE ~(k <= Len(conn.send))
      <4> DEFINE n == k - Len(conn.send)
      <4>1. n \in 1..Len(b) /\ Way'[k] = b[n]
        BY <1>11, <1>15, <3>2
      <4> HIDE DEF n
      <4>2. Len(r) \in Nat /\ d \in 0..Len(r) /\ Len(b) = Len(r) - d
        BY <1>9, <1>10
      <4>3. n + d \in 1..Len(r) /\ n \in 1..(Len(r) - d)
        BY <4>1, <4>2
      <4>4. Way'[k] = r[n + d]
        BY <1>10, <4>1, <4>3
      <4>5. r[n + d].id \in 1..nextID
        BY <4>3 DEF RingsOrdered
      <4>6. nextID \in Nat
        BY MissingType
      <4> QED
        BY <4>4, <4>5, <4>6
    <3> QED
      BY <3>1, <3>2
  <2> QED
    BY <1>1, <1>3, <1>4, <1>6, <1>11, <2>1, <2>2 DEF WayOrdered
<1>17. WillCome'
  <2> SUFFICES ASSUME NEW m \in Missing
               PROVE  m.ch \in replay'.todo \/ \E k \in 1..Len(Way') : Way'[k] = m
    BY <1>1, <1>2, <1>6 DEF WillCome
  <2>1. Len(inbox) = 0
    BY <1>3, EmptySeq
  <2>2. m.ch \in replay.todo \/ \E k \in 1..Len(Way) : Way[k] = m
    BY <1>3, <1>5, <2>1 DEF WillCome, AllIdle
  <2>3. ASSUME NEW k \in 1..Len(Way), Way[k] = m PROVE \E j \in 1..Len(Way') : Way'[j] = m
    <3>1. k \in 1..Len(Way') /\ k <= Len(conn.send) /\ k \in 1..Len(conn.send) + Len(b)
      BY <1>11, <1>15
    <3> QED
      BY <1>11, <1>15, <2>3, <3>1
  <2>4. CASE m.ch = ch
    <3>1. PICK i \in 1..Len(r) : r[i] = m
      BY <2>4, MissingType
    <3>2. i - d \in 1..Len(b) /\ b[i - d] = m
      BY <1>12, <2>4, <3>1
    <3> DEFINE k == (i - d) + Len(conn.send)
    <3>3. /\ k \in 1..Len(conn.send) + Len(b) /\ ~(k <= Len(conn.send)) /\ k - Len(conn.send) = i - d
          /\ k \in 1..Len(Way')
      BY <1>11, <1>15, <3>2
    <3>4. Way'[k] = m
      BY <1>15, <3>2, <3>3
    <3> QED
      BY <3>3, <3>4
  <2> QED
    BY <1>2, <2>2, <2>3, <2>4
<1> QED
  BY <1>6, <1>7, <1>8, <1>16, <1>17

\* Handing the next frame of the replay over leaves what is on its way as it is.
LEMMA HandOver ==
  ASSUME NEW a \in Seq(HubEvent), NEW b \in Seq(HubEvent), b # << >>
  PROVE  Append(a, Head(b)) \o Tail(b) = a \o b
<1> DEFINE u == Append(a, Head(b)) \o Tail(b)
           v == a \o b
           c == Append(a, Head(b))
<1>1. /\ Head(b) \in HubEvent /\ Tail(b) \in Seq(HubEvent) /\ Len(Tail(b)) = Len(b) - 1
      /\ \A i \in 1..Len(Tail(b)) : Tail(b)[i] = b[i + 1]
  BY HeadTailProperties
<1>2. Len(a) \in Nat /\ Len(b) \in Nat \ {0} /\ Head(b) = b[1]
  BY EmptySeq, LenProperties
<1>3. /\ c \in Seq(HubEvent) /\ Len(c) = Len(a) + 1 /\ c[Len(a) + 1] = Head(b)
      /\ \A i \in 1..Len(a) : c[i] = a[i]
  BY <1>1, AppendProperties
<1> HIDE DEF c
<1>4. /\ u \in Seq(HubEvent) /\ Len(u) = Len(c) + Len(Tail(b))
      /\ \A i \in 1..Len(c) + Len(Tail(b)) : u[i] = IF i <= Len(c) THEN c[i] ELSE Tail(b)[i - Len(c)]
  BY <1>1, <1>3, ConcatProperties DEF c
<1>5. /\ v \in Seq(HubEvent) /\ Len(v) = Len(a) + Len(b)
      /\ \A i \in 1..Len(a) + Len(b) : v[i] = IF i <= Len(a) THEN a[i] ELSE b[i - Len(a)]
  BY ConcatProperties
<1> HIDE DEF u, v
<1>6. Len(u) = Len(v) /\ Len(v) = Len(a) + Len(b) /\ Len(u) = Len(c) + Len(Tail(b))
  BY <1>1, <1>2, <1>3, <1>4, <1>5
<1>7. ASSUME NEW i \in 1..Len(u) PROVE u[i] = v[i]
  <2>1. CASE i <= Len(a)
    <3>1. /\ i \in 1..Len(a) /\ i <= Len(c)
          /\ i \in 1..Len(c) + Len(Tail(b)) /\ i \in 1..Len(a) + Len(b)
      BY <1>2, <1>3, <1>6, <2>1
    <3>2. u[i] = c[i] /\ v[i] = a[i]
      BY <1>4, <1>5, <2>1, <3>1
    <3> QED
      BY <1>3, <3>1, <3>2
  <2>2. CASE i = Len(a) + 1
    <3>1. u[i] = c[i] /\ c[i] = b[1]
      BY <1>2, <1>3, <1>4, <1>6, <2>2
    <3>2. v[i] = b[i - Len(a)] /\ i - Len(a) = 1
      BY <1>2, <1>5, <1>6, <2>2
    <3> QED
      BY <3>1, <3>2
  <2>3. CASE i > Len(a) + 1
    <3>1. i - Len(c) \in 1..Len(Tail(b)) /\ (i - Len(c)) + 1 = i - Len(a) /\ ~(i <= Len(c)) /\ ~(i <= Len(a))
      BY <1>1, <1>2, <1>3, <1>6, <2>3
    <3>2. u[i] = Tail(b)[i - Len(c)]
      BY <1>4, <1>6, <3>1
    <3>3. Tail(b)[i - Len(c)] = b[i - Len(a)]
      BY <1>1, <3>1
    <3>4. v[i] = b[i - Len(a)]
      BY <1>5, <1>6, <3>1
    <3> QED
      BY <3>2, <3>3, <3>4
  <2> QED
    BY <1>2, <1>6, <2>1, <2>2, <2>3
<1>8. u = v
  BY <1>4, <1>5, <1>6, <1>7, SeqEqual
<1> QED
  BY <1>8 DEF u, v, c

LEMMA ReplaySendCalm ==
  ASSUME ResumeTypes, SeenInOrder, CalmInv, CalmStep, ReplaySend
  PROVE  CalmInv'
<1> USE DEF CalmInv
<1>1. /\ nextID' = nextID /\ due' = due /\ buffer' = buffer /\ client' = client /\ bcast' = bcast
      /\ inbox' = inbox /\ subscribedOnce' = subscribedOnce
      /\ replay.active /\ replay.out # << >>
  BY DEF ReplaySend
<1>2. /\ replay.out \in Seq(HubEvent)
      /\ conn'.up = conn.up /\ conn'.epoch = conn.epoch /\ conn'.subs = conn.subs
      /\ conn'.send = Append(conn.send, Head(replay.out))
      /\ replay'.active = replay.active /\ replay'.since = replay.since
      /\ replay'.todo = replay.todo /\ replay'.out = Tail(replay.out)
  BY ReplaySendTypes, QueueAppends
<1>3. conn.up /\ inbox = << >> /\ client.last # 0 /\ Len(inbox) = 0
  BY <1>1, EmptySeq DEF ConnOrdered, OnceCaughtUp
<1>4. \A p \in Broadcaster : bcast[p].pc = "idle"
  BY <1>1, <1>3, Between
<1>5. Missing' = Missing /\ SeenDue' /\ OneChannel'
  BY <1>1, SameMissing
<1>6. OneInFlight' /\ RingsOrdered' /\ OnceCaughtUp'
  BY <1>1, <1>2, <1>3, <1>4 DEF OneInFlight, RingsOrdered, OnceCaughtUp
<1>7. Way' = Way
  BY <1>1, <1>2, HandOver, WayType DEF Way
<1>8. WayOrdered'
  BY <1>1, <1>5, <1>7 DEF WayOrdered
<1>9. ConnOrdered'
  <2>1. \A i \in 1..Len(inbox') : FALSE
    BY <1>1, <1>3
  <2> QED
    BY <1>1, <1>2, <1>3, <2>1 DEF ConnOrdered
<1>10. WillCome'
  BY <1>1, <1>2, <1>5, <1>7 DEF WillCome, AllIdle
<1> QED
  BY <1>5, <1>6, <1>8, <1>9, <1>10

LEMMA ReplayEndCalm ==
  ASSUME ResumeTypes, SeenInOrder, CalmInv, ReplayEnd
  PROVE  CalmInv'
<1> USE DEF CalmInv
<1>1. /\ nextID' = nextID /\ due' = due /\ buffer' = buffer /\ client' = client /\ bcast' = bcast
      /\ inbox' = inbox /\ conn' = conn /\ subscribedOnce' = subscribedOnce
      /\ replay.active /\ replay.out = << >> /\ replay.todo = {} /\ replay' = NoReplay
  BY DEF ReplayEnd
<1>2. ~replay'.active /\ replay'.out = << >>
  BY <1>1 DEF NoReplay
<1>3. conn.up /\ client.last # 0
  BY <1>1 DEF ConnOrdered, OnceCaughtUp
<1>4. \A p \in Broadcaster : bcast[p].pc = "idle"
  BY <1>1, <1>3, Between
<1>5. Missing' = Missing /\ SeenDue' /\ OneChannel'
  BY <1>1, SameMissing
<1>6. OneInFlight' /\ RingsOrdered' /\ OnceCaughtUp'
  BY <1>1, <1>2, <1>3, <1>4 DEF OneInFlight, RingsOrdered, OnceCaughtUp
<1>7. Way' = Way
  BY <1>1, <1>2 DEF Way
<1>8. WayOrdered'
  BY <1>1, <1>5, <1>7 DEF WayOrdered
<1>9. ConnOrdered'
  BY <1>1, <1>2, <1>3 DEF ConnOrdered
<1>10. WillCome'
  BY <1>1, <1>5, <1>7 DEF WillCome, AllIdle
<1> QED
  BY <1>5, <1>6, <1>8, <1>9, <1>10

LEMMA DisconnectCalm ==
  ASSUME ResumeTypes, SeenInOrder, CalmInv, CalmStep, ConnectionLost
  PROVE  CalmInv'
<1> USE DEF CalmInv
<1>1. /\ nextID' = nextID /\ due' = due /\ buffer' = buffer /\ client' = client /\ bcast' = bcast
      /\ inbox' = << >> /\ subscribedOnce' = subscribedOnce /\ replay' = NoReplay
      /\ losses' = losses + 1 /\ conn.up
  BY DEF ConnectionLost
<1>2. ResumeTypes' /\ conn'.up = FALSE /\ conn'.epoch = conn.epoch /\ conn'.subs = {} /\ conn'.send = << >>
  BY DisconnectTypes
<1>3. client.last # 0
  BY <1>1 DEF CalmStep, ResumeTypes
<1>4. ~replay'.active /\ replay'.out = << >> /\ \A i \in 1..Len(inbox') : FALSE
  BY <1>1, EmptySeq DEF NoReplay
<1>5. Missing' = Missing /\ SeenDue' /\ OneChannel'
  BY <1>1, SameMissing
<1>6. RingsOrdered' /\ OnceCaughtUp'
  BY <1>1, <1>3 DEF RingsOrdered, OnceCaughtUp
<1>7. OneInFlight'
  BY <1>1, <1>2, <1>5 DEF OneInFlight
<1>8. ConnOrdered'
  BY <1>1, <1>2, <1>4 DEF ConnOrdered
<1>9. WayOrdered'
  <2>1. Way' = << >>
    BY <1>2, <1>4, ConcatEmptySeq, EmptySeq DEF Way
  <2>2. \A k \in 1..Len(Way') : FALSE
    BY <2>1, EmptySeq
  <2> QED
    BY <2>2 DEF WayOrdered, NoneOvertaken
<1>10. WillCome'
  BY <1>2 DEF WillCome
<1> QED
  BY <1>5, <1>6, <1>7, <1>8, <1>9, <1>10

LEMMA OpenCalm ==
  ASSUME ResumeTypes, SeenInOrder, CalmInv, CalmStep, Open
  PROVE  CalmInv'
<1> USE DEF CalmInv
<1>1. /\ nextID' = nextID /\ due' = due /\ buffer' = buffer /\ client' = client /\ bcast' = bcast
      /\ subscribedOnce' = subscribedOnce /\ replay' = replay /\ ~conn.up
  BY DEF Open
<1>2. /\ conn'.up = TRUE /\ conn'.epoch = conn.epoch + 1 /\ conn'.subs = {}
      /\ conn'.send = <<Sys>> /\ OpensWith(inbox', client.last)
  BY OpenTypes
<1>3. AllIdle
  BY <1>2 DEF CalmStep, ResumeTypes, ConnType
<1>4. ~replay.active /\ replay.out = << >>
  BY <1>1 DEF ConnOrdered, NoReplay
<1>5. Missing' = Missing /\ SeenDue' /\ OneChannel'
  BY <1>1, SameMissing
<1>6. RingsOrdered' /\ OnceCaughtUp'
  BY <1>1, <1>2, <1>4 DEF RingsOrdered, OnceCaughtUp
<1>7. OneInFlight'
  BY <1>1, <1>3 DEF OneInFlight, AllIdle
<1>8. Way' = <<Sys>>
  BY <1>1, <1>2, <1>4, OneFrame, ConcatEmptySeq DEF Way
<1>9. \A k \in 1..Len(Way') : Way'[k].id = 0
  BY <1>8, OneFrame, SysType
<1>10. WayOrdered'
  <2>1. client'.last \in Nat
    BY <1>1, MissingType
  <2> QED
    BY <1>9, <2>1 DEF WayOrdered, NoneOvertaken
<1>11. ConnOrdered'
  <2>1. \A k \in 1..Len(conn'.send) : conn'.send[k].id = 0
    BY <1>2, OneFrame, SysType
  <2>2. conn'.up /\ ~replay'.active /\ replay' = NoReplay /\ conn'.subs \subseteq subscribedOnce'
    BY <1>1, <1>2, <1>4 DEF ConnOrdered
  <2> QED
    BY <1>1, <1>2, <2>1, <2>2 DEF ConnOrdered, OpensWith
<1>12. WillCome'
  <2>1. CASE client.last # 0
    BY <1>2, <2>1 DEF WillCome, OpensWith
  <2>2. CASE client.last = 0
    BY <1>1, <1>5, <2>2, MissingType DEF WillCome, OnceCaughtUp
  <2> QED
    BY <2>1, <2>2
<1> QED
  BY <1>5, <1>6, <1>7, <1>10, <1>11, <1>12

LEMMA WayTail ==
  ASSUME NEW a \in Seq(HubEvent), NEW b \in Seq(HubEvent), a # << >>
  PROVE  /\ Len(Tail(a) \o b) = Len(a \o b) - 1 /\ Len(a \o b) \in Nat \ {0}
         /\ (a \o b)[1] = Head(a)
         /\ \A i \in 1..Len(Tail(a) \o b) : (Tail(a) \o b)[i] = (a \o b)[i + 1]
<1> DEFINE t == Tail(a)
           u == t \o b
           v == a \o b
<1>1. t \in Seq(HubEvent) /\ Len(t) = Len(a) - 1 /\ \A i \in 1..Len(t) : t[i] = a[i + 1]
  BY HeadTailProperties
<1>2. Len(a) \in Nat \ {0} /\ Len(b) \in Nat /\ Head(a) = a[1]
  BY EmptySeq, LenProperties
<1> HIDE DEF t
<1>3. /\ Len(u) = Len(t) + Len(b)
      /\ \A i \in 1..Len(t) + Len(b) : u[i] = IF i <= Len(t) THEN t[i] ELSE b[i - Len(t)]
  BY <1>1, ConcatProperties
<1>4. /\ Len(v) = Len(a) + Len(b)
      /\ \A i \in 1..Len(a) + Len(b) : v[i] = IF i <= Len(a) THEN a[i] ELSE b[i - Len(a)]
  BY ConcatProperties
<1> HIDE DEF u, v
<1>5. Len(u) = Len(v) - 1 /\ Len(v) \in Nat \ {0} /\ 1 \in 1..Len(a) + Len(b) /\ 1 <= Len(a)
  BY <1>1, <1>2, <1>3, <1>4
<1>6. v[1] = Head(a)
  BY <1>2, <1>4, <1>5
<1>7. ASSUME NEW i \in 1..Len(u) PROVE u[i] = v[i + 1]
  <2>1. i \in 1..Len(t) + Len(b) /\ i + 1 \in 1..Len(a) + Len(b) /\ (i <= Len(t) <=> i + 1 <= Len(a))
        /\ (i + 1) - Len(a) = i - Len(t)
    BY <1>1, <1>2, <1>3
  <2>2. CASE i <= Len(t)
    <3>1. i \in 1..Len(t)
      BY <1>1, <1>2, <2>2
    <3> QED
      BY <1>1, <1>3, <1>4, <2>1, <2>2, <3>1
  <2>3. CASE ~(i <= Len(t))
    <3>1. u[i] = b[i - Len(t)]
      BY <1>3, <2>1, <2>3
    <3>2. v[i + 1] = b[(i + 1) - Len(a)]
      BY <1>4, <2>1, <2>3
    <3> QED
      BY <2>1, <3>1, <3>2
  <2> QED
    BY <2>2, <2>3
<1> QED
  BY <1>5, <1>6, <1>7 DEF t, u, v

LEMMA MessageSeen ==
  ASSUME ResumeTypes, SeenInOrder, OnMessage
  PROVE  /\ SeenInOrder' /\ client'.last \in Nat /\ client'.last >= client.last
         /\ Head(conn.send).id <= client'.last
         /\ client'.last = client.last \/ client'.last = Head(conn.send).id
         /\ \A e : e.id = client'.last /\ client'.last # client.last => Seen(e)'
         /\ \A e : Seen(e) => Seen(e)'
<1> DEFINE f == Head(conn.send)
<1>1. f \in HubEvent /\ f.id \in 0..MaxEvents /\ client.last \in 0..MaxEvents /\ MaxEvents \in Nat
  BY MessageTypes, ResumeAssumption DEF HubEvent, ResumeTypes, ClientType
<1>2. /\ f.id # 0 /\ f.id > client.last => client'.last = f.id /\ client'.seen = Append(client.seen, f.id)
      /\ ~(f.id # 0 /\ f.id > client.last) => client' = client
  BY MessageTypes
<1> HIDE DEF f
<1>3. CASE f.id # 0 /\ f.id > client.last
  <2> DEFINE s == client.seen
             t == Append(s, f.id)
  <2>1. client'.last = f.id /\ client'.seen = t
    BY <1>2, <1>3
  <2>2. s \in Seq(1..MaxEvents) /\ f.id \in 1..MaxEvents /\ Len(s) \in Nat
    BY <1>1, <1>3, LenProperties DEF ResumeTypes, ClientType
  <2>3. /\ Len(t) = Len(s) + 1 /\ t[Len(s) + 1] = f.id
        /\ \A i \in 1..Len(s) : t[i] = s[i] /\ s[i] \in 1..MaxEvents
    <3>1. Len(t) = Len(s) + 1 /\ t[Len(s) + 1] = f.id /\ \A i \in 1..Len(s) : t[i] = s[i]
      BY <2>2, AppendProperties
    <3>2. \A i \in 1..Len(s) : s[i] \in 1..MaxEvents
      BY <2>2, ElementOfSeq
    <3> QED
      BY <3>1, <3>2
  <2>4. \A i \in 1..Len(s) : s[i] <= client.last
    BY DEF SeenInOrder
  <2>5. \A i, j \in 1..Len(s) : i < j => s[i] < s[j]
    BY DEF SeenInOrder, AtMostOnceInOrder
  <2> HIDE DEF s, t
  <2>6. \A i \in 1..Len(t) : i = Len(s) + 1 \/ i \in 1..Len(s)
    BY <2>2, <2>3
  <2>7. \A i \in 1..Len(t) : t[i] <= f.id
    BY <1>1, <1>3, <2>3, <2>4, <2>6
  <2>8. ASSUME NEW i \in 1..Len(t), NEW j \in 1..Len(t), i < j PROVE t[i] < t[j]
    <3>1. i \in 1..Len(s)
      BY <2>2, <2>3, <2>8
    <3>2. CASE j = Len(s) + 1
      BY <1>1, <1>3, <2>3, <2>4, <3>1, <3>2
    <3>3. CASE j \in 1..Len(s)
      BY <2>3, <2>5, <2>8, <3>1, <3>3
    <3> QED
      BY <2>6, <3>2, <3>3
  <2>9. SeenInOrder'
    BY <2>1, <2>7, <2>8 DEF SeenInOrder, AtMostOnceInOrder
  <2>10. Len(s) + 1 \in 1..Len(t) /\ \A i \in 1..Len(s) : i \in 1..Len(t)
    BY <2>2, <2>3
  <2>11. \A e : e.id = f.id => Seen(e)'
    BY <2>1, <2>3, <2>10 DEF Seen
  <2>12. \A e : Seen(e) => Seen(e)'
    BY <2>1, <2>3, <2>10 DEF Seen, s
  <2> QED
    BY <1>1, <1>3, <2>1, <2>9, <2>11, <2>12 DEF f
<1>4. CASE ~(f.id # 0 /\ f.id > client.last)
  <2>1. client' = client
    BY <1>2, <1>4
  <2>2. SeenInOrder' /\ \A e : Seen(e) => Seen(e)'
    BY <2>1 DEF SeenInOrder, AtMostOnceInOrder, Seen
  <2>3. f.id <= client.last
    BY <1>1, <1>4
  <2> QED
    BY <1>1, <2>1, <2>2, <2>3 DEF f
<1> QED
  BY <1>3, <1>4

LEMMA MessageCalm ==
  ASSUME ResumeTypes, SeenInOrder, CalmInv, OnMessage
  PROVE  CalmInv'
<1> USE DEF CalmInv
<1> DEFINE f == Head(conn.send)
<1>1. /\ nextID' = nextID /\ due' = due /\ buffer' = buffer /\ bcast' = bcast
      /\ inbox' = inbox /\ subscribedOnce' = subscribedOnce /\ replay' = replay
      /\ conn.up /\ conn.send # << >>
  BY DEF OnMessage
<1>2. /\ ResumeTypes' /\ f \in HubEvent
      /\ conn'.up = conn.up /\ conn'.epoch = conn.epoch /\ conn'.subs = conn.subs
      /\ conn'.send = Tail(conn.send)
  BY MessageTypes
<1>3. /\ client'.last \in Nat /\ client'.last >= client.last /\ f.id <= client'.last
      /\ client'.last = client.last \/ client'.last = f.id
      /\ \A e : e.id = client'.last /\ client'.last # client.last => Seen(e)'
      /\ \A e : Seen(e) => Seen(e)'
  BY MessageSeen
<1>4. client.last \in Nat /\ nextID \in Nat /\ f.id \in Nat
  BY <1>2, MissingType, ResumeAssumption DEF HubEvent
<1>5. /\ Len(Way') = Len(Way) - 1 /\ Len(Way) \in Nat \ {0} /\ Way[1] = f
      /\ \A i \in 1..Len(Way') : Way'[i] = Way[i + 1]
  <2>1. conn.send \in Seq(HubEvent) /\ replay.out \in Seq(HubEvent)
    BY WayType
  <2>2. Way' = Tail(conn.send) \o replay.out /\ Way = conn.send \o replay.out
    BY <1>1, <1>2 DEF Way
  <2>3. LET u == Tail(conn.send) \o replay.out
            v == conn.send \o replay.out
        IN /\ Len(u) = Len(v) - 1 /\ Len(v) \in Nat \ {0} /\ v[1] = Head(conn.send)
           /\ \A i \in 1..Len(u) : u[i] = v[i + 1]
    BY <1>1, <2>1, WayTail, Zenon
  <2> QED
    BY <2>2, <2>3, Zenon
<1> HIDE DEF f
<1>6. \A p \in Broadcaster : bcast[p].pc = "idle"
  BY <1>1, Between
<1>7. OneInFlight' /\ RingsOrdered'
  BY <1>1, <1>6 DEF OneInFlight, RingsOrdered
<1>8. \A m \in Missing' : m \in Missing /\ m.id \in Nat /\ m.id > client'.last
  <2> SUFFICES ASSUME NEW m \in Missing' PROVE m \in Missing /\ m.id \in Nat /\ m.id > client'.last
    OBVIOUS
  <2>1. m \in due /\ Buffered(m) /\ m.id > client'.last
    BY <1>1 DEF Missing, Buffered
  <2>2. m.id \in Nat
    BY <2>1, ResumeAssumption DEF ResumeTypes, HubEvent
  <2>3. m.id > client.last
    BY <1>3, <1>4, <2>1, <2>2
  <2> QED
    BY <2>1, <2>2, <2>3 DEF Missing
<1>9. OneChannel'
  BY <1>8 DEF OneChannel
<1>10. 1 \in 1..Len(Way) /\ \A i \in 1..Len(Way') : i + 1 \in 1..Len(Way)
  BY <1>5
\* The frame overtakes nothing: what is between the old and the new ID is seen.
<1>11. \A m \in Missing : client'.last # client.last => ~(m.id < client'.last)
  <2> SUFFICES ASSUME NEW m \in Missing, client'.last # client.last, m.id < client'.last PROVE FALSE
    OBVIOUS
  <2>1. Way[1].id > client.last /\ m.id < Way[1].id
    BY <1>3, <1>4, <1>5
  <2>2. \E j \in 1..(1 - 1) : Way[j] = m
    BY <1>10, <2>1 DEF WayOrdered, NoneOvertaken
  <2> QED
    BY <2>2
<1>12. SeenDue'
  <2> SUFFICES ASSUME NEW m \in due, Buffered(m), m.id <= client'.last PROVE Seen(m)'
    BY <1>1 DEF SeenDue, Buffered
  <2>1. m.id \in Nat
    BY ResumeAssumption DEF ResumeTypes, HubEvent
  <2>2. CASE m.id <= client.last
    BY <1>3, <2>2 DEF SeenDue
  <2>3. CASE ~(m.id <= client.last)
    <3>1. m \in Missing /\ client'.last # client.last
      BY <1>4, <2>1, <2>3 DEF Missing
    <3>2. m.id = client'.last
      BY <1>3, <1>11, <2>1, <3>1
    <3> QED
      BY <1>3, <3>1, <3>2
  <2> QED
    BY <2>2, <2>3
<1>13. f.id # 0 => f.id <= nextID /\ subscribedOnce = Channel /\ (client.last = 0 => f.id = nextID)
  BY <1>5, <1>10 DEF WayOrdered
<1>14. OnceCaughtUp'
  <2>1. client'.last <= nextID
    BY <1>3, <1>4, <1>13 DEF OnceCaughtUp
  <2>2. client'.last # 0 => subscribedOnce = Channel
    BY <1>3, <1>4, <1>13 DEF OnceCaughtUp
  <2>3. ASSUME client'.last # 0, NEW ch \in Channel, NEW i \in 1..Len(buffer[ch]), buffer[ch][i].id > client'.last
        PROVE  buffer[ch][i] \in due
    <3>1. buffer[ch][i].id \in 1..nextID
      BY DEF RingsOrdered
    <3>2. client.last # 0
      BY <1>3, <1>4, <1>13, <2>3, <3>1
    <3>3. buffer[ch][i].id > client.last
      BY <1>3, <1>4, <2>3, <3>1
    <3> QED
      BY <3>2, <3>3 DEF OnceCaughtUp
  <2>4. client'.last = 0 => client.last = 0
    BY <1>3, <1>4
  <2> QED
    BY <1>1, <1>2, <2>1, <2>2, <2>3, <2>4 DEF OnceCaughtUp
<1>15. WayOrdered'
  <2>1. ASSUME NEW k \in 1..Len(Way'), Way'[k].id # 0
        PROVE  Way'[k].id <= nextID /\ subscribedOnce = Channel /\ (client'.last = 0 => Way'[k].id = nextID)
    <3>1. k + 1 \in 1..Len(Way) /\ Way'[k] = Way[k + 1]
      BY <1>5, <1>10
    <3>2. client'.last = 0 => client.last = 0
      BY <1>3, <1>4
    <3> QED
      BY <2>1, <3>1, <3>2 DEF WayOrdered
  <2>2. ASSUME NEW k \in 1..Len(Way'), Way'[k].id > client'.last, NEW m \in Missing', m.id < Way'[k].id
        PROVE  \E j \in 1..(k - 1) : Way'[j] = m
    <3>1. k + 1 \in 1..Len(Way) /\ Way'[k] = Way[k + 1]
      BY <1>5, <1>10
    <3>2. m \in Missing /\ m.id \in Nat /\ m.id > client'.last
      BY <1>8
    <3>3. Way[k + 1] \in HubEvent
      BY <3>1, WayType, ElementOfSeq
    <3>4. Way[k + 1].id \in Nat
      BY <3>3, ResumeAssumption DEF HubEvent
    <3>5. Way[k + 1].id > client.last /\ m.id < Way[k + 1].id
      BY <1>3, <1>4, <2>2, <3>1, <3>4
    <3>6. PICK j \in 1..((k + 1) - 1) : Way[j] = m
      BY <3>1, <3>2, <3>5 DEF WayOrdered, NoneOvertaken
    <3>7. j # 1
      BY <1>3, <1>4, <1>5, <3>2, <3>6
    <3>8. j - 1 \in 1..(k - 1) /\ j - 1 \in 1..Len(Way') /\ (j - 1) + 1 = j
      BY <1>5, <3>7
    <3>9. Way'[j - 1] = m
      BY <1>5, <3>6, <3>8
    <3> QED
      BY <3>8, <3>9
  <2> QED
    BY <1>1, <2>1, <2>2 DEF WayOrdered, NoneOvertaken
<1>16. ConnOrdered'
  <2>1. replay.active => replay.since <= client'.last
    BY <1>3, <1>4 DEF ConnOrdered, ResumeTypes, ReplayType
  <2>2. ASSUME NEW i \in 1..Len(inbox), inbox[i].type = "resume"
        PROVE  /\ i = Len(inbox) /\ inbox[i].id = client'.last /\ client'.last # 0
               /\ \A k \in 1..Len(conn'.send) : conn'.send[k].id = 0
    <3>1. /\ i = Len(inbox) /\ inbox[i].id = client.last /\ client.last # 0
          /\ \A k \in 1..Len(conn.send) : conn.send[k].id = 0
      BY <2>2 DEF ConnOrdered
    <3>2. conn.send \in Seq(HubEvent) /\ Len(conn.send) \in Nat \ {0} /\ Len(conn'.send) = Len(conn.send) - 1
      BY <1>1, <1>2, WayType, HeadTailProperties, EmptySeq
    <3>3. \A k \in 1..Len(conn'.send) : conn'.send[k] = conn.send[k + 1]
      BY <1>1, <1>2, WayType, HeadTailProperties
    <3>4. 1 \in 1..Len(conn.send) /\ \A k \in 1..Len(conn'.send) : k + 1 \in 1..Len(conn.send)
      BY <3>2
    <3>5. f.id = 0
      <4>1. f = conn.send[1]
        BY <3>2 DEF f
      <4> QED
        BY <3>1, <3>4, <4>1
    <3>6. client'.last = client.last
      BY <1>3, <1>4, <3>5
    <3>7. \A k \in 1..Len(conn'.send) : conn'.send[k].id = 0
      BY <3>1, <3>3, <3>4
    <3> QED
      BY <3>1, <3>6, <3>7
  <2>3. ~conn'.up => FALSE
    BY <1>1, <1>2
  <2> QED
    BY <1>1, <1>2, <2>1, <2>2, <2>3 DEF ConnOrdered, NoReplay
<1>17. WillCome'
  <2> SUFFICES ASSUME NEW m \in Missing'
               PROVE  \/ \E i \in 1..Len(inbox) : inbox[i].type = "resume"
                      \/ replay.active /\ m.ch \in replay.todo
                      \/ \E k \in 1..Len(Way') : Way'[k] = m
    BY <1>1 DEF WillCome
  <2>1. m \in Missing /\ m.id \in Nat /\ m.id > client'.last
    BY <1>8
  <2>2. \/ \E i \in 1..Len(inbox) : inbox[i].type = "resume"
        \/ replay.active /\ m.ch \in replay.todo
        \/ \E k \in 1..Len(Way) : Way[k] = m
    BY <1>1, <1>6, <2>1 DEF WillCome, AllIdle
  <2>3. ASSUME NEW k \in 1..Len(Way), Way[k] = m PROVE \E j \in 1..Len(Way') : Way'[j] = m
    <3>1. k # 1
      BY <1>3, <1>4, <1>5, <2>1, <2>3
    <3>2. k - 1 \in 1..Len(Way') /\ (k - 1) + 1 = k
      BY <1>5, <3>1
    <3>3. Way'[k - 1] = m
      BY <1>5, <2>3, <3>2
    <3> QED
      BY <3>2, <3>3
  <2> QED
    BY <2>2, <2>3
<1> QED
  BY <1>7, <1>9, <1>12, <1>14, <1>15, <1>16, <1>17

LEMMA SeenStep ==
  ASSUME ResumeTypes, SeenInOrder, ResumeNext
  PROVE  SeenInOrder'
<1>1. CASE OnMessage
  BY <1>1, MessageSeen
<1>2. CASE client' = client
  BY <1>2 DEF SeenInOrder, AtMostOnceInOrder
<1>3. ResumeNext => OnMessage \/ client' = client
  BY DEF ResumeNext, HubStep, ConnStep, BufferPush, CollectConns, SendLive, DrawID, Dispatch,
         ReplayChannel, ReplaySend, ReplayEnd, ConnectionLost, Open
<1> QED
  BY <1>1, <1>2, <1>3

LEMMA CalmStaysCalm ==
  ASSUME ResumeTypes, SeenInOrder, CalmInv, CalmStep, ResumeNext
  PROVE  CalmInv'
<1>1. ASSUME NEW p \in Broadcaster, HubStep(p) PROVE CalmInv'
  BY <1>1, PushCalm, CollectCalm, SendCalm DEF HubStep
<1>2. ASSUME NEW p \in Broadcaster, NEW ch \in Channel, DrawID(p, ch) PROVE CalmInv'
  BY <1>2, DrawCalm
<1>3. CASE Dispatch
  BY <1>3, SubscribeCalm, ResumeFrameCalm
<1>4. ASSUME NEW ch \in Channel, ReplayChannel(ch) PROVE CalmInv'
  BY <1>4, ReplayChannelCalm
<1>5. CASE ReplaySend \/ ReplayEnd
  BY <1>5, ReplaySendCalm, ReplayEndCalm
<1>6. CASE ConnectionLost \/ Open \/ OnMessage
  BY <1>6, DisconnectCalm, OpenCalm, MessageCalm
<1> QED
  BY <1>1, <1>2, <1>3, <1>4, <1>5, <1>6 DEF ResumeNext, ConnStep

LEMMA ResumeInitInv == HistoryInit => ResumeInv
<1> SUFFICES ASSUME HistoryInit PROVE ResumeInv
  OBVIOUS
<1>1. ResumeInit /\ calm = TRUE
  BY DEF HistoryInit
<1>2. ResumeTypes
  BY <1>1, ResumeInitTypes
<1>3. /\ nextID = 0 /\ due = {} /\ subscribedOnce = {} /\ inbox = << >> /\ replay = NoReplay
      /\ conn.up = FALSE /\ conn.send = << >> /\ conn.subs = {} /\ client.last = 0 /\ client.seen = << >>
      /\ \A p \in Broadcaster : bcast[p].pc = "idle"
      /\ \A ch \in Channel : buffer[ch] = << >>
  BY <1>1 DEF ResumeInit
<1>4. Len(<< >>) = 0 /\ Len(inbox) = 0 /\ Len(client.seen) = 0 /\ \A ch \in Channel : Len(buffer[ch]) = 0
  BY <1>3, EmptySeq
<1>5. SeenInOrder
  BY <1>4 DEF SeenInOrder, AtMostOnceInOrder
<1>6. ~replay.active /\ Missing = {}
  BY <1>3 DEF NoReplay, Missing
<1>7. ConnOrdered
  BY <1>3, <1>4, <1>6 DEF ConnOrdered
<1>8. Len(Way) = 0
  BY <1>2, <1>3, <1>4, <1>6, <1>7, NothingOnItsWay
<1>9. WayOrdered
  BY <1>8 DEF WayOrdered, NoneOvertaken
<1>10. RingsOrdered /\ OneInFlight /\ OnceCaughtUp /\ SeenDue /\ OneChannel /\ WillCome
  BY <1>3, <1>4, <1>6 DEF RingsOrdered, Ascending, OneInFlight, OnceCaughtUp, SeenDue, OneChannel, WillCome
<1> QED
  BY <1>1, <1>2, <1>5, <1>7, <1>9, <1>10 DEF ResumeInv, CalmInv

LEMMA ResumeStepInv == ResumeInv /\ [ResumeNext /\ History]_<<resumeVars, calm, load>> => ResumeInv'
<1> SUFFICES ASSUME ResumeInv, [ResumeNext /\ History]_<<resumeVars, calm, load>> PROVE ResumeInv'
  OBVIOUS
<1>1. CASE ResumeNext /\ History
  <2>1. ResumeTypes' /\ SeenInOrder'
    BY <1>1, ResumeStepTypes, SeenStep DEF ResumeInv
  <2>2. calm' = (calm /\ CalmStep)
    BY <1>1, Zenon DEF History
  <2>3. CASE calm /\ CalmStep
    <3>1. CalmInv'
      BY <1>1, <2>3, CalmStaysCalm, Zenon DEF ResumeInv
    <3>2. calm' = TRUE
      BY <2>2, <2>3
    <3> QED
      BY <2>1, <3>1, <3>2, Zenon DEF ResumeInv
  <2>4. CASE ~(calm /\ CalmStep)
    <3>1. calm' = FALSE
      BY <2>2, <2>4
    <3> QED
      BY <2>1, <3>1, Zenon DEF ResumeInv
  <2> QED
    BY <2>3, <2>4
<1>2. CASE UNCHANGED <<resumeVars, calm, load>>
  <2>1. /\ nextID' = nextID /\ bcast' = bcast /\ due' = due /\ buffer' = buffer /\ client' = client
        /\ conn' = conn /\ inbox' = inbox /\ replay' = replay /\ subscribedOnce' = subscribedOnce
        /\ losses' = losses /\ calm' = calm
    BY <1>2 DEF resumeVars
  <2>2. ResumeTypes' /\ SeenInOrder'
    BY <2>1 DEF ResumeInv, ResumeTypes, SeenInOrder, AtMostOnceInOrder
  <2>3. ASSUME CalmInv PROVE CalmInv'
    <3>1. Missing' = Missing /\ SeenDue' /\ OneChannel'
      BY <2>1, <2>3, SameMissing DEF CalmInv
    <3>2. ConnOrdered' /\ Way' = Way
      BY <2>1, <2>3, SameConn DEF CalmInv
    <3>3. RingsOrdered' /\ OneInFlight' /\ OnceCaughtUp' /\ WayOrdered' /\ WillCome'
      BY <2>1, <2>3, <3>1, <3>2
         DEF CalmInv, RingsOrdered, OneInFlight, OnceCaughtUp, WayOrdered, WillCome, AllIdle
    <3> QED
      BY <3>1, <3>2, <3>3 DEF CalmInv
  <2> QED
    BY <2>1, <2>2, <2>3 DEF ResumeInv
<1> QED
  BY <1>1, <1>2

\* Replay and live delivery together never deliver an event twice or out of
\* order, whoever broadcasts, however often the connection is lost and however
\* large the rings are; and in a calm history a client that is back and quiet has
\* seen every event it was due that a ring still holds (hub.go 393-409, conn.go
\* 111-124, oni-socket.ts 197-242).
THEOREM ResumeCorrect == HistorySpec => []ResumeOK
<1>1. ResumeInv => ResumeOK
  <2> SUFFICES ASSUME ResumeInv PROVE ResumeOK
    OBVIOUS
  <2>1. ResumeTypes /\ AtMostOnceInOrder
    BY DEF ResumeInv, SeenInOrder
  <2>2. ResumeTypeOK
    BY <2>1, Zenon DEF ResumeTypes, ResumeTypeOK, BcastType, ConnType, FrameType, ReplayType, ClientType
  <2>3. ResumeComplete
    <3> SUFFICES ASSUME calm, Settled, NEW e \in due, Buffered(e) PROVE Seen(e)
      BY DEF ResumeComplete, NoMissedEvents
    <3>1. CalmInv
      BY DEF ResumeInv
    <3>2. Missing = {}
      BY <2>1, <3>1, SettledHasAll DEF CalmInv
    <3>3. e.id \in Nat /\ client.last \in Nat
      BY <2>1, ResumeAssumption DEF ResumeTypes, HubEvent, ClientType
    <3>4. e.id <= client.last
      BY <3>2, <3>3 DEF Missing
    <3> QED
      BY <3>1, <3>4 DEF CalmInv, SeenDue
  <2> QED
    BY <2>1, <2>2, <2>3 DEF ResumeOK
<1> QED
  BY <1>1, ResumeInitInv, ResumeStepInv, PTL DEF HistorySpec
=============================================================================
