--------------------------- MODULE RealtimeProofs ---------------------------
(***************************************************************************)
(* What publish/subscribe, presence and the client guarantee for any       *)
(* number of publishers, subscriptions, connections and calls.             *)
(***************************************************************************)
EXTENDS PubSub, ConnPresence, ClientSocket, SequenceTheorems, FiniteSetTheorems, TLAPS

----------------------------------------------------------------------------
(* Publish and subscribe *)

\* What a subscription accepted: handled, then still in its channel.
Accepted(s) == handled[s] \o sub[s].buf

\* One publisher's messages are in the order of their numbers.
Ordered(q) == \A i, j \in 1..Len(q) : i < j /\ q[i].from = q[j].from => q[i].n < q[j].n

\* A message is no newer than its publisher's current one, and older if that one
\* is still to be delivered to s.
NotAhead(pubs, s, m) ==
  m.n <= pubs[m.from].n /\ (s \in pubs[m.from].todo => m.n < pubs[m.from].n)

PubSubInv ==
  /\ PubSubTypeOK /\ NoPanic
  /\ \A p \in Publisher : pub[p].todo # {} => pub[p].n > 0
  /\ \A s \in Sub : closing[s] <= cancels[s]
  /\ \A s \in Sub : sub[s].chanClosed => sub[s].closed
  /\ \A s \in Sub : Returned(s) => sub[s].closed
  /\ \A s \in Sub : Ordered(Accepted(s))
  /\ \A s \in Sub : \A i \in 1..Len(Accepted(s)) : NotAhead(pub, s, Accepted(s)[i])

\* Handling the head of the channel leaves what was accepted as it is.
LEMMA HandleKeeps ==
  ASSUME NEW S, NEW a \in Seq(S), NEW b \in Seq(S), b # << >>
  PROVE  Append(a, Head(b)) \o Tail(b) = a \o b
<1> DEFINE u == Append(a, Head(b)) \o Tail(b)
           v == a \o b
<1>1. Head(b) \in S /\ Tail(b) \in Seq(S) /\ Len(Tail(b)) = Len(b) - 1 /\ Len(b) \in Nat \ {0}
  BY HeadTailProperties, EmptySeq, LenProperties
<1>2. /\ Append(a, Head(b)) \in Seq(S) /\ Len(Append(a, Head(b))) = Len(a) + 1 /\ Len(a) \in Nat
      /\ \A i \in 1..Len(a) : Append(a, Head(b))[i] = a[i]
      /\ Append(a, Head(b))[Len(a) + 1] = b[1]
  BY <1>1, AppendProperties
<1>3. /\ u \in Seq(S) /\ v \in Seq(S)
      /\ Len(u) = Len(a) + Len(b) /\ Len(v) = Len(a) + Len(b)
  BY <1>1, <1>2
<1>4. ASSUME NEW i \in 1..Len(u) PROVE u[i] = v[i]
  <2>1. CASE i <= Len(a)
    BY <1>1, <1>2, <1>3, <2>1
  <2>2. CASE i = Len(a) + 1
    BY <1>1, <1>2, <1>3, <2>2
  <2>3. CASE i > Len(a) + 1
    <3>1. u[i] = Tail(b)[i - (Len(a) + 1)]
      BY <1>1, <1>2, <1>3, <2>3
    <3>2. v[i] = b[i - Len(a)]
      BY <1>1, <1>2, <1>3, <2>3
    <3>3. Tail(b)[i - (Len(a) + 1)] = b[i - Len(a)]
      BY <1>1, <1>2, <1>3, <2>3
    <3> QED
      BY <3>1, <3>2, <3>3
  <2> QED
    BY <1>2, <1>3, <2>1, <2>2, <2>3
<1> QED
  BY <1>3, <1>4, SeqEqual

LEMMA AcceptAppends ==
  ASSUME NEW S, NEW a \in Seq(S), NEW b \in Seq(S), NEW m \in S
  PROVE  /\ a \o Append(b, m) \in Seq(S) /\ Len(a \o Append(b, m)) = Len(a \o b) + 1
         /\ \A i \in 1..Len(a \o b) : (a \o Append(b, m))[i] = (a \o b)[i]
         /\ (a \o Append(b, m))[Len(a \o b) + 1] = m
<1>1. /\ Append(b, m) \in Seq(S) /\ Len(Append(b, m)) = Len(b) + 1
      /\ Len(a) \in Nat /\ Len(b) \in Nat
      /\ \A i \in 1..Len(b) : Append(b, m)[i] = b[i]
      /\ Append(b, m)[Len(b) + 1] = m
  BY AppendProperties
<1>2. /\ a \o Append(b, m) \in Seq(S) /\ Len(a \o Append(b, m)) = Len(a) + Len(b) + 1
      /\ Len(a \o b) = Len(a) + Len(b)
  BY <1>1
<1>3. \A i \in 1..Len(a \o b) : (a \o Append(b, m))[i] = (a \o b)[i]
  BY <1>1, <1>2
<1>4. (a \o Append(b, m))[Len(a \o b) + 1] = m
  BY <1>1, <1>2
<1> QED
  BY <1>2, <1>3, <1>4

LEMMA PubSubInitInv == PubSubInit => PubSubInv
<1> SUFFICES ASSUME PubSubInit PROVE PubSubInv
  OBVIOUS
<1>1. \A s \in Sub : /\ sub[s] = [state |-> "none", buf |-> << >>, closed |-> FALSE, chanClosed |-> FALSE]
                     /\ handled[s] = << >> /\ cancels[s] = 0 /\ closing[s] = 0
  BY DEF PubSubInit
<1>2. PubSubTypeOK
  <2>1. sub \in [Sub -> Subscriber] /\ \A s \in Sub : Len(sub[s].buf) <= ChanCap
    BY <1>1, PubSubAssumption DEF PubSubInit, Subscriber
  <2>2. pub \in [Publisher -> Publish]
    BY PubSubAssumption DEF PubSubInit, Publish
  <2>3. cancels \in [Sub -> 0..MaxCancel] /\ closing \in [Sub -> 0..MaxCancel]
    BY PubSubAssumption DEF PubSubInit
  <2>4. handled \in [Sub -> Seq(Msg)]
    BY DEF PubSubInit
  <2>5. DOMAIN subscribers = {}
    BY DEF PubSubInit
  <2>6. panicked \in BOOLEAN
    BY DEF PubSubInit
  <2> QED
    BY <2>1, <2>2, <2>3, <2>4, <2>5, <2>6 DEF PubSubTypeOK
<1>3. \A s \in Sub : Len(Accepted(s)) = 0
  <2>1. \A s \in Sub : Accepted(s) = << >> \o << >>
    BY <1>1 DEF Accepted
  <2>2. << >> \o << >> = << >>
    BY ConcatEmptySeq, EmptySeq
  <2> QED
    BY <2>1, <2>2
<1>4. /\ \A s \in Sub : Ordered(Accepted(s))
      /\ \A p \in Publisher : pub[p].todo = {}
  BY <1>3 DEF Ordered, PubSubInit
<1>5. \A s \in Sub : ~Returned(s) /\ closing[s] <= cancels[s]
  BY <1>1 DEF Returned
<1>6. \A s \in Sub : ~sub[s].chanClosed
  BY <1>1
<1> QED
  BY <1>2, <1>3, <1>4, <1>5, <1>6 DEF PubSubInit, PubSubInv, NoPanic

\* A step that only starts publishes and goroutines or cancels: what was
\* accepted stays, and publishers do not go back.
LEMMA PubSubQuiet ==
  ASSUME PubSubInv, PubSubTypeOK', NoPanic',
         \A p \in Publisher : (pub[p].todo # {} => pub[p].n > 0)',
         \A s \in Sub : (closing[s] <= cancels[s])' /\ (Accepted(s))' = Accepted(s),
         \A s \in Sub : (sub[s].chanClosed => sub[s].closed)' /\ (Returned(s) => sub[s].closed)',
         \A s \in Sub, m \in Msg : NotAhead(pub, s, m) => NotAhead(pub', s, m)
  PROVE  PubSubInv'
<1>1. \A s \in Sub : (Ordered(Accepted(s)))'
  BY DEF PubSubInv, Ordered
<1>2. ASSUME NEW s \in Sub, NEW i \in 1..Len((Accepted(s))')
      PROVE  NotAhead(pub', s, (Accepted(s))'[i])
  <2>1. i \in 1..Len(Accepted(s)) /\ NotAhead(pub, s, Accepted(s)[i])
    BY DEF PubSubInv
  <2>2. handled[s] \in Seq(Msg) /\ sub[s].buf \in Seq(Msg)
    BY DEF PubSubInv, PubSubTypeOK, Subscriber
  <2>3. Accepted(s)[i] \in Msg
    BY <2>1, <2>2, ConcatProperties, ElementOfSeq DEF Accepted
  <2> QED
    BY <2>1, <2>3
<1> QED
  BY <1>1, <1>2 DEF PubSubInv

\* What a subscription's own step does to the others and to the types.
LEMMA SubFields ==
  ASSUME PubSubInv, NEW s \in Sub
  PROVE  /\ sub[s].state \in {"none", "running", "exited"} /\ sub[s].buf \in Seq(Msg)
         /\ sub[s].closed \in BOOLEAN /\ sub[s].chanClosed \in BOOLEAN
         /\ Len(sub[s].buf) \in Nat /\ Len(sub[s].buf) <= ChanCap
         /\ handled[s] \in Seq(Msg)
BY DEF PubSubInv, PubSubTypeOK, Subscriber

LEMMA SubscribeInv ==
  ASSUME PubSubInv, NEW s \in Sub, NEW pattern \in Pattern, Subscribe(s, pattern)
  PROVE  PubSubInv'
<1>1. sub' = [sub EXCEPT ![s].state = "running"] /\ sub \in [Sub -> Subscriber]
  BY DEF Subscribe, PubSubInv, PubSubTypeOK
<1>2. \A t \in Sub : /\ sub'[t].buf = sub[t].buf /\ sub'[t].closed = sub[t].closed
                     /\ sub'[t].chanClosed = sub[t].chanClosed
  BY <1>1 DEF Subscriber
<1>3. sub' \in [Sub -> Subscriber]
  BY <1>1 DEF Subscriber
<1>4. /\ DOMAIN subscribers' = DOMAIN subscribers \cup {s}
      /\ \A t \in DOMAIN subscribers' : subscribers'[t] = IF t = s THEN pattern ELSE subscribers[t]
  BY DEF Subscribe
<1>5. PubSubTypeOK'
  BY <1>2, <1>3, <1>4 DEF Subscribe, PubSubInv, PubSubTypeOK
<1>6. NoPanic' /\ pub' = pub /\ handled' = handled /\ cancels' = cancels /\ closing' = closing
  BY DEF Subscribe, PubSubInv, NoPanic
<1> \A q \in Publisher : (pub[q].todo # {} => pub[q].n > 0)'
  BY <1>6 DEF PubSubInv
<1>7. \A t \in Sub : (closing[t] <= cancels[t])' /\ (Accepted(t))' = Accepted(t)
  BY <1>2, <1>6 DEF PubSubInv, Accepted
<1>8. \A t \in Sub : (sub[t].chanClosed => sub[t].closed)' /\ (Returned(t) => sub[t].closed)'
  BY <1>2, <1>6 DEF PubSubInv, Returned
<1>9. \A t \in Sub, m \in Msg : NotAhead(pub, t, m) => NotAhead(pub', t, m)
  BY <1>6 DEF NotAhead
<1> QED
  BY <1>5, <1>6, <1>7, <1>8, <1>9, PubSubQuiet

LEMMA CollectInv ==
  ASSUME PubSubInv, NEW p \in Publisher, NEW topic \in Topic, Collect(p, topic)
  PROVE  PubSubInv'
<1> DEFINE todo == {s \in DOMAIN subscribers : TopicMatches(subscribers[s], topic)}
<1>1. /\ pub \in [Publisher -> Publish] /\ pub[p].n \in 0..MaxPub /\ pub[p].n < MaxPub
      /\ pub' = [pub EXCEPT ![p] = [n |-> pub[p].n + 1, todo |-> todo]]
  BY DEF Collect, PubSubInv, PubSubTypeOK, Publish
<1>2. todo \subseteq Sub
  BY DEF PubSubInv, PubSubTypeOK
<1> HIDE DEF todo
<1>3. [n |-> pub[p].n + 1, todo |-> todo] \in Publish
  BY <1>1, <1>2, PubSubAssumption DEF Publish
<1>4. pub' \in [Publisher -> Publish]
  BY <1>1, <1>3
<1>5. PubSubTypeOK'
  BY <1>4 DEF Collect, PubSubInv, PubSubTypeOK
<1>6. /\ NoPanic' /\ sub' = sub /\ handled' = handled /\ cancels' = cancels /\ closing' = closing
  BY DEF Collect, PubSubInv, NoPanic
<1> \A q \in Publisher : (pub[q].todo # {} => pub[q].n > 0)'
  BY <1>1 DEF PubSubInv
<1>7. \A t \in Sub : (closing[t] <= cancels[t])' /\ (Accepted(t))' = Accepted(t)
  BY <1>6 DEF PubSubInv, Accepted
<1>8. \A t \in Sub : (sub[t].chanClosed => sub[t].closed)' /\ (Returned(t) => sub[t].closed)'
  BY <1>6 DEF PubSubInv, Returned
<1>9. ASSUME NEW t \in Sub, NEW m \in Msg, NotAhead(pub, t, m) PROVE NotAhead(pub', t, m)
  <2>1. m.from \in Publisher /\ m.n \in Nat /\ m.n <= pub[m.from].n
    BY <1>9 DEF Msg, NotAhead
  <2>2. CASE m.from = p
    <3>1. pub'[p].n = pub[p].n + 1
      BY <1>1
    <3> QED
      BY <1>1, <2>1, <2>2, <3>1 DEF NotAhead
  <2>3. CASE m.from # p
    <3>1. pub'[m.from] = pub[m.from]
      BY <1>1, <2>1, <2>3
    <3> QED
      BY <1>9, <3>1 DEF NotAhead
  <2> QED
    BY <2>2, <2>3
<1> QED
  BY <1>5, <1>6, <1>7, <1>8, <1>9, PubSubQuiet

LEMMA DeliverInv ==
  ASSUME PubSubInv, NEW p \in Publisher, NEW s \in Sub, Deliver(p, s)
  PROVE  PubSubInv'
<1> DEFINE m == [from |-> p, n |-> pub[p].n]
           takes == ~sub[s].closed /\ Len(sub[s].buf) < ChanCap
<1>1. /\ pub \in [Publisher -> Publish] /\ s \in pub[p].todo
      /\ pub' = [pub EXCEPT ![p].todo = pub[p].todo \ {s}]
      /\ UNCHANGED <<subscribers, cancels, closing, handled>>
  BY DEF Deliver, PubSubInv, PubSubTypeOK
<1>2. /\ panicked' = (panicked \/ (~sub[s].closed /\ sub[s].chanClosed))
      /\ sub' = [sub EXCEPT ![s].buf = IF takes THEN Append(sub[s].buf, m) ELSE sub[s].buf]
  BY DEF Deliver, Send
<1>3. /\ \A q \in Publisher : pub'[q].n = pub[q].n
      /\ \A q \in Publisher : pub'[q].todo = IF q = p THEN pub[q].todo \ {s} ELSE pub[q].todo
      /\ pub' \in [Publisher -> Publish] /\ pub[p].n \in 0..MaxPub
  BY <1>1 DEF Publish
<1> \A q \in Publisher : (pub[q].todo # {} => pub[q].n > 0)'
  BY <1>3 DEF PubSubInv
<1>4. m \in Msg
  BY <1>1, <1>3 DEF Msg, PubSubInv
<1>5. NoPanic' /\ panicked' \in BOOLEAN
  BY <1>2, SubFields DEF PubSubInv, NoPanic
<1>6. sub \in [Sub -> Subscriber]
  BY DEF PubSubInv, PubSubTypeOK
<1>7. ASSUME NEW t \in Sub, NEW x \in Msg, NotAhead(pub, t, x) PROVE NotAhead(pub', t, x)
  BY <1>3, <1>7 DEF NotAhead, Msg
<1>8. CASE ~takes
  <2>1. sub' = sub
    BY <1>2, <1>6, <1>8 DEF Subscriber
  <2>2. PubSubTypeOK'
    BY <1>1, <1>3, <1>5, <2>1 DEF PubSubInv, PubSubTypeOK
  <2>3. \A t \in Sub : (closing[t] <= cancels[t])' /\ (Accepted(t))' = Accepted(t)
    BY <1>1, <2>1 DEF PubSubInv, Accepted
  <2>4. \A t \in Sub : (sub[t].chanClosed => sub[t].closed)' /\ (Returned(t) => sub[t].closed)'
    BY <1>1, <2>1 DEF PubSubInv, Returned
  <2> QED
    BY <1>5, <1>7, <2>2, <2>3, <2>4, PubSubQuiet
<1>9. CASE takes
  <2>1. /\ \A t \in Sub : /\ sub'[t].closed = sub[t].closed /\ sub'[t].chanClosed = sub[t].chanClosed
                         /\ sub'[t].buf = IF t = s THEN Append(sub[t].buf, m) ELSE sub[t].buf
      /\ sub' \in [Sub -> Subscriber]
    <3>1. sub' = [sub EXCEPT ![s].buf = Append(sub[s].buf, m)]
      BY <1>2, <1>9
    <3>2. Append(sub[s].buf, m) \in Seq(Msg)
      BY <1>4, SubFields
    <3> HIDE DEF m
    <3> QED
      BY <1>6, <3>1, <3>2 DEF Subscriber
  <2>2. Len(Append(sub[s].buf, m)) = Len(sub[s].buf) + 1 /\ Len(sub[s].buf) < ChanCap
    BY <1>4, <1>9, SubFields, AppendProperties
  <2> HIDE DEF m, takes
  <2>3. \A t \in Sub : Len(sub'[t].buf) <= ChanCap
    <3> SUFFICES ASSUME NEW t \in Sub PROVE Len(sub'[t].buf) <= ChanCap
      OBVIOUS
    <3>1. CASE t = s
      <4>1. Len(sub'[s].buf) = Len(sub[s].buf) + 1 /\ Len(sub[s].buf) \in Nat
        BY <2>1, <2>2, SubFields
      <4> QED
        BY <2>2, <3>1, <4>1, PubSubAssumption
    <3>2. CASE t # s
      BY <2>1, <3>2, SubFields
    <3> QED
      BY <3>1, <3>2
  <2>4. PubSubTypeOK'
    BY <1>1, <1>3, <1>5, <2>1, <2>3 DEF PubSubInv, PubSubTypeOK
  <2>5. \A t \in Sub \ {s} : (Accepted(t))' = Accepted(t)
    BY <1>1, <2>1 DEF Accepted
  <2>6. (Accepted(s))' = handled[s] \o Append(sub[s].buf, m)
    BY <1>1, <2>1 DEF Accepted
  <2> DEFINE old == Accepted(s)
             new == handled[s] \o Append(sub[s].buf, m)
  <2>7. /\ Len(new) = Len(old) + 1 /\ new[Len(old) + 1] = m /\ Len(old) \in Nat
        /\ \A i \in 1..Len(old) : new[i] = old[i] /\ old[i] \in Msg
    <3>1. old \in Seq(Msg)
      BY SubFields, ConcatProperties DEF Accepted
    <3>2. handled[s] \in Seq(Msg) /\ sub[s].buf \in Seq(Msg)
      BY SubFields
    <3>3. /\ Len(new) = Len(handled[s] \o sub[s].buf) + 1
          /\ new[Len(handled[s] \o sub[s].buf) + 1] = m
          /\ \A i \in 1..Len(handled[s] \o sub[s].buf) : new[i] = (handled[s] \o sub[s].buf)[i]
      <4> DEFINE a == handled[s]
                 b == sub[s].buf
      <4>1. a \in Seq(Msg) /\ b \in Seq(Msg) /\ m \in Msg
        BY <1>4, <3>2
      <4> HIDE DEF a, b
      <4>2. /\ Len(a \o Append(b, m)) = Len(a \o b) + 1
            /\ \A i \in 1..Len(a \o b) : (a \o Append(b, m))[i] = (a \o b)[i]
            /\ (a \o Append(b, m))[Len(a \o b) + 1] = m
        BY <4>1, AcceptAppends
      <4>3. new = a \o Append(b, m)
        BY Zenon DEF a, b
      <4>4. a \o b = handled[s] \o sub[s].buf
        BY DEF a, b
      <4> HIDE DEF new
      <4> QED
        BY <4>2, <4>3, <4>4, Zenon
    <3>4. Len(old) \in Nat /\ \A i \in 1..Len(old) : old[i] \in Msg
      BY <3>1, ElementOfSeq, LenProperties
    <3>5. old = handled[s] \o sub[s].buf
      BY DEF Accepted
    <3> HIDE DEF old, new
    <3> QED
      BY <3>3, <3>4, <3>5
  <2>8. /\ Ordered(old)
        /\ \A i \in 1..Len(old) : NotAhead(pub, s, old[i])
    BY DEF PubSubInv
  <2> HIDE DEF old, new
  <2>9. Ordered(new)
    <3> SUFFICES ASSUME NEW i \in 1..Len(new), NEW j \in 1..Len(new),
                        i < j, new[i].from = new[j].from
                 PROVE  new[i].n < new[j].n
      BY DEF Ordered
    <3>1. i \in 1..Len(old) /\ new[i] = old[i]
      BY <2>7
    <3>2. CASE j \in 1..Len(old)
      BY <2>7, <2>8, <3>1, <3>2 DEF Ordered
    <3>3. CASE j = Len(old) + 1
      <4>1. old[i].from = p /\ new[j].n = pub[p].n
        BY <2>7, <3>1, <3>3 DEF m
      <4>2. old[i].n < pub[p].n
        BY <1>1, <2>8, <3>1, <4>1 DEF NotAhead
      <4> QED
        BY <3>1, <4>1, <4>2
    <3> QED
      BY <2>7, <3>2, <3>3
  <2>10. ASSUME NEW i \in 1..Len(new) PROVE NotAhead(pub', s, new[i])
    <3>1. CASE i \in 1..Len(old)
      BY <1>7, <2>7, <2>8, <3>1
    <3>2. CASE i = Len(old) + 1
      <4>1. new[i] = m /\ m.from = p /\ m.n = pub[p].n
        BY <2>7, <3>2 DEF m
      <4>2. pub'[p].todo = pub[p].todo \ {s} /\ pub'[p].n = pub[p].n
        BY <1>3
      <4>3. pub[p].n \in Nat
        BY <1>3, PubSubAssumption
      <4> QED
        BY <4>1, <4>2, <4>3 DEF NotAhead
    <3> QED
      BY <2>7, <3>1, <3>2
  <2>11. ASSUME NEW t \in Sub
         PROVE  /\ Ordered((Accepted(t))')
                /\ \A i \in 1..Len((Accepted(t))') : NotAhead(pub', t, (Accepted(t))'[i])
    <3>1. CASE t = s
      BY <2>6, <2>9, <2>10, <3>1 DEF new
    <3>2. CASE t # s
      <4>1. (Accepted(t))' = Accepted(t)
        BY <2>5, <3>2
      <4>2. Accepted(t) \in Seq(Msg)
        BY SubFields, ConcatProperties DEF Accepted
      <4>3. \A i \in 1..Len(Accepted(t)) : Accepted(t)[i] \in Msg /\ NotAhead(pub, t, Accepted(t)[i])
        BY <4>2, ElementOfSeq DEF PubSubInv
      <4> QED
        BY <1>7, <4>1, <4>3 DEF PubSubInv
    <3> QED
      BY <3>1, <3>2
  <2>12. \A t \in Sub : (sub[t].chanClosed => sub[t].closed)' /\ (Returned(t) => sub[t].closed)'
    BY <1>1, <2>1 DEF PubSubInv, Returned
  <2>13. \A t \in Sub : (closing[t] <= cancels[t])'
    BY <1>1 DEF PubSubInv
  <2> QED
    BY <1>5, <2>4, <2>11, <2>12, <2>13 DEF PubSubInv, Ordered
<1> QED
  BY <1>8, <1>9

LEMMA CancelInv ==
  ASSUME PubSubInv, NEW s \in Sub, CancelDelete(s) \/ CancelClose(s)
  PROVE  PubSubInv'
<1>1. /\ sub \in [Sub -> Subscriber] /\ handled' = handled /\ pub' = pub
      /\ cancels \in [Sub -> 0..MaxCancel] /\ closing \in [Sub -> 0..MaxCancel]
      /\ \A t \in Sub : closing[t] <= cancels[t]
  BY DEF CancelDelete, CancelClose, PubSubInv, PubSubTypeOK
<1>2. \A q \in Publisher : (pub[q].todo # {} => pub[q].n > 0)'
  BY <1>1 DEF PubSubInv
<1>3. \A t \in Sub, m \in Msg : NotAhead(pub, t, m) => NotAhead(pub', t, m)
  BY <1>1
<1>4. CASE CancelDelete(s)
  <2>1. /\ cancels' = [cancels EXCEPT ![s] = cancels[s] + 1] /\ cancels[s] < MaxCancel
        /\ closing' = [closing EXCEPT ![s] = closing[s] + 1]
        /\ sub' = sub /\ panicked' = panicked
        /\ subscribers' = [t \in DOMAIN subscribers \ {s} |-> subscribers[t]]
    BY <1>4 DEF CancelDelete
  <2>2. /\ cancels' \in [Sub -> 0..MaxCancel] /\ closing' \in [Sub -> 0..MaxCancel]
        /\ \A t \in Sub : closing'[t] <= cancels'[t]
        /\ \A t \in Sub : cancels'[t] > closing'[t] => cancels[t] > closing[t]
    BY <1>1, <2>1, PubSubAssumption
  <2>3. PubSubTypeOK'
    BY <1>1, <2>1, <2>2 DEF PubSubInv, PubSubTypeOK
  <2>4. \A t \in Sub : (closing[t] <= cancels[t])' /\ (Accepted(t))' = Accepted(t)
    BY <1>1, <2>1, <2>2 DEF Accepted
  <2>5. \A t \in Sub : (sub[t].chanClosed => sub[t].closed)' /\ (Returned(t) => sub[t].closed)'
    BY <2>1, <2>2 DEF PubSubInv, Returned
  <2>6. NoPanic'
    BY <2>1 DEF PubSubInv, NoPanic
  <2> QED
    BY <1>2, <1>3, <2>3, <2>4, <2>5, <2>6, PubSubQuiet
<1>5. CASE CancelClose(s)
  <2>1. /\ closing[s] > 0 /\ closing' = [closing EXCEPT ![s] = closing[s] - 1]
        /\ cancels' = cancels /\ subscribers' = subscribers
        /\ sub' = [sub EXCEPT ![s].closed = TRUE, ![s].chanClosed = TRUE]
        /\ panicked' = (panicked \/ (~sub[s].closed /\ sub[s].chanClosed))
    BY <1>5 DEF CancelClose, Close
  <2>2. /\ closing' \in [Sub -> 0..MaxCancel] /\ \A t \in Sub : closing'[t] <= cancels'[t]
        /\ \A t \in Sub \ {s} : closing'[t] = closing[t]
    BY <1>1, <2>1, PubSubAssumption
  <2>3. sub' \in [Sub -> Subscriber] /\ \A t \in Sub : sub'[t].buf = sub[t].buf
    BY <1>1, <2>1 DEF Subscriber
  <2>4. (sub[s].closed)' /\ \A t \in Sub \ {s} : sub'[t] = sub[t]
    BY <1>1, <2>1 DEF Subscriber
  <2>5. NoPanic' /\ panicked' \in BOOLEAN
    BY <2>1, SubFields DEF PubSubInv, NoPanic
  <2>6. PubSubTypeOK'
    BY <1>1, <2>1, <2>2, <2>3, <2>5 DEF PubSubInv, PubSubTypeOK
  <2>7. \A t \in Sub : (closing[t] <= cancels[t])' /\ (Accepted(t))' = Accepted(t)
    BY <1>1, <2>2, <2>3 DEF Accepted
  <2>8. \A t \in Sub : (sub[t].chanClosed => sub[t].closed)' /\ (Returned(t) => sub[t].closed)'
    BY <2>1, <2>2, <2>4 DEF PubSubInv, Returned
  <2> QED
    BY <1>2, <1>3, <2>5, <2>6, <2>7, <2>8, PubSubQuiet
<1> QED
  BY <1>4, <1>5

LEMMA HandleInv ==
  ASSUME PubSubInv, NEW s \in Sub, Handle(s) \/ Exit(s)
  PROVE  PubSubInv'
<1>1. /\ sub \in [Sub -> Subscriber] /\ handled \in [Sub -> Seq(Msg)]
      /\ pub' = pub /\ cancels' = cancels /\ closing' = closing
      /\ subscribers' = subscribers /\ panicked' = panicked
  BY DEF Handle, Exit, PubSubInv, PubSubTypeOK
<1>2. /\ \A q \in Publisher : (pub[q].todo # {} => pub[q].n > 0)'
      /\ \A t \in Sub, m \in Msg : NotAhead(pub, t, m) => NotAhead(pub', t, m)
      /\ \A t \in Sub : (closing[t] <= cancels[t])'
      /\ NoPanic'
  BY <1>1 DEF PubSubInv, NoPanic
<1>3. CASE Handle(s)
  <2> DEFINE a == handled[s]
             b == sub[s].buf
  <2>1. /\ b # << >> /\ handled' = [handled EXCEPT ![s] = Append(a, Head(b))]
        /\ sub' = [sub EXCEPT ![s].buf = Tail(b)]
    BY <1>3 DEF Handle
  <2>2. a \in Seq(Msg) /\ b \in Seq(Msg) /\ Len(b) <= ChanCap
    BY SubFields
  <2>3. /\ Head(b) \in Msg /\ Tail(b) \in Seq(Msg) /\ Len(Tail(b)) <= ChanCap
        /\ Append(a, Head(b)) \in Seq(Msg)
    <3> HIDE DEF a, b
    <3>1. Head(b) \in Msg /\ Tail(b) \in Seq(Msg) /\ Len(Tail(b)) = Len(b) - 1 /\ Len(b) \in Nat
      BY <2>1, <2>2, HeadTailProperties, LenProperties
    <3> QED
      BY <2>2, <3>1, AppendProperties, PubSubAssumption
  <2>4. Append(a, Head(b)) \o Tail(b) = a \o b
    <3> HIDE DEF a, b
    <3> QED
      BY <2>1, <2>2, HandleKeeps
  <2>5. /\ handled'[s] = Append(a, Head(b)) /\ sub'[s].buf = Tail(b)
        /\ \A t \in Sub \ {s} : handled'[t] = handled[t] /\ sub'[t] = sub[t]
        /\ \A t \in Sub : sub'[t].closed = sub[t].closed /\ sub'[t].chanClosed = sub[t].chanClosed
    BY <1>1, <2>1 DEF Subscriber
  <2>6. handled' \in [Sub -> Seq(Msg)] /\ sub' \in [Sub -> Subscriber]
    <3> HIDE DEF a, b
    <3> QED
      BY <1>1, <2>1, <2>3 DEF Subscriber
  <2>7. \A t \in Sub : (Accepted(t))' = Accepted(t)
    <3> SUFFICES ASSUME NEW t \in Sub PROVE (Accepted(t))' = Accepted(t)
      OBVIOUS
    <3>1. CASE t = s
      <4>1. (Accepted(s))' = Append(a, Head(b)) \o Tail(b)
        BY <2>5 DEF Accepted
      <4> QED
        BY <2>4, <3>1, <4>1, Zenon DEF Accepted
    <3>2. CASE t # s
      BY <2>5, <3>2 DEF Accepted
    <3> QED
      BY <3>1, <3>2
  <2>8. \A t \in Sub : Len(sub'[t].buf) <= ChanCap
    <3> HIDE DEF a, b
    <3> QED
      BY <2>3, <2>5, SubFields
  <2>9. PubSubTypeOK'
    BY <1>1, <2>6, <2>8 DEF PubSubInv, PubSubTypeOK
  <2>10. \A t \in Sub : (sub[t].chanClosed => sub[t].closed)' /\ (Returned(t) => sub[t].closed)'
    BY <1>1, <2>5 DEF PubSubInv, Returned
  <2> QED
    BY <1>2, <2>7, <2>9, <2>10, PubSubQuiet
<1>4. CASE Exit(s)
  <2>1. sub' = [sub EXCEPT ![s].state = "exited"] /\ handled' = handled
    BY <1>4 DEF Exit
  <2>2. /\ sub' \in [Sub -> Subscriber]
        /\ \A t \in Sub : /\ sub'[t].buf = sub[t].buf /\ sub'[t].closed = sub[t].closed
                         /\ sub'[t].chanClosed = sub[t].chanClosed
    BY <1>1, <2>1 DEF Subscriber
  <2>3. \A t \in Sub : (Accepted(t))' = Accepted(t)
    BY <2>1, <2>2 DEF Accepted
  <2>4. PubSubTypeOK'
    BY <1>1, <2>1, <2>2 DEF PubSubInv, PubSubTypeOK
  <2>5. \A t \in Sub : (sub[t].chanClosed => sub[t].closed)' /\ (Returned(t) => sub[t].closed)'
    BY <1>1, <2>2 DEF PubSubInv, Returned
  <2> QED
    BY <1>2, <2>3, <2>4, <2>5, PubSubQuiet
<1> QED
  BY <1>3, <1>4

LEMMA PubSubNextInv == PubSubInv /\ [PubSubNext]_pubsubVars => PubSubInv'
<1> SUFFICES ASSUME PubSubInv, [PubSubNext]_pubsubVars PROVE PubSubInv'
  OBVIOUS
<1>1. CASE UNCHANGED pubsubVars
  BY <1>1 DEF pubsubVars, PubSubInv, PubSubTypeOK, NoPanic, Returned, Accepted
<1> QED
  BY <1>1, SubscribeInv, CollectInv, DeliverInv, CancelInv, HandleInv DEF PubSubNext

\* No send hits a closed channel, no channel is closed twice, and every handler
\* sees each publisher's messages in order and at most once, whatever publishes
\* and cancels race (pubsub.go 30-57, 98-138).
THEOREM PubSubDelivers == PubSubSpec => []DeliveryOK
<1>1. PubSubInv => DeliveryOK
  <2> SUFFICES ASSUME PubSubInv, NEW s \in Sub, NEW i \in 1..Len(handled[s]),
                      NEW j \in 1..Len(handled[s]), i < j, handled[s][i].from = handled[s][j].from
               PROVE  handled[s][i].n < handled[s][j].n
    BY DEF PubSubInv, DeliveryOK, PublisherOrder
  <2>1. handled[s] \in Seq(Msg) /\ sub[s].buf \in Seq(Msg)
    BY SubFields
  <2>2. /\ 1..Len(handled[s]) \subseteq 1..Len(Accepted(s))
        /\ \A k \in 1..Len(handled[s]) : Accepted(s)[k] = handled[s][k]
    <3> DEFINE a == handled[s]
               b == sub[s].buf
    <3>1. a \in Seq(Msg) /\ b \in Seq(Msg) /\ Accepted(s) = a \o b
      BY <2>1 DEF Accepted
    <3> HIDE DEF a, b
    <3>2. Len(a) \in Nat /\ Len(b) \in Nat /\ Len(a \o b) = Len(a) + Len(b)
      BY <3>1
    <3>3. \A k \in 1..Len(a) : (a \o b)[k] = a[k]
      BY <3>1
    <3>4. 1..Len(a) \subseteq 1..Len(a \o b)
      BY <3>2
    <3> QED
      BY <3>1, <3>3, <3>4 DEF a
  <2> QED
    BY <2>2 DEF PubSubInv, Ordered
<1> QED
  BY <1>1, PubSubInitInv, PubSubNextInv, PTL DEF PubSubSpec

\* Once a cancel has returned nothing enters the channel, even from a publish
\* that had collected the subscription before (pubsub.go 30-48, 81-96).
THEOREM PubSubCancelStops == PubSubSpec => NothingAfterCancel
<1>1. PubSubInv /\ [PubSubNext]_pubsubVars =>
        [\A s \in Sub : Returned(s) => Len(sub'[s].buf) <= Len(sub[s].buf)]_pubsubVars
  <2> SUFFICES ASSUME PubSubInv, PubSubNext, NEW s \in Sub, Returned(s)
               PROVE  Len(sub'[s].buf) <= Len(sub[s].buf)
    OBVIOUS
  <2>1. /\ sub \in [Sub -> Subscriber] /\ sub[s].closed /\ Len(sub[s].buf) \in Nat
        /\ sub[s].buf \in Seq(Msg)
    BY SubFields DEF PubSubInv, PubSubTypeOK
  <2>2. CASE sub'[s].buf = sub[s].buf
    BY <2>1, <2>2
  <2>3. ASSUME NEW t \in Sub, NEW pattern \in Pattern, Subscribe(t, pattern)
        PROVE  sub'[s].buf = sub[s].buf
    BY <2>1, <2>3 DEF Subscribe, Subscriber
  <2>4. ASSUME NEW p \in Publisher, NEW topic \in Topic, Collect(p, topic)
        PROVE  sub'[s].buf = sub[s].buf
    BY <2>4 DEF Collect
  <2>5. ASSUME NEW p \in Publisher, NEW t \in Sub, Deliver(p, t)
        PROVE  sub'[s].buf = sub[s].buf
    <3> DEFINE m == [from |-> p, n |-> pub[p].n]
    <3>1. sub' = [sub EXCEPT ![t].buf = IF ~sub[t].closed /\ Len(sub[t].buf) < ChanCap
                                        THEN Append(sub[t].buf, m) ELSE sub[t].buf]
      BY <2>5 DEF Deliver, Send
    <3> HIDE DEF m
    <3> QED
      BY <2>1, <3>1 DEF Subscriber
  <2>6. ASSUME NEW t \in Sub, CancelDelete(t) \/ CancelClose(t) \/ Exit(t)
        PROVE  sub'[s].buf = sub[s].buf
    <3>1. \/ sub' = sub \/ sub' = [sub EXCEPT ![t].state = "exited"]
          \/ sub' = [sub EXCEPT ![t].closed = TRUE, ![t].chanClosed = TRUE]
      BY <2>6 DEF CancelDelete, CancelClose, Close, Exit
    <3>2. CASE sub' = sub
      BY <3>2
    <3>3. CASE sub' = [sub EXCEPT ![t].state = "exited"]
      BY <2>1, <3>3 DEF Subscriber
    <3>4. CASE sub' = [sub EXCEPT ![t].closed = TRUE, ![t].chanClosed = TRUE]
      BY <2>1, <3>4 DEF Subscriber
    <3> QED
      BY <3>1, <3>2, <3>3, <3>4
  <2>7. ASSUME NEW t \in Sub, Handle(t) PROVE Len(sub'[s].buf) <= Len(sub[s].buf)
    <3>1. sub' = [sub EXCEPT ![t].buf = Tail(sub[t].buf)] /\ sub[t].buf # << >>
      BY <2>7 DEF Handle
    <3>2. CASE t = s
      <4> DEFINE b == sub[s].buf
      <4>1. sub'[s].buf = Tail(b) /\ b # << >> /\ b \in Seq(Msg) /\ Len(b) \in Nat
        BY <2>1, <3>1, <3>2 DEF Subscriber
      <4> HIDE DEF b
      <4>2. Len(Tail(b)) = Len(b) - 1
        BY <4>1, HeadTailProperties
      <4> QED
        BY <4>1, <4>2 DEF b
    <3>3. CASE t # s
      BY <2>1, <3>1, <3>3
    <3> QED
      BY <3>2, <3>3
  <2> QED
    BY <2>2, <2>3, <2>4, <2>5, <2>6, <2>7 DEF PubSubNext
<1> QED
  BY <1>1, PubSubInitInv, PubSubNextInv, PTL DEF PubSubSpec, NothingAfterCancel

----------------------------------------------------------------------------
(* Connections and presence *)

Made == {c \in Conn : phase[c] # "none"}

\* The id of a connection says when it was made.
IDsInv ==
  /\ counter = Cardinality(Made)
  /\ \A c \in Conn : connID[c] <= counter /\ (c \in Made => connID[c] > 0)
  /\ \A c, d \in Made : connID[c] = connID[d] => c = d

\* Every entry is one of a connection in its loops or just leaving, for a
\* channel it has subscribed to.
EntriesInv ==
  \A k \in DOMAIN present :
    /\ present[k] \in Conn /\ phase[present[k]] \in {"loops", "leaving"}
    /\ \E ch \in subs[present[k]] : k = PresenceKey(ch, connID[present[k]])

\* Every subscription of a connection in its loops has its entry, or had it.
CoveredInv ==
  \A c \in Conn : \A ch \in subs[c] : phase[c] = "loops" =>
    PresenceKey(ch, connID[c]) \in DOMAIN present \/ <<c, ch>> \in lapsed

ConnInv ==
  /\ ConnTypeOK /\ IDsInv /\ EntriesInv /\ CoveredInv
  /\ \A c \in Conn : phase[c] \in {"none", "hooks"} => subs[c] = {}

LEMMA KeyParts ==
  ASSUME NEW a, NEW i
  PROVE  PresenceKey(a, i)[1] = SanitizeChannel(a) /\ PresenceKey(a, i)[2] = i
BY DEF PresenceKey

LEMMA SharedIs ==
  ASSUME NEW c, NEW ch, NEW d, NEW o \in PresenceChannel
  PROVE  <<d, o>> \in SharedEntry(c, ch) <=> d = c /\ SanitizeChannel(o) = SanitizeChannel(ch)
BY DEF SharedEntry

LEMMA SharedType == \A c \in Conn : \A ch : SharedEntry(c, ch) \subseteq Conn \X PresenceChannel
BY DEF SharedEntry

LEMMA SameKeys ==
  ASSUME NEW a, NEW b, NEW i, SanitizeChannel(a) = SanitizeChannel(b)
  PROVE  PresenceKey(a, i) = PresenceKey(b, i)
BY DEF PresenceKey

\* Nobody else has the key of a connection that was made.
LEMMA KeyOwner ==
  ASSUME ConnInv, NEW c \in Conn, NEW d \in Conn, NEW a, NEW b,
         phase[c] # "none", phase[d] # "none",
         PresenceKey(a, connID[c]) = PresenceKey(b, connID[d])
  PROVE  SanitizeChannel(a) = SanitizeChannel(b) /\ c = d
<1>1. SanitizeChannel(a) = SanitizeChannel(b) /\ connID[c] = connID[d]
  BY KeyParts
<1> QED
  BY <1>1 DEF ConnInv, IDsInv, Made

LEMMA ConnInitInv == ConnInit => ConnInv
<1> SUFFICES ASSUME ConnInit PROVE ConnInv
  OBVIOUS
<1>1. Cardinality(Conn) \in Nat
  BY ConnAssumption, FS_CardinalityType
<1>2. /\ phase \in [Conn -> {"none", "hooks", "loops", "refused", "leaving", "closing", "gone"}]
      /\ sock \in [Conn -> {"open", "closed"}] /\ writer \in [Conn -> {"none", "running", "ended"}]
  BY DEF ConnInit
<1>3. /\ cancelled \in [Conn -> BOOLEAN] /\ alive \in [Conn -> BOOLEAN] /\ hubUp \in BOOLEAN
      /\ subs \in [Conn -> SUBSET PresenceChannel] /\ lapsed \subseteq Conn \X PresenceChannel
  BY DEF ConnInit
<1>4. connID \in [Conn -> 0..Cardinality(Conn)] /\ counter \in 0..Cardinality(Conn)
  BY <1>1 DEF ConnInit
<1>5. DOMAIN present = {}
  BY DEF ConnInit
<1>6. ConnTypeOK
  BY <1>2, <1>3, <1>4, <1>5 DEF ConnTypeOK
<1>7. Made = {} /\ \A c \in Conn : connID[c] = 0 /\ subs[c] = {}
  BY DEF ConnInit, Made
<1>8. IDsInv
  BY <1>7, FS_EmptySet DEF ConnInit, IDsInv
<1> QED
  BY <1>5, <1>6, <1>7, <1>8 DEF ConnInv, EntriesInv, CoveredInv

\* A step that leaves subscriptions and entries alone.
LEMMA ConnQuiet ==
  ASSUME ConnInv, ConnTypeOK', UNCHANGED <<connID, counter, subs, present, lapsed>>,
         \A c \in Conn : phase'[c] = "none" <=> phase[c] = "none",
         \A c \in Conn : phase'[c] = "loops" => phase[c] = "loops" \/ subs[c] = {},
         \A c \in Conn : phase[c] \in {"loops", "leaving"} => phase'[c] \in {"loops", "leaving"},
         \A c \in Conn : phase'[c] = "hooks" => subs[c] = {}
  PROVE  ConnInv'
<1>1. Made' = Made
  BY DEF Made
<1>2. IDsInv'
  BY <1>1 DEF ConnInv, IDsInv
<1>3. EntriesInv'
  BY DEF ConnInv, EntriesInv
<1>4. CoveredInv'
  BY DEF ConnInv, CoveredInv
<1> QED
  BY <1>2, <1>3, <1>4 DEF ConnInv

LEMMA AcceptInv ==
  ASSUME ConnInv, NEW c \in Conn, Accept(c)
  PROVE  ConnInv'
<1> USE DEF Accept
<1>1. /\ phase[c] = "none" /\ phase' = [phase EXCEPT ![c] = "hooks"]
      /\ counter' = counter + 1 /\ connID' = [connID EXCEPT ![c] = counter + 1]
      /\ subs' = subs /\ present' = present /\ lapsed' = lapsed
      /\ \A d \in Conn \ {c} : phase'[d] = phase[d] /\ connID'[d] = connID[d]
      /\ phase'[c] = "hooks" /\ connID'[c] = counter + 1
  BY DEF ConnInv, ConnTypeOK
<1>2. Made' = Made \cup {c} /\ c \notin Made /\ Made \subseteq Conn
  BY <1>1 DEF Made
<1>3. IsFiniteSet(Made) /\ Cardinality(Made') = Cardinality(Made) + 1 /\ Cardinality(Made) \in Nat
  BY <1>2, ConnAssumption, FS_Subset, FS_AddElement, FS_CardinalityType
<1>4. Cardinality(Made') <= Cardinality(Conn) /\ Cardinality(Conn) \in Nat
  <2>1. Made' \subseteq Conn
    BY <1>2
  <2> QED
    BY <2>1, ConnAssumption, FS_Subset, FS_CardinalityType
<1>5. counter = Cardinality(Made) /\ \A d \in Conn : connID[d] <= counter /\ connID[d] \in Nat
  BY DEF ConnInv, IDsInv, ConnTypeOK
<1>6. counter' \in 0..Cardinality(Conn)
  BY <1>1, <1>3, <1>4, <1>5
<1>7. connID' \in [Conn -> 0..Cardinality(Conn)]
  BY <1>1, <1>6 DEF ConnInv, ConnTypeOK
<1>8. ConnTypeOK'
  BY <1>6, <1>7 DEF ConnInv, ConnTypeOK
<1>9. IDsInv'
  <2>1. counter' = Cardinality(Made')
    BY <1>1, <1>3, <1>5
  <2>2. \A d \in Conn : connID'[d] <= counter' /\ (d \in Made' => connID'[d] > 0)
    BY <1>1, <1>2, <1>3, <1>5 DEF ConnInv, IDsInv
  <2>3. \A d, e \in Made' : connID'[d] = connID'[e] => d = e
    BY <1>1, <1>2, <1>3, <1>5 DEF ConnInv, IDsInv
  <2> QED
    BY <2>1, <2>2, <2>3 DEF IDsInv
<1>10. \A k \in DOMAIN present : present[k] # c
  BY <1>1 DEF ConnInv, EntriesInv
<1>11. EntriesInv'
  BY <1>1, <1>10 DEF ConnInv, EntriesInv
<1>12. CoveredInv'
  BY <1>1 DEF ConnInv, CoveredInv
<1> QED
  BY <1>1, <1>8, <1>9, <1>11, <1>12 DEF ConnInv

LEMMA SubscribeConnInv ==
  ASSUME ConnInv, NEW c \in Conn, NEW ch \in PresenceChannel, SubscribeConn(c, ch)
  PROVE  ConnInv'
<1> DEFINE key == PresenceKey(ch, connID[c])
<1>1. /\ phase[c] = "loops" /\ subs' = [subs EXCEPT ![c] = subs[c] \cup {ch}]
      /\ lapsed' = lapsed \ SharedEntry(c, ch) /\ phase' = phase /\ connID' = connID /\ counter' = counter
  BY DEF SubscribeConn
<1>2. /\ DOMAIN present' = DOMAIN present \cup {key}
      /\ \A k \in DOMAIN present' : present'[k] = IF k = key THEN c ELSE present[k]
  BY DEF SubscribeConn, With
<1>3. \A d \in Conn : subs'[d] = IF d = c THEN subs[d] \cup {ch} ELSE subs[d]
  BY <1>1 DEF ConnInv, ConnTypeOK
<1>4. subs' \in [Conn -> SUBSET PresenceChannel]
  BY <1>1 DEF ConnInv, ConnTypeOK
<1> HIDE DEF key
<1>5. ConnTypeOK'
  BY <1>1, <1>2, <1>4 DEF SubscribeConn, ConnInv, ConnTypeOK
<1>6. IDsInv'
  BY <1>1 DEF ConnInv, IDsInv, Made
<1>7. ASSUME NEW k \in DOMAIN present'
      PROVE  /\ present'[k] \in Conn /\ phase'[present'[k]] \in {"loops", "leaving"}
             /\ \E b \in subs'[present'[k]] : k = PresenceKey(b, connID'[present'[k]])
  <2>1. CASE k = key
    BY <1>1, <1>2, <1>3, <2>1 DEF key
  <2>2. CASE k # key
    <3>1. k \in DOMAIN present /\ present'[k] = present[k]
      BY <1>2, <2>2
    <3>2. /\ present[k] \in Conn /\ phase[present[k]] \in {"loops", "leaving"}
          /\ \E b \in subs[present[k]] : k = PresenceKey(b, connID[present[k]])
      BY <3>1 DEF ConnInv, EntriesInv
    <3> QED
      BY <1>1, <1>3, <3>1, <3>2
  <2> QED
    BY <2>1, <2>2
<1>8. EntriesInv'
  BY <1>7 DEF EntriesInv
<1>9. CoveredInv'
  <2> SUFFICES ASSUME NEW d \in Conn, NEW b \in subs'[d], phase'[d] = "loops"
               PROVE  PresenceKey(b, connID'[d]) \in DOMAIN present' \/ <<d, b>> \in lapsed'
    BY DEF CoveredInv
  <2>0. b \in PresenceChannel
    BY <1>4
  <2>1. CASE d = c /\ SanitizeChannel(b) = SanitizeChannel(ch)
    <3>1. PresenceKey(b, connID[c]) = key
      BY <2>1, SameKeys DEF key
    <3> QED
      BY <1>1, <1>2, <2>1, <3>1
  <2>2. CASE ~(d = c /\ SanitizeChannel(b) = SanitizeChannel(ch))
    <3>1. <<d, b>> \notin SharedEntry(c, ch)
      BY <2>0, <2>2, SharedIs
    <3>2. b \in subs[d]
      BY <1>3, <2>2
    <3> QED
      BY <1>1, <1>2, <3>1, <3>2 DEF ConnInv, CoveredInv
  <2> QED
    BY <2>1, <2>2
<1> QED
  BY <1>1, <1>3, <1>5, <1>6, <1>8, <1>9 DEF ConnInv

\* One entry goes, by Leave or by its time to live.
LEMMA EntryGoesInv ==
  ASSUME ConnInv, NEW c \in Conn, NEW ch \in PresenceChannel,
         UnsubscribeConn(c, ch) \/ PresenceExpires(c, ch)
  PROVE  ConnInv'
<1> DEFINE key == PresenceKey(ch, connID[c])
<1>1. /\ phase' = phase /\ connID' = connID /\ counter' = counter
      /\ phase[c] \in {"loops", "leaving"}
      /\ present' = [k \in DOMAIN present \ {key} |-> present[k]]
  <2>1. CASE UnsubscribeConn(c, ch)
    BY <2>1 DEF UnsubscribeConn, Without
  <2>2. CASE PresenceExpires(c, ch)
    <3>1. key \in DOMAIN present /\ present[key] = c
      BY <2>2 DEF PresenceExpires
    <3>2. phase[c] \in {"loops", "leaving"}
      BY <3>1 DEF ConnInv, EntriesInv
    <3> QED
      BY <2>2, <3>2 DEF PresenceExpires, Without
  <2> QED
    BY <2>1, <2>2
<1>2. /\ DOMAIN present' = DOMAIN present \ {key}
      /\ \A k \in DOMAIN present' : present'[k] = present[k]
  BY <1>1
<1>3. /\ \A d \in Conn \ {c} : subs'[d] = subs[d]
      /\ subs'[c] \in {subs[c], subs[c] \ {ch}}
      /\ subs' \in [Conn -> SUBSET PresenceChannel] /\ subs \in [Conn -> SUBSET PresenceChannel]
  BY DEF UnsubscribeConn, PresenceExpires, ConnInv, ConnTypeOK
<1>4. /\ lapsed' \subseteq Conn \X PresenceChannel
      /\ lapsed \ {<<c, ch>>} \subseteq lapsed'
      /\ \A o \in subs'[c] : <<c, o>> \in SharedEntry(c, ch) => <<c, o>> \in lapsed'
  <2>1. lapsed \subseteq Conn \X PresenceChannel /\ SharedEntry(c, ch) \subseteq Conn \X PresenceChannel
    BY SharedType DEF ConnInv, ConnTypeOK
  <2>2. CASE UnsubscribeConn(c, ch)
    <3>1. lapsed' = (lapsed \union SharedEntry(c, ch)) \ {<<c, ch>>} /\ ch \notin subs'[c]
      BY <1>3, <2>2 DEF UnsubscribeConn
    <3> QED
      BY <2>1, <3>1
  <2>3. CASE PresenceExpires(c, ch)
    <3>1. lapsed' = lapsed \union SharedEntry(c, ch)
      BY <2>3 DEF PresenceExpires
    <3> QED
      BY <2>1, <3>1
  <2> QED
    BY <2>2, <2>3
<1> HIDE DEF key
<1>5. ConnTypeOK'
  <2>1. UNCHANGED <<sock, writer, cancelled, alive, hubUp>>
    BY DEF UnsubscribeConn, PresenceExpires
  <2> QED
    BY <1>1, <1>2, <1>3, <1>4, <2>1 DEF ConnInv, ConnTypeOK
<1>6. IDsInv'
  BY <1>1 DEF ConnInv, IDsInv, Made
<1>7. ASSUME NEW k \in DOMAIN present'
      PROVE  /\ present'[k] \in Conn /\ phase'[present'[k]] \in {"loops", "leaving"}
             /\ \E b \in subs'[present'[k]] : k = PresenceKey(b, connID'[present'[k]])
  <2>1. k \in DOMAIN present /\ k # key /\ present'[k] = present[k]
    BY <1>2
  <2>2. /\ present[k] \in Conn /\ phase[present[k]] \in {"loops", "leaving"}
    BY <2>1 DEF ConnInv, EntriesInv
  <2>3. PICK b \in subs[present[k]] : k = PresenceKey(b, connID[present[k]])
    BY <2>1 DEF ConnInv, EntriesInv
  <2>4. b \in subs'[present[k]]
    <3>1. CASE present[k] = c
      <4>1. b # ch
        BY <2>1, <2>3, <3>1 DEF key
      <4> QED
        BY <1>3, <2>3, <3>1, <4>1
    <3>2. CASE present[k] # c
      BY <1>3, <2>2, <2>3, <3>2
    <3> QED
      BY <3>1, <3>2
  <2> QED
    BY <1>1, <2>1, <2>2, <2>3, <2>4
<1>8. EntriesInv'
  BY <1>7 DEF EntriesInv
<1>9. CoveredInv'
  <2> SUFFICES ASSUME NEW d \in Conn, NEW b \in subs'[d], phase'[d] = "loops"
               PROVE  PresenceKey(b, connID'[d]) \in DOMAIN present' \/ <<d, b>> \in lapsed'
    BY DEF CoveredInv
  <2>0. b \in PresenceChannel
    BY <1>3
  <2>1. CASE d = c /\ SanitizeChannel(b) = SanitizeChannel(ch)
    <3>1. <<c, b>> \in SharedEntry(c, ch)
      BY <2>0, <2>1, SharedIs
    <3> QED
      BY <1>4, <2>1, <3>1
  <2>2. CASE ~(d = c /\ SanitizeChannel(b) = SanitizeChannel(ch))
    <3>1. b \in subs[d] /\ b \in PresenceChannel /\ phase[d] = "loops"
      BY <1>1, <1>3
    <3>2. PresenceKey(b, connID[d]) # key
      BY <1>1, <2>2, <3>1, KeyOwner DEF key
    <3>3. PresenceKey(b, connID[d]) \in DOMAIN present \/ <<d, b>> \in lapsed
      BY <3>1 DEF ConnInv, CoveredInv
    <3>4. <<d, b>> # <<c, ch>>
      BY <2>2
    <3> QED
      BY <1>1, <1>2, <1>4, <3>2, <3>3, <3>4
  <2> QED
    BY <2>1, <2>2
<1> QED
  BY <1>1, <1>3, <1>5, <1>6, <1>8, <1>9 DEF ConnInv

LEMMA LeaveAllInv ==
  ASSUME ConnInv, NEW c \in Conn, LeaveAll(c)
  PROVE  ConnInv'
<1> DEFINE mine == {k \in DOMAIN present : k[2] = connID[c]}
<1>1. /\ phase[c] = "leaving" /\ phase' = [phase EXCEPT ![c] = "closing"]
      /\ present' = [k \in DOMAIN present \ mine |-> present[k]]
      /\ UNCHANGED <<sock, writer, cancelled, alive, connID, counter, subs, lapsed, hubUp>>
  BY DEF LeaveAll, Without
<1>2. /\ DOMAIN present' = DOMAIN present \ mine
      /\ \A k \in DOMAIN present' : present'[k] = present[k]
  BY <1>1
<1>3. phase'[c] = "closing" /\ \A d \in Conn \ {c} : phase'[d] = phase[d]
  BY <1>1 DEF ConnInv, ConnTypeOK
<1>4. ConnTypeOK'
  BY <1>1, <1>2 DEF ConnInv, ConnTypeOK
<1>5. IDsInv'
  <2>1. Made' = Made
    BY <1>1, <1>3 DEF Made
  <2> QED
    BY <1>1, <2>1 DEF ConnInv, IDsInv
<1>6. \A k \in DOMAIN present \ mine : present[k] # c
  BY KeyParts DEF ConnInv, EntriesInv
<1>7. EntriesInv'
  BY <1>1, <1>2, <1>3, <1>6 DEF ConnInv, EntriesInv
<1>8. CoveredInv'
  <2> SUFFICES ASSUME NEW d \in Conn, NEW b \in subs'[d], phase'[d] = "loops"
               PROVE  PresenceKey(b, connID'[d]) \in DOMAIN present' \/ <<d, b>> \in lapsed'
    BY DEF CoveredInv
  <2>1. d # c /\ phase[d] = "loops" /\ connID[d] # connID[c]
    BY <1>1, <1>3 DEF ConnInv, IDsInv, Made
  <2>2. PresenceKey(b, connID[d]) \notin mine
    BY <2>1, KeyParts
  <2> QED
    BY <1>1, <1>2, <2>1, <2>2 DEF ConnInv, CoveredInv
<1> QED
  BY <1>1, <1>3, <1>4, <1>5, <1>7, <1>8 DEF ConnInv

LEMMA ConnNextInv == ConnInv /\ [ConnNext]_connVars => ConnInv'
<1> SUFFICES ASSUME ConnInv, [ConnNext]_connVars PROVE ConnInv'
  OBVIOUS
<1>0. ConnTypeOK /\ \A c \in Conn : phase[c] \in {"none", "hooks"} => subs[c] = {}
  BY DEF ConnInv
<1>1. ASSUME NEW c \in Conn, StartLoops(c) \/ HookFails(c) \/ ReadFails(c) \/ ReaderEnds(c)
      PROVE  ConnInv'
  <2>1. \E p \in {<<"hooks", "loops">>, <<"hooks", "refused">>, <<"loops", "leaving">>, <<"closing", "gone">>} :
          phase[c] = p[1] /\ phase' = [phase EXCEPT ![c] = p[2]]
    BY <1>1 DEF StartLoops, HookFails, ReadFails, ReaderEnds
  <2>2. UNCHANGED <<connID, counter, subs, present, lapsed>>
    BY <1>1 DEF StartLoops, HookFails, ReadFails, ReaderEnds
  <2>3. ConnTypeOK'
    BY <1>0, <1>1 DEF StartLoops, HookFails, ReadFails, ReaderEnds, ConnTypeOK
  <2>4. \A d \in Conn \ {c} : phase'[d] = phase[d]
    BY <1>0, <2>1 DEF ConnTypeOK
  <2>5. \/ phase[c] = "hooks" /\ phase'[c] \in {"loops", "refused"}
        \/ phase[c] = "loops" /\ phase'[c] = "leaving"
        \/ phase[c] = "closing" /\ phase'[c] = "gone"
    BY <1>0, <2>1 DEF ConnTypeOK
  <2> QED
    BY <1>0, <2>2, <2>3, <2>4, <2>5, ConnQuiet
<1>2. ASSUME NEW c \in Conn, WriterEnds(c) \/ ClientGoes(c) PROVE ConnInv'
  <2>1. UNCHANGED <<phase, connID, counter, subs, present, lapsed>>
    BY <1>2 DEF WriterEnds, ClientGoes
  <2>2. ConnTypeOK'
    BY <1>0, <1>2 DEF WriterEnds, ClientGoes, ConnTypeOK
  <2> QED
    BY <1>0, <2>1, <2>2, ConnQuiet
<1>3. CASE Shutdown
  <2>1. UNCHANGED <<phase, connID, counter, subs, present, lapsed>>
    BY <1>3 DEF Shutdown
  <2>2. cancelled' \in [Conn -> BOOLEAN] /\ hubUp' \in BOOLEAN
    BY <1>3 DEF Shutdown, Registered
  <2>3. ConnTypeOK'
    BY <1>0, <1>3, <2>2 DEF Shutdown, ConnTypeOK
  <2> QED
    BY <1>0, <2>1, <2>3, ConnQuiet
<1>4. CASE UNCHANGED connVars
  BY <1>0, <1>4, ConnQuiet DEF connVars, ConnTypeOK
<1> QED
  BY <1>1, <1>2, <1>3, <1>4, AcceptInv, SubscribeConnInv, EntryGoesInv, LeaveAllInv
     DEF ConnNext, ConnLoops

\* The members Presence lists for a channel are the connections subscribed to it,
\* or to another channel of its key, but for those just leaving and those whose
\* entry ran out or went with a channel of the same key (hub.go 141-196,
\* presence.go 60-131), for any number of connections and any channel names.
THEOREM PresenceAgrees == ConnSpec => []PresenceOK
<1>1. ConnInv => PresenceOK
  <2> SUFFICES ASSUME ConnInv, NEW ch \in PresenceChannel
               PROVE  /\ \A m \in Members(ch) :
                           /\ phase[m] \in {"loops", "leaving"}
                           /\ \E other \in subs[m] : SanitizeChannel(other) = SanitizeChannel(ch)
                      /\ \A c \in Conn : ch \in subs[c] /\ phase[c] = "loops" =>
                           c \in Members(ch) \/ <<c, ch>> \in lapsed
    BY DEF ConnInv, PresenceOK, PresenceExact
  <2>1. ASSUME NEW m \in Members(ch)
        PROVE  /\ phase[m] \in {"loops", "leaving"}
               /\ \E other \in subs[m] : SanitizeChannel(other) = SanitizeChannel(ch)
    <3>1. PICK k \in DOMAIN present : k[1] = SanitizeChannel(ch) /\ m = present[k]
      BY <2>1 DEF Members
    <3>2. m \in Conn /\ phase[m] \in {"loops", "leaving"}
      BY <3>1 DEF ConnInv, EntriesInv
    <3>3. PICK b \in subs[m] : k = PresenceKey(b, connID[m])
      BY <3>1 DEF ConnInv, EntriesInv
    <3>4. b \in PresenceChannel /\ SanitizeChannel(b) = SanitizeChannel(ch)
      BY <3>1, <3>2, <3>3, KeyParts DEF ConnInv, ConnTypeOK
    <3> QED
      BY <3>2, <3>3, <3>4
  <2>2. ASSUME NEW c \in Conn, ch \in subs[c], phase[c] = "loops", <<c, ch>> \notin lapsed
        PROVE  c \in Members(ch)
    <3> DEFINE key == PresenceKey(ch, connID[c])
    <3>1. key \in DOMAIN present
      BY <2>2 DEF ConnInv, CoveredInv
    <3>2. /\ present[key] \in Conn /\ phase[present[key]] \in {"loops", "leaving"}
          /\ \E b \in subs[present[key]] : key = PresenceKey(b, connID[present[key]])
      BY <3>1 DEF ConnInv, EntriesInv
    <3>3. subs[present[key]] \subseteq PresenceChannel
      BY <3>2 DEF ConnInv, ConnTypeOK
    <3>4. present[key] = c
      BY <2>2, <3>2, <3>3, KeyOwner
    <3> QED
      BY <3>1, <3>4, KeyParts DEF Members
  <2> QED
    BY <2>1, <2>2
<1>2. ConnInv /\ [ConnNext]_connVars => ConnInv'
  BY ConnNextInv
<1> QED
  BY <1>1, <1>2, ConnInitInv, PTL DEF ConnSpec

----------------------------------------------------------------------------
(* The client's subscriptions *)

Frame == {"subscribe", "unsubscribe", "send"}

\* Reading the frame decides whether the server has the connection subscribed.
Decides(f) == f # "send" \/ ~hasHandler

\* Once the server has read w it has the connection subscribed, or not, as b says:
\* the last frame that decides it does, or the present state if none is left.
EndsAs(w, now, b) ==
  /\ \A i \in 1..Len(w) : Decides(w[i]) /\ (\A j \in 1..Len(w) : j > i => ~Decides(w[j]))
       => (w[i] # "unsubscribe" <=> b)
  /\ (\A i \in 1..Len(w) : ~Decides(w[i])) => (now <=> b)

\* The program listens on the channel.
Listens == registry # NoHandle /\ obj[registry].types

\* Without misuse the registered object is the one not left, and its flag and
\* its listeners agree.
ObjectsInv ==
  \A h \in ChannelObj :
    /\ obj[h].state = "made" <=> registry = h
    /\ obj[h].active => obj[h].types
    /\ obj[h].types <=> obj[h].subscribed
    /\ obj[h].types => obj[h].state = "made"

SockInv ==
  /\ SockTypeOK /\ ClosedForGood
  /\ ~misused => ObjectsInv
  /\ ~misused /\ ws = "open" => EndsAs(wire, serverSub, Listens)

\* A frame that decides, sent last.
LEMMA EndsAsDecided ==
  ASSUME NEW w \in Seq(Frame), NEW f \in Frame, NEW now \in BOOLEAN, NEW b \in BOOLEAN,
         Decides(f), f # "unsubscribe" <=> b
  PROVE  EndsAs(Append(w, f), now, b)
<1> DEFINE u == Append(w, f)
<1>1. /\ Len(u) = Len(w) + 1 /\ u[Len(w) + 1] = f /\ Len(w) \in Nat
  BY AppendProperties
<1> HIDE DEF u
<1>2. ASSUME NEW i \in 1..Len(u), \A j \in 1..Len(u) : j > i => ~Decides(u[j]) PROVE i = Len(w) + 1
  <2>1. ~(Len(w) + 1 > i)
    BY <1>1, <1>2
  <2> QED
    BY <1>1, <2>1
<1>3. ~\A i \in 1..Len(u) : ~Decides(u[i])
  BY <1>1
<1>4. EndsAs(u, now, b)
  BY <1>1, <1>2, <1>3 DEF EndsAs
<1> QED
  BY <1>4 DEF u

\* A frame that does not.
LEMMA EndsAsKept ==
  ASSUME NEW w \in Seq(Frame), NEW f \in Frame, NEW now \in BOOLEAN, NEW b \in BOOLEAN,
         ~Decides(f), EndsAs(w, now, b)
  PROVE  EndsAs(Append(w, f), now, b)
<1> DEFINE u == Append(w, f)
<1>1. /\ Len(u) = Len(w) + 1 /\ u[Len(w) + 1] = f /\ Len(w) \in Nat
      /\ \A i \in 1..Len(w) : u[i] = w[i]
  BY AppendProperties
<1> HIDE DEF u
<1>2. \A i \in 1..Len(u) : Decides(u[i]) => i \in 1..Len(w) /\ u[i] = w[i]
  BY <1>1
<1>3. ASSUME NEW i \in 1..Len(u), Decides(u[i]), \A j \in 1..Len(u) : j > i => ~Decides(u[j])
      PROVE  u[i] # "unsubscribe" <=> b
  <2>1. i \in 1..Len(w) /\ u[i] = w[i] /\ \A j \in 1..Len(w) : j > i => ~Decides(w[j])
    BY <1>1, <1>2, <1>3
  <2> QED
    BY <1>3, <2>1 DEF EndsAs
<1>4. (\A i \in 1..Len(u) : ~Decides(u[i])) => \A i \in 1..Len(w) : ~Decides(w[i])
  BY <1>1
<1>5. EndsAs(u, now, b)
  BY <1>3, <1>4 DEF EndsAs
<1> QED
  BY <1>5 DEF u

\* The server reads a frame.
LEMMA EndsAsRead ==
  ASSUME NEW w \in Seq(Frame), w # << >>, NEW now \in BOOLEAN, NEW b \in BOOLEAN,
         EndsAs(w, now, b),
         NEW next \in BOOLEAN, next <=> IF Decides(Head(w)) THEN Head(w) # "unsubscribe" ELSE now
  PROVE  EndsAs(Tail(w), next, b)
<1> DEFINE u == Tail(w)
<1>1. /\ Len(u) = Len(w) - 1 /\ Head(w) = w[1] /\ Len(w) \in Nat /\ Len(w) > 0
      /\ \A i \in 1..Len(u) : u[i] = w[i + 1]
  BY HeadTailProperties, EmptySeq
<1> HIDE DEF u
<1>2. \A j \in 1..Len(w) : j > 1 => j - 1 \in 1..Len(u) /\ w[j] = u[j - 1]
  BY <1>1
<1>3. ASSUME NEW i \in 1..Len(u), Decides(u[i]), \A j \in 1..Len(u) : j > i => ~Decides(u[j])
      PROVE  u[i] # "unsubscribe" <=> b
  <2>1. i + 1 \in 1..Len(w) /\ u[i] = w[i + 1]
    BY <1>1
  <2>2. \A j \in 1..Len(w) : j > i + 1 => ~Decides(w[j])
    <3> SUFFICES ASSUME NEW j \in 1..Len(w), j > i + 1 PROVE ~Decides(w[j])
      OBVIOUS
    <3>1. j - 1 \in 1..Len(u) /\ w[j] = u[j - 1] /\ j - 1 > i
      BY <1>1, <1>2
    <3> QED
      BY <1>3, <3>1
  <2> QED
    BY <1>3, <2>1, <2>2 DEF EndsAs
<1>4. ASSUME \A i \in 1..Len(u) : ~Decides(u[i]) PROVE next <=> b
  <2>1. \A j \in 1..Len(w) : j > 1 => ~Decides(w[j])
    BY <1>2, <1>4
  <2>2. 1 \in 1..Len(w)
    BY <1>1
  <2>3. CASE Decides(w[1])
    BY <1>1, <2>1, <2>2, <2>3 DEF EndsAs
  <2>4. CASE ~Decides(w[1])
    <3>1. \A j \in 1..Len(w) : ~Decides(w[j])
      <4> SUFFICES ASSUME NEW j \in 1..Len(w) PROVE ~Decides(w[j])
        OBVIOUS
      <4>1. j = 1 \/ j > 1
        BY <1>1
      <4> QED
        BY <2>1, <2>4, <4>1
    <3> QED
      BY <1>1, <2>4, <3>1 DEF EndsAs
  <2> QED
    BY <2>3, <2>4
<1>5. EndsAs(u, next, b)
  BY <1>3, <1>4 DEF EndsAs
<1> QED
  BY <1>5 DEF u

LEMMA SockInitInv == SockInit => SockInv
<1> SUFFICES ASSUME SockInit PROVE SockInv
  OBVIOUS
<1>1. \A h \in ChannelObj :
        obj[h] = [state |-> "none", types |-> FALSE, active |-> FALSE, subscribed |-> FALSE]
  BY DEF SockInit, NotMade, NewChannel
<1>2. obj \in [ChannelObj -> [state : {"none", "made", "left"}, types : BOOLEAN,
                             active : BOOLEAN, subscribed : BOOLEAN]]
  <2>1. NotMade \in [state : {"none", "made", "left"}, types : BOOLEAN,
                     active : BOOLEAN, subscribed : BOOLEAN]
    BY DEF NotMade, NewChannel
  <2> QED
    BY <2>1 DEF SockInit
<1>3. {timer, beat, byUser, serverSub, hasHandler, misused} \subseteq BOOLEAN
  BY DEF SockInit
<1>4. wire \in Seq({"subscribe", "unsubscribe", "send"})
  BY DEF SockInit
<1>5. uses \in 0..MaxUses /\ losses \in 0..MaxLosses
  BY ClientAssumption DEF SockInit
<1>6. SockTypeOK
  BY <1>2, <1>3, <1>4, <1>5 DEF SockInit, SockTypeOK
<1>7. ClosedForGood
  BY DEF SockInit, ClosedForGood
<1>8. ObjectsInv
  <2>1. \A h \in ChannelObj : registry # h
    BY ClientAssumption DEF SockInit, NoHandle
  <2> QED
    BY <1>1, <2>1 DEF ObjectsInv
<1> QED
  BY <1>6, <1>7, <1>8 DEF SockInit, SockInv

\* What a call of the program on one object may do.
ProgramCall(h) == GetChannel(h) \/ On(h) \/ Off(h) \/ ChannelSend(h) \/ Leave(h)

LEMMA SentType ==
  ASSUME SockTypeOK
  PROVE  /\ wire \in Seq(Frame)
         /\ \A frames \in Seq(Frame) : Sent(frames) \in Seq(Frame)
         /\ \A h \in ChannelObj, frames \in Seq(Frame) : Ensure(h, frames) \in Seq(Frame)
<1>1. wire \in Seq(Frame)
  BY DEF SockTypeOK, Frame
<1>2. \A frames \in Seq(Frame) : Sent(frames) \in Seq(Frame)
  BY <1>1, ConcatProperties DEF Sent
<1>3. \A frames \in Seq(Frame) : <<"subscribe">> \o frames \in Seq(Frame)
  <2>1. <<"subscribe">> \in Seq(Frame)
    BY DEF Frame
  <2> QED
    BY <2>1, ConcatProperties
<1> QED
  BY <1>1, <1>2, <1>3 DEF Ensure

LEMMA CallTypes ==
  ASSUME SockTypeOK, NEW h \in ChannelObj, ProgramCall(h)
  PROVE  /\ obj' \in [ChannelObj -> [state : {"none", "made", "left"}, types : BOOLEAN,
                                    active : BOOLEAN, subscribed : BOOLEAN]]
         /\ registry' \in ChannelObj \cup {NoHandle}
         /\ wire' \in Seq(Frame) /\ misused' \in BOOLEAN
         /\ UNCHANGED <<ws, beat, byUser, serverSub>>
<1>0. /\ obj \in [ChannelObj -> [state : {"none", "made", "left"}, types : BOOLEAN,
                                 active : BOOLEAN, subscribed : BOOLEAN]]
      /\ registry \in ChannelObj \cup {NoHandle}
      /\ misused \in BOOLEAN /\ wire \in Seq(Frame)
  BY DEF SockTypeOK, Frame
<1>1. << >> \in Seq(Frame) /\ <<"send">> \in Seq(Frame) /\ <<"unsubscribe">> \in Seq(Frame)
  BY DEF Frame
<1>2. CASE GetChannel(h)
  BY <1>0, <1>2 DEF GetChannel, NewChannel
<1>3. CASE On(h)
  <2>1. wire' \in Seq(Frame)
    BY <1>1, <1>3, SentType DEF On
  <2>2. misused' \in BOOLEAN
    BY <1>0, <1>3 DEF On
  <2> QED
    BY <1>0, <1>3, <2>1, <2>2 DEF On
<1>4. CASE Off(h)
  BY <1>0, <1>4 DEF Off
<1>5. CASE ChannelSend(h)
  <2>1. wire' \in Seq(Frame)
    BY <1>1, <1>5, SentType DEF ChannelSend
  <2>2. misused' \in BOOLEAN
    BY <1>0, <1>5 DEF ChannelSend
  <2> QED
    BY <1>0, <1>5, <2>1, <2>2 DEF ChannelSend
<1>6. CASE Leave(h)
  <2>1. wire' \in Seq(Frame)
    BY <1>0, <1>1, <1>6, SentType DEF Leave
  <2>2. misused' \in BOOLEAN
    BY <1>0, <1>6 DEF Leave
  <2>3. [NewChannel EXCEPT !.state = "left"] \in
          [state : {"none", "made", "left"}, types : BOOLEAN, active : BOOLEAN, subscribed : BOOLEAN]
    BY DEF NewChannel
  <2>4. obj' \in [ChannelObj -> [state : {"none", "made", "left"}, types : BOOLEAN,
                                active : BOOLEAN, subscribed : BOOLEAN]]
    BY <1>0, <1>6, <2>3 DEF Leave
  <2> QED
    BY <1>6, <2>1, <2>2, <2>4 DEF Leave, Dropped
<1> QED
  BY <1>2, <1>3, <1>4, <1>5, <1>6 DEF ProgramCall

\* The steps of the client: a call on an object, close, or a callback.
LEMMA SockSteps ==
  ASSUME SockNext
  PROVE  \/ \E h \in ChannelObj : Use(ProgramCall(h))
         \/ Use(CloseSocket) \/ OnOpen \/ OnClose \/ TimerFires \/ ServerReads
<1>1. ASSUME NEW h \in ChannelObj,
             Use(GetChannel(h)) \/ Use(On(h)) \/ Use(Off(h)) \/ Use(ChannelSend(h)) \/ Use(Leave(h))
      PROVE  Use(ProgramCall(h))
  BY <1>1 DEF Use, ProgramCall
<1> QED
  BY <1>1 DEF SockNext

LEMMA SockTypeNext ==
  ASSUME SockTypeOK, SockNext
  PROVE  SockTypeOK'
<1>0. uses \in 0..MaxUses /\ losses \in 0..MaxLosses /\ MaxUses \in Nat /\ MaxLosses \in Nat
  BY ClientAssumption DEF SockTypeOK
<1>1. ASSUME NEW h \in ChannelObj, Use(ProgramCall(h)) PROVE SockTypeOK'
  <2>1. uses' \in 0..MaxUses /\ UNCHANGED <<hasHandler, losses, timer>> /\ ProgramCall(h)
    BY <1>0, <1>1 DEF Use
  <2>2. {timer, beat, byUser, serverSub, hasHandler, misused}' \subseteq BOOLEAN
    BY <2>1, CallTypes DEF SockTypeOK
  <2>3. ws' = ws
    BY <2>1, CallTypes
  <2> QED
    BY <2>1, <2>2, <2>3, CallTypes DEF SockTypeOK, Frame
<1>2. CASE Use(CloseSocket)
  <2>1. uses' \in 0..MaxUses /\ UNCHANGED <<hasHandler, losses, timer>> /\ CloseSocket
    BY <1>0, <1>2 DEF Use
  <2> QED
    BY <2>1 DEF SockTypeOK, CloseSocket, StopHeartbeat
<1>3. CASE OnOpen
  <2>1. wire' \in Seq(Frame)
    <3>1. << >> \in Seq(Frame) /\ <<"subscribe">> \in Seq(Frame)
      BY DEF Frame
    <3> QED
      BY <1>3, <3>1 DEF OnOpen
  <2>2. obj' \in [ChannelObj -> [state : {"none", "made", "left"}, types : BOOLEAN,
                                active : BOOLEAN, subscribed : BOOLEAN]]
    BY <1>3 DEF OnOpen, SockTypeOK
  <2> QED
    BY <1>3, <2>1, <2>2 DEF OnOpen, StartHeartbeat, SockTypeOK, Frame
<1>4. CASE OnClose
  <2>1. losses' \in 0..MaxLosses
    BY <1>0, <1>4 DEF OnClose
  <2>2. timer' \in BOOLEAN /\ serverSub' \in BOOLEAN /\ beat' \in BOOLEAN
    BY <1>4 DEF OnClose, StopHeartbeat
  <2>3. wire' \in Seq(Frame)
    BY <1>4 DEF OnClose
  <2>4. {timer, beat, byUser, serverSub, hasHandler, misused}' \subseteq BOOLEAN
    BY <1>4, <2>2 DEF OnClose, SockTypeOK
  <2> QED
    BY <1>4, <2>1, <2>3, <2>4 DEF OnClose, SockTypeOK, Frame
<1>5. CASE TimerFires
  BY <1>5 DEF TimerFires, SockTypeOK
<1>6. CASE ServerReads
  <2>1. wire \in Seq(Frame) /\ wire # << >> /\ Head(wire) \in Frame /\ wire' \in Seq(Frame)
    BY <1>6, SentType, HeadTailProperties DEF ServerReads
  <2>2. serverSub \in BOOLEAN /\ hasHandler \in BOOLEAN
    BY DEF SockTypeOK
  <2>3. serverSub' \in BOOLEAN
    BY <1>6, <2>1, <2>2 DEF ServerReads, Frame
  <2> QED
    BY <1>6, <2>1, <2>3 DEF ServerReads, SockTypeOK, Frame
<1> QED
  BY <1>1, <1>2, <1>3, <1>4, <1>5, <1>6, SockSteps

LEMMA SockClosedNext ==
  ASSUME SockTypeOK, ClosedForGood, SockNext
  PROVE  ClosedForGood'
<1>1. ASSUME NEW h \in ChannelObj, Use(ProgramCall(h)) PROVE ClosedForGood'
  <2>1. UNCHANGED <<timer, ws, beat, byUser>>
    BY <1>1, CallTypes DEF Use
  <2> QED
    BY <2>1 DEF ClosedForGood
<1>2. CASE Use(CloseSocket)
  BY <1>2 DEF Use, CloseSocket, StopHeartbeat, ClosedForGood
<1>3. CASE OnOpen
  BY <1>3 DEF OnOpen, StartHeartbeat, ClosedForGood
<1>4. CASE OnClose
  BY <1>4 DEF OnClose, StopHeartbeat, ClosedForGood
<1>5. CASE TimerFires
  BY <1>5 DEF TimerFires, ClosedForGood
<1>6. CASE ServerReads
  BY <1>6 DEF ServerReads, ClosedForGood
<1> QED
  BY <1>1, <1>2, <1>3, <1>4, <1>5, <1>6, SockSteps

\* A call on an object is one on the registered object, unless it is a misuse.
LEMMA CallObjects ==
  ASSUME SockTypeOK, ~misused => ObjectsInv, NEW h \in ChannelObj, ProgramCall(h), ~misused'
  PROVE  /\ ~misused /\ ObjectsInv /\ ObjectsInv'
         /\ On(h) \/ ChannelSend(h) \/ Leave(h) => registry = h
<1>0. /\ obj \in [ChannelObj -> [state : {"none", "made", "left"}, types : BOOLEAN,
                                 active : BOOLEAN, subscribed : BOOLEAN]]
      /\ h # NoHandle
  BY ClientAssumption DEF SockTypeOK, NoHandle
<1>1. ~misused /\ ObjectsInv
  <2>1. CASE GetChannel(h) \/ Off(h)
    BY <2>1 DEF GetChannel, Off
  <2>2. CASE On(h)
    BY <2>2 DEF On
  <2>3. CASE ChannelSend(h)
    BY <2>3 DEF ChannelSend
  <2>4. CASE Leave(h)
    BY <2>4 DEF Leave
  <2> QED
    BY <2>1, <2>2, <2>3, <2>4 DEF ProgramCall
<1>2. CASE GetChannel(h)
  <2>1. /\ registry = NoHandle /\ obj[h].state = "none" /\ registry' = h
        /\ obj' = [obj EXCEPT ![h] = NewChannel]
    BY <1>2 DEF GetChannel
  <2>2. /\ obj'[h] = [state |-> "made", types |-> FALSE, active |-> FALSE, subscribed |-> FALSE]
        /\ \A g \in ChannelObj \ {h} : obj'[g] = obj[g]
    BY <1>0, <2>1 DEF NewChannel
  <2>3. \A g \in ChannelObj : registry # g
    BY <2>1, ClientAssumption DEF NoHandle
  <2>4. ObjectsInv'
    BY <1>1, <2>1, <2>2, <2>3 DEF ObjectsInv
  <2>5. ~(On(h) \/ ChannelSend(h) \/ Leave(h))
    BY <2>1 DEF On, ChannelSend, Leave
  <2> QED
    BY <1>1, <2>4, <2>5
<1>3. CASE On(h)
  <2>1. /\ obj[h].state = "made" /\ registry' = registry
        /\ obj' = [obj EXCEPT ![h].types = TRUE, ![h].active = TRUE, ![h].subscribed = TRUE]
    BY <1>0, <1>3 DEF On
  <2>2. /\ obj'[h].state = "made" /\ obj'[h].types /\ obj'[h].active /\ obj'[h].subscribed
        /\ \A g \in ChannelObj \ {h} : obj'[g] = obj[g]
    BY <1>0, <2>1
  <2> QED
    BY <1>1, <2>1, <2>2 DEF ObjectsInv
<1>4. CASE Off(h)
  <2>1. obj[h].active /\ registry' = registry /\ obj' = [obj EXCEPT ![h].active = FALSE]
    BY <1>4 DEF Off
  <2>2. /\ obj'[h].state = obj[h].state /\ (obj'[h].types <=> obj[h].types)
        /\ (obj'[h].subscribed <=> obj[h].subscribed) /\ ~obj'[h].active
        /\ \A g \in ChannelObj \ {h} : obj'[g] = obj[g]
    BY <1>0, <2>1
  <2>3. obj[h].types /\ obj[h].state = "made" /\ registry = h
    BY <1>1, <2>1 DEF ObjectsInv
  <2> QED
    BY <1>1, <2>1, <2>2, <2>3 DEF ObjectsInv
<1>5. CASE ChannelSend(h)
  <2>1. /\ obj[h].state = "made" /\ obj[h].types /\ registry' = registry
        /\ obj' = [obj EXCEPT ![h].subscribed = TRUE]
    BY <1>0, <1>5 DEF ChannelSend
  <2>2. /\ obj'[h].state = "made" /\ obj'[h].types /\ obj'[h].subscribed
        /\ \A g \in ChannelObj \ {h} : obj'[g] = obj[g]
    BY <1>0, <2>1
  <2> QED
    BY <1>1, <2>1, <2>2 DEF ObjectsInv
<1>6. CASE Leave(h)
  <2>1. /\ obj[h].state = "made" /\ registry' = NoHandle
        /\ obj' = [obj EXCEPT ![h] = [NewChannel EXCEPT !.state = "left"]]
    BY <1>0, <1>6 DEF Leave, Dropped
  <2>2. /\ obj'[h] = [NewChannel EXCEPT !.state = "left"]
        /\ \A g \in ChannelObj \ {h} : obj'[g] = obj[g]
    BY <1>0, <2>1
  <2>3. obj'[h].state = "left" /\ ~obj'[h].types /\ ~obj'[h].active /\ ~obj'[h].subscribed
    BY <2>2 DEF NewChannel
  <2>4. registry = h /\ \A g \in ChannelObj : registry' # g
    BY <1>1, <2>1, ClientAssumption DEF ObjectsInv, NoHandle
  <2> QED
    BY <1>1, <2>1, <2>2, <2>3, <2>4 DEF ObjectsInv
<1> QED
  BY <1>2, <1>3, <1>4, <1>5, <1>6 DEF ProgramCall

LEMMA SockObjectsNext ==
  ASSUME SockTypeOK, ~misused => ObjectsInv, SockNext, ~misused'
  PROVE  ObjectsInv'
<1>1. ASSUME NEW h \in ChannelObj, Use(ProgramCall(h)) PROVE ObjectsInv'
  BY <1>1, CallObjects DEF Use
<1>2. CASE Use(CloseSocket) \/ OnClose \/ TimerFires \/ ServerReads
  <2>1. misused' = misused /\ obj' = obj /\ registry' = registry
    BY <1>2 DEF Use, CloseSocket, OnClose, TimerFires, ServerReads
  <2> QED
    BY <2>1 DEF ObjectsInv
<1>3. CASE OnOpen
  <2>1. misused' = misused /\ registry' = registry /\ ObjectsInv
    BY <1>3 DEF OnOpen
  <2>2. CASE obj' = obj
    BY <2>1, <2>2 DEF ObjectsInv
  <2>3. CASE obj' # obj
    <3>1. /\ registry \in ChannelObj /\ obj[registry].types
          /\ obj' = [obj EXCEPT ![registry].subscribed = TRUE]
      BY <1>3, <2>3 DEF OnOpen, Resubscribes, SockTypeOK
    <3>2. /\ obj'[registry].state = obj[registry].state /\ obj'[registry].types
          /\ obj'[registry].subscribed /\ \A g \in ChannelObj \ {registry} : obj'[g] = obj[g]
      BY <3>1 DEF SockTypeOK
    <3> QED
      BY <2>1, <3>1, <3>2 DEF ObjectsInv
  <2> QED
    BY <2>2, <2>3
<1> QED
  BY <1>1, <1>2, <1>3, SockSteps

LEMMA SentFrames ==
  ASSUME SockTypeOK, ws = "open"
  PROVE  /\ Sent(<< >>) = wire
         /\ \A f \in Frame : Sent(<<f>>) = Append(wire, f)
         /\ Sent(<<"subscribe">> \o << >>) = Append(wire, "subscribe")
<1>1. wire \in Seq(Frame)
  BY SentType
<1>2. wire \o << >> = wire
  BY <1>1, ConcatEmptySeq
<1>3. \A f \in Frame : wire \o <<f>> = Append(wire, f)
  BY <1>1, AppendIsConcat
<1>4. <<"subscribe">> \o << >> = <<"subscribe">>
  <2>1. <<"subscribe">> \in Seq(Frame)
    BY DEF Frame
  <2> QED
    BY <2>1, ConcatEmptySeq
<1>5. "subscribe" \in Frame
  BY DEF Frame
<1> QED
  BY <1>2, <1>3, <1>4, <1>5 DEF Sent

\* Nothing but the frames on the wire stands between client and server.
LEMMA SockEndsNext ==
  ASSUME SockInv, SockNext, SockTypeOK', ~misused', ws' = "open"
  PROVE  (EndsAs(wire, serverSub, Listens))'
<1>0. /\ SockTypeOK /\ ClosedForGood /\ (~misused => ObjectsInv)
      /\ ~misused /\ ws = "open" => EndsAs(wire, serverSub, Listens)
      /\ wire \in Seq(Frame) /\ serverSub \in BOOLEAN /\ hasHandler \in BOOLEAN
  BY SentType DEF SockInv, SockTypeOK
<1>1. hasHandler' = hasHandler
  BY SockSteps DEF Use, OnOpen, OnClose, TimerFires, ServerReads
<1> SUFFICES EndsAs(wire', serverSub', Listens')
  BY <1>1 DEF EndsAs, Decides
<1>2. ASSUME NEW h \in ChannelObj, Use(ProgramCall(h)) PROVE EndsAs(wire', serverSub', Listens')
  <2>1. /\ ProgramCall(h) /\ ws = "open" /\ ~misused /\ serverSub' = serverSub
        /\ ObjectsInv /\ ObjectsInv'
        /\ (On(h) \/ ChannelSend(h) \/ Leave(h) => registry = h)
    BY <1>0, <1>2, CallTypes, CallObjects DEF Use
  <2>2. EndsAs(wire, serverSub, Listens)
    BY <1>0, <2>1
  <2>3. Listens \in BOOLEAN
    BY <1>0 DEF Listens, SockTypeOK
  <2>4. h # NoHandle
    BY ClientAssumption DEF NoHandle
  <2>5. obj \in [ChannelObj -> [state : {"none", "made", "left"}, types : BOOLEAN,
                               active : BOOLEAN, subscribed : BOOLEAN]]
    BY <1>0 DEF SockTypeOK
  <2>6. CASE GetChannel(h)
    <3>1. wire' = wire /\ registry = NoHandle /\ registry' = h /\ obj' = [obj EXCEPT ![h] = NewChannel]
      BY <2>6 DEF GetChannel
    <3>2. Listens = FALSE /\ Listens' = FALSE
      BY <2>4, <2>5, <3>1 DEF Listens, NewChannel
    <3> QED
      BY <2>1, <2>2, <3>1, <3>2
  <2>7. CASE Off(h)
    <3>1. wire' = wire /\ registry' = registry /\ obj' = [obj EXCEPT ![h].active = FALSE]
      BY <2>7 DEF Off
    <3>2. \A g \in ChannelObj : obj'[g].types = obj[g].types
      BY <2>5, <3>1
    <3>3. Listens' = Listens
      BY <1>0, <3>1, <3>2 DEF Listens, SockTypeOK
    <3> QED
      BY <2>1, <2>2, <3>1, <3>3
  <2>8. CASE On(h)
    <3>1. /\ wire' = Ensure(h, << >>) /\ registry' = h /\ registry = h
          /\ obj' = [obj EXCEPT ![h].types = TRUE, ![h].active = TRUE, ![h].subscribed = TRUE]
      BY <2>1, <2>8 DEF On
    <3>2. Listens' = TRUE
      BY <2>4, <2>5, <3>1 DEF Listens
    <3>3. CASE obj[h].subscribed
      <4>1. wire' = wire
        BY <1>0, <2>1, <3>1, <3>3, SentFrames DEF Ensure
      <4>2. Listens = TRUE
        BY <2>1, <2>3, <2>4, <3>1, <3>3 DEF Listens, ObjectsInv
      <4> QED
        BY <2>1, <2>2, <3>2, <4>1, <4>2
    <3>4. CASE ~obj[h].subscribed
      <4>1. wire' = Append(wire, "subscribe")
        BY <1>0, <2>1, <3>1, <3>4, SentFrames DEF Ensure
      <4>2. Decides("subscribe") /\ "subscribe" \in Frame
        BY DEF Decides, Frame
      <4> QED
        BY <1>0, <2>1, <3>2, <4>1, <4>2, EndsAsDecided
    <3> QED
      BY <3>3, <3>4
  <2>9. CASE ChannelSend(h)
    <3>1. /\ wire' = Ensure(h, <<"send">>) /\ registry' = h /\ registry = h /\ obj[h].types
          /\ obj' = [obj EXCEPT ![h].subscribed = TRUE]
      BY <2>1, <2>9 DEF ChannelSend
    <3>2. Listens = TRUE /\ Listens' = TRUE
      BY <2>3, <2>4, <2>5, <3>1 DEF Listens
    <3>3. "send" \in Frame /\ Sent(<<"send">>) = Append(wire, "send")
      BY <1>0, <2>1, SentFrames DEF Frame
    <3>4. wire' = Append(wire, "send")
      BY <2>1, <3>1, <3>3 DEF Ensure, ObjectsInv
    <3>5. CASE Decides("send")
      BY <1>0, <2>1, <3>2, <3>3, <3>4, <3>5, EndsAsDecided
    <3>6. CASE ~Decides("send")
      BY <1>0, <2>1, <2>2, <3>2, <3>3, <3>4, <3>6, EndsAsKept
    <3> QED
      BY <3>5, <3>6
  <2>10. CASE Leave(h)
    <3>1. /\ wire' = IF obj[h].subscribed THEN Sent(<<"unsubscribe">>) ELSE wire
          /\ registry' = NoHandle /\ registry = h
      BY <2>1, <2>10 DEF Leave, Dropped
    <3>2. Listens' = FALSE
      BY <3>1 DEF Listens
    <3>3. CASE obj[h].subscribed
      <4>1. Decides("unsubscribe") /\ "unsubscribe" \in Frame
        BY DEF Decides, Frame
      <4>2. wire' = Append(wire, "unsubscribe")
        BY <1>0, <2>1, <3>1, <3>3, <4>1, SentFrames
      <4> QED
        BY <1>0, <2>1, <3>2, <4>1, <4>2, EndsAsDecided
    <3>4. CASE ~obj[h].subscribed
      <4>1. wire' = wire
        BY <3>1, <3>4
      <4>2. Listens = FALSE
        BY <2>1, <3>1, <3>4 DEF Listens, ObjectsInv
      <4> QED
        BY <2>1, <2>2, <3>2, <4>1, <4>2
    <3> QED
      BY <3>3, <3>4
  <2> QED
    BY <2>1, <2>6, <2>7, <2>8, <2>9, <2>10 DEF ProgramCall
<1>3. CASE Use(CloseSocket) \/ OnClose \/ TimerFires
  BY <1>0, <1>3 DEF Use, CloseSocket, OnClose, TimerFires, ClosedForGood
<1>4. CASE OnOpen
  <2>1. /\ serverSub' = FALSE /\ registry' = registry
        /\ wire' = IF Listens THEN <<"subscribe">> ELSE << >>
        /\ obj' = IF Listens THEN [obj EXCEPT ![registry].subscribed = TRUE] ELSE obj
    BY <1>4 DEF OnOpen, Resubscribes, Listens
  <2>2. Listens' = Listens /\ Listens \in BOOLEAN
    BY <1>0, <2>1 DEF Listens, SockTypeOK
  <2>3. CASE Listens
    <3>1. wire' = Append(<< >>, "subscribe") /\ << >> \in Seq(Frame)
      BY <2>1, <2>3
    <3>2. Decides("subscribe") /\ "subscribe" \in Frame
      BY DEF Decides, Frame
    <3>3. EndsAs(Append(<< >>, "subscribe"), FALSE, TRUE)
      BY <3>1, <3>2, EndsAsDecided
    <3>4. Listens' = TRUE
      BY <2>2, <2>3
    <3> QED
      BY <2>1, <3>1, <3>3, <3>4
  <2>4. CASE ~Listens
    <3>1. Len(wire') = 0 /\ ~Listens' /\ ~serverSub'
      BY <2>1, <2>2, <2>4
    <3> QED
      BY <3>1 DEF EndsAs
  <2> QED
    BY <2>3, <2>4
<1>5. CASE ServerReads
  <2>1. /\ wire # << >> /\ wire' = Tail(wire) /\ ws = "open" /\ ~misused
        /\ registry' = registry /\ obj' = obj
        /\ serverSub' = CASE Head(wire) = "subscribe" -> TRUE
                          [] Head(wire) = "unsubscribe" -> FALSE
                          [] Head(wire) = "send" -> serverSub \/ ~hasHandler
    BY <1>5 DEF ServerReads
  <2>2. Listens' = Listens /\ Listens \in BOOLEAN /\ serverSub' \in BOOLEAN
    BY <1>0, <2>1 DEF Listens, SockTypeOK
  <2>3. Head(wire) \in Frame
    BY <1>0, <2>1, HeadTailProperties
  <2>4. serverSub' <=> IF Decides(Head(wire)) THEN Head(wire) # "unsubscribe" ELSE serverSub
    <3>1. CASE Head(wire) = "subscribe"
      BY <2>1, <3>1 DEF Decides
    <3>2. CASE Head(wire) = "unsubscribe"
      BY <2>1, <3>2 DEF Decides
    <3>3. CASE Head(wire) = "send"
      BY <1>0, <2>1, <3>3 DEF Decides
    <3> QED
      BY <2>3, <3>1, <3>2, <3>3 DEF Frame
  <2>5. EndsAs(wire, serverSub, Listens)
    BY <1>0, <2>1
  <2>6. EndsAs(Tail(wire), serverSub', Listens)
    BY <1>0, <2>1, <2>2, <2>4, <2>5, EndsAsRead
  <2> QED
    BY <2>1, <2>2, <2>6
<1> QED
  BY <1>2, <1>3, <1>4, <1>5, SockSteps

LEMMA SockNextInv == SockInv /\ [SockNext]_sockVars => SockInv'
<1> SUFFICES ASSUME SockInv, [SockNext]_sockVars PROVE SockInv'
  OBVIOUS
<1>1. CASE SockNext
  BY <1>1, SockTypeNext, SockClosedNext, SockObjectsNext, SockEndsNext DEF SockInv
<1>2. CASE UNCHANGED sockVars
  <2>1. Listens' = Listens /\ ObjectsInv' = ObjectsInv
    BY <1>2 DEF sockVars, Listens, ObjectsInv
  <2>2. (EndsAs(wire, serverSub, Listens))' <=> EndsAs(wire, serverSub, Listens)
    BY <1>2, <2>1 DEF sockVars, EndsAs, Decides
  <2> QED
    BY <1>2, <2>1, <2>2 DEF sockVars, SockInv, SockTypeOK, ClosedForGood
<1> QED
  BY <1>1, <1>2

\* Once the server has read what was sent, it has the connection subscribed if
\* and only if the program listens, and every listening object hears it; there
\* is at most one connection, and close() is for good (oni-socket.ts 88-136,
\* 177-253).
THEOREM ClientServerAgree == SockSpec => []ClientAgrees
<1>1. SockInv => ClientAgrees
  <2> SUFFICES ASSUME SockInv, ws = "open", wire = << >>, ~misused
               PROVE  /\ serverSub <=> registry # NoHandle /\ obj[registry].types
                      /\ \A h \in ChannelObj : obj[h].active => Hears(h)
    BY DEF SockInv, ClientAgrees, SubscriptionsAgree
  <2>1. ObjectsInv /\ EndsAs(wire, serverSub, Listens)
    BY DEF SockInv
  <2>2. Len(wire) = 0
    OBVIOUS
  <2>3. serverSub <=> Listens
    BY <2>1, <2>2 DEF EndsAs
  <2>4. ASSUME NEW h \in ChannelObj, obj[h].active PROVE Hears(h)
    <3>1. registry = h /\ obj[h].types
      BY <2>1, <2>4 DEF ObjectsInv
    <3>2. h # NoHandle
      BY ClientAssumption DEF NoHandle
    <3> QED
      BY <2>3, <2>4, <3>1, <3>2 DEF Hears, Listens
  <2> QED
    BY <2>3, <2>4 DEF Listens
<1> QED
  BY <1>1, SockInitInv, SockNextInv, PTL DEF SockSpec
=============================================================================
