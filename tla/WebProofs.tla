----------------------------- MODULE WebProofs -----------------------------
(***************************************************************************)
(* Proofs about the web layer: the service container and the start of an   *)
(* application (AppContainer), sessions and logins (SessionAuth), the rate *)
(* limiter (RateLimit), roles and permissions (Roles), one answer under    *)
(* the middlewares (AnswerChain) and the router (HTTPRouting).  Each part  *)
(* has its own inductive invariant.                                        *)
(***************************************************************************)
EXTENDS AppContainer, SessionAuth, RateLimit, Roles, AnswerChain, HTTPRouting, SequenceTheorems,
        FiniteSetTheorems, WellFoundedInduction, TLAPS

---------------------------------------------------------------------------
(* The container and the application.  A shared instance that a goroutine  *)
(* was given is the one that is stored now: nothing replaces a stored      *)
(* instance but Instance and Flush, which start the reference again.  What *)
(* has booted, followed by what Boot still ranges over, is a beginning of  *)
(* the registered providers.                                               *)

MakeState ==
  {NoMake}
    \union [pc : {"named"}, service : Service]
    \union [pc : {"build"}, service : Service, single : BOOLEAN]
    \union [pc : {"store"}, service : Service, inst : Inst]
BindingKind == {"none", "transient", "singleton"}
BootState == [phase : {"no", "running", "done"}, todo : Seq(Service)]

ContTypes ==
  /\ binding \in [Service -> BindingKind]
  /\ instances \in [Service -> Inst \union {NoInst}]
  /\ make \in [Maker -> MakeState]
  /\ built \in Nat
  /\ given \in [Service -> SUBSET Inst]
  /\ providers \in Seq(Service) /\ booted \in Seq(Service)
  /\ boot \in BootState
  /\ binds \in Nat

SharedIs(giv, inst) ==
  \A s \in Service : giv[s] = {} \/ (inst[s] # NoInst /\ giv[s] = {inst[s]})

\* done and then rest are the first elements of all.
Begins(done, rest, all) ==
  /\ Len(done) + Len(rest) <= Len(all)
  /\ \A i \in 1..Len(done) : done[i] = all[i]
  /\ \A i \in 1..Len(rest) : rest[i] = all[Len(done) + i]

BootInv(bt, bd, prov) ==
  /\ bt.phase = "no" => bd = <<>>
  /\ bt.phase = "running" => Begins(bd, bt.todo, prov)
  /\ Begins(bd, <<>>, prov)

BoundInv(n, prov, b) == n = 0 => \A i \in 1..Len(prov) : b[prov[i]] # "none"

ContInv ==
  /\ ContTypes
  /\ SharedIs(given, instances)
  /\ BootInv(boot, booted, providers)
  /\ BoundInv(binds, providers, binding)

LEMMA BeginsPrefix ==
  ASSUME NEW done \in Seq(Service), NEW rest \in Seq(Service), NEW all \in Seq(Service),
         Begins(done, rest, all)
  PROVE  IsPrefix(done \o rest, all)
<1> DEFINE both == done \o rest
<1>1. /\ both \in Seq(Service) /\ Len(both) = Len(done) + Len(rest)
      /\ \A i \in 1..Len(done) : both[i] = done[i]
      /\ \A i \in Len(done)+1..Len(both) : both[i] = rest[i - Len(done)]
  BY ConcatProperties
<1>2. Len(both) <= Len(all) /\ Len(both) \in Nat /\ Len(all) \in Nat
  BY <1>1 DEF Begins
<1>3. \A i \in 1..Len(both) : both[i] = all[i]
  <2> SUFFICES ASSUME NEW i \in 1..Len(both) PROVE both[i] = all[i]
    OBVIOUS
  <2>1. CASE i \in 1..Len(done)
    BY <2>1, <1>1 DEF Begins
  <2>2. CASE i \notin 1..Len(done)
    <3>1. i \in Len(done)+1..Len(both) /\ i - Len(done) \in 1..Len(rest)
      BY <2>2, <1>1, <1>2
    <3>2. rest[i - Len(done)] = all[Len(done) + (i - Len(done))]
      BY <3>1 DEF Begins
    <3> QED BY <3>1, <3>2, <1>1, <1>2
  <2> QED BY <2>1, <2>2
<1> HIDE DEF both
<1>4. SubSeq(both, 1, Len(both)) = SubSeq(all, 1, Len(both))
  <2>1. /\ SubSeq(both, 1, Len(both)) \in Seq(Service)
        /\ Len(SubSeq(both, 1, Len(both))) = Len(both)
        /\ \A i \in 1..Len(both) : SubSeq(both, 1, Len(both))[i] = both[i]
    BY <1>1, <1>2, SubSeqProperties
  <2>2. /\ SubSeq(all, 1, Len(both)) \in Seq(Service)
        /\ Len(SubSeq(all, 1, Len(both))) = Len(both)
        /\ \A i \in 1..Len(both) : SubSeq(all, 1, Len(both))[i] = all[i]
    BY <1>1, <1>2, SubSeqProperties
  <2> QED BY <2>1, <2>2, <1>3, SeqEqual
<1> QED BY <1>2, <1>4 DEF IsPrefix, both

LEMMA BeginsNext ==
  ASSUME NEW done \in Seq(Service), NEW rest \in Seq(Service), NEW all \in Seq(Service),
         Begins(done, rest, all), rest # <<>>
  PROVE  /\ Begins(Append(done, Head(rest)), Tail(rest), all)
         /\ Begins(Append(done, Head(rest)), <<>>, all)
<1> DEFINE d == Append(done, Head(rest))
           t == Tail(rest)
<1>1. /\ Head(rest) \in Service /\ Head(rest) = rest[1] /\ Len(rest) \in Nat /\ Len(rest) >= 1
      /\ t \in Seq(Service) /\ Len(t) = Len(rest) - 1
      /\ \A i \in 1..Len(t) : t[i] = rest[i + 1]
  BY HeadTailProperties
<1>2. /\ d \in Seq(Service) /\ Len(d) = Len(done) + 1
      /\ \A i \in 1..Len(done) : d[i] = done[i]
      /\ d[Len(done) + 1] = rest[1]
  BY <1>1, AppendProperties
<1>3. Len(done) \in Nat /\ Len(all) \in Nat
  OBVIOUS
<1> HIDE DEF d, t
<1>4. Len(d) + Len(t) <= Len(all) /\ Len(d) + Len(<<>>) <= Len(all)
  BY <1>1, <1>2, <1>3 DEF Begins
<1>5. \A i \in 1..Len(d) : d[i] = all[i]
  <2>1. d[Len(done) + 1] = all[Len(done) + 1]
    BY <1>1, <1>2 DEF Begins
  <2>2. \A i \in 1..Len(done) : d[i] = all[i]
    BY <1>2 DEF Begins
  <2>3. \A i \in 1..Len(d) : i \in 1..Len(done) \/ i = Len(done) + 1
    BY <1>2, <1>3
  <2> QED BY <2>1, <2>2, <2>3
<1>6. ASSUME NEW i \in 1..Len(t) PROVE t[i] = all[Len(d) + i]
  <2>1. t[i] = rest[i + 1] /\ i + 1 \in 1..Len(rest)
    BY <1>1
  <2>2. rest[i + 1] = all[Len(done) + (i + 1)]
    BY <2>1 DEF Begins
  <2>3. Len(done) + (i + 1) = Len(d) + i
    BY <1>2, <1>3
  <2> QED BY <2>1, <2>2, <2>3
<1> QED BY <1>4, <1>5, <1>6 DEF Begins, d, t

LEMMA ContInvSuffices == ContInv => ContainerExact
<1> SUFFICES ASSUME ContInv PROVE ContainerExact
  OBVIOUS
<1>1. OneInstance
  <2> SUFFICES ASSUME NEW s \in Service PROVE Cardinality(given[s]) <= 1
    BY DEF OneInstance
  <2>1. CASE given[s] = {}
    <3>1. Cardinality(given[s]) = 0
      BY <2>1, FS_EmptySet, Zenon
    <3> QED BY <3>1
  <2>2. CASE given[s] = {instances[s]}
    <3>1. Cardinality(given[s]) = 1
      BY <2>2, FS_Singleton, Zenon
    <3> QED BY <3>1
  <2> QED BY <2>1, <2>2 DEF ContInv, SharedIs
<1>2. IsPrefix(booted, providers)
  <2>1. IsPrefix(booted \o <<>>, providers)
    <3>1. /\ booted \in Seq(Service) /\ providers \in Seq(Service) /\ <<>> \in Seq(Service)
          /\ Begins(booted, <<>>, providers)
      BY DEF ContInv, ContTypes, BootInv
    <3> QED BY <3>1, BeginsPrefix
  <2>2. booted \o <<>> = booted
    BY ConcatEmptySeq DEF ContInv, ContTypes
  <2> QED BY <2>1, <2>2
<1>3. boot.phase = "running" => IsPrefix(booted \o boot.todo, providers)
  BY BeginsPrefix DEF ContInv, ContTypes, BootInv, BootState
<1>4. boot.phase = "running" /\ binds = 0 => \A p \in ToSet(providers) : binding[p] # "none"
  BY DEF ContInv, ContTypes, BoundInv, ToSet
<1> QED BY <1>1, <1>2, <1>3, <1>4 DEF ContainerExact, BootsOnceInOrder

LEMMA ContInit_Inv == ContInit => ContInv
<1> SUFFICES ASSUME ContInit PROVE ContInv
  OBVIOUS
<1>1. ContTypes
  BY DEF ContInit, ContTypes, BindingKind, MakeState, BootState, NoInst
<1>2. SharedIs(given, instances)
  BY DEF ContInit, SharedIs
<1>3. BootInv(boot, booted, providers)
  BY DEF ContInit, BootInv, Begins
<1>4. BoundInv(binds, providers, binding)
  BY DEF ContInit, BoundInv
<1> QED BY <1>1, <1>2, <1>3, <1>4 DEF ContInv

LEMMA Bind_Inv ==
  ASSUME ContInv, NEW s \in Service, NEW kind \in {"transient", "singleton"}, Rebinds(Bind(s, kind))
  PROVE  ContInv'
<1>1. ContTypes'
  BY DEF ContInv, ContTypes, Rebinds, Bind, BindingKind
<1>2. SharedIs(given, instances)' /\ BootInv(boot, booted, providers)'
  BY DEF ContInv, Rebinds, Bind
<1>3. BoundInv(binds, providers, binding)'
  BY DEF ContInv, ContTypes, Rebinds, BoundInv
<1> QED BY <1>1, <1>2, <1>3 DEF ContInv

LEMMA Instance_Inv ==
  ASSUME ContainerAssumption, ContInv, NEW s \in Service, Rebinds(Instance(s))
  PROVE  ContInv'
<1>1. ContTypes'
  <2>1. built + 1 \in Inst
    BY DEF ContInv, ContTypes, Rebinds, Instance, Inst, ContainerAssumption
  <2> QED BY <2>1 DEF ContInv, ContTypes, Rebinds, Instance, BindingKind
<1>2. SharedIs(given, instances)'
  BY DEF ContInv, ContTypes, Rebinds, Instance, SharedIs
<1>3. BootInv(boot, booted, providers)'
  BY DEF ContInv, Rebinds, Instance
<1>4. BoundInv(binds, providers, binding)'
  BY DEF ContInv, ContTypes, Rebinds, BoundInv
<1> QED BY <1>1, <1>2, <1>3, <1>4 DEF ContInv

LEMMA Alias_Inv ==
  ASSUME ContInv, NEW s \in Service, Rebinds(Alias(s)) PROVE ContInv'
<1>1. ContTypes'
  BY DEF ContInv, ContTypes, Rebinds, Alias
<1>2. SharedIs(given, instances)' /\ BootInv(boot, booted, providers)'
  BY DEF ContInv, Rebinds, Alias
<1>3. BoundInv(binds, providers, binding)'
  BY DEF ContInv, ContTypes, Rebinds, BoundInv
<1> QED BY <1>1, <1>2, <1>3 DEF ContInv

LEMMA Flush_Inv == ASSUME ContInv, Rebinds(Flush) PROVE ContInv'
<1>1. ContTypes'
  BY DEF ContInv, ContTypes, Rebinds, Flush, BindingKind
<1>2. SharedIs(given, instances)'
  BY DEF Rebinds, Flush, SharedIs
<1>3. BootInv(boot, booted, providers)'
  BY DEF ContInv, Rebinds, Flush
<1>4. BoundInv(binds, providers, binding)'
  BY DEF ContInv, ContTypes, Rebinds, BoundInv
<1> QED BY <1>1, <1>2, <1>3, <1>4 DEF ContInv

LEMMA RegisterProvider_Inv ==
  ASSUME ContInv, NEW p \in Service, RegisterProvider(p) PROVE ContInv'
<1> USE DEF ContInv, ContTypes, RegisterProvider, Unmade
<1>1. /\ providers' \in Seq(Service) /\ Len(providers') = Len(providers) + 1
      /\ \A i \in 1..Len(providers) : providers'[i] = providers[i]
      /\ providers'[Len(providers) + 1] = p
  BY AppendProperties
<1>2. ContTypes'
  BY <1>1 DEF BindingKind
<1>3. SharedIs(given, instances)'
  OBVIOUS
<1>4. ASSUME NEW rest \in Seq(Service), Begins(booted, rest, providers)
      PROVE  Begins(booted, rest, providers')
  <2>1. Len(booted) \in Nat /\ Len(rest) \in Nat /\ Len(providers) \in Nat
    OBVIOUS
  <2> QED BY <1>1, <1>4, <2>1 DEF Begins
<1>5. BootInv(boot, booted, providers)'
  <2>1. boot.todo \in Seq(Service) /\ <<>> \in Seq(Service)
    BY DEF BootState
  <2>2. Begins(booted, <<>>, providers')
    BY <2>1, <1>4 DEF BootInv
  <2>3. boot.phase = "running" => Begins(booted, boot.todo, providers')
    BY <2>1, <1>4 DEF BootInv
  <2> QED BY <2>2, <2>3 DEF BootInv
<1>6. BoundInv(binds, providers, binding)'
  <2> SUFFICES ASSUME binds' = 0, NEW i \in 1..Len(providers') PROVE binding'[providers'[i]] # "none"
    BY DEF BoundInv
  <2>1. CASE i = Len(providers) + 1
    BY <2>1, <1>1
  <2>2. CASE i \in 1..Len(providers)
    <3>1. providers[i] \in Service /\ binding[providers[i]] # "none"
      BY <2>2 DEF BoundInv
    <3> QED BY <3>1, <2>2, <1>1
  <2> QED BY <2>1, <2>2, <1>1
<1> QED BY <1>2, <1>3, <1>5, <1>6

LEMMA BootBegins_Inv == ASSUME ContInv, BootBegins PROVE ContInv'
<1> USE DEF ContInv, ContTypes, BootBegins, Unmade
<1>1. ContTypes'
  BY DEF BootState
<1>2. Begins(<<>>, providers, providers)
  BY DEF Begins
<1>3. BootInv(boot, booted, providers)'
  BY <1>2 DEF BootInv
<1>4. SharedIs(given, instances)' /\ BoundInv(binds, providers, binding)'
  OBVIOUS
<1> QED BY <1>1, <1>3, <1>4

LEMMA BootNext_Inv == ASSUME ContInv, BootNext PROVE ContInv'
<1> USE DEF ContInv, ContTypes, BootNext, Unmade
<1>1. boot.todo \in Seq(Service) /\ boot \in BootState /\ boot.phase = "running"
  BY DEF BootState
<1>2. SharedIs(given, instances)' /\ BoundInv(binds, providers, binding)'
  OBVIOUS
<1>3. CASE boot.todo = <<>>
  <2>1. ContTypes'
    BY <1>1, <1>3 DEF BootState
  <2>2. boot'.phase = "done"
    BY <1>1, <1>3 DEF BootState
  <2>3. BootInv(boot, booted, providers)'
    BY <2>2, <1>3 DEF BootInv
  <2> QED BY <2>1, <2>3, <1>2
<1>4. CASE boot.todo # <<>>
  <2>1. Head(boot.todo) \in Service /\ Tail(boot.todo) \in Seq(Service)
    BY <1>1, <1>4, HeadTailProperties
  <2>2. boot'.todo = Tail(boot.todo) /\ boot'.phase = "running" /\ boot' \in BootState
    BY <1>1, <1>4, <2>1 DEF BootState
  <2>3. booted' = Append(booted, Head(boot.todo)) /\ booted' \in Seq(Service)
    <3>1. booted' = Append(booted, Head(boot.todo)) /\ booted \in Seq(Service)
      BY <1>4
    <3> QED BY <3>1, <2>1, AppendProperties
  <2>4. ContTypes'
    BY <2>2, <2>3
  <2>5. Begins(booted', boot'.todo, providers') /\ Begins(booted', <<>>, providers')
    BY <1>1, <1>4, <2>2, <2>3, BeginsNext DEF BootInv
  <2>6. BootInv(boot, booted, providers)'
    BY <2>2, <2>5 DEF BootInv
  <2> QED BY <2>4, <2>6, <1>2
<1> QED BY <1>3, <1>4

\* A step of Make that changes neither instances nor what was given.
LEMMA MakeMoves ==
  ASSUME ContInv, NEW g \in Maker, NEW m \in MakeState, make' = [make EXCEPT ![g] = m],
         built' \in Nat, UNCHANGED <<instances, given>>, Stays
  PROVE  ContInv'
<1> USE DEF ContInv, ContTypes, Stays
<1>1. ContTypes'
  OBVIOUS
<1>2. /\ SharedIs(given, instances)' /\ BootInv(boot, booted, providers)'
      /\ BoundInv(binds, providers, binding)'
  OBVIOUS
<1> QED BY <1>1, <1>2

LEMMA MakeFields ==
  ASSUME NEW m \in MakeState
  PROVE  /\ m.pc \in {"named", "build", "store"} => m.service \in Service
         /\ m.pc = "store" => m.inst \in Inst
  BY DEF MakeState, NoMake

LEMMA ResolveAlias_Inv ==
  ASSUME ContInv, NEW s \in Service, NEW g \in Maker, NEW aliased \in BOOLEAN, ResolveAlias(g, s, aliased)
  PROVE  ContInv'
<1>1. [pc |-> "named", service |-> s] \in MakeState /\ NoMake \in MakeState
  BY DEF MakeState
<1>2. built' \in Nat
  BY DEF ContInv, ContTypes, ResolveAlias
<1> QED BY <1>1, <1>2, MakeMoves DEF ResolveAlias

\* The instance i of s is given to g: the one that is stored, from now on at least.
LEMMA Gives ==
  ASSUME ContInv, NEW g \in Maker, NEW s \in Service, NEW i \in Inst, i # NoInst,
         instances[s] \in {i, NoInst}, instances' = [instances EXCEPT ![s] = i],
         Give(s, i), MakeEnds(g), UNCHANGED built, Stays
  PROVE  ContInv'
<1> USE DEF ContInv, ContTypes, Stays, Give, MakeEnds
<1>1. ContTypes'
  BY DEF MakeState
<1>2. SharedIs(given, instances)'
  BY DEF SharedIs
<1>3. BootInv(boot, booted, providers)' /\ BoundInv(binds, providers, binding)'
  OBVIOUS
<1> QED BY <1>1, <1>2, <1>3

LEMMA FindService_Inv == ASSUME ContInv, NEW g \in Maker, FindService(g) PROVE ContInv'
<1> DEFINE s == make[g].service
<1>1. make[g] \in MakeState /\ s \in Service
  BY MakeFields DEF ContInv, ContTypes, FindService
<1>2. CASE instances[s] # NoInst
  <2>1. instances[s] \in Inst /\ instances' = [instances EXCEPT ![s] = instances[s]]
    BY <1>1, <1>2 DEF ContInv, ContTypes, FindService
  <2> QED BY <1>1, <1>2, <2>1, Gives DEF FindService
<1>3. CASE instances[s] = NoInst
  <2>1. NoMake \in MakeState
        /\ [pc |-> "build", service |-> s, single |-> binding[s] = "singleton"] \in MakeState
    BY <1>1 DEF MakeState
  <2>2. built' \in Nat
    BY DEF ContInv, ContTypes, FindService
  <2>3. CASE binding[s] = "none"
    BY <1>3, <2>1, <2>2, <2>3, MakeMoves DEF FindService, MakeEnds
  <2>4. CASE binding[s] # "none"
    BY <1>3, <2>1, <2>2, <2>4, MakeMoves DEF FindService
  <2> QED BY <2>3, <2>4
<1> QED BY <1>2, <1>3

LEMMA Build_Inv ==
  ASSUME ContainerAssumption, ContInv, NEW g \in Maker, Build(g) PROVE ContInv'
<1>1. make[g] \in MakeState /\ make[g].service \in Service
  BY MakeFields DEF ContInv, ContTypes, Build
<1>2. built' \in Nat /\ built + 1 \in Inst
  BY DEF ContInv, ContTypes, Build, Inst, ContainerAssumption
<1>3. NoMake \in MakeState
      /\ [pc |-> "store", service |-> make[g].service, inst |-> built + 1] \in MakeState
  BY <1>1, <1>2 DEF MakeState
<1>4. CASE make[g].single
  BY <1>2, <1>3, <1>4, MakeMoves DEF Build
<1>5. CASE ~make[g].single
  BY <1>2, <1>3, <1>5, MakeMoves DEF Build, MakeEnds
<1> QED BY <1>4, <1>5

LEMMA BuildFails_Inv == ASSUME ContInv, NEW g \in Maker, BuildFails(g) PROVE ContInv'
<1>1. NoMake \in MakeState /\ built' \in Nat
  BY DEF MakeState, ContInv, ContTypes, BuildFails
<1> QED BY <1>1, MakeMoves DEF BuildFails, MakeEnds

LEMMA Keep_Inv == ASSUME ContInv, NEW g \in Maker, Keep(g) PROVE ContInv'
<1> DEFINE s == make[g].service
           i == IF instances[s] # NoInst THEN instances[s] ELSE make[g].inst
<1>1. make[g] \in MakeState /\ s \in Service /\ make[g].inst \in Inst
  BY MakeFields DEF ContInv, ContTypes, Keep
<1>2. i \in Inst /\ i # NoInst /\ instances[s] \in {i, NoInst}
  BY <1>1 DEF ContInv, ContTypes, Inst, NoInst
<1>3. instances' = [instances EXCEPT ![s] = i] /\ Give(s, i) /\ MakeEnds(g) /\ UNCHANGED built /\ Stays
  BY DEF Keep
<1> QED BY <1>1, <1>2, <1>3, Gives

LEMMA ContNext_Inv == ASSUME ContainerAssumption, ContInv, [ContNext]_contVars PROVE ContInv'
<1>1. ASSUME NEW s \in Service, Rebinds(Bind(s, "transient")) PROVE ContInv'
  BY <1>1, Bind_Inv
<1>2. ASSUME NEW s \in Service, Rebinds(Bind(s, "singleton")) PROVE ContInv'
  BY <1>2, Bind_Inv
<1>3. ASSUME NEW s \in Service, Rebinds(Instance(s)) PROVE ContInv'
  BY <1>3, Instance_Inv
<1>4. ASSUME NEW s \in Service, Rebinds(Alias(s)) PROVE ContInv'
  BY <1>4, Alias_Inv
<1>5. ASSUME NEW s \in Service, RegisterProvider(s) PROVE ContInv'
  BY <1>5, RegisterProvider_Inv
<1>6. ASSUME NEW s \in Service, NEW g \in Maker, NEW aliased \in BOOLEAN, ResolveAlias(g, s, aliased)
      PROVE  ContInv'
  BY <1>6, ResolveAlias_Inv
<1>7. CASE Rebinds(Flush)
  BY <1>7, Flush_Inv
<1>8. ASSUME NEW g \in Maker, FindService(g) \/ Build(g) \/ BuildFails(g) \/ Keep(g) PROVE ContInv'
  BY <1>8, FindService_Inv, Build_Inv, BuildFails_Inv, Keep_Inv
<1>9. CASE BootBegins \/ BootNext
  BY <1>9, BootBegins_Inv, BootNext_Inv
<1>10. CASE UNCHANGED contVars
  BY <1>10 DEF contVars, ContInv, ContTypes, SharedIs, BootInv, BoundInv, Begins
<1> QED BY <1>1, <1>2, <1>3, <1>4, <1>5, <1>6, <1>7, <1>8, <1>9, <1>10 DEF ContNext

\* The container gives out one instance of a service however many goroutines
\* make it at once, and providers boot once, in order and after all of them
\* have bound their services (container.go 34-131, application.go 71-92), for
\* every number of services, goroutines, instances and rebindings.
THEOREM ContainerShares == ContSpec => []ContainerExact
<1>1. ContInit => ContInv
  BY ContInit_Inv
<1>2. ContInv /\ [ContNext]_contVars => ContInv'
  BY ContainerAssumption, ContNext_Inv
<1>3. ContInv => ContainerExact
  BY ContInvSuffices
<1> QED BY <1>1, <1>2, <1>3, PTL DEF ContSpec

---------------------------------------------------------------------------
(* Sessions.  An id carries a user only if Regenerate drew it, in the store *)
(* and in the sessions that requests hold.  As long as requests do not     *)
(* overlap and handlers save before they answer, the running request knows *)
(* the reference: in its session until it answers, in the store behind the *)
(* cookie it will set from then on.                                        *)

Account == User \union {Nobody}
Data == [user : Account, note : BOOLEAN]
Session == [id : Nat, data : Data, dirty : BOOLEAN]
Step == {"idle", "handler", "rotating", "answered", "saved", "done"}
Page == [pc : Step, sess : Session, outer : Session, under : BOOLEAN,
         taken : Data \union {NoEntry}, as : Account, setCookie : Nat, committed : BOOLEAN]

Active(p) == p.pc \notin {"idle", "done"}
Rotated(s, rot) == s.data.user # Nobody => s.id \in rot

\* Ids in the store st, and those of requests, were drawn before the id n, and
\* those that carry a user are in rot.
StoreGood(st, n, rot) ==
  \A i \in DOMAIN st : st[i] \in Data /\ i \in 1..n-1 /\ (st[i].user # Nobody => i \in rot)

PageGood(p, n, rot) ==
  /\ Active(p) => p.sess.id \in 1..n-1 /\ p.outer.id \in 1..n-1
  /\ Rotated(p.sess, rot) /\ Rotated(p.outer, rot)

UserIn(st, i) == IF i \in DOMAIN st THEN st[i].user ELSE Nobody
CookieOf(p, ck) == IF p.setCookie # NoID THEN p.setCookie ELSE ck

\* Until the handler returns its response is open, and the session middleware
\* has nothing of its own to save.
Open(p) == ~p.committed /\ (IF p.under THEN ~p.outer.dirty ELSE p.outer = p.sess)

\* What the request p knows of the reference w, with the store st and the cookie ck.
Knows(p, st, ck, w) ==
  /\ p.pc = "handler" =>
       /\ Open(p) /\ p.sess.data.user = w
       /\ ~p.sess.dirty => UserIn(st, CookieOf(p, ck)) = w
  /\ p.pc = "rotating" => Open(p)
  /\ p.pc = "answered" =>
       /\ UserIn(st, CookieOf(p, ck)) = w
       /\ p.outer.dirty => p.committed /\ p.outer.data.user = w
  /\ p.pc = "saved" => UserIn(st, CookieOf(p, ck)) = w

FollowInv(pg, st, ck, w) ==
  /\ \A q, r \in PageRequest : Active(pg[q]) /\ Active(pg[r]) => q = r
  /\ (\A r \in PageRequest : ~Active(pg[r])) => w = UserIn(st, ck)
  /\ \A r \in PageRequest : Knows(pg[r], st, ck, w)

SessInv ==
  /\ savesFirst \in BOOLEAN /\ mixed \in BOOLEAN
  /\ nextID \in Nat /\ nextID >= 1
  /\ cookie \in Nat /\ who \in Account
  /\ page \in [PageRequest -> Page]
  /\ StoreGood(store, nextID, rotated)
  /\ \A r \in PageRequest : PageGood(page[r], nextID, rotated)
  /\ savesFirst /\ ~mixed => FollowInv(page, store, cookie, who)

LEMMA SessInvSuffices == SessInv => NoFixation /\ SessionFollows
<1> SUFFICES ASSUME SessInv PROVE NoFixation /\ SessionFollows
  OBVIOUS
<1>1. NoFixation
  BY DEF SessInv, StoreGood, NoFixation, Stored
<1>2. SessionFollows
  <2> SUFFICES ASSUME savesFirst, ~mixed, Running = {} PROVE who = UserIn(store, cookie)
    BY DEF SessionFollows, LoginSticks, UserIn, Stored
  <2>1. \A r \in PageRequest : ~Active(page[r])
    BY DEF Running, Active
  <2> QED BY <2>1 DEF SessInv, FollowInv
<1> QED BY <1>1, <1>2

LEMMA EmptyIs == Empty \in Data /\ Empty.user = Nobody /\ NoSession \in Session /\ Idle \in Page
<1>1. Empty \in Data /\ Empty.user = Nobody
  BY DEF Empty, Data, Account
<1>2. NoSession \in Session
  BY <1>1 DEF NoSession, Session, NoID
<1>3. Idle \in Page
  BY <1>2 DEF Idle, Page, Step, Account, NoID
<1> QED BY <1>1, <1>2, <1>3

LEMMA SessInit_Inv == SessInit => SessInv
<1> SUFFICES ASSUME SessInit PROVE SessInv
  OBVIOUS
<1>1. DOMAIN store = {}
  BY DEF SessInit
<1>2. page \in [PageRequest -> Page] /\ \A r \in PageRequest : page[r] = Idle
  BY EmptyIs DEF SessInit
<1>3. ~Active(Idle) /\ Idle.sess = NoSession /\ Idle.outer = NoSession
  BY DEF Idle, Active
<1>4. NoSession.data.user = Nobody
  BY EmptyIs DEF NoSession
<1>5. \A r \in PageRequest : PageGood(page[r], nextID, rotated)
  BY <1>2, <1>3, <1>4 DEF PageGood, Rotated
<1>6. StoreGood(store, nextID, rotated)
  BY <1>1 DEF StoreGood
<1>7. FollowInv(page, store, cookie, who)
  <2>1. who = UserIn(store, cookie)
    BY <1>1 DEF UserIn, SessInit
  <2>2. Knows(Idle, store, cookie, who)
    BY DEF Knows, Idle
  <2> QED BY <2>1, <2>2, <1>2, <1>3 DEF FollowInv
<1>8. savesFirst \in BOOLEAN /\ mixed \in BOOLEAN
  BY Zenon DEF SessInit
<1>9. nextID \in Nat /\ nextID >= 1 /\ cookie \in Nat /\ who \in Account
  BY DEF SessInit, Account, NoID
<1> QED BY <1>2, <1>5, <1>6, <1>7, <1>8, <1>9, Zenon DEF SessInv

\* Ids stay drawn, and rotated.
LEMMA PageGoodLater ==
  ASSUME NEW p, NEW n \in Nat, NEW m \in Nat, m >= n, NEW rot, NEW more, rot \subseteq more,
         PageGood(p, n, rot)
  PROVE  PageGood(p, m, more)
<1>1. \A i \in 1..n-1 : i \in 1..m-1
  OBVIOUS
<1> QED BY <1>1 DEF PageGood, Rotated

\* A step of the request r: what has to be shown of it.
LEMMA OneMoves ==
  ASSUME SessInv, NEW r \in PageRequest,
         UNCHANGED savesFirst, mixed' \in BOOLEAN,
         nextID' \in Nat, nextID' >= nextID, rotated \subseteq rotated',
         cookie' \in Nat, who' \in Account,
         NEW p \in Page, page' = [page EXCEPT ![r] = p],
         StoreGood(store', nextID', rotated'),
         PageGood(p, nextID', rotated'),
         savesFirst /\ ~mixed' =>
           /\ \A q \in PageRequest : q # r => ~Active(page[q])
           /\ Knows(p, store', cookie', who')
           /\ ~Active(p) => who' = UserIn(store', cookie')
  PROVE  SessInv'
<1>1. /\ page' \in [PageRequest -> Page] /\ page'[r] = p
      /\ \A q \in PageRequest : q # r => page'[q] = page[q]
  BY DEF SessInv
<1>2. \A q \in PageRequest : PageGood(page'[q], nextID', rotated')
  <2> SUFFICES ASSUME NEW q \in PageRequest, q # r PROVE PageGood(page[q], nextID', rotated')
    BY <1>1
  <2>1. PageGood(page[q], nextID, rotated) /\ nextID \in Nat
    BY DEF SessInv
  <2> QED BY <2>1, PageGoodLater
<1>3. savesFirst' /\ ~mixed' => FollowInv(page', store', cookie', who')
  <2> SUFFICES ASSUME savesFirst, ~mixed' PROVE FollowInv(page', store', cookie', who')
    OBVIOUS
  <2>1. \A q \in PageRequest : q # r => ~Active(page'[q])
    BY <1>1
  <2>2. ASSUME NEW q \in PageRequest PROVE Knows(page'[q], store', cookie', who')
    BY <1>1, <2>1 DEF Knows, Active
  <2> QED BY <1>1, <2>1, <2>2 DEF FollowInv
<1> QED BY <1>1, <1>2, <1>3 DEF SessInv

\* A step of the running request r, in terms of what it knew.
LEMMA RunningMoves ==
  ASSUME SessInv, NEW r \in PageRequest, Active(page[r]),
         UNCHANGED <<savesFirst, mixed>>,
         nextID' \in Nat, nextID' >= nextID, rotated \subseteq rotated',
         cookie' \in Nat, who' \in Account,
         NEW p \in Page, page' = [page EXCEPT ![r] = p],
         StoreGood(store', nextID', rotated'),
         PageGood(p, nextID', rotated'),
         savesFirst /\ Knows(page[r], store, cookie, who) =>
           /\ Knows(p, store', cookie', who')
           /\ ~Active(p) => who' = UserIn(store', cookie')
  PROVE  SessInv'
<1>1. savesFirst /\ ~mixed' =>
        /\ \A q \in PageRequest : q # r => ~Active(page[q])
        /\ Knows(page[r], store, cookie, who)
  BY DEF SessInv, FollowInv
<1>2. mixed' \in BOOLEAN
  BY DEF SessInv
<1> QED BY <1>1, <1>2, OneMoves

\* The same for a step that draws no id and leaves the cookie.
LEMMA StillRunning ==
  ASSUME SessInv, NEW r \in PageRequest, Active(page[r]),
         UNCHANGED <<savesFirst, rotated, nextID, cookie, mixed>>, who' \in Account,
         NEW p \in Page, page' = [page EXCEPT ![r] = p], Active(p),
         StoreGood(store', nextID, rotated), PageGood(p, nextID, rotated),
         savesFirst /\ Knows(page[r], store, cookie, who) => Knows(p, store', cookie, who')
  PROVE  SessInv'
<1>1. nextID' \in Nat /\ nextID' >= nextID /\ rotated \subseteq rotated' /\ cookie' \in Nat
  BY DEF SessInv
<1>2. StoreGood(store', nextID', rotated') /\ PageGood(p, nextID', rotated')
  OBVIOUS
<1>3. savesFirst /\ Knows(page[r], store, cookie, who) =>
        /\ Knows(p, store', cookie', who')
        /\ ~Active(p) => who' = UserIn(store', cookie')
  OBVIOUS
<1> QED BY <1>1, <1>2, <1>3, RunningMoves

\* Both sessions of an unprotected request change together.
WithSession(p, s) == [p EXCEPT !.sess = s, !.outer = IF p.under THEN p.outer ELSE s]

LEMMA WithSessionIs ==
  ASSUME NEW p \in Page, NEW s \in Session
  PROVE  LET q == WithSession(p, s) IN
         /\ q \in Page /\ q.sess = s /\ q.outer = (IF p.under THEN p.outer ELSE s)
         /\ q.pc = p.pc /\ q.under = p.under /\ q.taken = p.taken /\ q.as = p.as
         /\ q.setCookie = p.setCookie /\ q.committed = p.committed
  BY DEF Page, WithSession

\* A handler that gives its session the user of the reference, or keeps it, and
\* leaves it to be saved.
LEMMA HandlerSets ==
  ASSUME NEW p \in Page, NEW s \in Session, NEW n, NEW rot, NEW st, NEW ck, NEW w,
         PageGood(p, n, rot), s.id \in 1..n-1, Rotated(s, rot)
  PROVE  /\ PageGood(WithSession(p, s), n, rot)
         /\ p.pc = "handler" /\ Open(p) /\ s.dirty /\ s.data.user = w =>
              Knows(WithSession(p, s), st, ck, w)
<1> DEFINE q == WithSession(p, s)
<1>1. /\ q.sess = s /\ q.outer = (IF p.under THEN p.outer ELSE s)
      /\ q.pc = p.pc /\ q.under = p.under /\ q.committed = p.committed
  BY WithSessionIs
<1> HIDE DEF q
<1>2. PageGood(q, n, rot)
  BY <1>1 DEF PageGood, Active
<1>3. ASSUME p.pc = "handler", Open(p), s.dirty, s.data.user = w PROVE Knows(q, st, ck, w)
  <2>1. Open(q)
    BY <1>1, <1>3 DEF Open
  <2> QED BY <2>1, <1>1, <1>3 DEF Knows
<1> QED BY <1>2, <1>3 DEF q

LEMMA InPage ==
  ASSUME SessInv, NEW r \in PageRequest
  PROVE  /\ page[r] \in Page /\ page[r].sess \in Session /\ page[r].outer \in Session
         /\ page[r].sess.data \in Data /\ page[r].outer.data \in Data
         /\ PageGood(page[r], nextID, rotated)
         /\ StoreGood(store, nextID, rotated) /\ nextID \in Nat
<1>1. page[r] \in Page
  BY DEF SessInv
<1>2. page[r].sess \in Session /\ page[r].outer \in Session
  BY <1>1 DEF Page
<1>3. page[r].sess.data \in Data /\ page[r].outer.data \in Data
  BY <1>2 DEF Session
<1> QED BY <1>1, <1>2, <1>3 DEF SessInv

LEMMA Remember_Inv == ASSUME SessInv, NEW r \in PageRequest, Remember(r) PROVE SessInv'
<1> DEFINE s == page[r].sess
           t == [s EXCEPT !.data.note = TRUE, !.dirty = TRUE]
           p == WithSession(page[r], t)
<1>0. page[r] \in Page /\ s \in Session /\ s.data \in Data /\ PageGood(page[r], nextID, rotated)
  BY InPage
<1>1. t \in Session /\ t.id = s.id /\ t.data.user = s.data.user /\ t.dirty
  BY <1>0 DEF Session, Data
<1>2. page' = [page EXCEPT ![r] = p]
  BY <1>0, <1>1 DEF Remember, SetSession, WithSession, SessInv
<1> HIDE DEF t
<1>3. p \in Page
  BY <1>0, <1>1, WithSessionIs
<1>4. page[r].pc = "handler" /\ Active(page[r])
  BY DEF Remember, Active
<1>5. t.id \in 1..nextID-1 /\ Rotated(t, rotated)
  BY <1>0, <1>1, <1>4 DEF PageGood, Rotated
<1>6. PageGood(p, nextID, rotated)
  BY <1>0, <1>1, <1>5, HandlerSets
<1>7. Knows(page[r], store, cookie, who) => Knows(p, store, cookie, who)
  <2> SUFFICES ASSUME Knows(page[r], store, cookie, who) PROVE Knows(p, store, cookie, who)
    OBVIOUS
  <2>1. Open(page[r]) /\ s.data.user = who
    BY <1>4 DEF Knows
  <2> QED BY <2>1, <1>0, <1>1, <1>4, <1>5, HandlerSets
<1>8. p.pc = "handler" /\ Active(p)
  BY <1>0, <1>1, <1>4, WithSessionIs DEF Active
<1> HIDE DEF p
<1>9. /\ UNCHANGED <<savesFirst, rotated, nextID, cookie, mixed, store, who>>
      /\ who \in Account /\ StoreGood(store, nextID, rotated)
  BY DEF Remember, SessInv
<1> QED BY <1>2, <1>3, <1>4, <1>6, <1>7, <1>8, <1>9, StillRunning

LEMMA Logout_Inv == ASSUME SessInv, NEW r \in PageRequest, Logout(r) PROVE SessInv'
<1> DEFINE s == page[r].sess
           t == [s EXCEPT !.data.user = Nobody, !.dirty = TRUE]
           p == WithSession(page[r], t)
<1>0. page[r] \in Page /\ s \in Session /\ s.data \in Data /\ PageGood(page[r], nextID, rotated)
  BY InPage
<1>1. t \in Session /\ t.id = s.id /\ t.data.user = Nobody /\ t.dirty
  BY <1>0 DEF Session, Data, Account
<1>2. page' = [page EXCEPT ![r] = p]
  BY <1>0, <1>1 DEF Logout, SetSession, WithSession, SessInv
<1> HIDE DEF t
<1>3. p \in Page
  BY <1>0, <1>1, WithSessionIs
<1>4. page[r].pc = "handler" /\ Active(page[r])
  BY DEF Logout, Active
<1>5. t.id \in 1..nextID-1 /\ Rotated(t, rotated)
  BY <1>0, <1>1, <1>4 DEF PageGood, Rotated
<1>6. PageGood(p, nextID, rotated)
  BY <1>0, <1>1, <1>5, HandlerSets
<1>7. Knows(page[r], store, cookie, who) => Knows(p, store, cookie, Nobody)
  <2> SUFFICES ASSUME Knows(page[r], store, cookie, who) PROVE Knows(p, store, cookie, Nobody)
    OBVIOUS
  <2>1. Open(page[r])
    BY <1>4 DEF Knows
  <2> QED BY <2>1, <1>0, <1>1, <1>4, <1>5, HandlerSets
<1>8. p.pc = "handler" /\ Active(p)
  BY <1>0, <1>1, <1>4, WithSessionIs DEF Active
<1> HIDE DEF p
<1>9. /\ UNCHANGED <<savesFirst, rotated, nextID, cookie, mixed, store>> /\ who' = Nobody
      /\ Nobody \in Account /\ StoreGood(store, nextID, rotated)
  BY DEF Logout, SessInv, Account
<1> QED BY <1>2, <1>3, <1>4, <1>6, <1>7, <1>8, <1>9, StillRunning

LEMMA Attempt_Inv ==
  ASSUME SessInv, NEW r \in PageRequest, NEW u \in User, Attempt(r, u) PROVE SessInv'
<1> DEFINE id == page[r].sess.id
           taken == IF id \in Stored THEN store[id] ELSE NoEntry
           p == [page[r] EXCEPT !.pc = "rotating", !.as = u, !.taken = taken]
<1>0. page[r] \in Page /\ PageGood(page[r], nextID, rotated) /\ StoreGood(store, nextID, rotated)
  BY InPage
<1>1. taken \in Data \union {NoEntry}
  BY <1>0 DEF StoreGood, Stored
<1>2. page' = [page EXCEPT ![r] = p]
  BY <1>0 DEF Attempt, SessInv, Page
<1> HIDE DEF taken
<1>3. /\ p \in Page /\ p.pc = "rotating" /\ p.sess = page[r].sess /\ p.outer = page[r].outer
      /\ p.under = page[r].under /\ p.committed = page[r].committed
  BY <1>0, <1>1 DEF Page, Step, Account
<1> HIDE DEF p
<1>4. page[r].pc = "handler" /\ Active(page[r]) /\ Active(p)
  BY <1>3 DEF Attempt, Active
<1>5. PageGood(p, nextID, rotated)
  BY <1>0, <1>3, <1>4 DEF PageGood
<1>6. Knows(page[r], store, cookie, who) => Knows(p, store', cookie, who)
  BY <1>3, <1>4 DEF Knows, Open
<1>7. StoreGood(store', nextID, rotated)
  BY <1>0 DEF Attempt, Drop, StoreGood, Stored
<1>8. UNCHANGED <<savesFirst, rotated, nextID, cookie, mixed, who>> /\ who \in Account
  BY DEF Attempt, SessInv
<1> QED BY <1>2, <1>3, <1>4, <1>5, <1>6, <1>7, <1>8, StillRunning

\* What a saved session leaves in the store.
LEMMA PutGood ==
  ASSUME NEW n, NEW rot, StoreGood(store, n, rot), NEW id \in 1..n-1, NEW d \in Data,
         d.user # Nobody => id \in rot
  PROVE  /\ StoreGood(Put(id, d), n, rot)
         /\ \A i : UserIn(Put(id, d), i) = IF i = id THEN d.user ELSE UserIn(store, i)
<1> DEFINE st == Put(id, d)
<1>1. /\ DOMAIN st = DOMAIN store \union {id} /\ st[id] = d
      /\ \A i \in DOMAIN store : i # id => st[i] = store[i]
  BY DEF Put, Stored
<1> HIDE DEF st
<1>2. StoreGood(st, n, rot)
  BY <1>1 DEF StoreGood
<1>3. ASSUME NEW i PROVE UserIn(st, i) = IF i = id THEN d.user ELSE UserIn(store, i)
  BY <1>1 DEF UserIn
<1> QED BY <1>2, <1>3 DEF st

LEMMA SaveGood ==
  ASSUME NEW n, NEW rot, StoreGood(store, n, rot), NEW s \in Session, s.id \in 1..n-1, Rotated(s, rot)
  PROVE  /\ StoreGood(SaveStore(s), n, rot)
         /\ \A i : UserIn(SaveStore(s), i) = IF s.dirty /\ i = s.id THEN s.data.user ELSE UserIn(store, i)
<1>1. s.data \in Data
  BY DEF Session
<1>2. CASE s.dirty
  BY <1>1, <1>2, PutGood DEF SaveStore, Rotated
<1>3. CASE ~s.dirty
  BY <1>3 DEF SaveStore
<1> QED BY <1>2, <1>3

LEMMA HandlerSave_Inv == ASSUME SessInv, NEW r \in PageRequest, HandlerSave(r) PROVE SessInv'
<1> DEFINE s == page[r].sess
           clean == [s EXCEPT !.dirty = FALSE]
           q == WithSession(page[r], clean)
           c == SaveCookie(r, s)
           p == [q EXCEPT !.setCookie = c]
<1>0. /\ page[r] \in Page /\ s \in Session /\ s.data \in Data /\ PageGood(page[r], nextID, rotated)
      /\ StoreGood(store, nextID, rotated) /\ nextID \in Nat
  BY InPage
<1>1. clean \in Session /\ clean.id = s.id /\ clean.data = s.data /\ clean.dirty = FALSE
  BY <1>0 DEF Session
<1>2. c \in Nat
  BY <1>0 DEF SaveCookie, Session, Page
<1>3. page' = [page EXCEPT ![r] = p]
  BY <1>0, <1>1 DEF HandlerSave, WithSession, SessInv, Page
<1>4. page[r].pc = "handler" /\ Active(page[r]) /\ s.dirty
  BY DEF HandlerSave, Active
<1>5. s.id \in 1..nextID-1 /\ Rotated(s, rotated) /\ Rotated(clean, rotated)
  BY <1>0, <1>1, <1>4 DEF PageGood, Rotated
<1> HIDE DEF clean, c
<1>6. /\ q \in Page /\ q.sess = clean /\ q.outer = (IF page[r].under THEN page[r].outer ELSE clean)
      /\ q.pc = "handler" /\ q.under = page[r].under /\ q.committed = page[r].committed
  BY <1>0, <1>1, <1>4, WithSessionIs
<1> HIDE DEF q
<1>7. /\ p \in Page /\ p.sess = clean /\ p.outer = (IF page[r].under THEN page[r].outer ELSE clean)
      /\ p.pc = "handler" /\ p.under = page[r].under /\ p.committed = page[r].committed
      /\ p.setCookie = c
  BY <1>2, <1>6 DEF Page
<1> HIDE DEF p
<1>8. Active(p) /\ PageGood(p, nextID, rotated)
  BY <1>0, <1>1, <1>4, <1>5, <1>7 DEF Active, PageGood
<1>9. /\ StoreGood(store', nextID, rotated)
      /\ \A i : UserIn(store', i) = IF s.dirty /\ i = s.id THEN s.data.user ELSE UserIn(store, i)
  BY <1>0, <1>5, SaveGood DEF HandlerSave
<1>10. Knows(page[r], store, cookie, who) => Knows(p, store', cookie, who)
  <2> SUFFICES ASSUME Knows(page[r], store, cookie, who) PROVE Knows(p, store', cookie, who)
    OBVIOUS
  <2>1. Open(page[r]) /\ s.data.user = who
    BY <1>4 DEF Knows
  <2>2. Open(p)
    BY <2>1, <1>7 DEF Open
  <2>3. c = s.id /\ s.id # NoID
    BY <2>1, <1>0, <1>4, <1>5 DEF c, SaveCookie, Open, NoID
  <2>4. CookieOf(p, cookie) = s.id
    BY <2>3, <1>7 DEF CookieOf
  <2>5. UserIn(store', CookieOf(p, cookie)) = who
    BY <2>1, <2>4, <1>4, <1>9
  <2> QED BY <2>1, <2>2, <2>5, <1>1, <1>7 DEF Knows
<1>11. UNCHANGED <<savesFirst, rotated, nextID, cookie, mixed, who>> /\ who \in Account
  BY DEF HandlerSave, SessInv
<1> QED BY <1>3, <1>4, <1>7, <1>8, <1>9, <1>10, <1>11, StillRunning

LEMMA Return_Inv ==
  ASSUME SessInv, NEW r \in PageRequest, NEW writes \in BOOLEAN, Return(r, writes) PROVE SessInv'
<1> DEFINE p == [page[r] EXCEPT !.pc = "answered", !.committed = writes]
<1>0. page[r] \in Page /\ PageGood(page[r], nextID, rotated) /\ StoreGood(store, nextID, rotated)
  BY InPage
<1>1. page' = [page EXCEPT ![r] = p]
  BY <1>0 DEF Return, SessInv, Page
<1>2. /\ p \in Page /\ p.pc = "answered" /\ p.sess = page[r].sess /\ p.outer = page[r].outer
      /\ p.setCookie = page[r].setCookie
  BY <1>0 DEF Page, Step
<1> HIDE DEF p
<1>3. page[r].pc = "handler" /\ Active(page[r]) /\ Active(p)
  BY <1>2 DEF Return, Active
<1>4. PageGood(p, nextID, rotated)
  BY <1>0, <1>2, <1>3 DEF PageGood
<1>5. savesFirst /\ Knows(page[r], store, cookie, who) => Knows(p, store, cookie, who)
  <2> SUFFICES ASSUME savesFirst, Knows(page[r], store, cookie, who) PROVE Knows(p, store, cookie, who)
    OBVIOUS
  <2>1. ~page[r].sess.dirty
    BY DEF Return
  <2>2. Open(page[r]) /\ UserIn(store, CookieOf(page[r], cookie)) = who
    BY <2>1, <1>3 DEF Knows
  <2>3. ~p.outer.dirty
    BY <2>1, <2>2, <1>2 DEF Open
  <2>4. UserIn(store, CookieOf(p, cookie)) = who
    BY <2>2, <1>2 DEF CookieOf
  <2> QED BY <2>3, <2>4, <1>2 DEF Knows
<1>6. UNCHANGED <<savesFirst, rotated, nextID, cookie, mixed, store, who>> /\ who \in Account
  BY DEF Return, SessInv
<1> QED BY <1>0, <1>1, <1>2, <1>3, <1>4, <1>5, <1>6, StillRunning

LEMMA MiddlewareSave_Inv == ASSUME SessInv, NEW r \in PageRequest, MiddlewareSave(r) PROVE SessInv'
<1> DEFINE s == page[r].outer
           c == SaveCookie(r, s)
           p == [page[r] EXCEPT !.pc = "saved", !.setCookie = c]
<1>0. /\ page[r] \in Page /\ s \in Session /\ PageGood(page[r], nextID, rotated)
      /\ StoreGood(store, nextID, rotated) /\ nextID \in Nat
  BY InPage
<1>1. c \in Nat
  BY <1>0 DEF SaveCookie, Session, Page
<1>2. page' = [page EXCEPT ![r] = p]
  BY <1>0 DEF MiddlewareSave, SessInv, Page
<1> HIDE DEF c
<1>3. /\ p \in Page /\ p.pc = "saved" /\ p.sess = page[r].sess /\ p.outer = s /\ p.setCookie = c
  BY <1>0, <1>1 DEF Page, Step
<1> HIDE DEF p
<1>4. page[r].pc = "answered" /\ Active(page[r]) /\ Active(p)
  BY <1>3 DEF MiddlewareSave, Active
<1>5. PageGood(p, nextID, rotated) /\ s.id \in 1..nextID-1 /\ Rotated(s, rotated)
  BY <1>0, <1>3, <1>4 DEF PageGood
<1>6. /\ StoreGood(store', nextID, rotated)
      /\ \A i : UserIn(store', i) = IF s.dirty /\ i = s.id THEN s.data.user ELSE UserIn(store, i)
  BY <1>0, <1>5, SaveGood DEF MiddlewareSave
<1>7. Knows(page[r], store, cookie, who) => Knows(p, store', cookie, who)
  <2> SUFFICES ASSUME Knows(page[r], store, cookie, who) PROVE Knows(p, store', cookie, who)
    OBVIOUS
  <2>1. /\ UserIn(store, CookieOf(page[r], cookie)) = who
        /\ s.dirty => page[r].committed /\ s.data.user = who
    BY <1>4 DEF Knows
  <2>2. c = page[r].setCookie
    BY <2>1 DEF c, SaveCookie
  <2>3. CookieOf(p, cookie) = CookieOf(page[r], cookie)
    BY <2>2, <1>3 DEF CookieOf
  <2>4. UserIn(store', CookieOf(p, cookie)) = who
    BY <2>1, <2>3, <1>6
  <2> QED BY <2>4, <1>3 DEF Knows
<1>8. UNCHANGED <<savesFirst, rotated, nextID, cookie, mixed, who>> /\ who \in Account
  BY DEF MiddlewareSave, SessInv
<1> QED BY <1>2, <1>3, <1>4, <1>5, <1>6, <1>7, <1>8, StillRunning

LEMMA Rotate_Inv == ASSUME SessInv, NEW r \in PageRequest, Rotate(r) PROVE SessInv'
<1> DEFINE s == page[r].sess
           new == [s EXCEPT !.id = nextID, !.data.user = page[r].as, !.dirty = TRUE]
           q == WithSession(page[r], new)
           p == [q EXCEPT !.pc = "handler", !.taken = NoEntry, !.as = Nobody]
           n == nextID + 1
           rot == rotated \union {nextID}
<1>0. /\ page[r] \in Page /\ s \in Session /\ s.data \in Data /\ PageGood(page[r], nextID, rotated)
      /\ StoreGood(store, nextID, rotated) /\ nextID \in Nat /\ nextID >= 1
  BY InPage DEF SessInv
<1>1. page[r].as \in Account /\ page[r].taken \in Data \union {NoEntry}
  BY <1>0 DEF Page
<1>2. new \in Session /\ new.id = nextID /\ new.data.user = page[r].as /\ new.dirty
  BY <1>0, <1>1 DEF Session, Data
<1>3. page' = [page EXCEPT ![r] = p]
  <2>1. page' = [page EXCEPT ![r].pc = "handler", ![r].taken = NoEntry, ![r].as = Nobody,
                   ![r].sess = new, ![r].outer = IF page[r].under THEN page[r].outer ELSE new]
    BY <1>0 DEF Rotate, SessInv, Page
  <2> HIDE DEF new
  <2> QED BY <2>1, <1>0, <1>2 DEF WithSession, SessInv, Page
<1>4. page[r].pc = "rotating" /\ Active(page[r])
  BY DEF Rotate, Active
<1>5. nextID \in 1..n-1 /\ n \in Nat /\ n >= nextID /\ rotated \subseteq rot /\ Rotated(new, rot)
  BY <1>0, <1>2 DEF Rotated
<1> HIDE DEF new
<1>6. /\ q \in Page /\ q.sess = new /\ q.outer = (IF page[r].under THEN page[r].outer ELSE new)
      /\ q.under = page[r].under /\ q.committed = page[r].committed
  BY <1>0, <1>2, WithSessionIs
<1> HIDE DEF q
<1>7. /\ p \in Page /\ p.sess = new /\ p.outer = (IF page[r].under THEN page[r].outer ELSE new)
      /\ p.pc = "handler" /\ p.under = page[r].under /\ p.committed = page[r].committed
  BY <1>6 DEF Page, Step, Account
<1> HIDE DEF p, n, rot
<1>8. PageGood(page[r], n, rot)
  BY <1>0, <1>5, PageGoodLater
<1>9. Active(p) /\ PageGood(p, n, rot)
  BY <1>2, <1>4, <1>5, <1>7, <1>8 DEF Active, PageGood
<1>10. StoreGood(store, n, rot)
  <2>1. \A i \in 1..nextID-1 : i \in 1..n-1
    BY <1>0, <1>5
  <2> QED BY <2>1, <1>0, <1>5 DEF StoreGood
<1>11. StoreGood(store', n, rot)
  <2>1. CASE page[r].taken = NoEntry
    BY <2>1, <1>10 DEF Rotate
  <2>2. CASE page[r].taken # NoEntry
    <3>1. page[r].taken \in Data /\ nextID \in rot /\ store' = Put(nextID, page[r].taken)
      BY <2>2, <1>1 DEF Rotate, rot
    <3> QED BY <3>1, <1>5, <1>10, PutGood
  <2> QED BY <2>1, <2>2
<1>12. Knows(page[r], store, cookie, who) => Knows(p, store', cookie, page[r].as)
  <2> SUFFICES ASSUME Knows(page[r], store, cookie, who) PROVE Knows(p, store', cookie, page[r].as)
    OBVIOUS
  <2>1. Open(page[r])
    BY <1>4 DEF Knows
  <2>2. Open(p)
    BY <2>1, <1>7 DEF Open
  <2> QED BY <2>2, <1>2, <1>7 DEF Knows
<1>13. /\ UNCHANGED <<savesFirst, mixed, cookie>> /\ nextID' = n /\ rotated' = rot
       /\ who' = page[r].as /\ cookie \in Nat
  BY DEF Rotate, SessInv, n, rot
<1> QED BY <1>1, <1>3, <1>4, <1>5, <1>7, <1>9, <1>11, <1>12, <1>13, RunningMoves

LEMMA Deliver_Inv == ASSUME SessInv, NEW r \in PageRequest, Deliver(r) PROVE SessInv'
<1> DEFINE p == [Idle EXCEPT !.pc = "done"]
<1>0. page[r] \in Page /\ PageGood(page[r], nextID, rotated) /\ StoreGood(store, nextID, rotated)
  BY InPage
<1>1. p \in Page /\ p.pc = "done" /\ p.sess = NoSession /\ p.outer = NoSession
  BY EmptyIs DEF Idle, Page, Step
<1>2. page' = [page EXCEPT ![r] = p]
  BY DEF Deliver
<1> HIDE DEF p
<1>3. page[r].pc = "saved" /\ Active(page[r]) /\ ~Active(p)
  BY <1>1 DEF Deliver, Active
<1>4. NoSession.data.user = Nobody
  BY EmptyIs DEF NoSession
<1>5. PageGood(p, nextID, rotated)
  BY <1>1, <1>3, <1>4 DEF PageGood, Rotated
<1>6. cookie' = CookieOf(page[r], cookie) /\ cookie' \in Nat
  BY <1>0 DEF Deliver, CookieOf, SessInv, Page
<1>7. Knows(page[r], store, cookie, who) => Knows(p, store, cookie', who) /\ who = UserIn(store, cookie')
  BY <1>1, <1>3, <1>6 DEF Knows
<1>8. /\ UNCHANGED <<savesFirst, store, rotated, nextID, mixed, who>> /\ who \in Account
      /\ nextID \in Nat /\ nextID >= nextID
  BY DEF Deliver, SessInv
<1> QED BY <1>0, <1>1, <1>2, <1>3, <1>5, <1>6, <1>7, <1>8, RunningMoves

LEMMA Evict_Inv == ASSUME SessInv, NEW i \in Stored, Evict(i) PROVE SessInv'
<1>1. \A r \in PageRequest : ~Active(page[r])
  BY DEF Evict, Running, Active
<1>2. UNCHANGED <<savesFirst, rotated, nextID, cookie, mixed, page>> /\ store' = Drop(i)
  BY DEF Evict
<1>3. StoreGood(store', nextID, rotated)
  BY <1>2 DEF SessInv, StoreGood, Drop, Stored
<1>4. who' \in Account
  BY DEF Evict, SessInv, Account
<1>5. ASSUME savesFirst, ~mixed PROVE FollowInv(page, store', cookie, who')
  <2>1. who = UserIn(store, cookie)
    BY <1>1, <1>5 DEF SessInv, FollowInv
  <2>2. who' = UserIn(store', cookie)
    BY <2>1 DEF Evict, UserIn, Drop, Stored
  <2>3. \A r \in PageRequest : Knows(page[r], store', cookie, who')
    BY <1>1 DEF Knows, Active
  <2> QED BY <1>1, <2>2, <2>3 DEF FollowInv
<1> QED BY <1>2, <1>3, <1>4, <1>5 DEF SessInv

LEMMA StartIs ==
  ASSUME SessInv, NEW fresh \in Nat, fresh >= nextID
  PROVE  /\ Start(fresh) \in Session
         /\ cookie \in Stored =>
              /\ Start(fresh).id = cookie /\ cookie \in 1..nextID-1
              /\ Start(fresh).data = store[cookie] /\ ~Start(fresh).dirty
         /\ cookie \notin Stored =>
              Start(fresh).id = fresh /\ Start(fresh).data = Empty /\ Start(fresh).dirty
         /\ Rotated(Start(fresh), rotated)
<1>1. CASE cookie \in Stored
  <2>1. store[cookie] \in Data /\ cookie \in 1..nextID-1 /\ cookie \in Nat
        /\ (store[cookie].user # Nobody => cookie \in rotated)
    BY <1>1 DEF SessInv, StoreGood, Stored
  <2>2. Start(fresh) = [id |-> cookie, data |-> store[cookie], dirty |-> FALSE]
    BY <1>1 DEF Start
  <2> QED BY <1>1, <2>1, <2>2 DEF Session, Rotated
<1>2. CASE cookie \notin Stored
  <2>1. Start(fresh) = [id |-> fresh, data |-> Empty, dirty |-> TRUE]
    BY <1>2 DEF Start
  <2> QED BY <1>2, <2>1, EmptyIs DEF Session, Rotated
<1> QED BY <1>1, <1>2

LEMMA Begin_Inv ==
  ASSUME SessInv, NEW r \in PageRequest, NEW protected \in BOOLEAN, Begin(r, protected)
  PROVE  SessInv'
<1> DEFINE first == Start(nextID)
           second == IF protected THEN Start(nextID + 1) ELSE first
           denied == protected /\ second.data.user = Nobody
           n == IF first.dirty THEN second.id + 1 ELSE nextID
           c == IF second.dirty THEN second.id ELSE NoID
           p == [Idle EXCEPT !.pc = IF denied THEN "answered" ELSE "handler",
                   !.sess = second, !.outer = first, !.under = protected,
                   !.setCookie = c, !.committed = denied]
<1>0. nextID \in Nat /\ nextID >= 1 /\ StoreGood(store, nextID, rotated)
  BY DEF SessInv
<1>1. page' = [page EXCEPT ![r] = p] /\ nextID' = n
  BY DEF Begin
<1>2. /\ UNCHANGED <<savesFirst, store, rotated, cookie, who>> /\ mixed' = (mixed \/ Running # {})
      /\ cookie \in Nat /\ who \in Account
  BY DEF Begin, SessInv
<1>3. /\ first \in Session /\ second \in Session /\ Rotated(first, rotated) /\ Rotated(second, rotated)
      /\ cookie \in Stored => /\ first.id = cookie /\ second.id = cookie /\ cookie \in 1..nextID-1
                              /\ first.data = store[cookie] /\ second.data = store[cookie]
                              /\ ~first.dirty /\ ~second.dirty
      /\ cookie \notin Stored => /\ first.id = nextID /\ second.id \in {nextID, nextID + 1}
                                 /\ first.data = Empty /\ second.data = Empty
                                 /\ first.dirty /\ second.dirty
      /\ ~protected => first = second
  <2>1. nextID + 1 \in Nat /\ nextID + 1 >= nextID /\ nextID >= nextID
    BY <1>0
  <2> QED BY <2>1, <1>0, StartIs
<1> HIDE DEF first, second
<1>4. n \in Nat /\ n >= nextID /\ first.id \in 1..n-1 /\ second.id \in 1..n-1 /\ c \in Nat
  <2>1. CASE cookie \in Stored
    BY <2>1, <1>0, <1>3 DEF NoID
  <2>2. CASE cookie \notin Stored
    BY <2>2, <1>0, <1>3
  <2> QED BY <2>1, <2>2
<1>5. denied \in BOOLEAN
  BY Zenon
<1> HIDE DEF n, c, denied
<1>6. /\ p \in Page /\ p.pc = (IF denied THEN "answered" ELSE "handler")
      /\ p.sess = second /\ p.outer = first /\ p.under = protected
      /\ p.setCookie = c /\ p.committed = denied
  BY <1>3, <1>4, <1>5, EmptyIs DEF Idle, Page, Step
<1> HIDE DEF p
<1>7. Active(p) /\ PageGood(p, n, rotated)
  BY <1>3, <1>4, <1>6 DEF Active, PageGood
<1>8. StoreGood(store, n, rotated)
  <2>1. \A i \in 1..nextID-1 : i \in 1..n-1
    BY <1>0, <1>4
  <2> QED BY <2>1, <1>0 DEF StoreGood
<1>9. ASSUME savesFirst, ~mixed'
      PROVE  /\ \A q \in PageRequest : q # r => ~Active(page[q])
             /\ Knows(p, store, cookie, who)
  <2>1. \A q \in PageRequest : ~Active(page[q])
    BY <1>2, <1>9 DEF Running, Active
  <2>2. who = UserIn(store, cookie)
    BY <2>1, <1>2, <1>9 DEF SessInv, FollowInv
  <2>3. CASE cookie \in Stored
    <3>1. who = store[cookie].user /\ c = NoID
      BY <2>2, <2>3, <1>3 DEF UserIn, Stored, c
    <3>2. UserIn(store, CookieOf(p, cookie)) = who
      BY <2>2, <3>1, <1>6 DEF CookieOf
    <3>3. ~p.outer.dirty /\ p.sess.data.user = who
      BY <2>3, <3>1, <1>3, <1>6
    <3>4. ~denied => Open(p)
      BY <3>3, <1>3, <1>6 DEF Open
    <3>5. CASE denied
      BY <2>1, <3>2, <3>3, <3>5, <1>6 DEF Knows
    <3>6. CASE ~denied
      BY <2>1, <3>2, <3>3, <3>4, <3>6, <1>6 DEF Knows
    <3> QED BY <3>5, <3>6
  <2>4. CASE cookie \notin Stored
    <3>1. who = Nobody /\ Empty.user = Nobody
      BY <2>2, <2>4, EmptyIs DEF UserIn, Stored
    <3>2. c = second.id /\ c # NoID /\ c \notin DOMAIN store
      BY <2>4, <1>0, <1>3 DEF c, NoID, StoreGood
    <3>3. UserIn(store, CookieOf(p, cookie)) = who
      BY <3>1, <3>2, <1>6 DEF CookieOf, UserIn
    <3>4. p.sess.data.user = who /\ p.outer.data.user = who
      BY <2>4, <3>1, <1>3, <1>6
    <3>5. protected => denied
      BY <2>4, <3>1, <1>3 DEF denied
    <3>6. ~denied => Open(p)
      BY <3>5, <1>3, <1>6 DEF Open
    <3>7. CASE denied
      <4>1. p.pc = "answered" /\ p.committed
        BY <3>7, <1>6
      <4> QED BY <2>1, <4>1, <3>3, <3>4 DEF Knows
    <3>8. CASE ~denied
      <4>1. p.pc = "handler"
        BY <3>8, <1>6
      <4> QED BY <2>1, <4>1, <3>3, <3>4, <3>6, <3>8 DEF Knows
    <3> QED BY <3>7, <3>8
  <2> QED BY <2>1, <2>3, <2>4
<1>10. mixed' \in BOOLEAN
  BY <1>2, Zenon DEF SessInv
<1> QED BY <1>1, <1>2, <1>4, <1>6, <1>7, <1>8, <1>9, <1>10, OneMoves

LEMMA SessNext_Inv == ASSUME SessInv, [SessNext]_sessVars PROVE SessInv'
<1>1. ASSUME NEW r \in PageRequest, NEW b \in BOOLEAN, Begin(r, b) \/ Return(r, b) PROVE SessInv'
  BY <1>1, Begin_Inv, Return_Inv
<1>2. ASSUME NEW r \in PageRequest, Remember(r) \/ Rotate(r) \/ Logout(r) PROVE SessInv'
  BY <1>2, Remember_Inv, Rotate_Inv, Logout_Inv
<1>3. ASSUME NEW r \in PageRequest, HandlerSave(r) \/ MiddlewareSave(r) \/ Deliver(r) PROVE SessInv'
  BY <1>3, HandlerSave_Inv, MiddlewareSave_Inv, Deliver_Inv
<1>4. ASSUME NEW r \in PageRequest, NEW u \in User, Attempt(r, u) PROVE SessInv'
  BY <1>4, Attempt_Inv
<1>5. ASSUME NEW i \in Stored, Evict(i) PROVE SessInv'
  BY <1>5, Evict_Inv
<1>6. CASE UNCHANGED sessVars
  BY <1>6 DEF sessVars, SessInv
<1> QED BY <1>1, <1>2, <1>3, <1>4, <1>5, <1>6 DEF SessNext

\* However many requests of a browser overlap and wherever their saves fall, a
\* session id that a client could have held before a login never carries a user
\* (guard.go 49): only ids that Regenerate drew do.
THEOREM LoginRotates == SessSpec => []NoFixation
<1>1. SessInit => SessInv
  BY SessInit_Inv
<1>2. SessInv /\ [SessNext]_sessVars => SessInv'
  BY SessNext_Inv
<1>3. SessInv => NoFixation
  BY SessInvSuffices
<1> QED BY <1>1, <1>2, <1>3, PTL DEF SessSpec

\* For handlers that save the session before they answer, any number of
\* requests one after the other leaves the browser with a cookie whose stored
\* session carries the user of the last login or logout (session.go 107-131,
\* middleware/auth.go 64-79).
THEOREM CookieFollowsUser == SessSpec => []SessionFollows
<1>1. SessInit => SessInv
  BY SessInit_Inv
<1>2. SessInv /\ [SessNext]_sessVars => SessInv'
  BY SessNext_Inv
<1>3. SessInv => SessionFollows
  BY SessInvSuffices
<1> QED BY <1>1, <1>2, <1>3, PTL DEF SessSpec

----------------------------------------------------------------------------
(* The rate limiter.  What was let through within the window is in the     *)
(* window object of the map, and a request that is about to count holds    *)
(* that object and no other key's.                                         *)

RequestRec ==
  [pc : {"idle", "create", "allow", "lookup"}, goal : {"allow", "remaining"}, key : RateKey, entry : Nat]

RateTypes ==
  /\ time \in Nat
  /\ windows \in Seq(SUBSET Stamp)
  /\ entries \in [RateKey -> Nat] /\ \A k \in RateKey : entries[k] <= Len(windows)
  /\ req \in [Request -> RequestRec]
  /\ allowed \in [RateKey -> SUBSET Stamp]

WindowsBounded(ws) ==
  \A e \in 1..Len(ws) : IsFiniteSet(ws[e]) /\ Cardinality(ws[e]) <= Limit

Counting(o) == o.pc = "allow"

\* No two keys share a window.
WindowsApart ==
  /\ \A k, j \in RateKey : entries[k] = entries[j] /\ entries[k] # 0 => k = j
  /\ \A r \in Request : Counting(req[r]) =>
       /\ req[r].entry \in 1..Len(windows)
       /\ \A k \in RateKey : req[r].entry = entries[k] => req[r].key = k

\* The window of a key that nothing was taken from knows all that counts.
WindowKnows(k) ==
  /\ \A r \in Request : Counting(req[r]) /\ req[r].key = k => req[r].entry = entries[k]
  /\ \A s \in allowed[k] : s.at > time - Window => entries[k] # 0 /\ s \in windows[entries[k]]

RateInv ==
  /\ RateTypes /\ WindowsBounded(windows) /\ WindowsApart
  /\ \A k \in RateKey : IsFiniteSet(allowed[k]) /\ \A s \in allowed[k] : s.at <= time
  /\ \A k \in RateKey : k \notin astray => WindowKnows(k)
  /\ LimitHolds

LEMMA NoRequestIs == NoRequest \in RequestRec /\ ~Counting(NoRequest)
<1>1. (CHOOSE k \in RateKey : TRUE) \in RateKey
  BY RateAssumption
<1> QED BY <1>1 DEF NoRequest, RequestRec, Counting

LEMMA RateInitInv == RateInit => RateInv
<1> SUFFICES ASSUME RateInit PROVE RateInv
  OBVIOUS
<1>1. RateTypes
  BY NoRequestIs DEF RateInit, RateTypes
<1>2. WindowsBounded(windows) /\ WindowsApart
  BY NoRequestIs DEF RateInit, WindowsBounded, WindowsApart
<1>3. \A k \in RateKey : allowed[k] = {}
  BY DEF RateInit
<1>4. \A k \in RateKey : WindowKnows(k)
  BY <1>3, NoRequestIs DEF RateInit, WindowKnows
<1>5. LimitHolds
  <2> SUFFICES ASSUME NEW k \in RateKey, NEW t \in 0..MaxTime PROVE LetThrough(k, t) <= Limit
    BY DEF LimitHolds
  <2>1. {s \in allowed[k] : s.at > t - Window /\ s.at <= t} = {}
    BY <1>3
  <2>2. LetThrough(k, t) = 0
    BY <2>1, FS_EmptySet DEF LetThrough
  <2> QED BY <2>2, RateAssumption
<1> QED BY <1>1, <1>2, <1>3, <1>4, <1>5, FS_EmptySet DEF RateInv

\* As long as no request is let through, the limit stays as it was.
LEMMA LimitKept ==
  ASSUME RateInv, allowed' = allowed, astray \subseteq astray'
  PROVE  LimitHolds'
<1> SUFFICES ASSUME NEW k \in RateKey \ astray', NEW t \in 0..MaxTime PROVE LetThrough(k, t)' <= Limit
  BY DEF LimitHolds
<1>1. LetThrough(k, t)' = LetThrough(k, t)
  BY DEF LetThrough
<1>2. k \in RateKey \ astray
  OBVIOUS
<1>3. LetThrough(k, t) <= Limit
  BY <1>2 DEF RateInv, LimitHolds
<1> QED BY <1>1, <1>3

\* One request moves on; it counts only if it has just found the key's window.
LEMMA RequestMoves ==
  ASSUME RateInv, NEW r \in Request, NEW o \in RequestRec, req' = [req EXCEPT ![r] = o],
         Counting(o) => o.entry = entries[o.key] /\ entries[o.key] # 0,
         UNCHANGED <<entries, windows, time, allowed, astray>>
  PROVE  RateInv'
<1>1. req'[r] = o /\ (\A v \in Request : v # r => req'[v] = req[v]) /\ req' \in [Request -> RequestRec]
  BY DEF RateInv, RateTypes
<1>2. RateTypes'
  BY <1>1 DEF RateInv, RateTypes
<1>3. WindowsBounded(windows') /\ LimitHolds'
  BY LimitKept DEF RateInv
<1>4. o.key \in RateKey
  BY DEF RequestRec
<1>5. Counting(o) => o.entry \in 1..Len(windows)
  <2>1. entries[o.key] \in Nat /\ entries[o.key] <= Len(windows) /\ Len(windows) \in Nat
    BY <1>4 DEF RateInv, RateTypes
  <2> QED BY <2>1
<1>6. WindowsApart'
  <2>1. \A k, j \in RateKey : entries'[k] = entries'[j] /\ entries'[k] # 0 => k = j
    BY DEF RateInv, WindowsApart
  <2>2. ASSUME NEW v \in Request, Counting(req'[v])
        PROVE  /\ req'[v].entry \in 1..Len(windows')
               /\ \A k \in RateKey : req'[v].entry = entries'[k] => req'[v].key = k
    <3>1. CASE v = r
      BY <1>1, <1>4, <1>5, <2>2, <3>1 DEF RateInv, WindowsApart
    <3>2. CASE v # r
      BY <1>1, <2>2, <3>2 DEF RateInv, WindowsApart
    <3> QED BY <3>1, <3>2
  <2> QED BY <2>1, <2>2 DEF WindowsApart, Counting
<1>7. ASSUME NEW k \in RateKey, k \notin astray' PROVE WindowKnows(k)'
  <2>1. WindowKnows(k)
    BY <1>7 DEF RateInv
  <2>2. \A v \in Request : Counting(req'[v]) /\ req'[v].key = k => req'[v].entry = entries[k]
    BY <1>1, <2>1 DEF WindowKnows
  <2> QED BY <2>1, <2>2 DEF WindowKnows, Counting
<1> QED BY <1>2, <1>3, <1>6, <1>7 DEF RateInv, WindowsBounded

\* What the look-up under the read lock makes of a request.
LEMMA FoundMoves ==
  ASSUME RateInv, NEW r \in Request, NEW k \in RateKey, NEW goal \in {"allow", "remaining"}, Found(r, k, goal),
         UNCHANGED <<entries, windows, time, allowed, astray>>
  PROVE  RateInv'
<1> DEFINE c == [pc |-> "create", goal |-> goal, key |-> k, entry |-> 0]
           a == [pc |-> "allow", goal |-> goal, key |-> k, entry |-> entries[k]]
<1>0. entries[k] \in Nat
  BY DEF RateInv, RateTypes
<1>1. c \in RequestRec /\ ~Counting(c)
  BY DEF RequestRec, Counting
<1>2. a \in RequestRec /\ a.entry = entries[k] /\ a.key = k
  BY <1>0 DEF RequestRec
<1>3. CASE entries[k] = 0
  <2>1. req' = [req EXCEPT ![r] = c]
    BY <1>3 DEF Found
  <2> HIDE DEF c
  <2> QED BY <1>1, <2>1, RequestMoves
<1>4. CASE entries[k] # 0 /\ goal = "allow"
  <2>1. req' = [req EXCEPT ![r] = a]
    BY <1>4 DEF Found
  <2> HIDE DEF a
  <2> QED BY <1>2, <1>4, <2>1, RequestMoves
<1>5. CASE entries[k] # 0 /\ goal # "allow"
  <2>1. req' = [req EXCEPT ![r] = NoRequest]
    BY <1>5 DEF Found
  <2> QED BY <2>1, NoRequestIs, RequestMoves
<1> QED BY <1>3, <1>4, <1>5

LEMMA CreateInv == ASSUME RateInv, NEW r \in Request, Create(r) PROVE RateInv'
<1> DEFINE k == req[r].key
           e == IF entries[k] = 0 THEN Len(windows) + 1 ELSE entries[k]
           a == [req[r] EXCEPT !.pc = "allow", !.entry = e]
           o == IF req[r].goal = "allow" THEN a ELSE NoRequest
<1>1. req[r] \in RequestRec /\ k \in RateKey /\ entries \in [RateKey -> Nat] /\ entries[k] \in Nat
      /\ windows \in Seq(SUBSET Stamp) /\ Len(windows) \in Nat /\ e \in Nat
      /\ \A j \in RateKey : entries[j] <= Len(windows)
  BY DEF RateInv, RateTypes, RequestRec
<1>2. a \in RequestRec /\ a.key = k /\ a.entry = e /\ Counting(a)
  BY <1>1 DEF RequestRec, Counting
<1>3. o \in RequestRec /\ (Counting(o) => o.key = k /\ o.entry = e)
  BY <1>2, NoRequestIs
<1>4. req' = [req EXCEPT ![r] = o] /\ UNCHANGED <<time, allowed, astray, asked>>
      /\ entries' = [entries EXCEPT ![k] = e]
      /\ windows' = (IF entries[k] = 0 THEN Append(windows, {}) ELSE windows)
  BY DEF Create
<1> HIDE DEF o, a
<1>5. CASE entries[k] # 0
  <2>1. e = entries[k] /\ entries' = entries /\ windows' = windows
    BY <1>1, <1>4, <1>5
  <2> HIDE DEF k, e
  <2> QED BY <1>3, <1>4, <1>5, <2>1, RequestMoves
<1>6. CASE entries[k] = 0
  <2>1. e = Len(windows) + 1 /\ windows' = Append(windows, {})
    BY <1>4, <1>6
  <2> HIDE DEF e
  <2>2. /\ windows' \in Seq(SUBSET Stamp) /\ Len(windows') = Len(windows) + 1
        /\ windows'[e] = {} /\ \A i \in 1..Len(windows) : windows'[i] = windows[i]
    BY <1>1, <2>1, AppendProperties
  <2>3. entries'[k] = e /\ (\A j \in RateKey : j # k => entries'[j] = entries[j]) /\ entries' \in [RateKey -> Nat]
    BY <1>1, <1>4
  <2>4. req'[r] = o /\ (\A v \in Request : v # r => req'[v] = req[v]) /\ req' \in [Request -> RequestRec]
    BY <1>3, <1>4 DEF RateInv, RateTypes
  <2> HIDE DEF k
  <2>5. RateTypes'
    BY <1>1, <1>4, <2>1, <2>2, <2>3, <2>4 DEF RateInv, RateTypes
  <2>6. WindowsBounded(windows')
    <3> SUFFICES ASSUME NEW i \in 1..Len(windows') PROVE IsFiniteSet(windows'[i]) /\ Cardinality(windows'[i]) <= Limit
      BY DEF WindowsBounded
    <3>1. CASE i = e
      <4>1. IsFiniteSet({}) /\ Cardinality({}) = 0 /\ 0 <= Limit
        BY FS_EmptySet, RateAssumption
      <4>2. windows'[i] = {}
        BY <2>2, <3>1
      <4> QED BY <4>1, <4>2
    <3>2. CASE i # e
      <4>1. i \in 1..Len(windows)
        BY <1>1, <2>1, <2>2, <3>2
      <4> QED BY <2>2, <4>1 DEF RateInv, WindowsBounded
    <3> QED BY <3>1, <3>2
  <2>7. WindowsApart'
    <3>1. \A i, j \in RateKey : entries'[i] = entries'[j] /\ entries'[i] # 0 => i = j
      BY <1>1, <2>1, <2>3 DEF RateInv, WindowsApart
    <3>2. ASSUME NEW v \in Request, Counting(req'[v])
          PROVE  /\ req'[v].entry \in 1..Len(windows')
                 /\ \A j \in RateKey : req'[v].entry = entries'[j] => req'[v].key = j
      <4>1. CASE v = r
        BY <1>1, <1>3, <2>1, <2>2, <2>3, <2>4, <3>2, <4>1
      <4>2. CASE v # r
        BY <1>1, <2>1, <2>2, <2>3, <2>4, <3>2, <4>2 DEF RateInv, WindowsApart
      <4> QED BY <4>1, <4>2
    <3> QED BY <3>1, <3>2 DEF WindowsApart, Counting
  <2>8. ASSUME NEW j \in RateKey, j \notin astray' PROVE WindowKnows(j)'
    <3>0. WindowKnows(j) /\ time' = time /\ allowed' = allowed
      BY <1>4, <2>8 DEF RateInv
    <3>1. \A v \in Request : Counting(req'[v]) /\ req'[v].key = j => req'[v].entry = entries'[j]
      <4> SUFFICES ASSUME NEW v \in Request, Counting(req'[v]), req'[v].key = j PROVE req'[v].entry = entries'[j]
        OBVIOUS
      <4>1. CASE v = r
        BY <1>3, <2>3, <2>4, <4>1
      <4>2. CASE v # r
        <5>1. req[v].entry = entries[j] /\ req[v].entry \in 1..Len(windows)
          BY <2>4, <3>0, <4>2 DEF WindowKnows, RateInv, WindowsApart
        <5>2. j # k
          BY <1>6, <5>1 DEF k
        <5> QED BY <2>3, <2>4, <4>2, <5>1, <5>2
      <4> QED BY <4>1, <4>2
    <3>2. \A s \in allowed[j] : s.at > time - Window => entries'[j] # 0 /\ s \in windows'[entries'[j]]
      <4> SUFFICES ASSUME NEW s \in allowed[j], s.at > time - Window
                   PROVE  entries'[j] # 0 /\ s \in windows'[entries'[j]]
        OBVIOUS
      <4>1. entries[j] # 0 /\ s \in windows[entries[j]]
        BY <3>0 DEF WindowKnows
      <4>2. j # k
        BY <1>6, <4>1 DEF k
      <4>3. entries[j] \in 1..Len(windows)
        BY <1>1, <4>1
      <4> QED BY <2>2, <2>3, <4>1, <4>2, <4>3
    <3> QED BY <3>0, <3>1, <3>2 DEF WindowKnows, Counting
  <2>9. LimitHolds'
    BY <1>4, LimitKept
  <2> QED BY <1>4, <2>5, <2>6, <2>7, <2>8, <2>9 DEF RateInv, WindowsBounded
<1> QED BY <1>5, <1>6

LEMMA ElapseInv == ASSUME RateInv, Elapse PROVE RateInv'
<1>1. time \in Nat /\ time' = time + 1 /\ UNCHANGED <<entries, windows, req, allowed, astray>>
  BY DEF Elapse, RateInv, RateTypes
<1>2. RateTypes' /\ WindowsBounded(windows') /\ WindowsApart' /\ LimitHolds'
  BY <1>1, LimitKept DEF RateInv, RateTypes, WindowsApart, Counting
<1>3. ASSUME NEW k \in RateKey, NEW s \in allowed[k] PROVE s.at \in Nat /\ s.at <= time
  <2>1. s \in Stamp
    BY DEF RateInv, RateTypes
  <2> QED BY <2>1 DEF Stamp, RateInv
<1>4. ASSUME NEW k \in RateKey, k \notin astray' PROVE WindowKnows(k)'
  <2>1. WindowKnows(k)
    BY <1>1, <1>4 DEF RateInv
  <2>2. \A s \in allowed[k] : s.at > time' - Window => s.at > time - Window
    BY <1>1, <1>3, RateAssumption
  <2> QED BY <1>1, <2>1, <2>2 DEF WindowKnows, Counting
<1>5. \A k \in RateKey : IsFiniteSet(allowed'[k]) /\ \A s \in allowed'[k] : s.at <= time'
  BY <1>1, <1>3 DEF RateInv
<1> QED BY <1>2, <1>4, <1>5 DEF RateInv, WindowsBounded

LEMMA ValidIs ==
  ASSUME NEW ts, IsFiniteSet(ts), Cardinality(ts) <= Limit
  PROVE  Valid(ts) \subseteq ts /\ IsFiniteSet(Valid(ts)) /\ Cardinality(Valid(ts)) <= Limit
         /\ Cardinality(Valid(ts)) \in Nat
<1>1. Valid(ts) \subseteq ts
  BY DEF Valid
<1>2. IsFiniteSet(Valid(ts)) /\ Cardinality(Valid(ts)) <= Cardinality(ts)
  BY <1>1, FS_Subset
<1>3. Cardinality(ts) \in Nat /\ Cardinality(Valid(ts)) \in Nat
  BY <1>2, FS_CardinalityType
<1> QED BY <1>1, <1>2, <1>3, RateAssumption

LEMMA CleanupInv == ASSUME RateInv, Cleanup PROVE RateInv'
<1> DEFINE InMap(e) == \E k \in RateKey : entries[k] = e
<1>1. /\ windows' = [e \in 1..Len(windows) |-> IF InMap(e) THEN Valid(windows[e]) ELSE windows[e]]
      /\ entries' = [k \in RateKey |-> IF k \in Removed THEN 0 ELSE entries[k]]
      /\ astray' = astray \cup {k \in Removed : \E r \in Request : req[r].pc = "allow" /\ req[r].entry = entries[k]}
      /\ UNCHANGED <<req, time, allowed>>
  BY DEF Cleanup
<1>2. windows \in Seq(SUBSET Stamp) /\ Len(windows) \in Nat /\ entries \in [RateKey -> Nat]
      /\ \A k \in RateKey : entries[k] <= Len(windows)
  BY DEF RateInv, RateTypes
<1>3. ASSUME NEW e \in 1..Len(windows)
      PROVE  /\ windows[e] \in SUBSET Stamp /\ Valid(windows[e]) \subseteq windows[e]
             /\ windows'[e] \in SUBSET Stamp /\ windows'[e] = (IF InMap(e) THEN Valid(windows[e]) ELSE windows[e])
             /\ IsFiniteSet(windows'[e]) /\ Cardinality(windows'[e]) <= Limit
  <2>1. windows'[e] = IF InMap(e) THEN Valid(windows[e]) ELSE windows[e]
    BY <1>1
  <2>2. windows[e] \in SUBSET Stamp /\ IsFiniteSet(windows[e]) /\ Cardinality(windows[e]) <= Limit
    BY <1>2 DEF RateInv, WindowsBounded
  <2>3. Valid(windows[e]) \subseteq windows[e] /\ IsFiniteSet(Valid(windows[e])) /\ Cardinality(Valid(windows[e])) <= Limit
    BY <2>2, ValidIs
  <2> QED BY <2>1, <2>2, <2>3
<1>4. windows' \in Seq(SUBSET Stamp) /\ Len(windows') = Len(windows)
  <2>1. windows' \in [1..Len(windows) -> SUBSET Stamp]
    BY <1>1, <1>3
  <2> QED BY <1>2, <2>1
<1>5. \A k \in RateKey : entries'[k] = IF k \in Removed THEN 0 ELSE entries[k]
  BY <1>1
<1>6. RateTypes'
  BY <1>1, <1>2, <1>4, <1>5 DEF RateInv, RateTypes
<1>7. WindowsBounded(windows')
  BY <1>3, <1>4 DEF WindowsBounded
<1>8. WindowsApart'
  <2>1. \A k, j \in RateKey : entries'[k] = entries'[j] /\ entries'[k] # 0 => k = j
    BY <1>5 DEF RateInv, WindowsApart
  <2>2. ASSUME NEW r \in Request, Counting(req[r])
        PROVE  /\ req[r].entry \in 1..Len(windows')
               /\ \A k \in RateKey : req[r].entry = entries'[k] => req[r].key = k
    BY <1>2, <1>4, <1>5, <2>2 DEF RateInv, WindowsApart
  <2> QED BY <1>1, <2>1, <2>2 DEF WindowsApart, Counting
<1>9. ASSUME NEW k \in RateKey, k \notin astray' PROVE WindowKnows(k)'
  <2>1. WindowKnows(k)
    BY <1>1, <1>9 DEF RateInv
  <2>2. ASSUME NEW s \in allowed[k], s.at > time - Window
        PROVE  entries[k] # 0 /\ s \in Valid(windows[entries[k]]) /\ k \notin Removed
    BY <2>1, <2>2 DEF WindowKnows, Valid, Removed
  <2>3. ASSUME NEW s \in allowed[k], s.at > time - Window
        PROVE  entries'[k] # 0 /\ s \in windows'[entries'[k]]
    <3>1. entries'[k] = entries[k] /\ entries[k] \in 1..Len(windows) /\ InMap(entries[k])
      BY <1>2, <1>5, <2>2, <2>3
    <3> QED BY <1>3, <2>2, <2>3, <3>1
  <2>4. ASSUME NEW r \in Request, Counting(req[r]), req[r].key = k PROVE req[r].entry = entries'[k]
    <3>1. req[r].entry = entries[k] /\ req[r].entry # 0
      BY <1>2, <2>1, <2>4 DEF WindowKnows, RateInv, WindowsApart
    <3>2. k \notin Removed
      BY <1>1, <1>9, <2>4, <3>1 DEF Counting
    <3> QED BY <1>5, <3>1, <3>2
  <2> QED BY <1>1, <2>3, <2>4 DEF WindowKnows, Counting
<1>10. LimitHolds'
  BY <1>1, LimitKept
<1>11. \A k \in RateKey : IsFiniteSet(allowed'[k]) /\ \A s \in allowed'[k] : s.at <= time'
  BY <1>1 DEF RateInv
<1> QED BY <1>6, <1>7, <1>8, <1>9, <1>10, <1>11 DEF RateInv, WindowsBounded

\* A request is let through only into a window that has room, and the window
\* knows whatever else was let through lately.
LEMMA AllowInv == ASSUME RateInv, NEW r \in Request, Allow(r) PROVE RateInv'
<1> DEFINE k == req[r].key
           e == req[r].entry
           ts == Valid(windows[e])
           now == [n |-> Cardinality(allowed[k]) + 1, at |-> time]
           ok == Permitted(ts)
           w == IF ok THEN ts \cup {now} ELSE ts
           a == [req[r] EXCEPT !.pc = "lookup"]
           o == IF ok THEN a ELSE NoRequest
<1>1. req[r] \in RequestRec /\ k \in RateKey /\ Counting(req[r]) /\ e \in 1..Len(windows)
      /\ time \in Nat /\ windows \in Seq(SUBSET Stamp) /\ Len(windows) \in Nat
      /\ \A j \in RateKey : e = entries[j] => k = j
  BY DEF Allow, Counting, RateInv, RateTypes, WindowsApart, RequestRec
<1>2. a \in RequestRec /\ ~Counting(a)
  BY <1>1 DEF RequestRec, Counting
<1>3. o \in RequestRec /\ ~Counting(o)
  BY <1>2, NoRequestIs
<1>4. /\ windows' = [windows EXCEPT ![e] = w]
      /\ allowed' = (IF ok THEN [allowed EXCEPT ![k] = allowed[k] \cup {now}] ELSE allowed)
      /\ req' = [req EXCEPT ![r] = o]
      /\ UNCHANGED <<entries, time, astray>>
  BY DEF Allow, Evicted
<1> HIDE DEF a, o
<1>5. windows[e] \in SUBSET Stamp /\ IsFiniteSet(windows[e]) /\ Cardinality(windows[e]) <= Limit
  BY <1>1 DEF RateInv, WindowsBounded
<1>6. ts \subseteq windows[e] /\ IsFiniteSet(ts) /\ Cardinality(ts) <= Limit /\ Cardinality(ts) \in Nat
  BY <1>5, ValidIs
<1>7. ts = {s \in windows[e] : s.at > time - Window}
  BY DEF Valid
<1>8. ok <=> Cardinality(ts) < Limit
  BY DEF Permitted
<1> HIDE DEF ts, ok
<1>9. now.at = time
  OBVIOUS
<1> HIDE DEF now
<1>10. ts \subseteq w /\ (ok => now \in w) /\ w \subseteq ts \cup {now} /\ (~ok => w = ts)
  OBVIOUS
<1>11. IsFiniteSet(w) /\ Cardinality(w) <= Limit
  <2>1. CASE ok
    <3>1. IsFiniteSet(ts \cup {now})
          /\ Cardinality(ts \cup {now}) = (IF now \in ts THEN Cardinality(ts) ELSE Cardinality(ts) + 1)
      BY <1>6, FS_AddElement
    <3> QED BY <1>6, <1>8, <2>1, <3>1, RateAssumption
  <2>2. CASE ~ok
    BY <1>6, <2>2
  <2> QED BY <2>1, <2>2
<1> HIDE DEF w
\* What is new.
<1>12. windows'[e] = w /\ Len(windows') = Len(windows) /\ \A i \in 1..Len(windows) : i # e => windows'[i] = windows[i]
  BY <1>1, <1>4
<1>13. /\ allowed \in [RateKey -> SUBSET Stamp]
       /\ \A j \in RateKey : j # k => allowed'[j] = allowed[j]
       /\ \A s \in allowed'[k] : s \in allowed[k] \/ (ok /\ s = now)
       /\ allowed[k] \subseteq allowed'[k]
  BY <1>1, <1>4 DEF RateInv, RateTypes
<1>14. now \in Stamp
  <2>1. Cardinality(allowed[k]) \in Nat
    BY <1>1, FS_CardinalityType DEF RateInv
  <2> QED BY <1>1, <2>1 DEF now, Stamp
<1>15. req'[r] = o /\ (\A v \in Request : v # r => req'[v] = req[v]) /\ req' \in [Request -> RequestRec]
  BY <1>3, <1>4 DEF RateInv, RateTypes
<1>16. RateTypes'
  <2>1. w \in SUBSET Stamp
    BY <1>5, <1>6, <1>10, <1>14
  <2>2. windows' \in Seq(SUBSET Stamp)
    BY <1>1, <1>4, <2>1
  <2>3. allowed' \in [RateKey -> SUBSET Stamp]
    BY <1>1, <1>4, <1>13, <1>14
  <2> QED BY <1>4, <1>12, <1>15, <2>2, <2>3 DEF RateInv, RateTypes
<1>17. WindowsBounded(windows')
  BY <1>11, <1>12 DEF RateInv, WindowsBounded
<1>18. WindowsApart'
  <2>1. \A i, j \in RateKey : entries'[i] = entries'[j] /\ entries'[i] # 0 => i = j
    BY <1>4 DEF RateInv, WindowsApart
  <2>2. ASSUME NEW v \in Request, Counting(req'[v])
        PROVE  /\ req'[v].entry \in 1..Len(windows')
               /\ \A j \in RateKey : req'[v].entry = entries'[j] => req'[v].key = j
    <3>1. v # r /\ req'[v] = req[v]
      BY <1>3, <1>15, <2>2
    <3> QED BY <1>4, <1>12, <2>2, <3>1 DEF RateInv, WindowsApart
  <2> QED BY <2>1, <2>2 DEF WindowsApart, Counting
<1>19. ASSUME NEW j \in RateKey PROVE IsFiniteSet(allowed'[j]) /\ \A s \in allowed'[j] : s.at <= time'
  <2>1. IsFiniteSet(allowed[j]) /\ (\A s \in allowed[j] : s.at <= time) /\ time' = time
    BY <1>4 DEF RateInv
  <2>2. CASE j # k
    BY <1>13, <2>1, <2>2
  <2>3. CASE j = k
    <3>1. IsFiniteSet(allowed[k] \cup {now})
      BY <2>1, <2>3, FS_AddElement
    <3>2. allowed'[k] \subseteq allowed[k] \cup {now}
      BY <1>13
    <3>3. IsFiniteSet(allowed'[k])
      BY <3>1, <3>2, FS_Subset
    <3> QED BY <1>1, <1>9, <1>13, <2>1, <2>3, <3>3
  <2> QED BY <2>2, <2>3
\* The window of a key is the one its requests count in.
<1>20. ASSUME NEW j \in RateKey, j \notin astray' PROVE WindowKnows(j)'
  <2>1. WindowKnows(j) /\ entries' = entries /\ time' = time
    BY <1>4, <1>20 DEF RateInv
  <2>2. ASSUME NEW v \in Request, Counting(req'[v]), req'[v].key = j PROVE req'[v].entry = entries'[j]
    <3>1. v # r /\ req'[v] = req[v]
      BY <1>3, <1>15, <2>2
    <3> QED BY <2>1, <2>2, <3>1 DEF WindowKnows
  <2>3. ASSUME NEW s \in allowed'[j], s.at > time - Window
        PROVE  entries[j] # 0 /\ s \in windows'[entries[j]]
    <3>0. entries[j] \in Nat /\ entries[j] <= Len(windows)
      BY DEF RateInv, RateTypes
    <3>1. CASE j # k
      <4>1. s \in allowed[j]
        BY <1>13, <3>1
      <4>2. entries[j] # 0 /\ s \in windows[entries[j]]
        BY <2>1, <2>3, <4>1 DEF WindowKnows
      <4>3. entries[j] # e
        BY <1>1, <3>1
      <4>4. entries[j] \in 1..Len(windows)
        BY <1>1, <3>0, <4>2
      <4> QED BY <1>12, <4>2, <4>3, <4>4
    <3>2. CASE j = k
      <4>1. entries[k] = e
        BY <1>1, <2>1, <3>2 DEF WindowKnows
      <4>2. CASE s \in allowed[k]
        <5>1. s \in windows[e]
          BY <2>1, <2>3, <3>2, <4>1, <4>2 DEF WindowKnows
        <5>2. s \in ts
          BY <1>7, <2>3, <5>1
        <5> QED BY <1>1, <1>10, <1>12, <3>2, <4>1, <5>2
      <4>3. CASE s \notin allowed[k]
        <5>1. ok /\ s = now
          BY <1>13, <2>3, <3>2, <4>3
        <5> QED BY <1>1, <1>10, <1>12, <3>2, <4>1, <5>1
      <4> QED BY <4>2, <4>3
    <3> QED BY <3>1, <3>2
  <2> QED BY <2>1, <2>2, <2>3 DEF WindowKnows, Counting
\* In a window of time that includes now only what the window object holds was let through.
<1>21. LimitHolds'
  <2> SUFFICES ASSUME NEW j \in RateKey \ astray', NEW t \in 0..MaxTime PROVE LetThrough(j, t)' <= Limit
    BY DEF LimitHolds
  <2> DEFINE In(al) == {s \in al[j] : s.at > t - Window /\ s.at <= t}
  <2>1. LetThrough(j, t)' = Cardinality(In(allowed')) /\ LetThrough(j, t) = Cardinality(In(allowed))
    BY DEF LetThrough
  <2>2. j \notin astray /\ LetThrough(j, t) <= Limit /\ t \in Nat
    BY <1>4, RateAssumption DEF RateInv, LimitHolds
  <2>3. CASE j # k \/ t < time
    <3>1. In(allowed') = In(allowed)
      BY <1>1, <1>9, <1>13, <2>2, <2>3
    <3> QED BY <2>1, <2>2, <3>1
  <2>4. CASE j = k /\ ~(t < time)
    <3>1. WindowKnows(j)' /\ entries' = entries /\ time' = time
      BY <1>4, <1>20
    <3>2. entries[k] = e
      <4>1. WindowKnows(k)
        BY <2>2, <2>4 DEF RateInv
      <4> QED BY <1>1, <4>1 DEF WindowKnows
    <3>3. ASSUME NEW s \in In(allowed') PROVE s \in w
      <4>1. s \in allowed'[j] /\ s.at > t - Window
        OBVIOUS
      <4>2. s.at \in Nat
        BY <1>1, <1>16, <4>1 DEF RateTypes, Stamp
      <4>3. s.at > time' - Window
        BY <1>1, <2>2, <2>4, <3>1, <4>1, <4>2, RateAssumption
      <4>4. s \in windows'[entries[j]]
        BY <3>1, <4>1, <4>3 DEF WindowKnows
      <4> QED BY <1>12, <2>4, <3>2, <4>4
    <3>4. In(allowed') \subseteq w
      BY <3>3
    <3> HIDE DEF In
    <3>5. IsFiniteSet(In(allowed')) /\ Cardinality(In(allowed')) <= Cardinality(w)
      BY <1>11, <3>4, FS_Subset
    <3>6. Cardinality(In(allowed')) \in Nat /\ Cardinality(w) \in Nat
      BY <1>11, <3>5, FS_CardinalityType
    <3> QED BY <1>11, <2>1, <3>5, <3>6, RateAssumption
  <2> QED BY <2>3, <2>4
<1> QED BY <1>16, <1>17, <1>18, <1>19, <1>20, <1>21 DEF RateInv, WindowsBounded

LEMMA RateStepInv == RateInv /\ [RateNext]_rateVars => RateInv'
<1> SUFFICES ASSUME RateInv, [RateNext]_rateVars PROVE RateInv'
  OBVIOUS
<1>1. ASSUME NEW r \in Request, NEW k \in RateKey, Arrive(r, k) PROVE RateInv'
  BY <1>1, FoundMoves DEF Arrive
<1>2. ASSUME NEW r \in Request, Remaining(r) PROVE RateInv'
  <2>1. req[r].key \in RateKey
    BY DEF RateInv, RateTypes, RequestRec
  <2> QED BY <1>2, <2>1, FoundMoves DEF Remaining
<1>3. CASE UNCHANGED rateVars
  <2>1. UNCHANGED <<entries, windows, req, time, allowed, astray>>
    BY <1>3 DEF rateVars
  <2>2. ASSUME NEW k \in RateKey, k \notin astray' PROVE WindowKnows(k)'
    BY <2>1, <2>2 DEF RateInv, WindowKnows, Counting
  <2> QED BY <2>1, <2>2, LimitKept DEF RateInv, RateTypes, WindowsBounded, WindowsApart, Counting
<1> QED BY <1>1, <1>2, <1>3, CreateInv, AllowInv, CleanupInv, ElapseInv DEF RateNext

\* However requests and cleanups interleave, no more than Max requests of a key
\* get through in any window of time, for every limit, window, number of keys
\* and of requests at once, unless cleanup removed a window that a request had
\* just found (ratelimit.go 96-189).
THEOREM LimitKeeps == RateSpec => []LimitHolds
<1>1. RateInv => LimitHolds
  BY DEF RateInv
<1> QED BY <1>1, RateInitInv, RateStepInv, PTL DEF RateSpec

----------------------------------------------------------------------------
(* Roles.  A Can in progress has a permission and roles that exist; what a *)
(* pattern of the code matches is what the pattern denotes.                *)

AskState ==
  {NoAsk}
    \union [pc : {"resolved"}, perm : Permission, roles : SUBSET Role]
    \union [pc : {"answered"}, perm : Permission, roles : SUBSET Role, yes : BOOLEAN]

RolesInv ==
  /\ defined \in [Role -> SUBSET Granted]
  /\ holds \in SUBSET Role
  /\ ask \in AskState

LEMMA PermissionIs ==
  ASSUME NEW t \in Permission
  PROVE  t \in Seq(Segment) /\ Len(t) >= 1 /\ Len(t) \in Nat /\ DOMAIN t = 1..Len(t)
<1>1. PICK m \in 0..MaxSegs : t \in [1..m -> Segment]
  BY DEF Permission, SeqOf
<1>2. m \in Nat
  BY RolesAssumption
<1>3. t \in Seq(Segment) /\ Len(t) = m
  BY <1>1, <1>2
<1>4. t # << >>
  BY DEF Permission
<1> QED
  BY <1>2, <1>3, <1>4

LEMMA GrantedIs ==
  ASSUME NEW p \in Granted
  PROVE  p \in Seq(Segment) /\ Len(p) >= 1
<1>1. \A a \in Segment : <<a>> \in Seq(Segment) /\ Len(<<a>>) >= 1
  OBVIOUS
<1>2. \A a, b \in Segment : <<a, b>> \in Seq(Segment) /\ Len(<<a, b>>) >= 1
  OBVIOUS
<1>3. \A a, b, c \in Segment : <<a, b, c>> \in Seq(Segment) /\ Len(<<a, b, c>>) >= 1
  OBVIOUS
<1>4. "u" \in Segment /\ "c" \in Segment /\ "*" \in Segment
  BY DEF Segment
<1> QED
  BY <1>1, <1>2, <1>3, <1>4, Zenon DEF Granted

\* A pattern of the code takes exactly the permissions it denotes, for patterns
\* and permissions of any length.
LEMMA WildcardExact ==
  ASSUME NEW p \in Seq(Segment), Len(p) >= 1, NEW t \in Permission
  PROVE  (t = p \/ IsWildcardMatch(p, t)) <=> t \in Denotes(p)
<1> DEFINE n == Len(p)
<1>1. n \in Nat /\ DOMAIN p = 1..n /\ Len(t) \in Nat /\ t \in Seq(Segment) /\ DOMAIN t = 1..Len(t)
  BY PermissionIs
<1>8. n \in Nat /\ Len(t) \in Nat /\ n >= 1
  BY <1>1
<1>2. \A i \in 1..Len(t) : /\ SubSeq(t, 1, i) \in Seq(Segment) /\ Len(SubSeq(t, 1, i)) = i
                           /\ \A j \in 1..i : SubSeq(t, 1, i)[j] = t[j]
  BY <1>1
<1>3. SubSeq(t, 1, Len(t)) = t
  BY <1>1
<1>4. ASSUME NEW i \in 1..Len(t), SubSeq(t, 1, i) = t PROVE i = Len(t)
  BY <1>1, <1>2, <1>4
<1>9. IsWildcardMatch(p, t) <=>
        /\ p[n] = "*" => Len(t) > n - 1 /\ \A i \in 1..(n - 1) : p[i] = "*" \/ p[i] = t[i]
        /\ p[n] # "*" => Len(t) = n /\ \A i \in 1..n : p[i] = "*" \/ p[i] = t[i]
  <2>1. CASE p[n] = "*"
    BY <2>1 DEF IsWildcardMatch
  <2>2. CASE p[n] # "*"
    BY <2>2 DEF IsWildcardMatch
  <2> QED
    BY <2>1, <2>2
<1>5. ASSUME t = p PROVE t \in Denotes(p)
  <2>1. n \in 1..Len(t) /\ SubSeq(t, 1, n) = t
    BY <1>1, <1>3, <1>5
  <2>2. t \in {SubSeq(t, 1, i) : i \in 1..Len(t)}
    BY <2>1
  <2>3. \A i \in DOMAIN p : t[i] = p[i]
    BY <1>5
  <2> HIDE DEF n
  <2> QED
    BY <1>5, <2>2, <2>3, Zenon DEF Denotes
<1>6. ASSUME IsWildcardMatch(p, t) PROVE t \in Denotes(p)
  <2> DEFINE cut == SubSeq(t, 1, n)
  <2>0. /\ p[n] = "*" => Len(t) > n - 1 /\ \A i \in 1..(n - 1) : p[i] = "*" \/ p[i] = t[i]
        /\ p[n] # "*" => Len(t) = n /\ \A i \in 1..n : p[i] = "*" \/ p[i] = t[i]
    BY <1>9, <1>6, Zenon
  <2>1. n \in 1..Len(t)
    <3>1. Len(t) > n - 1 \/ Len(t) = n
      BY <2>0, Zenon
    <3> HIDE DEF n
    <3> QED
      BY <1>8, <3>1
  <2>2. p[n] # "*" => Len(t) = n
    BY <1>1, <2>0
  <2>3. \A i \in 1..n : p[i] # "*" => p[i] = t[i]
    <3> SUFFICES ASSUME NEW i \in 1..n, p[i] # "*" PROVE p[i] = t[i]
      OBVIOUS
    <3>1. i \in 1..(n - 1) \/ i = n
      BY <1>8
    <3> QED
      BY <3>1, <2>0, <1>1
  <2>4. cut \in {SubSeq(t, 1, i) : i \in 1..Len(t)} /\ Len(cut) = n
    BY <2>1, <1>2
  <2>5. cut # t => Last(p) = "*"
    BY <2>2, <1>3 DEF Last
  <2>6. \A i \in DOMAIN p : p[i] # "*" => cut[i] = p[i]
    BY <1>1, <1>2, <2>1, <2>3
  <2> HIDE DEF cut, n
  <2> QED
    BY <2>4, <2>5, <2>6 DEF Denotes, n
<1>7. ASSUME t \in Denotes(p) PROVE IsWildcardMatch(p, t)
  <2>1. PICK cut \in {SubSeq(t, 1, i) : i \in 1..Len(t)} :
          /\ Len(cut) = Len(p) /\ (cut # t => Last(p) = "*")
          /\ \A i \in DOMAIN p : p[i] # "*" => cut[i] = p[i]
    BY <1>7 DEF Denotes
  <2>2. PICK i \in 1..Len(t) : cut = SubSeq(t, 1, i)
    BY <2>1, Zenon
  <2>3. i = n
    BY <2>1, <2>2, <1>2
  <2>4. \A j \in 1..n : p[j] # "*" => p[j] = t[j]
    BY <2>1, <2>2, <2>3, <1>1, <1>2
  <2>5. p[n] # "*" => Len(t) = n
    BY <2>1, <2>2, <2>3, <1>4 DEF Last
  <2>6. p[n] = "*" => Len(t) > n - 1 /\ \A j \in 1..(n - 1) : p[j] = "*" \/ p[j] = t[j]
    BY <2>3, <2>4, <1>1
  <2>7. p[n] # "*" => Len(t) = n /\ \A j \in 1..n : p[j] = "*" \/ p[j] = t[j]
    BY <2>4, <2>5
  <2> QED
    BY <2>6, <2>7, <1>9, Zenon
<1> QED
  BY <1>5, <1>6, <1>7

LEMMA RolesInit_Inv == RolesInit => RolesInv
  BY DEF RolesInit, RolesInv, AskState, NoAsk

LEMMA RolesNext_Inv == RolesInv /\ [RolesNext]_roleVars => RolesInv'
<1> SUFFICES ASSUME RolesInv, [RolesNext]_roleVars PROVE RolesInv'
  OBVIOUS
<1>1. ASSUME NEW r \in Role, Assign(r) PROVE RolesInv'
  BY <1>1 DEF Assign, RolesInv
<1>2. ASSUME NEW r \in Role, NEW p \in Granted, Define(r, {p}) PROVE RolesInv'
  <2>1. defined' \in [Role -> SUBSET Granted]
    BY <1>2 DEF Define, RolesInv
  <2> QED
    BY <2>1, <1>2 DEF Define, RolesInv
<1>3. ASSUME NEW t \in Permission, Resolve(t) PROVE RolesInv'
  <2>1. [pc |-> "resolved", perm |-> t, roles |-> holds] \in AskState /\ NoAsk \in AskState
    BY DEF RolesInv, AskState
  <2> QED
    BY <2>1, <1>3 DEF Resolve, RolesInv
<1>4. CASE Can
  <2>1. ask \in [pc : {"resolved"}, perm : Permission, roles : SUBSET Role]
    BY <1>4 DEF Can, RolesInv, AskState, NoAsk
  <2>2. ask' \in [pc : {"answered"}, perm : Permission, roles : SUBSET Role, yes : BOOLEAN]
    BY <2>1, <1>4 DEF Can
  <2> QED
    BY <2>2, <1>4 DEF Can, RolesInv, AskState
<1>5. CASE UNCHANGED roleVars
  BY <1>5 DEF roleVars, RolesInv
<1> QED
  BY <1>1, <1>2, <1>3, <1>4, <1>5 DEF RolesNext

\* What Can answers, in a state of the invariant.
LEMMA CanAnswers ==
  ASSUME RolesInv, Can
  PROVE  ask'.yes = \E p \in AllPermissions : ask.perm \in Denotes(p)
<1>1. ask \in [pc : {"resolved"}, perm : Permission, roles : SUBSET Role]
  BY DEF Can, RolesInv, AskState, NoAsk
<1>2. ask'.yes = \E r \in ask.roles : MatchesPermission(defined[r], ask.perm)
  BY DEF Can
<1>3. ASSUME NEW r \in ask.roles
      PROVE  MatchesPermission(defined[r], ask.perm) <=> \E p \in defined[r] : ask.perm \in Denotes(p)
  <2>1. defined[r] \subseteq Granted
    BY <1>1 DEF RolesInv
  <2>2. \A p \in defined[r] : (ask.perm = p \/ IsWildcardMatch(p, ask.perm)) <=> ask.perm \in Denotes(p)
    BY <2>1, <1>1, GrantedIs, WildcardExact
  <2> QED
    BY <2>2, Zenon DEF MatchesPermission
<1>4. (\E r \in ask.roles : MatchesPermission(defined[r], ask.perm))
        <=> \E p \in AllPermissions : ask.perm \in Denotes(p)
  BY <1>3 DEF AllPermissions
<1> QED
  BY <1>2, <1>4, Zenon

\* Whatever roles are defined again and users gain or lose while Can runs, it
\* says yes exactly if a role the user held when it asked has, as defined when it
\* looked, a permission that denotes the one asked for (rbac.go 73-153).
THEOREM PermissionsExact == RolesSpec => CanExact
<1>1. RolesInv /\ [RolesNext]_roleVars =>
        [ Can => ask'.yes = \E p \in AllPermissions : ask.perm \in Denotes(p) ]_roleVars
  BY CanAnswers
<1> QED
  BY <1>1, RolesInit_Inv, RolesNext_Inv, PTL DEF RolesSpec, CanExact

----------------------------------------------------------------------------
(* The answer under the middlewares.  Until something is written nothing   *)
(* is; from then on the wire carries the documents under the label that    *)
(* fits them, and a gzip stream is open exactly as long as Compress has    *)
(* not been left.                                                          *)

Doc == Nat \union {"error"}
OutRec ==
  [committed : BOOLEAN, status : Status, wrapped : BOOLEAN,
   wroteHeader : BOOLEAN, compress : BOOLEAN, gz : {"nil", "open"}, finished : BOOLEAN,
   ctype : {"", "json", "image"}, encoded : BOOLEAN, early : BOOLEAN,
   sent : Status \union {0}, label : {"none", "own", "gzip"},
   plain : Seq(Doc), zipped : Seq(Doc), died : BOOLEAN]

\* Nothing has been sent.
Blank(s) ==
  /\ ~s.committed /\ s.sent = 0 /\ ~s.wroteHeader /\ ~s.compress /\ s.gz = "nil" /\ ~s.finished
  /\ s.label = "none" /\ s.plain = << >> /\ s.zipped = << >> /\ ~s.died

\* The wire carries docs, under the label that fits.
Carries(s, docs) ==
  /\ s.committed /\ s.sent # 0 /\ s.sent = s.status /\ ~s.died
  /\ s.wrapped => s.wroteHeader
  /\ s.compress => /\ s.wrapped /\ s.label = "gzip" /\ s.sent # 204
                   /\ s.zipped = docs /\ s.plain = << >>
  /\ ~s.compress => /\ s.label # "gzip" /\ s.gz = "nil" /\ s.zipped = << >>
                    /\ s.plain = (IF s.sent = 204 THEN << >> ELSE docs)

Streaming(s) == s.compress => s.gz = "open"

\* What no write changes.
Keeps(s, t) ==
  /\ t \in OutRec
  /\ t.early = s.early /\ t.wrapped = s.wrapped /\ t.encoded = s.encoded
  /\ s.sent # 0 => t.sent = s.sent
  /\ s.committed => t.committed /\ t.status = s.status

LEMMA KeepsTrans ==
  ASSUME NEW s, NEW t, NEW u, Keeps(s, t), Keeps(t, u)
  PROVE  Keeps(s, u)
  BY DEF Keeps

LEMMA StatusIs ==
  /\ 200 \in Status /\ 204 \in Status /\ 404 \in Status /\ 422 \in Status /\ 500 \in Status
  /\ 0 \notin Status
  BY DEF Status

\* The server's side.
LEMMA ServerHeaderIs ==
  ASSUME NEW s \in OutRec, NEW code \in Status, NEW t, t = ServerHeader(s, code)
  PROVE  /\ Keeps(s, t) /\ t.sent # 0 /\ t.committed = s.committed /\ t.status = s.status
         /\ s.sent = 0 => /\ t.sent = code
                          /\ t.label = (IF s.encoded THEN "own" ELSE IF s.compress THEN "gzip" ELSE "none")
         /\ s.sent # 0 => t = s
         /\ t.wroteHeader = s.wroteHeader /\ t.compress = s.compress /\ t.gz = s.gz /\ t.finished = s.finished
         /\ t.ctype = s.ctype /\ t.plain = s.plain /\ t.zipped = s.zipped /\ t.died = s.died
<1>1. CASE s.sent # 0
  BY <1>1 DEF ServerHeader, Keeps
<1>2. CASE s.sent = 0
  <2> DEFINE lab == IF s.encoded THEN "own" ELSE IF s.compress THEN "gzip" ELSE "none"
  <2>1. lab \in {"none", "own", "gzip"}
    OBVIOUS
  <2>2. t = [s EXCEPT !.sent = code, !.label = lab]
    BY <1>2 DEF ServerHeader
  <2> HIDE DEF lab
  <2>3. t \in OutRec
    BY <2>1, <2>2 DEF OutRec
  <2>4. /\ t.sent = code /\ t.label = lab /\ t.committed = s.committed /\ t.status = s.status
        /\ t.early = s.early /\ t.wrapped = s.wrapped /\ t.encoded = s.encoded
        /\ t.wroteHeader = s.wroteHeader /\ t.compress = s.compress /\ t.gz = s.gz /\ t.finished = s.finished
        /\ t.ctype = s.ctype /\ t.plain = s.plain /\ t.zipped = s.zipped /\ t.died = s.died
    BY <2>2 DEF OutRec
  <2> QED
    BY <1>2, <2>3, <2>4, StatusIs DEF Keeps, lab
<1> QED
  BY <1>1, <1>2

LEMMA ServerWriteIs ==
  ASSUME NEW s \in OutRec, NEW doc \in Doc, NEW t, t = ServerWrite(s, doc)
  PROVE  /\ Keeps(s, t)
         /\ s.sent # 0 =>
              /\ t.plain = (IF s.sent = 204 THEN s.plain ELSE Append(s.plain, doc))
              /\ t.wroteHeader = s.wroteHeader /\ t.compress = s.compress /\ t.gz = s.gz /\ t.label = s.label
              /\ t.zipped = s.zipped /\ t.died = s.died
<1> DEFINE h == ServerHeader(s, 200)
<1>1. Keeps(s, h) /\ (s.sent # 0 => h = s)
  BY ServerHeaderIs, StatusIs
<1>2. t = IF h.sent = 204 THEN h ELSE [h EXCEPT !.plain = Append(@, doc)]
  BY DEF ServerWrite
<1>3. h \in OutRec
  BY <1>1 DEF Keeps
<1> HIDE DEF h
<1>4. CASE h.sent = 204
  BY <1>1, <1>2, <1>4
<1>5. CASE h.sent # 204
  <2> DEFINE new == Append(h.plain, doc)
  <2>1. h.plain \in Seq(Doc)
    BY <1>3 DEF OutRec
  <2>2. new \in Seq(Doc)
    BY <2>1
  <2>3. t = [h EXCEPT !.plain = new]
    BY <1>2, <1>5
  <2> HIDE DEF new
  <2>4. t \in OutRec
    BY <1>3, <2>2, <2>3 DEF OutRec
  <2>5. /\ t.plain = new /\ t.committed = h.committed /\ t.status = h.status
        /\ t.early = h.early /\ t.wrapped = h.wrapped /\ t.encoded = h.encoded
        /\ t.wroteHeader = h.wroteHeader /\ t.compress = h.compress /\ t.gz = h.gz /\ t.label = h.label
        /\ t.zipped = h.zipped /\ t.died = h.died /\ t.sent = h.sent
    BY <1>3, <2>3 DEF OutRec
  <2>6. Keeps(h, t)
    BY <2>4, <2>5 DEF Keeps
  <2>7. Keeps(s, t)
    BY <2>6, <1>1, KeepsTrans
  <2> QED
    BY <1>1, <1>5, <2>5, <2>7 DEF new
<1> QED
  BY <1>4, <1>5

\* gzipWriter's header: the decision, then the server's.
LEMMA GzipHeaderIs ==
  ASSUME NEW s \in OutRec, NEW code \in Status, NEW t, t = GzipHeader(s, code)
  PROVE  /\ Keeps(s, t)
         /\ s.wroteHeader => t = s
         /\ Blank(s) => /\ t.sent = code /\ t.wroteHeader /\ ~t.died /\ t.plain = << >> /\ t.zipped = << >>
                        /\ t.compress => code # 204 /\ t.gz = "open" /\ t.label = "gzip"
                        /\ ~t.compress => t.gz = "nil" /\ t.label # "gzip"
<1>1. CASE s.wroteHeader
  BY <1>1 DEF GzipHeader, Keeps, Blank
<1>2. CASE ~s.wroteHeader
  <2> DEFINE d == Decide(s, code)
             w == [d EXCEPT !.wroteHeader = TRUE]
  <2>1. d = s \/ (d = [s EXCEPT !.compress = TRUE, !.gz = "open"] /\ code # 204 /\ ~s.encoded)
    BY DEF Decide
  <2> HIDE DEF d
  <2>2. d \in OutRec
    BY <2>1 DEF OutRec
  <2>3. /\ d.committed = s.committed /\ d.status = s.status /\ d.early = s.early /\ d.wrapped = s.wrapped
        /\ d.encoded = s.encoded /\ d.finished = s.finished /\ d.sent = s.sent /\ d.label = s.label
        /\ d.plain = s.plain /\ d.zipped = s.zipped /\ d.died = s.died
        /\ d = s \/ (d.compress /\ d.gz = "open" /\ code # 204 /\ ~s.encoded)
    BY <2>1 DEF OutRec
  <2>4. w \in OutRec
    BY <2>2 DEF OutRec
  <2>5. /\ w.committed = d.committed /\ w.status = d.status /\ w.early = d.early /\ w.wrapped = d.wrapped
        /\ w.encoded = d.encoded /\ w.finished = d.finished /\ w.sent = d.sent /\ w.label = d.label
        /\ w.plain = d.plain /\ w.zipped = d.zipped /\ w.died = d.died /\ w.wroteHeader
        /\ w.compress = d.compress /\ w.gz = d.gz
    BY <2>2 DEF OutRec
  <2>6. t = ServerHeader(w, code)
    BY <1>2 DEF GzipHeader, d
  <2> HIDE DEF w
  <2>7. Keeps(s, w)
    BY <2>3, <2>4, <2>5 DEF Keeps
  <2>8. /\ Keeps(w, t)
        /\ w.sent = 0 => /\ t.sent = code
                         /\ t.label = (IF w.encoded THEN "own" ELSE IF w.compress THEN "gzip" ELSE "none")
        /\ t.wroteHeader = w.wroteHeader /\ t.compress = w.compress /\ t.gz = w.gz
        /\ t.plain = w.plain /\ t.zipped = w.zipped /\ t.died = w.died
    BY <2>4, <2>6, ServerHeaderIs
  <2>9. Keeps(s, t)
    BY <2>7, <2>8, KeepsTrans
  <2>10. ASSUME Blank(s)
         PROVE  /\ t.sent = code /\ t.wroteHeader /\ ~t.died /\ t.plain = << >> /\ t.zipped = << >>
                /\ t.compress => code # 204 /\ t.gz = "open" /\ t.label = "gzip"
                /\ ~t.compress => t.gz = "nil" /\ t.label # "gzip"
    BY <2>3, <2>5, <2>8, <2>10 DEF Blank
  <2> QED
    BY <1>2, <2>9, <2>10
<1> QED
  BY <1>1, <1>2

LEMMA GzipWriteKeeps ==
  ASSUME NEW s \in OutRec, NEW doc \in Doc, NEW t, t = GzipWrite(s, doc)
  PROVE  /\ Keeps(s, t)
         /\ s.wroteHeader /\ ~s.compress => t = ServerWrite(s, doc)
         /\ s.wroteHeader /\ s.compress /\ s.gz = "open" => t = [s EXCEPT !.zipped = Append(s.zipped, doc)]
<1> DEFINE h == GzipHeader(s, 200)
<1>1. Keeps(s, h) /\ (s.wroteHeader => h = s)
  BY GzipHeaderIs, StatusIs
<1>2. h \in OutRec
  BY <1>1 DEF Keeps
<1>3. h.gz \in {"nil", "open"} /\ h.compress \in BOOLEAN
  BY <1>2 DEF OutRec
<1>4. t = CASE ~h.compress -> ServerWrite(h, doc)
            [] h.compress /\ h.gz = "open" -> [h EXCEPT !.zipped = Append(@, doc)]
            [] h.compress /\ h.gz = "nil" -> [h EXCEPT !.died = TRUE]
  BY DEF GzipWrite
<1> HIDE DEF h
<1>5. CASE ~h.compress
  <2>1. t = ServerWrite(h, doc)
    BY <1>4, <1>5
  <2> QED
    BY <2>1, <1>1, <1>2, <1>5, ServerWriteIs, KeepsTrans
<1>6. CASE h.compress /\ h.gz = "open"
  <2> DEFINE new == Append(h.zipped, doc)
  <2>1. h.zipped \in Seq(Doc)
    BY <1>2 DEF OutRec
  <2>2. new \in Seq(Doc)
    BY <2>1
  <2>3. t = [h EXCEPT !.zipped = new]
    BY <1>4, <1>6
  <2> HIDE DEF new
  <2>4. t \in OutRec
    BY <1>2, <2>2, <2>3 DEF OutRec
  <2>5. Keeps(h, t)
    BY <1>2, <2>3, <2>4 DEF OutRec, Keeps
  <2> QED
    BY <2>3, <2>5, <1>1, <1>6, KeepsTrans DEF new
<1>7. CASE h.compress /\ h.gz = "nil"
  <2>1. t = [h EXCEPT !.died = TRUE]
    BY <1>4, <1>7
  <2>2. t \in OutRec
    BY <1>2, <2>1 DEF OutRec
  <2>3. Keeps(h, t)
    BY <1>2, <2>1, <2>2 DEF OutRec, Keeps
  <2> QED
    BY <2>3, <1>1, <1>7, KeepsTrans
<1> QED
  BY <1>3, <1>5, <1>6, <1>7

\* Response: the first status commits.
LEMMA ResponseHeaderIs ==
  ASSUME NEW s \in OutRec, NEW code \in Status, NEW t, t = ResponseHeader(s, code)
  PROVE  /\ Keeps(s, t) /\ t.committed
         /\ s.committed => t = s
         /\ Blank(s) => Carries(t, << >>) /\ Streaming(t) /\ t.sent = code
<1>1. CASE s.committed
  BY <1>1 DEF ResponseHeader, Keeps, Blank
<1>2. CASE ~s.committed
  <2> DEFINE h == IF s.wrapped THEN GzipHeader(s, code) ELSE ServerHeader(s, code)
  <2>1. t = [h EXCEPT !.status = code, !.committed = TRUE]
    BY <1>2 DEF ResponseHeader
  <2>2. Keeps(s, h)
    BY GzipHeaderIs, ServerHeaderIs
  <2>3. Blank(s) =>
          /\ h.sent = code /\ ~h.died /\ h.plain = << >> /\ h.zipped = << >>
          /\ s.wrapped => h.wroteHeader
          /\ h.compress => s.wrapped /\ code # 204 /\ h.gz = "open" /\ h.label = "gzip"
          /\ ~h.compress => h.gz = "nil" /\ h.label # "gzip"
    <3>1. CASE s.wrapped
      BY <3>1, GzipHeaderIs
    <3>2. CASE ~s.wrapped
      <4>1. h = ServerHeader(s, code)
        BY <3>2
      <4> HIDE DEF h
      <4> QED
        BY <3>2, <4>1, ServerHeaderIs DEF Blank
    <3> QED
      BY <3>1, <3>2
  <2> HIDE DEF h
  <2>4. h \in OutRec
    BY <2>2 DEF Keeps
  <2>5. t \in OutRec
    BY <2>1, <2>4 DEF OutRec
  <2>6. /\ t.status = code /\ t.committed /\ t.sent = h.sent /\ t.early = h.early /\ t.wrapped = h.wrapped
        /\ t.encoded = h.encoded /\ t.wroteHeader = h.wroteHeader /\ t.compress = h.compress /\ t.gz = h.gz
        /\ t.label = h.label /\ t.plain = h.plain /\ t.zipped = h.zipped /\ t.died = h.died
    BY <2>1, <2>4 DEF OutRec
  <2>7. Keeps(s, t)
    BY <1>2, <2>2, <2>5, <2>6 DEF Keeps
  <2>8. code # 0
    BY StatusIs
  <2>9. ASSUME Blank(s) PROVE Carries(t, << >>) /\ Streaming(t) /\ t.sent = code
    BY <2>2, <2>3, <2>6, <2>8, <2>9 DEF Carries, Streaming, Keeps
  <2> QED
    BY <1>2, <2>6, <2>7, <2>9
<1> QED
  BY <1>1, <1>2

LEMMA ResponseWriteIs ==
  ASSUME NEW s \in OutRec, NEW doc \in Doc, NEW t, t = ResponseWrite(s, doc)
  PROVE  /\ Keeps(s, t) /\ t.committed
         /\ s.committed =>
              t = IF s.wrapped THEN GzipWrite(s, doc) ELSE ServerWrite(s, doc)
<1> DEFINE h == ResponseHeader(s, 200)
<1>1. Keeps(s, h) /\ h.committed /\ (s.committed => h = s)
  BY ResponseHeaderIs, StatusIs
<1>2. h \in OutRec
  BY <1>1 DEF Keeps
<1>3. t = IF h.wrapped THEN GzipWrite(h, doc) ELSE ServerWrite(h, doc)
  BY DEF ResponseWrite
<1> HIDE DEF h
<1>4. Keeps(h, t)
  BY <1>2, <1>3, GzipWriteKeeps, ServerWriteIs
<1>5. Keeps(s, t) /\ t.committed
  BY <1>1, <1>4, KeepsTrans DEF Keeps
<1> QED
  BY <1>1, <1>3, <1>5

\* One more document on a wire that carries some.
LEMMA WriteCarries ==
  ASSUME NEW s \in OutRec, NEW docs, NEW doc \in Doc, Carries(s, docs), Streaming(s),
         NEW t, t = ResponseWrite(s, doc)
  PROVE  Keeps(s, t) /\ Carries(t, Append(docs, doc)) /\ Streaming(t)
<1>1. s.committed /\ s.sent # 0 /\ s.sent = s.status
  BY DEF Carries
<1>2. Keeps(s, t) /\ t = (IF s.wrapped THEN GzipWrite(s, doc) ELSE ServerWrite(s, doc))
  BY <1>1, ResponseWriteIs
<1>3. CASE s.compress
  <2>1. t = [s EXCEPT !.zipped = Append(s.zipped, doc)]
    BY <1>2, <1>3, GzipWriteKeeps DEF Carries, Streaming
  <2> DEFINE new == Append(s.zipped, doc)
  <2>2. new = Append(docs, doc)
    BY <1>3 DEF Carries
  <2>3. t = [s EXCEPT !.zipped = new]
    BY <2>1
  <2> HIDE DEF new
  <2>4. /\ t.zipped = new /\ t.wroteHeader = s.wroteHeader /\ t.compress = s.compress /\ t.gz = s.gz
        /\ t.label = s.label /\ t.plain = s.plain /\ t.died = s.died
    BY <2>3 DEF OutRec
  <2>5. t.sent = s.sent /\ t.status = s.status /\ t.committed /\ t.wrapped = s.wrapped
    BY <1>1, <1>2 DEF Keeps
  <2>6. Carries(t, new)
    BY <1>1, <1>3, <2>4, <2>5 DEF Carries
  <2>7. Streaming(t)
    BY <1>3, <2>4, <2>5 DEF Streaming
  <2> QED
    BY <1>2, <2>2, <2>6, <2>7
<1>4. CASE ~s.compress
  <2>1. t = ServerWrite(s, doc)
    BY <1>2, <1>4, GzipWriteKeeps DEF Carries
  <2>2. /\ t.plain = (IF s.sent = 204 THEN s.plain ELSE Append(s.plain, doc))
        /\ t.wroteHeader = s.wroteHeader /\ t.compress = s.compress /\ t.gz = s.gz /\ t.label = s.label
        /\ t.zipped = s.zipped /\ t.died = s.died
    BY <1>1, <2>1, ServerWriteIs
  <2>3. t.plain = (IF s.sent = 204 THEN << >> ELSE Append(docs, doc))
    BY <1>4, <2>2 DEF Carries
  <2> QED
    BY <1>1, <1>2, <1>4, <2>2, <2>3 DEF Carries, Streaming, Keeps
<1> QED
  BY <1>3, <1>4

LEMMA JSONIs ==
  ASSUME NEW s \in OutRec, NEW code \in Status, NEW doc \in Doc, NEW t, t = JSON(s, code, doc)
  PROVE  /\ Keeps(s, t) /\ t.committed
         /\ Blank(s) => Carries(t, <<doc>>) /\ Streaming(t) /\ t.sent = code
<1> DEFINE c == [s EXCEPT !.ctype = "json"]
           h == ResponseHeader(c, code)
<1>1. c \in OutRec
  BY DEF OutRec
<1>2. Keeps(s, c) /\ (Blank(s) => Blank(c))
  BY <1>1 DEF OutRec, Keeps, Blank
<1>3. t = ResponseWrite(h, doc)
  BY DEF JSON
<1> HIDE DEF c
<1>4. Keeps(c, h) /\ (Blank(c) => Carries(h, << >>) /\ Streaming(h) /\ h.sent = code)
  BY <1>1, ResponseHeaderIs
<1>5. h \in OutRec
  BY <1>4 DEF Keeps
<1> HIDE DEF h
<1>6. Keeps(h, t) /\ t.committed
  BY <1>3, <1>5, ResponseWriteIs
<1>7. Keeps(s, t)
  BY <1>2, <1>4, <1>6, KeepsTrans
<1>8. ASSUME Blank(s) PROVE Carries(t, <<doc>>) /\ Streaming(t) /\ t.sent = code
  <2>1. Carries(h, << >>) /\ Streaming(h) /\ h.sent = code
    BY <1>2, <1>4, <1>8
  <2>2. Carries(t, Append(<< >>, doc)) /\ Streaming(t)
    BY <2>1, <1>3, <1>5, WriteCarries
  <2>3. Append(<< >>, doc) = <<doc>>
    OBVIOUS
  <2>4. t.sent = code
    BY <2>1, <1>6 DEF Keeps, Carries
  <2> QED
    BY <2>2, <2>3, <2>4
<1> QED
  BY <1>6, <1>7, <1>8


----------------------------------------------------------------------------

AnswerTypes ==
  /\ around \in Chains /\ at \in -1..(Len(around) + 1)
  /\ outcome \in Outcome /\ result \in Outcome /\ out \in OutRec
  /\ meant \in [status : Status \union {0}, docs : Seq(Nat)]
  /\ logged \in [status : Status \union {0}, committed : BOOLEAN]

\* A gzip stream is open until Compress is left, and closed from then on.
StreamGood(s, ch, a) ==
  s.compress => \A i \in 1..Len(ch) : ch[i] = "compress" => IF a >= i THEN s.gz = "open" ELSE s.finished

\* The answer is the handler's, as far as it has written it.
Wrote ==
  IF out.committed THEN out.sent = meant.status /\ Carries(out, meant.docs) /\ StreamGood(out, around, at)
  ELSE meant.status = 0 /\ meant.docs = << >>

\* A panic is on its way to Recovery, or Recovery has answered for it.
Rescued ==
  \/ /\ outcome = "panic" /\ Blank(out)
     /\ \A i \in 1..Len(around) : around[i] = "recovery" => at >= i
  \/ outcome = "ok" /\ out.sent = 500 /\ Carries(out, <<"error">>) /\ StreamGood(out, around, at)

Rescuable == meant.status = 0 /\ ~out.encoded /\ (out.wrapped => Inside("recovery", "compress"))

OnTheWay ==
  /\ IF out.committed THEN out.sent = out.status /\ out.sent # 0 ELSE Blank(out)
  /\ logged.committed => logged.status = out.sent /\ out.sent # 0
  /\ InHandler => Wrote
  /\ ~InHandler /\ result = "ok" => outcome = "ok" /\ Wrote
  /\ ~InHandler /\ result \in {"err", "fault"} => outcome = result /\ (meant.status = 0 => Blank(out))
  /\ ~InHandler /\ result = "panic" /\ Rescuable => Rescued

AnswerGood ==
  /\ out.wrapped => Contains(around, "compress")
  /\ ~InHandler => outcome # "running"
  /\ ~out.early => IF at = -1 THEN AnswerExact ELSE OnTheWay

AnswerInv == AnswerTypes /\ AnswerGood

LEMMA ChainIs ==
  ASSUME NEW ch \in Chains
  PROVE  /\ Len(ch) \in Nat /\ DOMAIN ch = 1..Len(ch)
         /\ \A i, j \in 1..Len(ch) : ch[i] = ch[j] => i = j
<1>1. ch \in Seq({"logger", "recovery", "compress"}) /\ IsInjective(ch)
  BY AnswerAssumption
<1>2. Len(ch) \in Nat /\ DOMAIN ch = 1..Len(ch)
  BY <1>1
<1> QED
  BY <1>1, <1>2 DEF IsInjective

\* A first document.
LEMMA WriteBlank ==
  ASSUME NEW s \in OutRec, NEW doc \in Doc, Blank(s), NEW t, t = ResponseWrite(s, doc)
  PROVE  Keeps(s, t) /\ Carries(t, <<doc>>) /\ Streaming(t) /\ t.sent = 200
<1> DEFINE h == ResponseHeader(s, 200)
<1>1. Keeps(s, h) /\ h.committed /\ Carries(h, << >>) /\ Streaming(h) /\ h.sent = 200
  BY ResponseHeaderIs, StatusIs
<1>2. h \in OutRec
  BY <1>1 DEF Keeps
<1>3. t = IF h.wrapped THEN GzipWrite(h, doc) ELSE ServerWrite(h, doc)
  BY DEF ResponseWrite
<1> HIDE DEF h
<1>4. ResponseWrite(h, doc) = IF h.wrapped THEN GzipWrite(h, doc) ELSE ServerWrite(h, doc)
  BY <1>1, <1>2, ResponseWriteIs
<1>5. Keeps(h, t) /\ Carries(t, Append(<< >>, doc)) /\ Streaming(t)
  <2>1. t = ResponseWrite(h, doc)
    BY <1>3, <1>4, Zenon
  <2> QED
    BY <1>1, <1>2, <2>1, WriteCarries
<1>6. Append(<< >>, doc) = <<doc>>
  OBVIOUS
<1>7. Keeps(s, t)
  BY <1>1, <1>5, KeepsTrans
<1>8. t.sent = 200
  BY <1>1, <1>5 DEF Keeps
<1> QED
  BY <1>5, <1>6, <1>7, <1>8

\* In the handler every stream there is, is open.
LEMMA StreamsInHandler ==
  ASSUME NEW ch \in Chains, NEW s, NEW docs, Carries(s, docs), s.wrapped => Contains(ch, "compress")
  PROVE  StreamGood(s, ch, Len(ch) + 1) <=> Streaming(s)
<1>1. Len(ch) \in Nat
  BY ChainIs
<1>2. \A i \in 1..Len(ch) : Len(ch) + 1 >= i
  BY <1>1
<1>3. s.compress => \E i \in 1..Len(ch) : ch[i] = "compress"
  BY DEF Carries, Contains
<1> QED
  BY <1>2, <1>3 DEF StreamGood, Streaming

LEMMA AnswerInit_Inv == AnswerInit => AnswerInv
<1> SUFFICES ASSUME AnswerInit PROVE AnswerInv
  OBVIOUS
<1>1. Len(around) \in Nat
  BY AnswerAssumption DEF AnswerInit
<1>2. PICK accepts \in BOOLEAN : out = NewOut(accepts /\ Contains(around, "compress"))
  BY DEF AnswerInit
<1> DEFINE w == accepts /\ Contains(around, "compress")
<1>3. w \in BOOLEAN
  BY DEF Contains
<1>4. << >> \in Seq(Doc) /\ << >> \in Seq(Nat)
  OBVIOUS
<1> HIDE DEF w
<1>5. out \in OutRec
  BY <1>2, <1>3, <1>4, StatusIs DEF NewOut, OutRec, w
<1>6. Blank(out) /\ out.wrapped = w /\ ~out.committed
  BY <1>2 DEF NewOut, Blank, w
<1>7. /\ meant = [status |-> 0, docs |-> << >>] /\ logged = [status |-> 0, committed |-> FALSE]
      /\ around \in Chains /\ at = Len(around) + 1 /\ outcome = "running" /\ result = "running"
  BY DEF AnswerInit
<1>8. AnswerTypes
  BY <1>1, <1>4, <1>5, <1>7 DEF AnswerTypes, Outcome
<1>9. InHandler /\ at # -1
  BY <1>1, <1>7 DEF InHandler
<1>10. OnTheWay
  BY <1>6, <1>7, <1>9 DEF OnTheWay, Wrote
<1> QED
  BY <1>3, <1>6, <1>8, <1>9, <1>10 DEF AnswerInv, AnswerGood, w

----------------------------------------------------------------------------
(* The handler's steps. *)

\* What a write of the handler has to show: how the answer looks afterwards.
LEMMA HandlerStep ==
  ASSUME AnswerInv, InHandler, UNCHANGED <<around, at, outcome, result, logged>>,
         meant' \in [status : Status \union {0}, docs : Seq(Nat)],
         out' \in OutRec, out'.wrapped = out.wrapped,
         ~out'.early =>
           /\ ~out.early
           /\ out.sent # 0 => out'.sent = out.sent
           /\ \/ Blank(out') /\ meant'.status = 0 /\ meant'.docs = << >>
              \/ out'.sent = meant'.status /\ Carries(out', meant'.docs) /\ Streaming(out')
  PROVE  AnswerInv'
<1>1. AnswerTypes'
  BY DEF AnswerInv, AnswerTypes
<1>2. InHandler' /\ at' # -1
  BY ChainIs DEF AnswerInv, AnswerTypes, InHandler
<1>3. out'.wrapped => Contains(around', "compress")
  BY DEF AnswerInv, AnswerGood
<1>4. ASSUME ~out'.early PROVE OnTheWay'
  <2>1. OnTheWay /\ ~out.early
    BY <1>4, <1>2 DEF AnswerInv, AnswerGood
  <2>2. logged'.committed => logged'.status = out'.sent /\ out'.sent # 0
    BY <1>4, <2>1 DEF OnTheWay
  <2>3. CASE Blank(out') /\ meant'.status = 0 /\ meant'.docs = << >>
    BY <1>2, <2>2, <2>3 DEF OnTheWay, Wrote, Blank
  <2>4. CASE out'.sent = meant'.status /\ Carries(out', meant'.docs) /\ Streaming(out')
    <3>1. StreamGood(out', around', at')
      <4>1. around' \in Chains /\ at' = Len(around') + 1
        BY <1>1, <1>2 DEF AnswerTypes, InHandler
      <4>2. StreamGood(out', around', Len(around') + 1)
        BY <1>3, <2>4, <4>1, StreamsInHandler
      <4> QED
        BY <4>1, <4>2
    <3>2. out'.committed /\ out'.sent = out'.status /\ out'.sent # 0
      BY <2>4 DEF Carries
    <3> QED
      BY <1>2, <2>2, <2>4, <3>1, <3>2 DEF OnTheWay, Wrote
  <2> QED
    BY <1>4, <2>3, <2>4
<1> QED
  BY <1>1, <1>2, <1>3, <1>4 DEF AnswerInv, AnswerGood

\* What the invariant says in the handler.
LEMMA HandlerIs ==
  ASSUME AnswerInv, InHandler, ~out.early
  PROVE  /\ out.committed => /\ out.sent = meant.status /\ Carries(out, meant.docs) /\ Streaming(out)
         /\ ~out.committed => Blank(out) /\ meant.status = 0 /\ meant.docs = << >>
<1>1. around \in Chains /\ at = Len(around) + 1 /\ at # -1
  BY ChainIs DEF AnswerInv, AnswerTypes, InHandler
<1>2. OnTheWay
  BY <1>1 DEF AnswerInv, AnswerGood
<1>3. ASSUME out.committed
      PROVE  out.sent = meant.status /\ Carries(out, meant.docs) /\ Streaming(out)
  <2>1. out.sent = meant.status /\ Carries(out, meant.docs) /\ StreamGood(out, around, at)
    BY <1>2, <1>3 DEF OnTheWay, Wrote
  <2>2. StreamGood(out, around, Len(around) + 1)
    BY <2>1, <1>1
  <2> QED
    BY <2>1, <2>2, <1>1, StreamsInHandler DEF AnswerInv, AnswerGood
<1> QED
  BY <1>2, <1>3 DEF OnTheWay, Wrote

LEMMA MeantIs ==
  ASSUME AnswerInv
  PROVE  /\ meant.status \in Status \union {0} /\ meant.docs \in Seq(Nat)
         /\ meant = [status |-> meant.status, docs |-> meant.docs]
         /\ out \in OutRec /\ around \in Chains
  BY DEF AnswerInv, AnswerTypes

LEMMA HandlerHeaders_Inv ==
  ASSUME AnswerInv, NEW ctype \in {"", "json", "image"}, NEW encoded \in BOOLEAN,
         HandlerHeaders(ctype, encoded)
  PROVE  AnswerInv'
<1>1. out' = [out EXCEPT !.ctype = ctype, !.encoded = encoded] /\ ~out.committed /\ InHandler
  BY DEF HandlerHeaders
<1>2. out \in OutRec
  BY MeantIs
<1>3. out' \in OutRec
  BY <1>1, <1>2 DEF OutRec
<1>4. out'.wrapped = out.wrapped /\ out'.early = out.early /\ out'.sent = out.sent /\ (Blank(out) => Blank(out'))
  BY <1>1, <1>2 DEF OutRec, Blank
<1>5. ~out.early => Blank(out) /\ meant.status = 0 /\ meant.docs = << >>
  BY <1>1, HandlerIs
<1>6. UNCHANGED <<around, at, outcome, result, meant, logged>>
  BY DEF HandlerHeaders
<1>7. meant' \in [status : Status \union {0}, docs : Seq(Nat)]
  BY <1>6 DEF AnswerInv, AnswerTypes
<1> QED
  BY <1>1, <1>3, <1>4, <1>5, <1>6, <1>7, HandlerStep

LEMMA HandlerStatus_Inv ==
  ASSUME AnswerInv, NEW code \in Status, HandlerStatus(code)
  PROVE  AnswerInv'
<1>1. out' = ResponseHeader(out, code) /\ InHandler /\ UNCHANGED <<around, at, outcome, result, logged>>
  BY DEF HandlerStatus
<1>2. out \in OutRec /\ meant.status \in Status \union {0} /\ meant.docs \in Seq(Nat)
      /\ meant = [status |-> meant.status, docs |-> meant.docs]
  BY MeantIs
<1>3. /\ Keeps(out, out') /\ (out.committed => out' = out)
      /\ Blank(out) => Carries(out', << >>) /\ Streaming(out') /\ out'.sent = code
  BY <1>1, <1>2, ResponseHeaderIs
<1>4. meant'.status = (IF meant.status = 0 THEN code ELSE meant.status) /\ meant'.docs = meant.docs
      /\ meant' \in [status : Status \union {0}, docs : Seq(Nat)]
  BY <1>2 DEF HandlerStatus
<1>5. ASSUME ~out'.early
      PROVE  /\ ~out.early
             /\ out.sent # 0 => out'.sent = out.sent
             /\ out'.sent = meant'.status /\ Carries(out', meant'.docs) /\ Streaming(out')
  <2>1. ~out.early /\ (out.sent # 0 => out'.sent = out.sent)
    BY <1>3, <1>5 DEF Keeps
  <2>2. CASE out.committed
    BY <2>1, <2>2, <1>1, <1>3, <1>4, HandlerIs DEF Carries
  <2>3. CASE ~out.committed
    BY <2>1, <2>3, <1>1, <1>3, <1>4, HandlerIs
  <2> QED
    BY <2>1, <2>2, <2>3
<1>6. out' \in OutRec /\ out'.wrapped = out.wrapped
  BY <1>3 DEF Keeps
<1> QED
  BY <1>1, <1>4, <1>5, <1>6, HandlerStep

LEMMA HandlerWrite_Inv == ASSUME AnswerInv, HandlerWrite PROVE AnswerInv'
<1> DEFINE doc == Len(meant.docs) + 1
<1>1. /\ out' = ResponseWrite(out, doc) /\ InHandler /\ UNCHANGED <<around, at, outcome, result, logged>>
      /\ meant' = [status |-> IF meant.status = 0 THEN 200 ELSE meant.status, docs |-> Append(meant.docs, doc)]
  BY DEF HandlerWrite
<1>2. out \in OutRec /\ meant.status \in Status \union {0} /\ meant.docs \in Seq(Nat)
  BY MeantIs
<1>3. doc \in Nat
  BY <1>2
<1> HIDE DEF doc
<1>4. doc \in Doc /\ Append(meant.docs, doc) \in Seq(Nat)
  BY <1>2, <1>3 DEF Doc
<1>5. meant' \in [status : Status \union {0}, docs : Seq(Nat)]
  BY <1>1, <1>2, <1>4, StatusIs
<1>6. Keeps(out, out')
  BY <1>1, <1>2, <1>4, ResponseWriteIs
<1>7. ASSUME ~out'.early
      PROVE  /\ ~out.early
             /\ out.sent # 0 => out'.sent = out.sent
             /\ out'.sent = meant'.status /\ Carries(out', meant'.docs) /\ Streaming(out')
  <2>1. ~out.early /\ (out.sent # 0 => out'.sent = out.sent)
    BY <1>6, <1>7 DEF Keeps
  <2>2. CASE out.committed
    <3>1. out.sent = meant.status /\ Carries(out, meant.docs) /\ Streaming(out)
      BY <1>1, <2>1, <2>2, HandlerIs
    <3>2. Carries(out', Append(meant.docs, doc)) /\ Streaming(out')
      BY <3>1, <1>1, <1>2, <1>4, WriteCarries
    <3>3. out.sent # 0
      BY <3>1 DEF Carries
    <3> QED
      BY <2>1, <3>1, <3>2, <3>3, <1>1
  <2>3. CASE ~out.committed
    <3>1. Blank(out) /\ meant.status = 0 /\ meant.docs = << >>
      BY <1>1, <2>1, <2>3, HandlerIs
    <3>2. Carries(out', <<doc>>) /\ Streaming(out') /\ out'.sent = 200
      BY <3>1, <1>1, <1>2, <1>4, WriteBlank
    <3>3. Append(meant.docs, doc) = <<doc>>
      BY <3>1
    <3> QED
      BY <2>1, <3>1, <3>2, <3>3, <1>1
  <2> QED
    BY <2>2, <2>3
<1>8. out' \in OutRec /\ out'.wrapped = out.wrapped
  BY <1>6 DEF Keeps
<1> QED
  BY <1>1, <1>5, <1>7, <1>8, HandlerStep

LEMMA HandlerFlush_Inv == ASSUME AnswerInv, HandlerFlush PROVE AnswerInv'
<1> DEFINE h == ServerHeader(out, 200)
<1>1. /\ out' = [h EXCEPT !.early = (out.sent = 0)] /\ InHandler /\ ~out.early
      /\ UNCHANGED <<around, at, outcome, result, meant, logged>>
  BY DEF HandlerFlush, ResponseFlush
<1>2. out \in OutRec /\ meant' \in [status : Status \union {0}, docs : Seq(Nat)]
  BY <1>1 DEF AnswerInv, AnswerTypes
<1>3. Keeps(out, h) /\ (out.sent # 0 => h = out)
  BY <1>2, ServerHeaderIs, StatusIs
<1> HIDE DEF h
<1>4. h \in OutRec /\ h.wrapped = out.wrapped
  BY <1>3 DEF Keeps
<1>5. out' \in OutRec /\ out'.wrapped = out.wrapped /\ out'.early = (out.sent = 0)
  BY <1>1, <1>4 DEF OutRec
<1>6. ASSUME ~out'.early PROVE out' = out /\ out.committed
  <2>1. out.sent # 0 /\ h = out
    BY <1>3, <1>5, <1>6
  <2>2. out.committed
    BY <2>1, <1>1, HandlerIs DEF Blank
  <2>3. out' = [out EXCEPT !.early = FALSE]
    BY <2>1, <1>1
  <2>4. out.early = FALSE
    BY <1>1, <1>2 DEF OutRec
  <2>5. [out EXCEPT !.early = FALSE] = out
    BY <2>4, <1>2 DEF OutRec
  <2> QED
    BY <2>2, <2>3, <2>5
<1>7. out.committed => out.sent = meant.status /\ Carries(out, meant.docs) /\ Streaming(out)
  BY <1>1, HandlerIs
<1> QED
  BY <1>1, <1>2, <1>5, <1>6, <1>7, HandlerStep

\* Leaving the handler, with what it wrote.
LEMMA StreamLeaves ==
  ASSUME NEW ch \in Chains, NEW s, NEW a \in Int, a \in 1..(Len(ch) + 1),
         a <= Len(ch) => ch[a] # "compress", StreamGood(s, ch, a)
  PROVE  StreamGood(s, ch, a - 1)
<1>1. Len(ch) \in Nat
  BY ChainIs
<1>2. \A i \in 1..Len(ch) : ch[i] = "compress" => (a - 1 >= i <=> a >= i)
  BY <1>1
<1> QED
  BY <1>2 DEF StreamGood

LEMMA HandlerReturns_Inv ==
  ASSUME AnswerInv, NEW how \in Outcome \ {"running"}, HandlerReturns(how)
  PROVE  AnswerInv'
<1>1. /\ InHandler /\ at' = Len(around) /\ outcome' = how /\ result' = how
      /\ UNCHANGED <<around, meant, out, logged>>
  BY DEF HandlerReturns
<1>2. Len(around) \in Nat /\ at = Len(around) + 1 /\ around \in Chains
  BY <1>1, MeantIs, ChainIs DEF InHandler
<1>3. AnswerTypes'
  BY <1>1, <1>2 DEF AnswerInv, AnswerTypes
<1>4. ~InHandler' /\ at' # -1
  BY <1>1, <1>2 DEF InHandler
<1>5. ASSUME ~out.early PROVE OnTheWay'
  <2>1. OnTheWay
    BY <1>2, <1>5 DEF AnswerInv, AnswerGood
  <2>2. Wrote
    BY <2>1, <1>1 DEF OnTheWay
  <2>3. Wrote'
    <3>1. at \in 1..(Len(around) + 1) /\ at \in Int /\ at - 1 = at'
      BY <1>1, <1>2
    <3>2. StreamGood(out, around, at) => StreamGood(out, around, at - 1)
      BY <1>2, <3>1, StreamLeaves
    <3> QED
      BY <2>2, <3>1, <3>2, <1>1 DEF Wrote
  <2>4. meant.status = 0 => Blank(out)
    <3>1. CASE out.committed
      BY <2>1, <2>2, <3>1 DEF Wrote, OnTheWay
    <3>2. CASE ~out.committed
      BY <2>1, <3>2 DEF OnTheWay
    <3> QED
      BY <3>1, <3>2
  <2>5. \A i \in 1..Len(around) : at' >= i
    BY <1>1, <1>2
  <2>6. how = "panic" /\ meant.status = 0 => Rescued'
    BY <2>4, <2>5, <1>1 DEF Rescued
  <2> QED
    BY <2>1, <2>3, <2>4, <2>6, <1>1, <1>4 DEF OnTheWay, Rescuable
<1> QED
  BY <1>1, <1>3, <1>4, <1>5 DEF AnswerInv, AnswerGood

LEMMA Validate_Inv == ASSUME AnswerInv, Validate PROVE AnswerInv'
<1>1. /\ InHandler /\ at' = Len(around) /\ outcome' = "fault" /\ result' = "fault"
      /\ UNCHANGED <<around, logged>> /\ meant.status = 0
      /\ out' = JSON(out, 422, 1) /\ meant' = [status |-> 422, docs |-> <<1>>]
  BY DEF Validate
<1>2. Len(around) \in Nat /\ at = Len(around) + 1 /\ around \in Chains /\ out \in OutRec
  BY <1>1, MeantIs, ChainIs DEF InHandler
<1>3. 1 \in Doc /\ <<1>> \in Seq(Nat)
  BY DEF Doc
<1>4. /\ Keeps(out, out') /\ out'.committed
      /\ Blank(out) => Carries(out', <<1>>) /\ Streaming(out') /\ out'.sent = 422
  BY <1>1, <1>2, <1>3, StatusIs, JSONIs
<1>5. meant' \in [status : Status \union {0}, docs : Seq(Nat)] /\ meant'.status = 422
  BY <1>1, <1>3, StatusIs
<1>6. AnswerTypes'
  BY <1>1, <1>2, <1>4, <1>5 DEF AnswerInv, AnswerTypes, Keeps, Outcome
<1>7. ~InHandler' /\ at' # -1
  BY <1>1, <1>2 DEF InHandler
<1>8. ASSUME ~out'.early PROVE OnTheWay'
  <2>1. ~out.early /\ OnTheWay
    BY <1>2, <1>4, <1>8 DEF AnswerInv, AnswerGood, Keeps
  <2>2. ~out.committed /\ Blank(out)
    BY <2>1, <1>1, HandlerIs DEF Carries
  <2>3. Carries(out', <<1>>) /\ out'.sent = 422 /\ out'.sent = out'.status
    BY <2>2, <1>4 DEF Carries
  <2>4. ~logged.committed
    BY <2>1, <2>2 DEF OnTheWay, Blank
  <2> QED
    BY <2>3, <2>4, <1>1, <1>4, <1>5, <1>7 DEF OnTheWay
<1>9. out'.wrapped => Contains(around', "compress")
  BY <1>1, <1>4 DEF Keeps, AnswerInv, AnswerGood
<1> QED
  BY <1>1, <1>6, <1>7, <1>8, <1>9 DEF AnswerInv, AnswerGood

----------------------------------------------------------------------------
(* The way out. *)

LEMMA LeavingIs ==
  ASSUME AnswerInv, NEW mw, Leaving(mw)
  PROVE  /\ at \in Int /\ at \in 1..Len(around) /\ around[at] = mw /\ at' = at - 1 /\ around \in Chains
         /\ Len(around) \in Nat /\ ~InHandler /\ at # -1
         /\ at' \in -1..(Len(around) + 1) /\ at' # Len(around) + 1 /\ at' # -1
         /\ \A i \in 1..Len(around) : around[i] = mw => i = at
         /\ ~out.early => OnTheWay
<1>1. around \in Chains /\ Len(around) \in Nat /\ \A i, j \in 1..Len(around) : around[i] = around[j] => i = j
  BY MeantIs, ChainIs
<1>2. at \in 1..Len(around) /\ around[at] = mw /\ at' = at - 1
  BY DEF Leaving
<1>3. /\ at \in Int /\ at # Len(around) + 1 /\ at # -1
      /\ at' \in -1..(Len(around) + 1) /\ at' # Len(around) + 1 /\ at' # -1
  BY <1>1, <1>2
<1>4. ~out.early => OnTheWay
  BY <1>3 DEF AnswerInv, AnswerGood
<1> QED
  BY <1>1, <1>2, <1>3, <1>4 DEF InHandler

\* A middleware is left that changes neither the answer nor the outcome.
LEMMA LeavesQuietly ==
  ASSUME AnswerInv, NEW mw \in {"logger", "recovery"}, Leaving(mw), mw = "recovery" => outcome # "panic",
         UNCHANGED <<around, outcome, result, meant, out>>,
         logged' \in [status : Status \union {0}, committed : BOOLEAN],
         ~out.early /\ OnTheWay => (logged'.committed => logged'.status = out.sent /\ out.sent # 0)
  PROVE  AnswerInv'
<1>1. /\ at \in Int /\ at \in 1..Len(around) /\ around[at] = mw /\ at' = at - 1 /\ around \in Chains
      /\ Len(around) \in Nat /\ ~InHandler /\ at # -1
      /\ at' \in -1..(Len(around) + 1) /\ at' # Len(around) + 1 /\ at' # -1
      /\ \A i \in 1..Len(around) : around[i] = mw => i = at
      /\ ~out.early => OnTheWay
  BY LeavingIs
<1>2. AnswerTypes'
  BY <1>1 DEF AnswerInv, AnswerTypes
<1>3. ~InHandler'
  BY <1>1 DEF InHandler
<1>4. StreamGood(out, around, at) => StreamGood(out, around, at')
  <2>1. at \in 1..(Len(around) + 1) /\ around[at] # "compress"
    BY <1>1
  <2> QED
    BY <2>1, <1>1, StreamLeaves
<1>5. ASSUME ~out.early PROVE OnTheWay'
  <2>1. Wrote => Wrote'
    BY <1>4 DEF Wrote
  <2>2. Rescued => Rescued'
    <3>1. CASE mw = "recovery"
      BY <3>1, <1>4 DEF Rescued
    <3>2. CASE mw = "logger"
      <4>1. \A i \in 1..Len(around) : around[i] = "recovery" => i # at
        BY <3>2, <1>1
      <4>2. \A i \in 1..Len(around) : around[i] = "recovery" /\ at >= i => at' >= i
        BY <4>1, <1>1
      <4> QED
        BY <4>2, <1>4 DEF Rescued
    <3> QED
      BY <3>1, <3>2
  <2>3. OnTheWay
    BY <1>1, <1>5
  <2>4. Rescuable' => Rescuable
    BY DEF Rescuable, Inside
  <2> QED
    BY <2>1, <2>2, <2>3, <2>4, <1>1, <1>3, <1>5 DEF OnTheWay
<1> QED
  BY <1>1, <1>2, <1>3, <1>5 DEF AnswerInv, AnswerGood

LEMMA LeaveLogger_Inv == ASSUME AnswerInv, LeaveLogger PROVE AnswerInv'
<1>1. /\ Leaving("logger") /\ UNCHANGED <<around, outcome, result, meant, out>>
      /\ logged' = IF outcome = "panic" THEN logged ELSE [status |-> out.status, committed |-> out.committed]
  BY DEF LeaveLogger
<1>2. out \in OutRec /\ logged \in [status : Status \union {0}, committed : BOOLEAN]
  BY DEF AnswerInv, AnswerTypes
<1>3. out.status \in Status /\ out.committed \in BOOLEAN
  BY <1>2 DEF OutRec
<1>4. [status |-> out.status, committed |-> out.committed] \in [status : Status \union {0}, committed : BOOLEAN]
  BY <1>3
<1>5. logged' \in [status : Status \union {0}, committed : BOOLEAN]
  BY <1>1, <1>2, <1>4
<1>6. OnTheWay => (logged'.committed => logged'.status = out.sent /\ out.sent # 0)
  BY <1>1 DEF OnTheWay
<1> QED
  BY <1>1, <1>5, <1>6, LeavesQuietly

\* Recovery answers a panic.
LEMMA LeaveRecovery_Inv == ASSUME AnswerInv, LeaveRecovery PROVE AnswerInv'
<1>1. /\ Leaving("recovery") /\ UNCHANGED <<around, result, meant, logged>>
      /\ out' = (IF outcome = "panic" THEN Recovered(out) ELSE out)
      /\ outcome' = IF outcome # "panic" THEN outcome ELSE IF out'.died THEN "panic" ELSE "ok"
  BY DEF LeaveRecovery
<1>2. CASE outcome # "panic"
  <2>1. UNCHANGED <<around, outcome, result, meant, out>> /\ logged' = logged
    BY <1>1, <1>2
  <2>2. logged' \in [status : Status \union {0}, committed : BOOLEAN]
    BY <2>1 DEF AnswerInv, AnswerTypes
  <2>3. OnTheWay => (logged'.committed => logged'.status = out.sent /\ out.sent # 0)
    BY <2>1 DEF OnTheWay
  <2> QED
    BY <1>1, <1>2, <2>1, <2>2, <2>3, LeavesQuietly
<1>3. CASE outcome = "panic"
  <2>1. /\ at \in Int /\ at \in 1..Len(around) /\ around[at] = "recovery" /\ at' = at - 1 /\ around \in Chains
        /\ Len(around) \in Nat /\ ~InHandler /\ at # -1
        /\ at' \in -1..(Len(around) + 1) /\ at' # Len(around) + 1 /\ at' # -1
        /\ \A i \in 1..Len(around) : around[i] = "recovery" => i = at
        /\ ~out.early => OnTheWay
    BY <1>1, LeavingIs
  <2>2. out \in OutRec
    BY MeantIs
  <2>3. out' = IF out.committed THEN out ELSE JSON(out, 500, "error")
    BY <1>1, <1>3 DEF Recovered
  <2>4. /\ Keeps(out, out') /\ out'.committed
        /\ Blank(out) => Carries(out', <<"error">>) /\ Streaming(out') /\ out'.sent = 500
    <3>1. CASE out.committed
      BY <2>2, <2>3, <3>1 DEF Keeps, Blank
    <3>2. CASE ~out.committed
      <4>1. out' = JSON(out, 500, "error") /\ "error" \in Doc
        BY <2>3, <3>2 DEF Doc
      <4> QED
        BY <4>1, <2>2, StatusIs, JSONIs
    <3> QED
      BY <3>1, <3>2
  <2>5. outcome' \in {"panic", "ok"} /\ (~out'.died => outcome' = "ok")
    BY <1>1, <1>3
  <2>6. AnswerTypes'
    BY <1>1, <2>1, <2>4, <2>5 DEF AnswerInv, AnswerTypes, Keeps, Outcome
  <2>7. ~InHandler'
    BY <1>1, <2>1 DEF InHandler
  <2>8. out'.wrapped => Contains(around', "compress")
    BY <1>1, <2>4 DEF Keeps, AnswerInv, AnswerGood
  <2>9. ASSUME ~out'.early PROVE OnTheWay'
    <3>1. OnTheWay /\ ~out.early
      BY <2>1, <2>4, <2>9 DEF Keeps
    <3>2. out'.sent = out'.status /\ out'.sent # 0
      <4>1. CASE out.committed
        BY <4>1, <3>1, <2>3 DEF OnTheWay
      <4>2. CASE ~out.committed
        BY <4>2, <3>1, <2>4 DEF OnTheWay, Carries
      <4> QED
        BY <4>1, <4>2
    <3>3. logged'.committed => logged'.status = out'.sent
      BY <3>1, <2>4, <1>1 DEF OnTheWay, Keeps
    <3>4. result \notin {"ok", "err", "fault"}
      BY <3>1, <2>1, <1>3 DEF OnTheWay
    <3>5. ASSUME result = "panic", Rescuable' PROVE Rescued'
      <4>1. Rescuable
        BY <3>5, <2>4, <1>1 DEF Rescuable, Keeps, Inside
      <4>2. Blank(out)
        BY <4>1, <3>1, <3>5, <2>1, <1>3 DEF OnTheWay, Rescued
      <4>3. Carries(out', <<"error">>) /\ Streaming(out') /\ out'.sent = 500
        BY <4>2, <2>4
      <4>4. outcome' = "ok"
        BY <4>3, <2>5 DEF Carries
      <4>5. ASSUME out'.compress PROVE \A i \in 1..Len(around) : around[i] = "compress" => at' >= i
        <5>1. Inside("recovery", "compress")
          BY <4>1, <4>3, <4>5, <2>4 DEF Carries, Keeps, Rescuable
        <5>2. PICK a, b \in DOMAIN around : a > b /\ around[a] = "recovery" /\ around[b] = "compress"
          BY <5>1 DEF Inside
        <5>3. DOMAIN around = 1..Len(around)
              /\ \A i, j \in 1..Len(around) : around[i] = around[j] => i = j
          BY <2>1, ChainIs
        <5>4. a = at /\ \A i \in 1..Len(around) : around[i] = "compress" => i = b
          BY <5>2, <5>3, <2>1
        <5> QED
          BY <5>2, <5>3, <5>4, <2>1
      <4>6. StreamGood(out', around', at')
        BY <4>3, <4>5, <1>1 DEF StreamGood, Streaming
      <4> QED
        BY <4>3, <4>4, <4>6 DEF Rescued
    <3> QED
      BY <3>2, <3>3, <3>4, <3>5, <2>4, <2>7, <1>1 DEF OnTheWay
  <2> QED
    BY <2>1, <2>5, <2>6, <2>7, <2>8, <2>9 DEF AnswerInv, AnswerGood
<1> QED
  BY <1>2, <1>3

LEMMA GzipCloseIs ==
  ASSUME NEW s \in OutRec, NEW t, t = GzipClose(s)
  PROVE  /\ Keeps(s, t) /\ t.sent = s.sent /\ t.status = s.status /\ t.committed = s.committed
         /\ Blank(s) => t = s
         /\ \A docs : Carries(s, docs) => Carries(t, docs)
         /\ t.compress = s.compress
         /\ s.gz = "open" => t.finished
<1>1. CASE s.gz # "open"
  <2>1. t = s
    BY <1>1 DEF GzipClose
  <2> QED
    BY <1>1, <2>1 DEF Keeps
<1>2. CASE s.gz = "open"
  <2>1. t = [s EXCEPT !.gz = "nil", !.finished = TRUE]
    BY <1>2 DEF GzipClose
  <2>2. t \in OutRec
    BY <2>1 DEF OutRec
  <2>3. /\ t.committed = s.committed /\ t.status = s.status /\ t.early = s.early /\ t.wrapped = s.wrapped
        /\ t.encoded = s.encoded /\ t.finished /\ t.sent = s.sent /\ t.label = s.label
        /\ t.plain = s.plain /\ t.zipped = s.zipped /\ t.died = s.died /\ t.gz = "nil"
        /\ t.compress = s.compress /\ t.wroteHeader = s.wroteHeader
    BY <2>1 DEF OutRec
  <2>4. Keeps(s, t)
    BY <2>2, <2>3 DEF Keeps
  <2>5. ASSUME NEW docs, Carries(s, docs) PROVE Carries(t, docs)
    BY <2>3, <2>5 DEF Carries
  <2> QED
    BY <1>2, <2>3, <2>4, <2>5 DEF Blank
<1> QED
  BY <1>1, <1>2

LEMMA LeaveCompress_Inv == ASSUME AnswerInv, LeaveCompress PROVE AnswerInv'
<1>1. /\ Leaving("compress") /\ UNCHANGED <<around, outcome, result, meant, logged>>
      /\ out' = GzipClose(out)
  BY DEF LeaveCompress
<1>2. /\ at \in Int /\ at \in 1..Len(around) /\ around[at] = "compress" /\ at' = at - 1 /\ around \in Chains
      /\ Len(around) \in Nat /\ ~InHandler /\ at # -1
      /\ at' \in -1..(Len(around) + 1) /\ at' # Len(around) + 1 /\ at' # -1
      /\ \A i \in 1..Len(around) : around[i] = "compress" => i = at
      /\ ~out.early => OnTheWay
  BY <1>1, LeavingIs
<1>3. out \in OutRec
  BY MeantIs
<1>4. /\ Keeps(out, out') /\ out'.sent = out.sent /\ out'.status = out.status /\ out'.committed = out.committed
      /\ Blank(out) => out' = out
      /\ \A docs : Carries(out, docs) => Carries(out', docs)
      /\ out'.compress = out.compress
      /\ out.gz = "open" => out'.finished
  BY <1>1, <1>3, GzipCloseIs
<1>5. AnswerTypes'
  BY <1>1, <1>2, <1>4 DEF AnswerInv, AnswerTypes, Keeps
<1>6. ~InHandler'
  BY <1>1, <1>2 DEF InHandler
<1>7. out'.wrapped => Contains(around', "compress")
  BY <1>1, <1>4 DEF Keeps, AnswerInv, AnswerGood
<1>8. StreamGood(out, around, at) => StreamGood(out', around', at')
  <2>1. \A i \in 1..Len(around) : around[i] = "compress" => at >= i /\ ~(at' >= i)
    BY <1>2
  <2> QED
    BY <2>1, <1>1, <1>4 DEF StreamGood
<1>9. ASSUME ~out'.early PROVE OnTheWay'
  <2>1. OnTheWay
    BY <1>2, <1>4, <1>9 DEF Keeps
  <2>2. Wrote => Wrote'
    BY <1>1, <1>4, <1>8 DEF Wrote
  <2>3. \A i \in 1..Len(around) : around[i] = "recovery" /\ at >= i => at' >= i
    BY <1>2
  <2>4. Rescued => Rescued'
    BY <2>3, <1>1, <1>4, <1>8 DEF Rescued
  <2>5. Rescuable' => Rescuable
    BY <1>1, <1>4 DEF Rescuable, Keeps, Inside
  <2> QED
    BY <2>1, <2>2, <2>4, <2>5, <1>1, <1>2, <1>4, <1>6 DEF OnTheWay
<1> QED
  BY <1>1, <1>2, <1>5, <1>6, <1>7, <1>9 DEF AnswerInv, AnswerGood

\* A wire that carries documents, once Compress has been left, is readable.
LEMMA CarriesReads ==
  ASSUME NEW ch \in Chains, NEW s, NEW docs, Carries(s, docs), StreamGood(s, ch, 0),
         s.wrapped => Contains(ch, "compress")
  PROVE  Reads(s, IF s.sent = 204 THEN << >> ELSE docs)
<1>1. Len(ch) \in Nat /\ \A i \in 1..Len(ch) : ~(0 >= i)
  BY ChainIs
<1>2. s.compress => s.finished
  BY <1>1 DEF Carries, Contains, StreamGood
<1> QED
  BY <1>2 DEF Carries, Reads, Readable

LEMMA EndRequest_Inv == ASSUME AnswerInv, EndRequest PROVE AnswerInv'
<1>1. at = 0 /\ at' = -1 /\ UNCHANGED <<around, outcome, result, meant, logged>>
  BY DEF EndRequest
<1>2. out \in OutRec /\ around \in Chains /\ Len(around) \in Nat
  BY MeantIs, ChainIs
<1>3. ~InHandler /\ ~InHandler'
  BY <1>1, <1>2 DEF InHandler
<1>4. outcome \in {"ok", "err", "fault", "panic"}
  BY <1>3 DEF AnswerInv, AnswerGood, AnswerTypes, Outcome
<1>5. outcome \in {"err", "fault"} => out' = JSON(out, ErrorCode(outcome), "error")
  BY DEF EndRequest, ErrorHandler
<1>6. outcome = "ok" => out' = ServerHeader(out, 200)
  BY DEF EndRequest
<1>7. outcome = "panic" => out' = [out EXCEPT !.died = TRUE]
  BY DEF EndRequest
<1>8. "error" \in Doc /\ ErrorCode(outcome) \in Status
  BY StatusIs DEF Doc, ErrorCode
<1>9. Keeps(out, out')
  <2>1. CASE outcome \in {"err", "fault"}
    BY <2>1, <1>2, <1>5, <1>8, JSONIs
  <2>2. CASE outcome = "ok"
    BY <2>2, <1>2, <1>6, StatusIs, ServerHeaderIs
  <2>3. CASE outcome = "panic"
    <3>1. out' \in OutRec
      BY <2>3, <1>2, <1>7 DEF OutRec
    <3> QED
      BY <2>3, <3>1, <1>2, <1>7 DEF OutRec, Keeps
  <2> QED
    BY <2>1, <2>2, <2>3, <1>4
<1>10. AnswerTypes'
  BY <1>1, <1>2, <1>9 DEF AnswerInv, AnswerTypes, Keeps
<1>11. out'.wrapped => Contains(around', "compress")
  BY <1>1, <1>9 DEF Keeps, AnswerInv, AnswerGood
<1>12. ASSUME ~out'.early PROVE AnswerExact'
  <2>1. OnTheWay /\ (out.wrapped => Contains(around, "compress"))
    BY <1>1, <1>9, <1>12 DEF AnswerInv, AnswerGood, Keeps
  <2>2. LoggedStatus'
    BY <2>1, <1>1, <1>9 DEF OnTheWay, LoggedStatus, Keeps
  <2>3. HandlerAnswer'
    <3> SUFFICES ASSUME result = "ok"
                 PROVE  /\ out'.sent = (IF meant.status = 0 THEN 200 ELSE meant.status)
                        /\ Reads(out', IF out'.sent = 204 THEN << >> ELSE meant.docs)
      BY <1>1 DEF HandlerAnswer
    <3>1. outcome = "ok" /\ Wrote
      BY <2>1, <1>3 DEF OnTheWay
    <3>2. out' = ServerHeader(out, 200)
      BY <3>1, <1>6
    <3>3. CASE out.committed
      <4>1. out.sent = meant.status /\ Carries(out, meant.docs) /\ StreamGood(out, around, 0)
        BY <3>1, <3>3, <1>1 DEF Wrote
      <4>2. out.sent # 0 /\ Reads(out, IF out.sent = 204 THEN << >> ELSE meant.docs)
        BY <4>1, <2>1, <1>2, CarriesReads DEF Carries
      <4>3. out' = out
        BY <3>2, <4>2 DEF ServerHeader
      <4> QED
        BY <4>1, <4>2, <4>3
    <3>4. CASE ~out.committed
      <4>1. Blank(out) /\ meant.status = 0 /\ meant.docs = << >>
        BY <3>1, <3>4, <2>1 DEF Wrote, OnTheWay
      <4>2. /\ out'.sent = 200 /\ out'.label # "gzip" /\ out'.plain = << >> /\ out'.zipped = << >> /\ ~out'.died
        BY <3>2, <4>1, <1>2, StatusIs, ServerHeaderIs DEF Blank
      <4> QED
        BY <4>1, <4>2 DEF Reads, Readable
    <3> QED
      BY <3>3, <3>4
  <2>4. ErrorAnswer'
    <3>1. out'.encoded = out.encoded /\ out'.wrapped = out.wrapped
      BY <1>9 DEF Keeps
    <3>2. ASSUME meant.status = 0, result \in {"err", "fault"}, ~out.wrapped
          PROVE  out'.sent = ErrorCode(result) /\ Reads(out', <<"error">>)
      <4>1. outcome = result /\ Blank(out)
        BY <2>1, <3>2, <1>3 DEF OnTheWay
      <4>2. Carries(out', <<"error">>) /\ out'.sent = ErrorCode(outcome)
        BY <3>2, <4>1, <1>2, <1>5, <1>8, JSONIs
      <4>3. ~out'.compress /\ out'.sent # 204
        BY <3>1, <3>2, <4>2 DEF Carries, ErrorCode
      <4> QED
        BY <4>1, <4>2, <4>3 DEF Carries, Reads, Readable
    <3>3. ASSUME meant.status = 0, ~out.encoded, result = "panic", Contains(around, "recovery"),
                 out.wrapped => Inside("recovery", "compress")
          PROVE  out'.sent = 500 /\ Reads(out', <<"error">>)
      <4>1. Rescued
        BY <2>1, <3>3, <1>3 DEF OnTheWay, Rescuable
      <4>2. \A i \in 1..Len(around) : ~(at >= i)
        BY <1>1, <1>2
      <4>3. outcome = "ok" /\ out.sent = 500 /\ Carries(out, <<"error">>) /\ StreamGood(out, around, 0)
        BY <3>3, <4>1, <4>2, <1>1 DEF Rescued, Contains
      <4>4. Reads(out, IF out.sent = 204 THEN << >> ELSE <<"error">>)
        BY <4>3, <2>1, <1>2, CarriesReads
      <4>5. out' = out
        BY <4>3, <1>6 DEF ServerHeader
      <4> QED
        BY <4>3, <4>4, <4>5
    <3> QED
      BY <3>1, <3>2, <3>3, <1>1 DEF ErrorAnswer, Inside
  <2> QED
    BY <2>2, <2>3, <2>4 DEF AnswerExact
<1> QED
  BY <1>1, <1>4, <1>10, <1>11, <1>12 DEF AnswerInv, AnswerGood

LEMMA AnswerNext_Inv == AnswerInv /\ [AnswerNext]_answerVars => AnswerInv'
<1> SUFFICES ASSUME AnswerInv, [AnswerNext]_answerVars PROVE AnswerInv'
  OBVIOUS
<1>1. {200, 204} \subseteq Status
  BY StatusIs
<1>2. CASE UNCHANGED answerVars
  <2>1. AnswerTypes'
    BY <1>2 DEF answerVars, AnswerInv, AnswerTypes
  <2>2. AnswerGood'
    BY <1>2 DEF answerVars, AnswerInv, AnswerGood, InHandler, OnTheWay, Wrote, Rescued, Rescuable, Inside,
                AnswerExact, HandlerAnswer, ErrorAnswer, LoggedStatus
  <2> QED
    BY <2>1, <2>2 DEF AnswerInv
<1> QED
  BY <1>1, <1>2, HandlerHeaders_Inv, HandlerStatus_Inv, HandlerWrite_Inv, HandlerFlush_Inv, Validate_Inv,
     HandlerReturns_Inv, LeaveLogger_Inv, LeaveRecovery_Inv, LeaveCompress_Inv, EndRequest_Inv DEF AnswerNext

LEMMA AnswerInvSuffices == AnswerInv => AnswerExact
<1> SUFFICES ASSUME AnswerInv PROVE AnswerExact
  OBVIOUS
<1>1. CASE at = -1 /\ ~out.early
  BY <1>1 DEF AnswerInv, AnswerGood
<1>2. CASE at # -1 \/ out.early
  BY <1>2 DEF AnswerExact, HandlerAnswer, ErrorAnswer, LoggedStatus
<1> QED
  BY <1>1, <1>2

\* Whatever chain of Logger, Recovery and Compress a route has, each at most once,
\* and however many documents the handler writes: the client reads the answer
\* that was meant, or an error document, under its status, and the log has that
\* status (compress.go 18-118, recovery.go 22-55, router.go 225-234, logger.go
\* 21-60).
THEOREM AnswersExactly == AnswerSpec => []AnswerExact
  BY AnswerInit_Inv, AnswerNext_Inv, AnswerInvSuffices, PTL DEF AnswerSpec

---------------------------------------------------------------------------
(* The router.  A pattern spells exactly the paths it matches; what a     *)
(* lookup found stays the first route for its path while others are        *)
(* registered; and the middlewares of every group and route stay in order, *)
(* complete from the moment the route was added.                           *)

IsWild(p) == Len(p) > 0 /\ p[Len(p)].kind = "wild"
Fixed(p) == IF IsWild(p) THEN Len(p) - 1 ELSE Len(p)

\* What the proofs need of a pattern: a wildcard at the end only, a name for each
\* parameter, literals that are not empty.
Shape(p) ==
  /\ Len(p) \in Nat /\ \A i \in 1..Len(p) : p[i].kind \in {"lit", "param", "wild"}
  /\ \A i \in 1..Len(p) : p[i].kind = "wild" => i = Len(p)
  /\ \A i \in 1..Len(p) : p[i].kind = "lit" => p[i].text \in Part /\ p[i].text # NoText
  /\ \A i, j \in 1..Len(p) : p[i].kind # "lit" /\ p[j].kind # "lit" /\ p[i].text = p[j].text => i = j

Pattern == {d.pattern : d \in Declared}

LEMMA PatternShape == \A p \in Pattern : Shape(p)
<1> SUFFICES ASSUME NEW p \in Pattern PROVE Shape(p)
  OBVIOUS
<1>1. Regular(p) /\ NoText \notin Word
  BY RoutingAssumption DEF Pattern
<1>2. p \in Seq(PatternSegment)
  BY <1>1 DEF Regular
<1>3. Len(p) \in Nat /\ \A i \in 1..Len(p) : p[i] \in PatternSegment
  BY <1>2
<1>4. \A i \in 1..Len(p) : p[i].kind \in {"lit", "param", "wild"}
  BY <1>3 DEF PatternSegment
<1>5. \A i \in 1..Len(p) : p[i].kind = "lit" => p[i].text \in Part /\ p[i].text # NoText
  BY <1>1 DEF Regular, Part
<1>6. /\ \A i \in 1..Len(p) : p[i].kind = "wild" => i = Len(p)
      /\ \A i, j \in 1..Len(p) : p[i].kind # "lit" /\ p[j].kind # "lit" /\ p[i].text = p[j].text => i = j
  BY <1>1 DEF Regular
<1> QED BY <1>3, <1>4, <1>5, <1>6 DEF Shape

LEMMA FirstIndex ==
  ASSUME NEW S, S \subseteq Nat, S # {}
  PROVE  \E i \in S : \A k \in S : i <= k
<1>1. PICK i \in S : \A k \in S : ~(<<k, i>> \in OpToRel(<, Nat))
  BY WFMin, NatLessThanWellFounded
<1>2. \A k \in S : ~(k < i)
  BY <1>1 DEF OpToRel
<1> QED BY <1>2

\* What holds of 0 and, of each number up to n, after the one before, holds of
\* all of them.
LEMMA UpTo ==
  ASSUME NEW n \in Nat, NEW S, 0 \in S, \A i \in 1..n : i - 1 \in S => i \in S
  PROVE  \A i \in 0..n : i \in S
<1> DEFINE B == {i \in 0..n : i \notin S}
<1> SUFFICES ASSUME B # {} PROVE FALSE
  OBVIOUS
<1>0. B \subseteq Nat
  OBVIOUS
<1>1. PICK m \in B : \A k \in B : m <= k
  <2> HIDE DEF B
  <2> QED BY <1>0, FirstIndex
<1>2. m \in 1..n /\ m \notin S
  BY <1>1
<1>3. m - 1 \in 0..n /\ ~(m <= m - 1)
  BY <1>2
<1>4. m - 1 \in S
  BY <1>1, <1>3
<1> QED BY <1>2, <1>4

\* The sequences of the first i elements of s, one after the other.
Joins(g, s, n) == DOMAIN g = 0..n /\ g[0] = <<>> /\ \A i \in 1..n : g[i] = g[i - 1] \o s[i]

LEMMA JoinsExist ==
  ASSUME NEW s, NEW n \in Nat
  PROVE  \E g : Joins(g, s, n)
<1> DEFINE S == {i \in 0..n : \E g : Joins(g, s, i)}
<1>1. 0 \in S
  <2> DEFINE g == [i \in 0..0 |-> <<>>]
  <2>1. DOMAIN g = 0..0 /\ g[0] = <<>> /\ 1..0 = {}
    OBVIOUS
  <2>2. Joins(g, s, 0)
    <3> HIDE DEF g
    <3> QED BY <2>1 DEF Joins
  <2> HIDE DEF g
  <2> QED BY <2>2
<1>2. ASSUME NEW i \in 1..n, i - 1 \in S PROVE i \in S
  <2>1. PICK g : Joins(g, s, i - 1)
    BY <1>2
  <2> DEFINE last == g[i - 1] \o s[i]
             h == [k \in 0..i |-> IF k = i THEN last ELSE g[k]]
  <2>2. DOMAIN h = 0..i /\ h[i] = last /\ \A k \in 0..i : k # i => h[k] = g[k]
    <3> HIDE DEF last
    <3>1. i \in 0..i
      OBVIOUS
    <3> QED BY <3>1, Zenon
  <2> HIDE DEF h
  <2>3. 0 \in 0..i /\ 0 # i /\ i - 1 \in 0..i /\ i - 1 # i
    OBVIOUS
  <2>4. h[0] = <<>> /\ h[i] = h[i - 1] \o s[i]
    BY <2>1, <2>2, <2>3 DEF Joins
  <2>5. ASSUME NEW k \in 1..i PROVE h[k] = h[k - 1] \o s[k]
    <3>1. CASE k = i
      BY <2>4, <3>1
    <3>2. CASE k # i
      <4>1. k \in 1..(i - 1) /\ k \in 0..i /\ k - 1 \in 0..i /\ k - 1 # i
        BY <3>2
      <4>2. g[k] = g[k - 1] \o s[k]
        BY <2>1, <4>1 DEF Joins
      <4> QED BY <2>2, <3>2, <4>1, <4>2
    <3> QED BY <3>1, <3>2
  <2>6. Joins(h, s, i)
    BY <2>2, <2>4, <2>5 DEF Joins
  <2>7. i \in 0..n
    OBVIOUS
  <2> QED BY <2>6, <2>7
<1>3. \A i \in 0..n : i \in S
  <2> HIDE DEF S
  <2> QED BY <1>1, <1>2, UpTo
<1>4. n \in 0..n
  OBVIOUS
<1> QED BY <1>3, <1>4

LEMMA JoinedIs ==
  ASSUME NEW s, Len(s) \in Nat
  PROVE  \E w : Joins(w, s, Len(s)) /\ Joined(s) = w[Len(s)]
<1> DEFINE n == Len(s)
           F(g, i) == IF i = 0 THEN <<>> ELSE g[i - 1] \o s[i]
           P(g) == g = [i \in 0..n |-> F(g, i)]
           w == CHOOSE g : P(g)
<1>1. n \in Nat
  OBVIOUS
<1>2. Joined(s) = w[n]
  BY DEF Joined
<1> HIDE DEF n
<1>3. PICK g : Joins(g, s, n)
  BY <1>1, JoinsExist
<1> DEFINE h == [i \in 0..n |-> g[i]]
<1>4. \A i \in 0..n : h[i] = g[i]
  OBVIOUS
<1>5. h = [i \in 0..n |-> h[i]]
  OBVIOUS
<1> HIDE DEF h
<1>6. ASSUME NEW i \in 0..n PROVE h[i] = F(h, i)
  <2>1. CASE i = 0
    BY <1>3, <1>4, <2>1 DEF Joins
  <2>2. CASE i # 0
    <3>1. i \in 1..n /\ i - 1 \in 0..n
      BY <1>1, <2>2
    <3>2. h[i] = h[i - 1] \o s[i]
      BY <1>3, <1>4, <3>1 DEF Joins
    <3> QED BY <2>2, <3>2, Zenon
  <2> QED BY <2>1, <2>2
<1>7. P(h)
  <2> HIDE DEF F
  <2> QED BY <1>5, <1>6, Zenon
<1>8. P(w)
  <2> HIDE DEF P
  <2> QED BY <1>7, Zenon DEF w
<1> HIDE DEF w
<1>9. DOMAIN w = 0..n /\ \A i \in 0..n : w[i] = F(w, i)
  <2> HIDE DEF F
  <2> QED BY <1>8, Zenon
<1>10. w[0] = <<>>
  <2>1. 0 \in 0..n
    BY <1>1
  <2> QED BY <1>9, <2>1
<1>11. ASSUME NEW i \in 1..n PROVE w[i] = w[i - 1] \o s[i]
  <2>1. i \in 0..n /\ i # 0
    BY <1>1
  <2> QED BY <1>9, <2>1, Zenon
<1>12. Joins(w, s, n)
  BY <1>9, <1>10, <1>11 DEF Joins
<1> QED BY <1>2, <1>12 DEF n

LEMMA AppendFacts ==
  ASSUME NEW E, NEW p \in Seq(E), NEW x \in E
  PROVE  /\ Append(p, x) \in Seq(E) /\ Append(p, x) # <<>>
         /\ Last(Append(p, x)) = x /\ Front(Append(p, x)) = p
<1>1. /\ Append(p, x) \in Seq(E) /\ Len(Append(p, x)) = Len(p) + 1 /\ Len(p) \in Nat
      /\ Append(p, x)[Len(p) + 1] = x /\ \A i \in 1..Len(p) : Append(p, x)[i] = p[i]
  OBVIOUS
<1> DEFINE q == Append(p, x)
<1> HIDE DEF q
<1>2. Last(q) = x
  BY <1>1 DEF Last, q
<1>3. Front(q) = SubSeq(q, 1, Len(p))
  <2>1. Len(q) - 1 = Len(p)
    BY <1>1 DEF q
  <2> QED BY <2>1 DEF Front
<1>4. SubSeq(q, 1, Len(p)) \in Seq(E) /\ Len(SubSeq(q, 1, Len(p))) = Len(p)
      /\ \A i \in 1..Len(p) : SubSeq(q, 1, Len(p))[i] = q[i]
  <2>1. q \in Seq(E) /\ Len(q) = Len(p) + 1
    BY <1>1 DEF q
  <2> QED BY <1>1, <2>1
<1>5. SubSeq(q, 1, Len(p)) = p
  <2> DEFINE r == SubSeq(q, 1, Len(p))
  <2>1. r \in Seq(E) /\ Len(r) = Len(p) /\ \A i \in 1..Len(p) : r[i] = p[i]
    BY <1>1, <1>4 DEF q
  <2> HIDE DEF r
  <2>2. r = p
    BY <2>1, SeqEqual
  <2> QED BY <2>2 DEF r
<1>6. q # <<>>
  BY <1>1 DEF q
<1> QED BY <1>1, <1>2, <1>3, <1>5, <1>6 DEF q

LEMMA LastAppended ==
  ASSUME NEW E, NEW p \in Seq(E), p # <<>>
  PROVE  Last(p) \in E /\ \E q \in Seq(E) : p = Append(q, Last(p))
<1>1. Len(p) \in Nat /\ Len(p) > 0
  OBVIOUS
<1>2. Last(p) \in E
  BY <1>1 DEF Last
<1> DEFINE q == SubSeq(p, 1, Len(p) - 1)
<1>3. q \in Seq(E) /\ Len(q) = Len(p) - 1 /\ \A i \in 1..(Len(p) - 1) : q[i] = p[i]
  <2> DEFINE k == Len(p) - 1
  <2>1. k \in Nat /\ k <= Len(p)
    BY <1>1
  <2> HIDE DEF k
  <2>2. /\ SubSeq(p, 1, k) \in Seq(E) /\ Len(SubSeq(p, 1, k)) = k
        /\ \A i \in 1..k : SubSeq(p, 1, k)[i] = p[i]
    BY <2>1
  <2> QED BY <2>2 DEF k
<1> HIDE DEF q
<1>4. Append(q, Last(p)) = p
  <2> DEFINE r == Append(q, Last(p))
  <2>1. /\ r \in Seq(E) /\ Len(r) = Len(q) + 1 /\ r[Len(q) + 1] = Last(p)
        /\ \A i \in 1..Len(q) : r[i] = q[i]
    BY <1>2, <1>3
  <2> HIDE DEF r
  <2>2. Len(r) = Len(p)
    BY <1>1, <1>3, <2>1
  <2>3. ASSUME NEW i \in 1..Len(p) PROVE r[i] = p[i]
    <3>1. CASE i = Len(p)
      BY <1>1, <1>3, <2>1, <3>1 DEF Last
    <3>2. CASE i # Len(p)
      <4>1. i \in 1..(Len(p) - 1)
        BY <1>1, <3>2
      <4> QED BY <1>3, <2>1, <4>1
    <3> QED BY <3>1, <3>2
  <2>4. r = p
    BY <2>1, <2>2, <2>3, SeqEqual
  <2> QED BY <2>4 DEF r
<1> QED BY <1>2, <1>3, <1>4

LEMMA NoTextPart == NoText \in Part /\ <<NoText>> \in Seq(Part)
BY DEF Part

LEMMA OneEmpty ==
  /\ <<NoText>> = Append(<<>>, NoText) /\ <<NoText, NoText>> = Append(<<NoText>>, NoText)
  /\ <<>> \in Seq(Part) /\ Last(<<NoText>>) = NoText /\ <<NoText>> # <<>>
BY NoTextPart DEF Last

\* What splitPath makes of a path.
LEMMA SplitIs ==
  ASSUME NEW path \in Seq(Part)
  PROVE  /\ path = <<>> => SplitPath(path) = <<>>
         /\ \A p \in Seq(Part) : path = Append(p, NoText) =>
              SplitPath(path) = IF p = <<NoText>> THEN <<>> ELSE p
         /\ path # <<>> /\ Last(path) # NoText => SplitPath(path) = path
<1>1. path = <<>> => SplitPath(path) = <<>>
  <2>1. <<>> # <<NoText>>
    OBVIOUS
  <2> QED BY <2>1, Zenon DEF SplitPath
<1>2. ASSUME NEW p \in Seq(Part), path = Append(p, NoText)
      PROVE  SplitPath(path) = IF p = <<NoText>> THEN <<>> ELSE p
  <2>1. path # <<>> /\ Last(path) = NoText /\ Front(path) = p
    BY <1>2, AppendFacts, NoTextPart
  <2> QED BY <2>1, Zenon DEF SplitPath
<1>3. ASSUME path # <<>>, Last(path) # NoText PROVE SplitPath(path) = path
  <2>1. path # <<NoText>>
    BY <1>3, OneEmpty
  <2> QED BY <1>3, <2>1, Zenon DEF SplitPath
<1> QED BY <1>1, <1>2, <1>3

LEMMA WrittenCases ==
  ASSUME NEW parts \in Seq(Part), NEW path
  PROVE  /\ parts = <<>> => (path \in Written(parts) <=> path \in {<<>>, <<NoText>>, <<NoText, NoText>>})
         /\ parts = <<NoText>> => path \notin Written(parts)
         /\ parts # <<>> /\ parts # <<NoText>> =>
              (path \in Written(parts) <=>
                 path = Append(parts, NoText) \/ (Last(parts) # NoText /\ path = parts))
<1>1. parts = <<>> => Written(parts) = {<<>>, <<NoText>>, <<NoText, NoText>>}
  <2>1. <<>> # <<NoText>>
    OBVIOUS
  <2> QED BY <2>1 DEF Written
<1>2. parts = <<NoText>> => Written(parts) = {}
  <2>1. <<>> # <<NoText>>
    OBVIOUS
  <2> QED BY <2>1 DEF Written
<1>3. parts # <<>> /\ parts # <<NoText>> =>
        Written(parts) = {Append(parts, NoText)} \union (IF Last(parts) # NoText THEN {parts} ELSE {})
  BY DEF Written
<1> QED BY <1>1, <1>2, <1>3

\* A path is written from the parts it splits into.
LEMMA WrittenIs ==
  ASSUME NEW parts \in Seq(Part), NEW path \in Seq(Part)
  PROVE  path \in Written(parts) <=> SplitPath(path) = parts
<1>1. CASE path = <<>>
  <2>1. SplitPath(path) = <<>>
    BY <1>1, SplitIs
  <2>2. Append(parts, NoText) # <<>>
    BY AppendFacts, NoTextPart
  <2> QED BY <1>1, <2>1, <2>2, OneEmpty, WrittenCases, Zenon
<1>2. CASE path # <<>> /\ Last(path) = NoText
  <2>1. PICK p \in Seq(Part) : path = Append(p, NoText)
    BY <1>2, LastAppended
  <2>2. SplitPath(path) = IF p = <<NoText>> THEN <<>> ELSE p
    BY <2>1, SplitIs
  <2>3. \A q \in Seq(Part) : path = Append(q, NoText) <=> q = p
    <3>1. Front(path) = p
      BY <2>1, AppendFacts, NoTextPart
    <3>2. \A q \in Seq(Part) : Front(Append(q, NoText)) = q
      BY AppendFacts, NoTextPart
    <3> QED BY <2>1, <3>1, <3>2
  <2>4. CASE parts = <<>>
    <3>1. path = <<NoText>> <=> p = <<>>
      BY <2>3, OneEmpty
    <3>2. path = <<NoText, NoText>> <=> p = <<NoText>>
      BY <2>3, OneEmpty, NoTextPart
    <3>3. path \in Written(parts) <=> path \in {<<>>, <<NoText>>, <<NoText, NoText>>}
      BY <2>4, WrittenCases
    <3> QED BY <1>2, <2>2, <2>4, <3>1, <3>2, <3>3, Zenon
  <2>5. CASE parts = <<NoText>>
    <3>1. path \notin Written(parts)
      BY <2>5, WrittenCases
    <3> QED BY <2>2, <2>5, <3>1, OneEmpty, Zenon
  <2>6. CASE parts # <<>> /\ parts # <<NoText>>
    <3>1. path \in Written(parts) <=>
            path = Append(parts, NoText) \/ (Last(parts) # NoText /\ path = parts)
      BY <2>6, WrittenCases
    <3>2. path \in Written(parts) <=> parts = p
      BY <1>2, <2>3, <3>1
    <3> QED BY <2>2, <2>6, <3>2, Zenon
  <2> QED BY <2>4, <2>5, <2>6
<1>3. CASE path # <<>> /\ Last(path) # NoText
  <2>1. SplitPath(path) = path
    BY <1>3, SplitIs
  <2>2. \A q \in Seq(Part) : path # Append(q, NoText)
    <3>1. \A q \in Seq(Part) : Last(Append(q, NoText)) = NoText
      BY AppendFacts, NoTextPart
    <3> QED BY <1>3, <3>1
  <2>3. CASE parts = <<>>
    <3>1. path \in Written(parts) <=> path \in {<<>>, <<NoText>>, <<NoText, NoText>>}
      BY <2>3, WrittenCases
    <3>2. path # <<NoText>> /\ path # <<NoText, NoText>>
      BY <2>2, OneEmpty, NoTextPart
    <3> QED BY <1>3, <2>1, <2>3, <3>1, <3>2, Zenon
  <2>4. CASE parts = <<NoText>>
    <3>1. path \notin Written(parts)
      BY <2>4, WrittenCases
    <3>2. path # parts
      BY <1>3, <2>4, OneEmpty
    <3> QED BY <2>1, <3>1, <3>2, Zenon
  <2>5. CASE parts # <<>> /\ parts # <<NoText>>
    <3>1. path \in Written(parts) <=>
            path = Append(parts, NoText) \/ (Last(parts) # NoText /\ path = parts)
      BY <2>5, WrittenCases
    <3> QED BY <1>3, <2>1, <2>2, <3>1
  <2> QED BY <2>3, <2>4, <2>5
<1> QED BY <1>1, <1>2, <1>3

LEMMA PathIs ==
  ASSUME NEW n \in Nat, NEW q
  PROVE  q \in SeqOf(Part, n) <=> q \in Seq(Part) /\ Len(q) <= n
<1>1. ASSUME q \in SeqOf(Part, n) PROVE q \in Seq(Part) /\ Len(q) <= n
  <2>1. PICK m \in 0..n : q \in [1..m -> Part]
    BY <1>1 DEF SeqOf
  <2>2. q \in Seq(Part) /\ Len(q) = m
    BY <2>1
  <2> QED BY <2>1, <2>2
<1>2. ASSUME q \in Seq(Part), Len(q) <= n PROVE q \in SeqOf(Part, n)
  <2>1. Len(q) \in 0..n /\ q \in [1..Len(q) -> Part]
    BY <1>2
  <2> QED BY <2>1 DEF SeqOf
<1> QED BY <1>1, <1>2

LEMMA ConcatOne ==
  ASSUME NEW E, NEW a \in Seq(E), NEW b \in Seq(E)
  PROVE  /\ a \o b \in Seq(E) /\ Len(a \o b) = Len(a) + Len(b)
         /\ \A i \in 1..Len(a) : (a \o b)[i] = a[i]
         /\ \A i \in 1..Len(b) : (a \o b)[Len(a) + i] = b[i]
<1>1. /\ a \o b \in Seq(E) /\ Len(a \o b) = Len(a) + Len(b)
      /\ \A i \in 1..(Len(a) + Len(b)) : (a \o b)[i] = IF i <= Len(a) THEN a[i] ELSE b[i - Len(a)]
  BY ConcatProperties
<1>2. Len(a) \in Nat /\ Len(b) \in Nat
  OBVIOUS
<1> DEFINE c == a \o b
<1> HIDE DEF c
<1>3. ASSUME NEW i \in 1..Len(a) PROVE c[i] = a[i]
  <2>1. i \in 1..(Len(a) + Len(b)) /\ i <= Len(a)
    BY <1>2
  <2> QED BY <1>1, <2>1 DEF c
<1>4. ASSUME NEW i \in 1..Len(b) PROVE c[Len(a) + i] = b[i]
  <2>1. Len(a) + i \in 1..(Len(a) + Len(b)) /\ ~(Len(a) + i <= Len(a)) /\ (Len(a) + i) - Len(a) = i
    BY <1>2
  <2>2. c[Len(a) + i] = b[(Len(a) + i) - Len(a)]
    BY <1>1, <2>1 DEF c
  <2> QED BY <2>1, <2>2
<1> QED BY <1>1, <1>3, <1>4 DEF c

\* Single parts so far.
Singles(g, s, E, i) == g[i] \in Seq(E) /\ Len(g[i]) = i /\ \A k \in 1..i : g[i][k] = s[k][1]

\* The concatenation of one-part sequences, with any sequence at the end.
LEMMA JoinedParts ==
  ASSUME NEW E, NEW s, Len(s) \in Nat, \A i \in 1..Len(s) : s[i] \in Seq(E),
         NEW f \in Nat, f = Len(s) \/ f + 1 = Len(s), \A i \in 1..f : Len(s[i]) = 1
  PROVE  /\ Joined(s) \in Seq(E)
         /\ Len(Joined(s)) = f + (IF f < Len(s) THEN Len(s[Len(s)]) ELSE 0)
         /\ \A i \in 1..f : Joined(s)[i] = s[i][1]
         /\ f < Len(s) => \A i \in 1..Len(s[Len(s)]) : Joined(s)[f + i] = s[Len(s)][i]
<1> DEFINE n == Len(s)
<1>0. n \in Nat /\ (f = n \/ f + 1 = n) /\ \A i \in 1..n : s[i] \in Seq(E)
  OBVIOUS
<1>1. PICK w : Joins(w, s, n) /\ Joined(s) = w[n]
  BY JoinedIs
<1> HIDE DEF n
<1> DEFINE S == {i \in 0..f : Singles(w, s, E, i)}
<1>2. 0 \in S
  <2>1. w[0] = <<>> /\ 0 \in 0..f
    BY <1>1 DEF Joins
  <2>2. <<>> \in Seq(E) /\ Len(<<>>) = 0 /\ 1..0 = {}
    OBVIOUS
  <2> QED BY <2>1, <2>2 DEF Singles
<1>3. ASSUME NEW i \in 1..f, i - 1 \in S PROVE i \in S
  <2> DEFINE a == w[i - 1]
             b == s[i]
  <2>1. a \in Seq(E) /\ Len(a) = i - 1 /\ \A k \in 1..(i - 1) : a[k] = s[k][1]
    BY <1>3 DEF Singles
  <2>2. i \in 1..n /\ i \in 0..f
    BY <1>0
  <2>3. b \in Seq(E) /\ Len(b) = 1 /\ w[i] = a \o b
    BY <1>0, <1>1, <2>2 DEF Joins
  <2> HIDE DEF a, b
  <2>4. /\ a \o b \in Seq(E) /\ Len(a \o b) = Len(a) + Len(b)
        /\ \A k \in 1..Len(a) : (a \o b)[k] = a[k]
        /\ \A k \in 1..Len(b) : (a \o b)[Len(a) + k] = b[k]
    BY <2>1, <2>3, ConcatOne
  <2>5. Len(a \o b) = i /\ (a \o b)[i] = b[1]
    <3>1. 1 \in 1..Len(b) /\ Len(a) + 1 = i
      BY <2>1, <2>3
    <3> QED BY <2>1, <2>3, <2>4, <3>1
  <2>6. ASSUME NEW k \in 1..i PROVE (a \o b)[k] = s[k][1]
    <3>1. CASE k = i
      BY <2>5, <3>1 DEF b
    <3>2. CASE k # i
      <4>1. k \in 1..(i - 1)
        BY <3>2
      <4> QED BY <2>1, <2>4, <4>1
    <3> QED BY <3>1, <3>2
  <2>7. Singles(w, s, E, i)
    BY <2>3, <2>4, <2>5, <2>6 DEF Singles
  <2> QED BY <2>2, <2>7
<1>4. Singles(w, s, E, f)
  <2>1. \A i \in 0..f : i \in S
    <3> HIDE DEF S
    <3> QED BY <1>2, <1>3, UpTo
  <2>2. f \in 0..f
    OBVIOUS
  <2> QED BY <2>1, <2>2
<1>5. CASE f = n
  <2>1. Joined(s) \in Seq(E) /\ Len(Joined(s)) = f /\ \A k \in 1..f : Joined(s)[k] = s[k][1]
    BY <1>1, <1>4, <1>5 DEF Singles
  <2>2. ~(f < n)
    BY <1>5
  <2> QED BY <2>1, <2>2 DEF n
<1>6. CASE f + 1 = n
  <2> DEFINE a == w[f]
             b == s[n]
  <2>1. a \in Seq(E) /\ Len(a) = f /\ \A k \in 1..f : a[k] = s[k][1]
    BY <1>4 DEF Singles
  <2>2. n \in 1..n /\ n - 1 = f /\ f < n
    BY <1>6
  <2>3. b \in Seq(E) /\ w[n] = a \o b
    BY <1>0, <1>1, <2>2 DEF Joins
  <2> HIDE DEF a, b
  <2>4. /\ a \o b \in Seq(E) /\ Len(a \o b) = Len(a) + Len(b)
        /\ \A k \in 1..Len(a) : (a \o b)[k] = a[k]
        /\ \A k \in 1..Len(b) : (a \o b)[Len(a) + k] = b[k]
    <3>1. a \in Seq(E) /\ b \in Seq(E)
      BY <2>1, <2>3
    <3> QED BY <3>1, ConcatOne
  <2>5. Joined(s) = a \o b
    BY <1>1, <2>3
  <2>6. /\ Joined(s) \in Seq(E) /\ Len(Joined(s)) = f + Len(b)
        /\ \A k \in 1..f : Joined(s)[k] = s[k][1]
        /\ \A k \in 1..Len(b) : Joined(s)[f + k] = b[k]
    BY <2>1, <2>4, <2>5
  <2> QED BY <2>2, <2>6 DEF n, b
<1> QED BY <1>0, <1>5, <1>6

\* The values fill in the pattern and give the parts q.
Spells(q, p, kv) ==
  LET rest == kv[p[Len(p)].text] IN
  /\ q \in Seq(Part)
  /\ Len(q) = Fixed(p) + (IF IsWild(p) THEN Len(rest) ELSE 0)
  /\ \A i \in 1..Fixed(p) : q[i] = IF p[i].kind = "lit" THEN p[i].text ELSE kv[p[i].text][1]
  /\ IsWild(p) => \A i \in 1..Len(rest) : q[Fixed(p) + i] = rest[i]

LEMMA FixedSegments ==
  ASSUME NEW p, Shape(p)
  PROVE  /\ Len(p) \in Nat /\ Fixed(p) \in Nat
         /\ Fixed(p) = Len(p) \/ Fixed(p) + 1 = Len(p)
         /\ IsWild(p) <=> Fixed(p) < Len(p)
         /\ 1..Fixed(p) \subseteq 1..Len(p)
         /\ \A i \in 1..Fixed(p) : p[i].kind \in {"lit", "param"}
         /\ IsWild(p) => Len(p) \in 1..Len(p) /\ p[Len(p)].kind = "wild" /\ Fixed(p) = Len(p) - 1
         /\ \A i \in 1..Len(p) : i \in 1..Fixed(p) \/ (IsWild(p) /\ i = Len(p))
<1>1. Len(p) \in Nat
  BY DEF Shape
<1>2. IsWild(p) => Len(p) \in 1..Len(p) /\ p[Len(p)].kind = "wild" /\ Fixed(p) = Len(p) - 1
  BY <1>1 DEF IsWild, Fixed
<1>3. ~IsWild(p) => Fixed(p) = Len(p)
  BY DEF Fixed
<1>4. Fixed(p) \in Nat /\ (Fixed(p) = Len(p) \/ Fixed(p) + 1 = Len(p)) /\ (IsWild(p) <=> Fixed(p) < Len(p))
  <2>1. CASE IsWild(p)
    BY <1>1, <1>2, <2>1
  <2>2. CASE ~IsWild(p)
    BY <1>1, <1>3, <2>2
  <2> QED BY <2>1, <2>2
<1>5. 1..Fixed(p) \subseteq 1..Len(p)
  BY <1>1, <1>4
<1>6. ASSUME NEW i \in 1..Fixed(p) PROVE p[i].kind \in {"lit", "param"}
  <2>1. i \in 1..Len(p) /\ p[i].kind \in {"lit", "param", "wild"}
    BY <1>5 DEF Shape
  <2>2. p[i].kind # "wild"
    <3> SUFFICES ASSUME p[i].kind = "wild" PROVE FALSE
      OBVIOUS
    <3>1. i = Len(p)
      BY <2>1 DEF Shape
    <3>2. IsWild(p)
      BY <2>1, <3>1 DEF IsWild
    <3> QED BY <1>1, <1>2, <3>1, <3>2
  <2> QED BY <2>1, <2>2
<1>7. \A i \in 1..Len(p) : i \in 1..Fixed(p) \/ (IsWild(p) /\ i = Len(p))
  BY <1>1, <1>2, <1>3
<1> QED BY <1>1, <1>2, <1>4, <1>5, <1>6, <1>7

LEMMA ValuesAre ==
  ASSUME NEW p, Shape(p), NEW kv \in Values(p)
  PROVE  /\ DOMAIN kv = Names(p)
         /\ \A i \in 1..Len(p) : p[i].kind # "lit" => p[i].text \in Names(p) /\ kv[p[i].text] \in Seq(Part)
         /\ \A i \in 1..Len(p) : p[i].kind = "param" => Len(kv[p[i].text]) = 1
<1>1. MaxParts \in Nat
  BY RoutingAssumption
<1> DEFINE V == IF \E i \in 1..Len(p) : p[i].kind = "wild" THEN Path ELSE SeqOf(Part, 1)
<1>2. kv \in [Names(p) -> V] /\ \A i \in 1..Len(p) : p[i].kind = "param" => Len(kv[p[i].text]) = 1
  BY DEF Values
<1>3. V \subseteq Seq(Part)
  BY <1>1, PathIs DEF Path
<1>4. \A i \in 1..Len(p) : p[i].kind # "lit" => p[i].text \in Names(p)
  BY DEF Names
<1> HIDE DEF V
<1> QED BY <1>2, <1>3, <1>4

LEMMA SpellsOnce ==
  ASSUME NEW p, Shape(p), NEW kv \in Values(p), NEW q, NEW r, Spells(q, p, kv), Spells(r, p, kv)
  PROVE  q = r
<1> DEFINE rest == kv[p[Len(p)].text]
<1>1. q \in Seq(Part) /\ r \in Seq(Part) /\ Len(q) = Len(r)
  BY DEF Spells
<1>2. ASSUME NEW i \in 1..Len(q) PROVE q[i] = r[i]
  <2>1. CASE i <= Fixed(p)
    <3>1. i \in 1..Fixed(p)
      BY <1>1, <2>1, FixedSegments
    <3> QED BY <3>1 DEF Spells
  <2>2. CASE ~(i <= Fixed(p))
    <3>1. Fixed(p) \in Nat /\ Len(q) \in Nat
      BY <1>1, FixedSegments
    <3>2. IsWild(p) /\ Len(q) = Fixed(p) + Len(rest)
      <4>1. CASE IsWild(p)
        BY <4>1 DEF Spells
      <4>2. CASE ~IsWild(p)
        <5>1. Len(q) = Fixed(p) + 0
          BY <4>2 DEF Spells
        <5> QED BY <2>2, <3>1, <5>1
      <4> QED BY <4>1, <4>2
    <3>3. rest \in Seq(Part)
      <4>1. Len(p) \in 1..Len(p) /\ p[Len(p)].kind # "lit"
        BY <3>2, FixedSegments
      <4> QED BY <4>1, ValuesAre
    <3>4. Len(rest) \in Nat
      BY <3>3
    <3>5. i - Fixed(p) \in 1..Len(rest) /\ Fixed(p) + (i - Fixed(p)) = i
      BY <2>2, <3>1, <3>2, <3>4
    <3>6. q[Fixed(p) + (i - Fixed(p))] = rest[i - Fixed(p)]
      BY <3>2, <3>5 DEF Spells
    <3>7. r[Fixed(p) + (i - Fixed(p))] = rest[i - Fixed(p)]
      BY <3>2, <3>5 DEF Spells
    <3> QED BY <3>5, <3>6, <3>7
  <2> QED BY <2>1, <2>2
<1> QED BY <1>1, <1>2, SeqEqual

\* match without its local names.
Fits(p, parts) ==
  /\ IF IsWild(p) THEN Len(parts) >= Fixed(p) ELSE Len(parts) = Fixed(p)
  /\ \A i \in 1..Fixed(p) : p[i].kind = "lit" => parts[i] = p[i].text

Bound(p, parts) ==
  {<<p[i].text, <<parts[i]>>>> : i \in {i \in 1..Fixed(p) : p[i].kind = "param"}}
    \union (IF IsWild(p) THEN {<<p[Len(p)].text, SubSeq(parts, Len(p), Len(parts))>>} ELSE {})

LEMMA MatchIs ==
  ASSUME NEW p, NEW parts
  PROVE  /\ Match(p, parts).ok = Fits(p, parts)
         /\ Fits(p, parts) => Match(p, parts).params = Bound(p, parts)
<1>1. Match(p, parts) = IF ~Fits(p, parts) THEN NoMatch ELSE [ok |-> TRUE, params |-> Bound(p, parts)]
  BY Zenon DEF Match, Fits, Bound, IsWild, Fixed
<1>2. NoMatch.ok = FALSE
  BY DEF NoMatch
<1>3. Fits(p, parts) \in BOOLEAN
  BY Zenon DEF Fits
<1> HIDE DEF Fits
<1>4. CASE Fits(p, parts)
  <2>1. Match(p, parts) = [ok |-> TRUE, params |-> Bound(p, parts)]
    BY <1>1, <1>4
  <2> QED BY <1>3, <1>4, <2>1
<1>5. CASE ~Fits(p, parts)
  BY <1>1, <1>2, <1>3, <1>5
<1> QED BY <1>4, <1>5

\* The values a match binds spell the path, and a path that is spelled matches.
LEMMA SpellsMatch ==
  ASSUME NEW p, Shape(p), NEW kv \in Values(p), NEW q, Spells(q, p, kv)
  PROVE  Fits(p, q) /\ Bound(p, q) = {<<n, kv[n]>> : n \in DOMAIN kv}
<1> DEFINE rest == kv[p[Len(p)].text]
<1>1. /\ q \in Seq(Part) /\ Len(q) \in Nat
      /\ Len(q) = Fixed(p) + (IF IsWild(p) THEN Len(rest) ELSE 0)
      /\ \A i \in 1..Fixed(p) : q[i] = IF p[i].kind = "lit" THEN p[i].text ELSE kv[p[i].text][1]
      /\ IsWild(p) => \A i \in 1..Len(rest) : q[Fixed(p) + i] = rest[i]
  BY DEF Spells
<1>2. /\ Fixed(p) \in Nat /\ Len(p) \in Nat /\ 1..Fixed(p) \subseteq 1..Len(p)
      /\ IsWild(p) => Len(p) \in 1..Len(p) /\ p[Len(p)].kind = "wild" /\ Fixed(p) = Len(p) - 1
      /\ \A i \in 1..Len(p) : i \in 1..Fixed(p) \/ (IsWild(p) /\ i = Len(p))
      /\ \A i \in 1..Fixed(p) : p[i].kind \in {"lit", "param"}
  BY FixedSegments
<1>3. /\ DOMAIN kv = Names(p)
      /\ \A i \in 1..Len(p) : p[i].kind # "lit" => p[i].text \in Names(p) /\ kv[p[i].text] \in Seq(Part)
      /\ \A i \in 1..Len(p) : p[i].kind = "param" => Len(kv[p[i].text]) = 1
  BY ValuesAre
<1>4. IsWild(p) => rest \in Seq(Part)
  BY <1>2, <1>3
<1>5. Fits(p, q)
  <2>1. CASE IsWild(p)
    <3>1. Len(rest) \in Nat /\ Len(q) = Fixed(p) + Len(rest)
      BY <1>1, <1>4, <2>1
    <3>2. Len(q) >= Fixed(p)
      BY <1>2, <3>1
    <3> QED BY <1>1, <2>1, <3>2 DEF Fits
  <2>2. CASE ~IsWild(p)
    <3>1. Len(q) = Fixed(p) + 0
      BY <1>1, <2>2
    <3>2. Len(q) = Fixed(p)
      BY <1>2, <3>1
    <3> QED BY <1>1, <2>2, <3>2 DEF Fits
  <2> QED BY <2>1, <2>2
<1>6. ASSUME NEW i \in 1..Fixed(p), p[i].kind = "param" PROVE <<q[i]>> = kv[p[i].text]
  <2> DEFINE v == kv[p[i].text]
  <2>1. v \in Seq(Part) /\ Len(v) = 1 /\ q[i] = v[1]
    BY <1>1, <1>2, <1>3, <1>6
  <2> HIDE DEF v
  <2>2. <<v[1]>> = v
    BY <2>1
  <2> QED BY <2>1, <2>2 DEF v
<1>7. ASSUME IsWild(p) PROVE SubSeq(q, Len(p), Len(q)) = rest
  <2> DEFINE s == SubSeq(q, Len(p), Len(q))
             f == Fixed(p)
  <2>1. f \in Nat /\ Len(p) = f + 1 /\ Len(q) = f + Len(rest) /\ rest \in Seq(Part)
    BY <1>1, <1>2, <1>4, <1>7
  <2>2. \A i \in 1..Len(rest) : q[f + i] = rest[i]
    BY <1>1, <1>7
  <2>3. s = SubSeq(q, f + 1, Len(q))
    BY <2>1
  <2> HIDE DEF s, f, rest
  <2>4. Len(rest) \in Nat
    BY <2>1
  <2>5. /\ SubSeq(q, f + 1, Len(q)) \in Seq(Part) /\ Len(SubSeq(q, f + 1, Len(q))) = Len(q) - f
        /\ \A i \in 1..(Len(q) - f) : SubSeq(q, f + 1, Len(q))[i] = q[f + i]
    <3>1. f + 1 \in 1..(Len(q) + 1) /\ f <= Len(q)
      BY <1>1, <2>1, <2>4
    <3> QED BY <1>1, <2>1, <3>1
  <2>6. Len(q) - f = Len(rest)
    BY <2>1, <2>4
  <2>7. s \in Seq(Part) /\ Len(s) = Len(rest) /\ \A i \in 1..Len(rest) : s[i] = rest[i]
    BY <2>2, <2>3, <2>5, <2>6
  <2>8. s = rest
    BY <2>1, <2>7, SeqEqual
  <2> QED BY <2>8 DEF s, rest
<1>8. ASSUME NEW x \in Bound(p, q) PROVE \E n \in DOMAIN kv : x = <<n, kv[n]>>
  <2>1. CASE \E i \in 1..Fixed(p) : p[i].kind = "param" /\ x = <<p[i].text, <<q[i]>>>>
    <3>1. PICK i \in 1..Fixed(p) : p[i].kind = "param" /\ x = <<p[i].text, <<q[i]>>>>
      BY <2>1
    <3>2. <<q[i]>> = kv[p[i].text] /\ p[i].text \in DOMAIN kv
      BY <1>2, <1>3, <1>6, <3>1
    <3> QED BY <3>1, <3>2
  <2>2. CASE IsWild(p) /\ x = <<p[Len(p)].text, SubSeq(q, Len(p), Len(q))>>
    <3>1. x = <<p[Len(p)].text, rest>> /\ p[Len(p)].text \in DOMAIN kv
      BY <1>2, <1>3, <1>7, <2>2
    <3> QED BY <3>1
  <2>3. \/ \E i \in 1..Fixed(p) : p[i].kind = "param" /\ x = <<p[i].text, <<q[i]>>>>
        \/ IsWild(p) /\ x = <<p[Len(p)].text, SubSeq(q, Len(p), Len(q))>>
    BY DEF Bound
  <2> QED BY <2>1, <2>2, <2>3
<1>9. ASSUME NEW n \in DOMAIN kv PROVE <<n, kv[n]>> \in Bound(p, q)
  <2>1. PICK i \in 1..Len(p) : p[i].kind # "lit" /\ n = p[i].text
    BY <1>3 DEF Names
  <2>2. CASE i \in 1..Fixed(p)
    <3>1. p[i].kind = "param"
      BY <1>2, <2>1, <2>2
    <3>2. <<n, kv[n]>> = <<p[i].text, <<q[i]>>>>
      BY <1>6, <2>1, <2>2, <3>1
    <3> QED BY <2>2, <3>1, <3>2 DEF Bound
  <2>3. CASE IsWild(p) /\ i = Len(p)
    <3>1. <<n, kv[n]>> = <<p[Len(p)].text, SubSeq(q, Len(p), Len(q))>>
      BY <1>7, <2>1, <2>3
    <3> QED BY <2>3, <3>1 DEF Bound
  <2> QED BY <1>2, <2>2, <2>3
<1>10. Bound(p, q) = {<<n, kv[n]>> : n \in DOMAIN kv}
  BY <1>8, <1>9
<1> QED BY <1>5, <1>10

LEMMA MatchSpells ==
  ASSUME NEW p, Shape(p), NEW q \in Seq(Part), Len(q) <= MaxParts, Fits(p, q)
  PROVE  \E kv \in Values(p) : Spells(q, p, kv)
<1> DEFINE w == p[Len(p)].text
           At(n) == CHOOSE i \in 1..Fixed(p) : p[i].kind = "param" /\ p[i].text = n
           kv == [n \in Names(p) |-> IF IsWild(p) /\ n = w THEN SubSeq(q, Len(p), Len(q)) ELSE <<q[At(n)]>>]
<1>1. /\ Fixed(p) \in Nat /\ Len(p) \in Nat /\ 1..Fixed(p) \subseteq 1..Len(p)
      /\ IsWild(p) => Len(p) \in 1..Len(p) /\ p[Len(p)].kind = "wild" /\ Fixed(p) = Len(p) - 1
      /\ \A i \in 1..Len(p) : i \in 1..Fixed(p) \/ (IsWild(p) /\ i = Len(p))
      /\ \A i \in 1..Fixed(p) : p[i].kind \in {"lit", "param"}
  BY FixedSegments
<1>2. \A i, j \in 1..Len(p) : p[i].kind # "lit" /\ p[j].kind # "lit" /\ p[i].text = p[j].text => i = j
  BY DEF Shape
<1>3. Len(q) \in Nat /\ Len(q) >= Fixed(p) /\ MaxParts \in Nat
      /\ \A i \in 1..Fixed(p) : i \in 1..Len(q) /\ (p[i].kind = "lit" => q[i] = p[i].text)
  <2>1. Len(q) \in Nat /\ MaxParts \in Nat
    BY RoutingAssumption
  <2>2. Len(q) >= Fixed(p) /\ \A i \in 1..Fixed(p) : p[i].kind = "lit" => q[i] = p[i].text
    BY <1>1, <2>1 DEF Fits
  <2>3. \A i \in 1..Fixed(p) : i \in 1..Len(q)
    BY <1>1, <2>1, <2>2
  <2> QED BY <2>1, <2>2, <2>3
<1>4. ASSUME NEW i \in 1..Fixed(p), p[i].kind = "param"
      PROVE  p[i].text \in Names(p) /\ kv[p[i].text] = <<q[i]>> /\ q[i] \in Part
  <2>1. i \in 1..Len(p) /\ p[i].text \in Names(p) /\ q[i] \in Part
    BY <1>1, <1>3, <1>4 DEF Names
  <2>2. At(p[i].text) = i
    <3> DEFINE j == At(p[i].text)
    <3>1. j \in 1..Fixed(p) /\ p[j].kind = "param" /\ p[j].text = p[i].text
      BY <1>4, Zenon
    <3> HIDE DEF j
    <3>2. j = i
      BY <1>1, <1>2, <1>4, <3>1
    <3> QED BY <3>2 DEF j
  <2>3. ~(IsWild(p) /\ p[i].text = w)
    <3> SUFFICES ASSUME IsWild(p), p[i].text = w PROVE FALSE
      OBVIOUS
    <3>1. i = Len(p)
      BY <1>1, <1>2, <1>4
    <3> QED BY <1>1, <3>1
  <2> HIDE DEF At, w
  <2> QED BY <2>1, <2>2, <2>3
<1>5. ASSUME IsWild(p)
      PROVE  /\ w \in Names(p) /\ kv[w] = SubSeq(q, Len(p), Len(q)) /\ kv[w] \in Seq(Part)
             /\ Len(kv[w]) = Len(q) - Fixed(p) /\ \A i \in 1..Len(kv[w]) : q[Fixed(p) + i] = kv[w][i]
  <2>1. w \in Names(p)
    BY <1>1, <1>5 DEF Names
  <2>2. kv[w] = SubSeq(q, Len(p), Len(q))
    <3> HIDE DEF At, w
    <3> QED BY <1>5, <2>1
  <2> DEFINE f == Fixed(p)
  <2>3. f \in Nat /\ Len(p) = f + 1 /\ f <= Len(q) /\ f + 1 \in 1..(Len(q) + 1)
    BY <1>1, <1>3, <1>5
  <2>4. kv[w] = SubSeq(q, f + 1, Len(q))
    <3> HIDE DEF kv, w, f
    <3> QED BY <2>2, <2>3
  <2> HIDE DEF f, kv, w
  <2>5. /\ SubSeq(q, f + 1, Len(q)) \in Seq(Part) /\ Len(SubSeq(q, f + 1, Len(q))) = Len(q) - f
        /\ \A i \in 1..(Len(q) - f) : SubSeq(q, f + 1, Len(q))[i] = q[f + i]
    BY <1>3, <2>3
  <2> QED BY <2>1, <2>2, <2>4, <2>5 DEF f
<1>6. Spells(q, p, kv)
  <2>1. Len(q) = Fixed(p) + (IF IsWild(p) THEN Len(kv[w]) ELSE 0)
    <3>1. CASE IsWild(p)
      <4> HIDE DEF kv
      <4> QED BY <1>1, <1>3, <1>5, <3>1
    <3>2. CASE ~IsWild(p)
      <4>1. Len(q) = Fixed(p)
        BY <3>2 DEF Fits
      <4> QED BY <1>1, <3>2, <4>1
    <3> QED BY <3>1, <3>2
  <2>2. ASSUME NEW i \in 1..Fixed(p)
        PROVE  q[i] = IF p[i].kind = "lit" THEN p[i].text ELSE kv[p[i].text][1]
    <3> HIDE DEF kv
    <3>1. CASE p[i].kind = "lit"
      BY <1>3, <3>1
    <3>2. CASE p[i].kind = "param"
      <4>1. kv[p[i].text] = <<q[i]>>
        BY <1>4, <3>2
      <4> QED BY <3>2, <4>1
    <3> QED BY <1>1, <3>1, <3>2
  <2> HIDE DEF kv
  <2> QED BY <1>5, <2>1, <2>2 DEF Spells
<1>7. kv \in Values(p)
  <2> DEFINE V == IF \E i \in 1..Len(p) : p[i].kind = "wild" THEN Path ELSE SeqOf(Part, 1)
  <2>1. ASSUME NEW n \in Names(p) PROVE kv[n] \in V
    <3>1. PICK i \in 1..Len(p) : p[i].kind # "lit" /\ n = p[i].text
      BY DEF Names
    <3>2. \A v \in Part : <<v>> \in Seq(Part) /\ Len(<<v>>) = 1
      OBVIOUS
    <3>3. CASE i \in 1..Fixed(p)
      <4>1. p[i].kind = "param"
        BY <1>1, <3>1, <3>3
      <4>2. kv[n] = <<q[i]>> /\ q[i] \in Part
        BY <1>4, <3>1, <3>3, <4>1
      <4> HIDE DEF kv
      <4>3. kv[n] \in Seq(Part) /\ Len(kv[n]) = 1
        BY <3>2, <4>2
      <4>4. kv[n] \in SeqOf(Part, 1)
        <5>1. Len(kv[n]) <= 1 /\ 1 \in Nat
          BY <4>3
        <5> QED BY <4>3, <5>1, PathIs
      <4>5. CASE Fixed(p) < Len(p)
        <5>1. 1 <= MaxParts
          <6>1. i \in 1..Len(q)
            BY <1>3, <3>3
          <6> QED BY <1>3, <6>1
        <5>2. kv[n] \in Path
          BY <1>3, <4>3, <5>1, PathIs DEF Path
        <5> QED BY <4>4, <5>2
      <4>6. CASE ~(Fixed(p) < Len(p))
        <5>1. \A j \in 1..Len(p) : p[j].kind # "wild"
          <6>1. ~IsWild(p)
            BY <4>6, FixedSegments
          <6>2. \A j \in 1..Len(p) : j \in 1..Fixed(p)
            BY <1>1, <6>1
          <6> QED BY <1>1, <6>2
        <5> QED BY <4>4, <5>1
      <4> QED BY <4>5, <4>6
    <3>4. CASE IsWild(p) /\ i = Len(p)
      <4> HIDE DEF kv
      <4>1. n = w /\ p[Len(p)].kind = "wild" /\ Len(p) \in 1..Len(p)
        BY <1>1, <3>1, <3>4
      <4>2. kv[n] \in Seq(Part) /\ Len(kv[n]) = Len(q) - Fixed(p)
        BY <1>5, <3>4, <4>1
      <4>3. Len(kv[n]) <= MaxParts
        BY <1>1, <1>3, <4>2
      <4>4. kv[n] \in Path
        BY <1>3, <4>2, <4>3, PathIs DEF Path
      <4> QED BY <4>1, <4>4
    <3> QED BY <1>1, <3>3, <3>4
  <2>2. kv \in [Names(p) -> V]
    <3> HIDE DEF V
    <3>1. kv = [n \in Names(p) |-> kv[n]]
      OBVIOUS
    <3> HIDE DEF kv
    <3> QED BY <2>1, <3>1
  <2>3. ASSUME NEW i \in 1..Len(p), p[i].kind = "param" PROVE Len(kv[p[i].text]) = 1
    <3>1. i \in 1..Fixed(p)
      BY <1>1, <2>3
    <3>2. kv[p[i].text] = <<q[i]>>
      BY <1>4, <2>3, <3>1
    <3> HIDE DEF kv
    <3> QED BY <3>2
  <2> HIDE DEF kv
  <2> QED BY <2>2, <2>3 DEF Values
<1> HIDE DEF kv
<1> QED BY <1>6, <1>7

\* One sequence for each segment, that of a wildcard free.
Segments(s, p, kv) ==
  /\ Len(s) = Len(p) /\ \A i \in 1..Len(p) : s[i] \in Seq(Part)
  /\ \A i \in 1..Fixed(p) : s[i] = IF p[i].kind = "lit" THEN <<p[i].text>> ELSE kv[p[i].text]

\* Joined, the segments spell.
LEMMA SegmentsSpell ==
  ASSUME NEW p, Shape(p), NEW kv \in Values(p), NEW s, Segments(s, p, kv)
  PROVE  /\ Joined(s) \in Seq(Part)
         /\ Len(Joined(s)) = Fixed(p) + (IF IsWild(p) THEN Len(s[Len(p)]) ELSE 0)
         /\ \A i \in 1..Fixed(p) : Joined(s)[i] = IF p[i].kind = "lit" THEN p[i].text ELSE kv[p[i].text][1]
         /\ IsWild(p) => \A i \in 1..Len(s[Len(p)]) : Joined(s)[Fixed(p) + i] = s[Len(p)][i]
<1>0. /\ Len(s) = Len(p) /\ \A i \in 1..Len(p) : s[i] \in Seq(Part)
      /\ \A i \in 1..Fixed(p) : s[i] = IF p[i].kind = "lit" THEN <<p[i].text>> ELSE kv[p[i].text]
  BY Zenon DEF Segments
<1>1. /\ Fixed(p) \in Nat /\ Len(s) \in Nat /\ 1..Fixed(p) \subseteq 1..Len(p)
      /\ Fixed(p) = Len(s) \/ Fixed(p) + 1 = Len(s)
      /\ IsWild(p) <=> Fixed(p) < Len(s)
  BY <1>0, FixedSegments
<1>2. \A i \in 1..Fixed(p) : p[i].kind \in {"lit", "param"}
  BY FixedSegments
<1>3. ASSUME NEW i \in 1..Fixed(p)
      PROVE  Len(s[i]) = 1 /\ s[i][1] = IF p[i].kind = "lit" THEN p[i].text ELSE kv[p[i].text][1]
  <2>1. CASE p[i].kind = "lit"
    <3>1. s[i] = <<p[i].text>>
      BY <1>0, <2>1
    <3> QED BY <2>1, <3>1
  <2>2. CASE p[i].kind = "param"
    <3>1. s[i] = kv[p[i].text] /\ Len(kv[p[i].text]) = 1
      BY <1>0, <1>1, <2>2, ValuesAre
    <3> QED BY <2>2, <3>1
  <2> QED BY <1>2, <2>1, <2>2
<1>4. \A i \in 1..Len(s) : s[i] \in Seq(Part)
  BY <1>0
<1>5. \A i \in 1..Fixed(p) : Len(s[i]) = 1
  BY <1>3
<1>6. /\ Joined(s) \in Seq(Part)
      /\ Len(Joined(s)) = Fixed(p) + (IF Fixed(p) < Len(s) THEN Len(s[Len(s)]) ELSE 0)
      /\ \A i \in 1..Fixed(p) : Joined(s)[i] = s[i][1]
      /\ Fixed(p) < Len(s) => \A i \in 1..Len(s[Len(s)]) : Joined(s)[Fixed(p) + i] = s[Len(s)][i]
  BY <1>1, <1>4, <1>5, JoinedParts
<1>7. \A i \in 1..Fixed(p) : Joined(s)[i] = IF p[i].kind = "lit" THEN p[i].text ELSE kv[p[i].text][1]
  BY <1>3, <1>6
<1>8. Len(Joined(s)) = Fixed(p) + (IF IsWild(p) THEN Len(s[Len(p)]) ELSE 0)
  BY <1>0, <1>1, <1>6
<1>9. IsWild(p) => \A i \in 1..Len(s[Len(p)]) : Joined(s)[Fixed(p) + i] = s[Len(p)][i]
  BY <1>0, <1>1, <1>6
<1> QED BY <1>6, <1>7, <1>8, <1>9

LEMMA ExpansionSpells ==
  ASSUME NEW p, Shape(p), NEW kv \in Values(p)
  PROVE  Spells(Expansion(p, kv), p, kv)
<1> DEFINE s == [i \in 1..Len(p) |-> IF p[i].kind = "lit" THEN <<p[i].text>> ELSE kv[p[i].text]]
<1>1. Len(p) \in Nat
  BY DEF Shape
<1>2. Len(s) = Len(p)
  BY <1>1
<1>3. \A i \in 1..Len(p) : s[i] = IF p[i].kind = "lit" THEN <<p[i].text>> ELSE kv[p[i].text]
  BY Zenon
<1>4. Expansion(p, kv) = Joined(s)
  BY DEF Expansion
<1> HIDE DEF s
<1>5. ASSUME NEW i \in 1..Len(p) PROVE s[i] \in Seq(Part)
  <2>1. CASE p[i].kind = "lit"
    <3>1. p[i].text \in Part
      BY <2>1 DEF Shape
    <3>2. <<p[i].text>> \in Seq(Part)
      BY <3>1
    <3>3. s[i] = <<p[i].text>>
      BY <1>3, <2>1
    <3> QED BY <3>2, <3>3
  <2>2. CASE p[i].kind # "lit"
    BY <1>3, <2>2, ValuesAre
  <2> QED BY <2>1, <2>2
<1>6. 1..Fixed(p) \subseteq 1..Len(p)
  BY FixedSegments
<1>7. \A i \in 1..Fixed(p) : s[i] = IF p[i].kind = "lit" THEN <<p[i].text>> ELSE kv[p[i].text]
  BY <1>3, <1>6
<1>8. /\ Joined(s) \in Seq(Part)
      /\ Len(Joined(s)) = Fixed(p) + (IF IsWild(p) THEN Len(s[Len(p)]) ELSE 0)
      /\ \A i \in 1..Fixed(p) : Joined(s)[i] = IF p[i].kind = "lit" THEN p[i].text ELSE kv[p[i].text][1]
      /\ IsWild(p) => \A i \in 1..Len(s[Len(p)]) : Joined(s)[Fixed(p) + i] = s[Len(p)][i]
  <2>1. Segments(s, p, kv)
    BY <1>2, <1>5, <1>7, Zenon DEF Segments
  <2> QED BY <2>1, SegmentsSpell
<1>9. IsWild(p) => s[Len(p)] = kv[p[Len(p)].text]
  <2>1. IsWild(p) => Len(p) \in 1..Len(p) /\ p[Len(p)].kind # "lit"
    BY FixedSegments
  <2> QED BY <1>3, <2>1
<1> QED BY <1>4, <1>8, <1>9 DEF Spells

\* The router matches exactly the paths a pattern stands for.
LEMMA StandsIs ==
  ASSUME NEW p \in Pattern, NEW path \in Path
  PROVE  Stands(p, path) <=> Match(p, SplitPath(path)).ok
<1>1. Shape(p) /\ MaxParts \in Nat
  BY PatternShape, RoutingAssumption
<1>2. path \in Seq(Part) /\ Len(path) <= MaxParts
  BY <1>1, PathIs DEF Path
<1> DEFINE q == SplitPath(path)
<1>3. q \in Seq(Part) /\ Len(q) <= MaxParts
  <2>1. CASE path = <<>>
    BY <1>1, <1>2, <2>1, SplitIs
  <2>2. CASE path # <<>> /\ Last(path) = NoText
    <3>1. PICK r \in Seq(Part) : path = Append(r, NoText)
      BY <1>2, <2>2, LastAppended
    <3>2. q = IF r = <<NoText>> THEN <<>> ELSE r
      BY <1>2, <3>1, SplitIs
    <3>3. Len(path) = Len(r) + 1 /\ Len(r) \in Nat
      BY <3>1, NoTextPart
    <3>4. Len(r) <= MaxParts /\ Len(<<>>) <= MaxParts /\ <<>> \in Seq(Part)
      BY <1>1, <1>2, <3>3
    <3> HIDE DEF q
    <3> QED BY <3>2, <3>4
  <2>3. CASE path # <<>> /\ Last(path) # NoText
    BY <1>2, <2>3, SplitIs
  <2> QED BY <2>1, <2>2, <2>3
<1>4. \A r \in Seq(Part) : path \in Written(r) <=> q = r
  BY <1>2, WrittenIs
<1>5. Match(p, q).ok = Fits(p, q)
  BY MatchIs
<1> HIDE DEF q
<1>6. ASSUME Stands(p, path) PROVE Fits(p, q)
  <2>1. PICK kv \in Values(p) : path \in Written(Expansion(p, kv))
    BY <1>6 DEF Stands
  <2>2. Spells(Expansion(p, kv), p, kv)
    BY <1>1, ExpansionSpells
  <2>3. q = Expansion(p, kv)
    <3>1. Expansion(p, kv) \in Seq(Part)
      BY <2>2 DEF Spells
    <3> QED BY <1>4, <2>1, <3>1
  <2> QED BY <1>1, <2>2, <2>3, SpellsMatch
<1>7. ASSUME Fits(p, q) PROVE Stands(p, path)
  <2>1. PICK kv \in Values(p) : Spells(q, p, kv)
    BY <1>1, <1>3, <1>7, MatchSpells
  <2>2. Spells(Expansion(p, kv), p, kv)
    BY <1>1, ExpansionSpells
  <2>3. q = Expansion(p, kv)
    BY <1>1, <2>1, <2>2, SpellsOnce
  <2>4. path \in Written(Expansion(p, kv))
    BY <1>3, <1>4, <2>3
  <2> QED BY <2>4 DEF Stands
<1>8. Stands(p, path) \in BOOLEAN /\ Fits(p, q) \in BOOLEAN
  BY Zenon DEF Stands, Fits
<1> QED BY <1>5, <1>6, <1>7, <1>8 DEF q

\* A URL of plain parts arrives as it is.
LEMMA ReceivedPlain ==
  ASSUME NEW u \in Seq(Part)
  PROVE  Received(u) = u
<1> DEFINE ends == {i \in DOMAIN u : u[i] = "a?b"}
           s == [i \in 1..Len(u) |-> IF u[i] = "%2F" THEN <<NoText, NoText>> ELSE <<u[i]>>]
<1>1. DOMAIN u = 1..Len(u) /\ Len(u) \in Nat /\ \A i \in 1..Len(u) : u[i] \in Part
  OBVIOUS
<1>2. \A x \in Part : x # "a?b" /\ x # "%2F"
  BY RoutingAssumption DEF Odd
<1>3. ends = {}
  BY <1>1, <1>2
<1>4. Received(u) = Joined(s)
  <2> HIDE DEF ends
  <2> QED BY <1>3, Zenon DEF Received, ends
<1>5. \A i \in 1..Len(u) : s[i] = <<u[i]>>
  BY <1>1, <1>2
<1>6. Len(s) = Len(u)
  BY <1>1
<1> HIDE DEF s
<1>7. ASSUME NEW i \in 1..Len(s) PROVE s[i] \in Seq(Part) /\ Len(s[i]) = 1 /\ s[i][1] = u[i]
  <2> DEFINE x == u[i]
  <2>1. x \in Part /\ s[i] = <<x>>
    BY <1>1, <1>5, <1>6
  <2> HIDE DEF x
  <2>2. <<x>> \in Seq(Part) /\ Len(<<x>>) = 1 /\ <<x>>[1] = x
    BY <2>1
  <2> QED BY <2>1, <2>2 DEF x
<1>8. /\ Joined(s) \in Seq(Part)
      /\ Len(Joined(s)) = Len(s) + (IF Len(s) < Len(s) THEN Len(s[Len(s)]) ELSE 0)
      /\ \A i \in 1..Len(s) : Joined(s)[i] = s[i][1]
  BY <1>1, <1>6, <1>7, JoinedParts
<1> DEFINE j == Joined(s)
           n == Len(s)
<1> HIDE DEF j, n
<1>9. j \in Seq(Part) /\ Len(j) = Len(u) /\ \A i \in 1..Len(u) : j[i] = u[i]
  <2>1. n \in Nat /\ n = Len(u)
    BY <1>1, <1>6 DEF n
  <2>2. Len(j) = n + (IF n < n THEN Len(s[n]) ELSE 0)
    BY <1>8 DEF j, n
  <2>3. Len(j) = n
    BY <2>1, <2>2
  <2>4. \A i \in 1..n : j[i] = u[i]
    BY <1>7, <1>8, Zenon DEF j, n
  <2>5. j \in Seq(Part)
    BY <1>8 DEF j
  <2> QED BY <2>1, <2>3, <2>4, <2>5
<1>10. j = u
  BY <1>9, SeqEqual
<1> QED BY <1>4, <1>10 DEF j

\* The URL made from values without an empty part splits into what they spell: an
\* empty wildcard leaves a slash at the end, which splitPath drops.
LEMMA URLSpells ==
  ASSUME NEW p, Shape(p), NEW kv \in Values(p), \A n \in DOMAIN kv : ~Contains(kv[n], NoText)
  PROVE  Spells(SplitPath(Received(URL(p, kv))), p, kv)
<1> DEFINE s == [i \in 1..Len(p) |->
                   IF p[i].kind = "lit" THEN <<p[i].text>>
                   ELSE IF p[i].text \in DOMAIN kv /\ kv[p[i].text] # <<>> THEN kv[p[i].text] ELSE <<NoText>>]
           u == Joined(s)
           w == p[Len(p)].text
<1>1. /\ DOMAIN kv = Names(p)
      /\ \A i \in 1..Len(p) : p[i].kind # "lit" => p[i].text \in Names(p) /\ kv[p[i].text] \in Seq(Part)
      /\ \A i \in 1..Len(p) : p[i].kind = "param" => Len(kv[p[i].text]) = 1
  BY ValuesAre
<1>2. URL(p, kv) = u
  <2>1. ~\E i \in 1..Len(p) : p[i].kind = "param" /\ p[i].text \notin DOMAIN kv
    <3>1. "param" # "lit"
      OBVIOUS
    <3> QED BY <1>1, <3>1, Zenon
  <2> QED BY <2>1, Zenon DEF URL
<1>3. Len(p) \in Nat /\ \A i \in 1..Len(p) : p[i].kind \in {"lit", "param", "wild"}
  BY DEF Shape
<1>4. Len(s) = Len(p)
  BY <1>3
<1>5. \A i \in 1..Len(p) : p[i].kind = "lit" => s[i] = <<p[i].text>>
  BY Zenon
<1>6. \A i \in 1..Len(p) : p[i].kind = "param" => s[i] = kv[p[i].text]
  <2> SUFFICES ASSUME NEW i \in 1..Len(p), p[i].kind = "param" PROVE s[i] = kv[p[i].text]
    OBVIOUS
  <2>1. p[i].kind # "lit"
    OBVIOUS
  <2>2. p[i].text \in DOMAIN kv /\ kv[p[i].text] \in Seq(Part) /\ Len(kv[p[i].text]) = 1
    BY <1>1, <2>1
  <2>3. kv[p[i].text] # <<>>
    <3> DEFINE v == kv[p[i].text]
    <3>1. Len(v) = 1
      BY <2>2
    <3> HIDE DEF v
    <3>2. v # <<>>
      BY <3>1
    <3> QED BY <3>2 DEF v
  <2> QED BY <2>1, <2>2, <2>3, Zenon
<1>7. \A i \in 1..Len(p) : p[i].kind = "wild" =>
        s[i] = IF kv[p[i].text] # <<>> THEN kv[p[i].text] ELSE <<NoText>>
  <2>1. "wild" # "lit"
    OBVIOUS
  <2>2. \A i \in 1..Len(p) : p[i].kind = "wild" => p[i].text \in DOMAIN kv
    BY <1>1, <2>1
  <2> QED BY <2>1, <2>2, Zenon
<1> HIDE DEF s
<1>8. ASSUME NEW i \in 1..Len(p) PROVE s[i] \in Seq(Part)
  <2>1. CASE p[i].kind = "lit"
    <3>1. p[i].text \in Part
      BY <2>1 DEF Shape
    <3>2. <<p[i].text>> \in Seq(Part)
      BY <3>1
    <3>3. s[i] = <<p[i].text>>
      BY <1>5, <2>1
    <3> QED BY <3>2, <3>3
  <2>2. CASE p[i].kind = "param"
    BY <1>1, <1>6, <2>2
  <2>3. CASE p[i].kind = "wild"
    <3>1. kv[p[i].text] \in Seq(Part)
      BY <1>1, <2>3
    <3>2. s[i] = kv[p[i].text] \/ s[i] = <<NoText>>
      BY <1>7, <2>3, Zenon
    <3> QED BY <3>1, <3>2, NoTextPart
  <2> QED BY <1>3, <2>1, <2>2, <2>3
<1>9. /\ Fixed(p) \in Nat /\ 1..Fixed(p) \subseteq 1..Len(p)
      /\ \A i \in 1..Fixed(p) : p[i].kind \in {"lit", "param"}
      /\ IsWild(p) => Len(p) \in 1..Len(p) /\ p[Len(p)].kind = "wild"
  BY FixedSegments
<1>10. \A i \in 1..Fixed(p) : s[i] = IF p[i].kind = "lit" THEN <<p[i].text>> ELSE kv[p[i].text]
  BY <1>5, <1>6, <1>9
<1>11. /\ u \in Seq(Part)
       /\ Len(u) = Fixed(p) + (IF IsWild(p) THEN Len(s[Len(p)]) ELSE 0)
       /\ \A i \in 1..Fixed(p) : u[i] = IF p[i].kind = "lit" THEN p[i].text ELSE kv[p[i].text][1]
       /\ IsWild(p) => \A i \in 1..Len(s[Len(p)]) : u[Fixed(p) + i] = s[Len(p)][i]
  <2>1. Segments(s, p, kv)
    BY <1>4, <1>8, <1>10, Zenon DEF Segments
  <2> QED BY <2>1, SegmentsSpell
<1>15. Received(URL(p, kv)) = u
  <2> HIDE DEF u
  <2> QED BY <1>2, <1>11, ReceivedPlain
<1> HIDE DEF u
<1>12. ASSUME NEW i \in 1..Fixed(p) PROVE u[i] # NoText
  <2>1. CASE p[i].kind = "lit"
    <3>1. p[i].text # NoText
      BY <1>9, <2>1 DEF Shape
    <3> QED BY <1>11, <2>1, <3>1
  <2>2. CASE p[i].kind = "param"
    <3>1. p[i].text \in DOMAIN kv /\ Len(kv[p[i].text]) = 1
      BY <1>1, <1>9, <2>2
    <3>2. ~Contains(kv[p[i].text], NoText)
      BY <3>1
    <3>3. kv[p[i].text][1] # NoText
      BY <3>1, <3>2 DEF Contains
    <3> QED BY <1>11, <2>2, <3>3
  <2> QED BY <1>9, <2>1, <2>2
<1>13. CASE IsWild(p) => kv[w] # <<>>
  <2>1. IsWild(p) => s[Len(p)] = kv[w]
    BY <1>7, <1>9, <1>13
  <2>2. Spells(u, p, kv)
    BY <1>11, <2>1 DEF Spells
  <2>3. ASSUME u # <<>> PROVE Last(u) # NoText
    <3>1. Len(u) \in Nat /\ Len(u) > 0
      BY <1>11, <2>3
    <3>2. CASE Len(u) \in 1..Fixed(p)
      BY <1>12, <3>2 DEF Last
    <3>3. CASE ~(Len(u) \in 1..Fixed(p))
      <4>1. Len(u) > Fixed(p)
        BY <1>9, <3>1, <3>3
      <4>2. IsWild(p) /\ Len(u) = Fixed(p) + Len(kv[w])
        <5>1. CASE IsWild(p)
          BY <1>11, <2>1, <5>1
        <5>2. CASE ~IsWild(p)
          <6>1. Len(u) = Fixed(p) + 0
            BY <1>11, <5>2
          <6> QED BY <1>9, <4>1, <6>1
        <5> QED BY <5>1, <5>2
      <4>3. w \in DOMAIN kv /\ kv[w] \in Seq(Part)
        BY <1>1, <1>9, <4>2
      <4>4. Len(kv[w]) \in Nat
        BY <4>3
      <4>5. Len(kv[w]) \in 1..Len(kv[w])
        BY <1>9, <4>1, <4>2, <4>4
      <4>6. u[Fixed(p) + Len(kv[w])] = kv[w][Len(kv[w])]
        BY <1>11, <2>1, <4>2, <4>5
      <4>7. kv[w][Len(kv[w])] # NoText
        BY <4>3, <4>5 DEF Contains
      <4> QED BY <4>2, <4>6, <4>7 DEF Last
    <3> QED BY <3>2, <3>3
  <2>4. SplitPath(u) = u
    BY <1>11, <2>3, SplitIs
  <2> QED BY <1>15, <2>2, <2>4
<1>14. CASE IsWild(p) /\ kv[w] = <<>>
  <2>1. s[Len(p)] = <<NoText>>
    BY <1>7, <1>9, <1>14
  <2>2. Len(<<NoText>>) = 1 /\ <<NoText>>[1] = NoText
    OBVIOUS
  <2>3. Len(u) = Fixed(p) + 1 /\ u[Fixed(p) + 1] = NoText
    BY <1>11, <1>14, <2>1, <2>2
  <2>4. u # <<>> /\ Last(u) = NoText
    BY <1>9, <1>11, <2>3 DEF Last
  <2>5. PICK r \in Seq(Part) : u = Append(r, NoText)
    BY <1>11, <2>4, LastAppended
  <2>6. Len(r) = Fixed(p) /\ \A i \in 1..Fixed(p) : r[i] = u[i]
    <3>1. Len(u) = Len(r) + 1 /\ Len(r) \in Nat /\ \A i \in 1..Len(r) : r[i] = u[i]
      BY <2>5, NoTextPart
    <3>2. Len(r) = Fixed(p)
      BY <1>9, <2>3, <3>1
    <3> QED BY <3>1, <3>2
  <2>7. r # <<NoText>>
    <3> SUFFICES ASSUME r = <<NoText>> PROVE FALSE
      OBVIOUS
    <3>1. Fixed(p) = 1 /\ r[1] = NoText
      BY <2>2, <2>6
    <3>2. 1 \in 1..Fixed(p)
      BY <3>1
    <3> QED BY <1>12, <2>6, <3>1, <3>2
  <2>8. SplitPath(u) = r
    BY <1>11, <2>5, <2>7, SplitIs
  <2>9. Len(r) = Fixed(p) + Len(kv[w]) /\ \A i \in 1..Len(kv[w]) : FALSE
    <3>1. Len(kv[w]) = 0
      BY <1>14
    <3> QED BY <1>9, <2>6, <3>1
  <2>10. \A i \in 1..Fixed(p) : r[i] = IF p[i].kind = "lit" THEN p[i].text ELSE kv[p[i].text][1]
    BY <1>11, <2>6
  <2>11. Spells(r, p, kv)
    BY <1>14, <2>5, <2>9, <2>10 DEF Spells
  <2> QED BY <1>15, <2>8, <2>11
<1> QED BY <1>13, <1>14

\* The middlewares there are, and the slices of them.
MwType == [layer : {"global", "given", "group", "other", "sub", "route"}, of : Nat]
Slot == MwType \union {Unused}
Slice == [lent : 0..2, own : Seq(Slot)]
Globals == {<<>>, <<Mw("global", 0)>>}
RouteType == [method : Method, pattern : Pattern, mw : Slice, owes : SUBSET MwType]
GroupType == [made : BOOLEAN, mw : Slice, owes : SUBSET MwType]
RequestType ==
  [pc : {"matched", "done"}, method : Method, path : Path, route : Nat, allowed : SUBSET Method,
   chain : Globals, raced : BOOLEAN, mw : Seq(Slot), owes : SUBSET MwType]

Hit(rs, i, method, parts) == rs[i].method = method /\ Match(rs[i].pattern, parts).ok

\* matchRoute returns the first hit, 0 if there is none.
LEMMA MatchRouteIs ==
  ASSUME routes \in Seq(RouteType), NEW method, NEW parts
  PROVE  LET m == MatchRoute(method, parts) IN
         /\ m \in 0..Len(routes)
         /\ m = 0 => \A i \in 1..Len(routes) : ~Hit(routes, i, method, parts)
         /\ m > 0 => /\ Hit(routes, m, method, parts)
                     /\ \A i \in 1..Len(routes) : i < m => ~Hit(routes, i, method, parts)
<1> DEFINE H == {i \in DOMAIN routes : routes[i].method = method /\ Match(routes[i].pattern, parts).ok}
           c == CHOOSE i \in H : \A j \in H : i <= j
           m == MatchRoute(method, parts)
<1>1. m = IF H = {} THEN 0 ELSE c
  BY Zenon DEF MatchRoute
<1>2. DOMAIN routes = 1..Len(routes) /\ Len(routes) \in Nat
  OBVIOUS
<1>3. \A i : i \in H <=> i \in 1..Len(routes) /\ Hit(routes, i, method, parts)
  BY <1>2 DEF Hit
<1> HIDE DEF H
<1>4. CASE H = {}
  <2>1. m = 0
    BY <1>1, <1>4
  <2>2. 0 \in 0..Len(routes) /\ ~(0 > 0)
    BY <1>2
  <2> HIDE DEF m
  <2> QED BY <1>3, <1>4, <2>1, <2>2 DEF m
<1>5. CASE H # {}
  <2>1. H \subseteq Nat
    BY <1>2, <1>3
  <2>2. \E i \in H : \A j \in H : i <= j
    BY <1>5, <2>1, FirstIndex
  <2>3. c \in H /\ \A j \in H : c <= j
    BY <2>2, Zenon
  <2>4. m = c
    BY <1>1, <1>5
  <2> HIDE DEF m, c
  <2>5. m \in 1..Len(routes) /\ Hit(routes, m, method, parts) /\ \A j \in H : m <= j
    BY <1>3, <2>3, <2>4
  <2>6. \A i \in 1..Len(routes) : i < m => ~Hit(routes, i, method, parts)
    <3> SUFFICES ASSUME NEW i \in 1..Len(routes), i < m, Hit(routes, i, method, parts) PROVE FALSE
      OBVIOUS
    <3>1. m <= i
      BY <1>3, <2>5
    <3> QED BY <1>2, <2>5, <3>1
  <2>7. m \in 0..Len(routes) /\ m # 0
    BY <1>2, <2>5
  <2> QED BY <2>5, <2>6, <2>7 DEF m
<1> QED BY <1>4, <1>5

LEMMA MatchRouteFinds ==
  ASSUME routes \in Seq(RouteType), NEW method, NEW parts
  PROVE  /\ MatchRoute(method, parts) \in Nat
         /\ MatchRoute(method, parts) > 0 <=> \E i \in 1..Len(routes) : Hit(routes, i, method, parts)
<1> DEFINE m == MatchRoute(method, parts)
<1>1. /\ m \in 0..Len(routes)
      /\ m = 0 => \A i \in 1..Len(routes) : ~Hit(routes, i, method, parts)
      /\ m > 0 => Hit(routes, m, method, parts)
  BY MatchRouteIs
<1> HIDE DEF m
<1>2. Len(routes) \in Nat
  OBVIOUS
<1>3. m \in Nat /\ (m > 0 => m \in 1..Len(routes)) /\ (~(m > 0) => m = 0)
  BY <1>1, <1>2
<1>4. m > 0 <=> \E i \in 1..Len(routes) : Hit(routes, i, method, parts)
  BY <1>1, <1>3
<1> QED BY <1>3, <1>4 DEF m

LEMMA MethodIs == "GET" \in Method /\ "HEAD" \in Method /\ "GET" # "HEAD"
BY DEF Method

LEMMA AllowedIs ==
  ASSUME routes \in Seq(RouteType), NEW parts, NEW method \in Method
  PROVE  method \in AllowedMethods(parts) <=>
           MatchRoute(method, parts) > 0 \/ (method = "HEAD" /\ MatchRoute("GET", parts) > 0)
<1> DEFINE ms == {m \in Method : MatchRoute(m, parts) > 0}
<1>1. AllowedMethods(parts) = IF "GET" \in ms THEN ms \union {"HEAD"} ELSE ms
  BY DEF AllowedMethods
<1>2. \A m \in Method : m \in ms <=> MatchRoute(m, parts) > 0
  OBVIOUS
<1> HIDE DEF ms
<1> QED BY <1>1, <1>2, MethodIs

LEMMA AllowedType == \A parts : AllowedMethods(parts) \in SUBSET Method
BY MethodIs DEF AllowedMethods

LEMMA ServesIs ==
  ASSUME routes \in Seq(RouteType), NEW path \in Path, NEW method \in Method
  PROVE  Serves(method, path) <=> method \in AllowedMethods(SplitPath(path))
<1> DEFINE parts == SplitPath(path)
<1>1. \A i \in 1..Len(routes) : routes[i].pattern \in Pattern
  <2>1. \A i \in 1..Len(routes) : routes[i] \in RouteType
    OBVIOUS
  <2>2. \A r \in RouteType : r.pattern \in Pattern
    BY DEF RouteType
  <2> QED BY <2>1, <2>2
<1>2. \A i \in 1..Len(routes) : Stands(routes[i].pattern, path) <=> Match(routes[i].pattern, parts).ok
  BY <1>1, StandsIs
<1>3. DOMAIN routes = 1..Len(routes)
  OBVIOUS
<1> HIDE DEF parts
<1>4. Serves(method, path) <=>
        \E i \in 1..Len(routes) : Hit(routes, i, method, parts) \/ (method = "HEAD" /\ Hit(routes, i, "GET", parts))
  <2>1. ASSUME Serves(method, path)
        PROVE  \E i \in 1..Len(routes) : Hit(routes, i, method, parts) \/ (method = "HEAD" /\ Hit(routes, i, "GET", parts))
    <3>1. PICK i \in 1..Len(routes) :
            /\ routes[i].method \in IF method = "HEAD" THEN {"HEAD", "GET"} ELSE {method}
            /\ Stands(routes[i].pattern, path)
      BY <1>3, <2>1 DEF Serves
    <3>2. Match(routes[i].pattern, parts).ok
      BY <1>2, <3>1
    <3>3. routes[i].method = method \/ (method = "HEAD" /\ routes[i].method = "GET")
      BY <3>1
    <3> QED BY <3>2, <3>3 DEF Hit
  <2>2. ASSUME NEW i \in 1..Len(routes), Hit(routes, i, method, parts) \/ (method = "HEAD" /\ Hit(routes, i, "GET", parts))
        PROVE  Serves(method, path)
    <3>1. Stands(routes[i].pattern, path)
      BY <1>2, <2>2 DEF Hit
    <3>2. routes[i].method \in IF method = "HEAD" THEN {"HEAD", "GET"} ELSE {method}
      BY <2>2 DEF Hit
    <3> QED BY <1>3, <3>1, <3>2 DEF Serves
  <2> QED BY <2>1, <2>2
<1>5. MatchRoute(method, parts) > 0 <=> \E i \in 1..Len(routes) : Hit(routes, i, method, parts)
  BY MatchRouteFinds
<1>6. MatchRoute("GET", parts) > 0 <=> \E i \in 1..Len(routes) : Hit(routes, i, "GET", parts)
  BY MatchRouteFinds
<1>7. method \in AllowedMethods(parts) <=>
        MatchRoute(method, parts) > 0 \/ (method = "HEAD" /\ MatchRoute("GET", parts) > 0)
  BY AllowedIs
<1>8. Serves(method, path) <=> method \in AllowedMethods(parts)
  BY <1>4, <1>5, <1>6, <1>7, Zenon
<1> QED BY <1>8 DEF parts

\* What a lookup found among the routes rs.
LookedUp(r, rs) ==
  LET parts == SplitPath(r.path) IN
  /\ r.route \in 0..Len(rs)
  /\ r.route > 0 =>
       /\ Match(rs[r.route].pattern, parts).ok
       /\ \A i \in 1..Len(rs) : i < r.route => ~Hit(rs, i, rs[r.route].method, parts)
  /\ r.route = 0 <=> r.method \notin r.allowed

\* Routes are appended, their methods and patterns stay, and they owe no less.
Extends(rs, new) ==
  /\ Len(rs) <= Len(new)
  /\ \A i \in 1..Len(rs) :
       new[i].method = rs[i].method /\ new[i].pattern = rs[i].pattern /\ rs[i].owes \subseteq new[i].owes

LEMMA LookedUpStays ==
  ASSUME NEW r, NEW rs \in Seq(RouteType), NEW new \in Seq(RouteType), Extends(rs, new), LookedUp(r, rs)
  PROVE  LookedUp(r, new)
<1> DEFINE parts == SplitPath(r.path)
<1>1. Len(rs) \in Nat /\ Len(new) \in Nat /\ Len(rs) <= Len(new)
  BY DEF Extends
<1>2. r.route \in 0..Len(rs) /\ (r.route = 0 <=> r.method \notin r.allowed)
  BY DEF LookedUp
<1>3. r.route \in 0..Len(new)
  BY <1>1, <1>2
<1>4. ASSUME r.route > 0
      PROVE  /\ Match(new[r.route].pattern, parts).ok
             /\ \A i \in 1..Len(new) : i < r.route => ~Hit(new, i, new[r.route].method, parts)
  <2>1. r.route \in 1..Len(rs)
    BY <1>1, <1>2, <1>4
  <2>2. new[r.route].method = rs[r.route].method /\ new[r.route].pattern = rs[r.route].pattern
    BY <2>1 DEF Extends
  <2>3. /\ Match(rs[r.route].pattern, parts).ok
        /\ \A i \in 1..Len(rs) : i < r.route => ~Hit(rs, i, rs[r.route].method, parts)
    BY <1>4 DEF LookedUp
  <2>4. ASSUME NEW i \in 1..Len(new), i < r.route PROVE ~Hit(new, i, new[r.route].method, parts)
    <3>1. i \in 1..Len(rs)
      BY <1>1, <2>1, <2>4
    <3>2. new[i].method = rs[i].method /\ new[i].pattern = rs[i].pattern
      BY <3>1 DEF Extends
    <3>3. ~Hit(rs, i, rs[r.route].method, parts)
      BY <2>3, <2>4, <3>1
    <3> QED BY <2>2, <3>2, <3>3 DEF Hit
  <2> QED BY <2>2, <2>3, <2>4
<1> QED BY <1>2, <1>3, <1>4 DEF LookedUp

LEMMA LookupFinds ==
  ASSUME routes \in Seq(RouteType), NEW method \in Method, NEW path \in Path, NEW r,
         r.path = path, r.method = method, r.route = RouteFound(method, SplitPath(path)),
         r.allowed = AllowedMethods(SplitPath(path))
  PROVE  LookedUp(r, routes) /\ r.route \in Nat
<1> DEFINE parts == SplitPath(path)
           own == MatchRoute(method, parts)
           get == MatchRoute("GET", parts)
<1>1. /\ own \in 0..Len(routes)
      /\ own > 0 => /\ Hit(routes, own, method, parts)
                    /\ \A i \in 1..Len(routes) : i < own => ~Hit(routes, i, method, parts)
  BY MatchRouteIs
<1>2. /\ get \in 0..Len(routes)
      /\ get > 0 => /\ Hit(routes, get, "GET", parts)
                    /\ \A i \in 1..Len(routes) : i < get => ~Hit(routes, i, "GET", parts)
  BY MatchRouteIs
<1>3. method \in AllowedMethods(parts) <=> own > 0 \/ (method = "HEAD" /\ get > 0)
  BY AllowedIs
<1>4. r.route = IF own = 0 /\ method = "HEAD" THEN get ELSE own
  BY DEF RouteFound
<1>5. Len(routes) \in Nat /\ r.allowed = AllowedMethods(parts)
  OBVIOUS
<1>6. SplitPath(r.path) = parts
  OBVIOUS
<1> HIDE DEF parts, own, get
<1>7. own \in Nat /\ get \in Nat
  BY <1>1, <1>2, <1>5
<1>8. CASE own = 0 /\ method = "HEAD"
  <2>1. r.route = get
    BY <1>4, <1>8
  <2>2. get > 0 => routes[get].method = "GET" /\ Match(routes[get].pattern, parts).ok
    BY <1>2 DEF Hit
  <2>3. r.route = 0 <=> r.method \notin r.allowed
    BY <1>3, <1>5, <1>7, <1>8, <2>1
  <2> QED BY <1>2, <1>6, <1>7, <2>1, <2>2, <2>3 DEF LookedUp
<1>9. CASE ~(own = 0 /\ method = "HEAD")
  <2>1. r.route = own
    BY <1>4, <1>9
  <2>2. own > 0 => routes[own].method = method /\ Match(routes[own].pattern, parts).ok
    BY <1>1 DEF Hit
  <2>3. r.route = 0 <=> r.method \notin r.allowed
    <3>1. own > 0 <=> own # 0
      BY <1>7
    <3>2. method \in AllowedMethods(parts) <=> own # 0
      BY <1>3, <1>9, <3>1
    <3> QED BY <1>5, <2>1, <3>2
  <2> QED BY <1>1, <1>6, <1>7, <2>1, <2>2, <2>3 DEF LookedUp
<1> QED BY <1>8, <1>9

LEMMA MwIs ==
  ASSUME NEW n \in Nat
  PROVE  /\ Mw("global", 0) \in MwType /\ Mw("given", 0) \in MwType /\ Mw("route", n) \in MwType
         /\ \A g \in Grouping : Mw(g, 0) \in MwType
BY DEF Mw, MwType, Grouping

LEMMA RankIs ==
  ASSUME NEW n \in Nat
  PROVE  /\ Rank(Mw("global", 0)) = 1 /\ Rank(Given) = 2 /\ Rank(Mw("route", n)) = 5
         /\ \A g \in Grouping : Rank(Mw(g, 0)) \in 3..4
         /\ Rank(Mw("sub", 0)) = 4 /\ Rank(Mw("group", 0)) = 3
         /\ \A x \in MwType : Rank(x) \in 1..5
<1>1. \A l, k : Mw(l, k).layer = l
  BY DEF Mw
<1>2. \A x : /\ x.layer = "global" => Rank(x) = 1
             /\ x.layer = "given" => Rank(x) = 2
             /\ x.layer \in {"group", "other"} => Rank(x) = 3
             /\ x.layer = "sub" => Rank(x) = 4
             /\ x.layer = "route" => Rank(x) = 5
  BY DEF Rank
<1>3. \A x \in MwType : x.layer \in {"global", "given", "group", "other", "sub", "route"}
  BY DEF MwType
<1>4. \A x \in MwType : Rank(x) \in 1..5
  BY <1>2, <1>3
<1>5. Rank(Given) = 2
  BY <1>1, <1>2 DEF Given
<1>6. Rank(Mw("global", 0)) = 1 /\ Rank(Mw("route", n)) = 5 /\ Rank(Mw("sub", 0)) = 4 /\ Rank(Mw("group", 0)) = 3
      /\ Rank(Mw("other", 0)) = 3
  BY <1>1, <1>2
<1>7. \A g \in Grouping : g = "group" \/ g = "other" \/ g = "sub"
  BY DEF Grouping
<1> HIDE DEF Mw
<1>8. \A g \in Grouping : Rank(Mw(g, 0)) \in 3..4
  BY <1>6, <1>7
<1> QED BY <1>4, <1>5, <1>6, <1>8

\* Middlewares in their order, none outside the group below a rank.
Layers(s, hi) ==
  /\ s \in Seq(MwType)
  /\ \A i \in 1..Len(s) : 2 <= Rank(s[i]) /\ Rank(s[i]) <= hi
  /\ \A i, j \in 1..Len(s) : i < j => Rank(s[i]) < Rank(s[j])

LEMMA LayersEmpty == \A hi : Layers(<<>>, hi)
<1>1. <<>> \in Seq(MwType) /\ Len(<<>>) = 0 /\ 1..0 = {}
  OBVIOUS
<1> QED BY <1>1 DEF Layers

LEMMA LayersGiven ==
  ASSUME NEW hi \in 2..5
  PROVE  Layers(<<Given>>, hi) /\ {Given} \subseteq ToSet(<<Given>>)
<1> DEFINE s == <<Given>>
<1>1. Given \in MwType /\ Rank(Given) = 2
  BY MwIs, RankIs DEF Given
<1>2. s \in Seq(MwType) /\ Len(s) = 1 /\ s[1] = Given /\ DOMAIN s = 1..1
  BY <1>1
<1> HIDE DEF s
<1>3. \A i \in 1..1 : i = 1
  OBVIOUS
<1>4. Layers(s, hi)
  BY <1>1, <1>2, <1>3 DEF Layers
<1>5. {Given} \subseteq ToSet(s)
  BY <1>2 DEF ToSet
<1> QED BY <1>4, <1>5 DEF s

LEMMA LayersMono ==
  ASSUME NEW s, NEW lo \in 1..5, NEW hi \in 1..5, lo <= hi, Layers(s, lo)
  PROVE  Layers(s, hi)
<1>1. s \in Seq(MwType) /\ \A i, j \in 1..Len(s) : i < j => Rank(s[i]) < Rank(s[j])
  BY DEF Layers
<1>2. ASSUME NEW i \in 1..Len(s) PROVE 2 <= Rank(s[i]) /\ Rank(s[i]) <= hi
  <2>1. s[i] \in MwType /\ 2 <= Rank(s[i]) /\ Rank(s[i]) <= lo
    BY <1>1 DEF Layers
  <2>2. Rank(s[i]) \in 1..5
    BY <2>1, RankIs
  <2> QED BY <2>1, <2>2
<1> QED BY <1>1, <1>2 DEF Layers

LEMMA LayersAppend ==
  ASSUME NEW s, NEW x \in MwType, Rank(x) \in 3..5, Layers(s, Rank(x) - 1)
  PROVE  /\ Layers(Append(s, x), Rank(x))
         /\ \A S : S \subseteq ToSet(s) => S \union {x} \subseteq ToSet(Append(s, x))
<1> DEFINE t == Append(s, x)
<1>1. s \in Seq(MwType) /\ Len(s) \in Nat
  BY DEF Layers
<1>2. t \in Seq(MwType) /\ Len(t) = Len(s) + 1 /\ t[Len(s) + 1] = x /\ \A i \in 1..Len(s) : t[i] = s[i]
  BY <1>1
<1> HIDE DEF t
<1>3. \A i \in 1..Len(t) : i \in 1..Len(s) \/ i = Len(s) + 1
  BY <1>1, <1>2
<1>4. \A i \in 1..Len(s) : s[i] \in MwType
  BY <1>1
<1>5. ASSUME NEW i \in 1..Len(s) PROVE 2 <= Rank(s[i]) /\ Rank(s[i]) < Rank(x) /\ Rank(s[i]) \in 1..5
  <2>1. 2 <= Rank(s[i]) /\ Rank(s[i]) <= Rank(x) - 1
    BY DEF Layers
  <2>2. Rank(s[i]) \in 1..5
    BY <1>4, RankIs
  <2> QED BY <2>1, <2>2
<1>7. ASSUME NEW i \in 1..Len(t) PROVE 2 <= Rank(t[i]) /\ Rank(t[i]) <= Rank(x)
  <2>1. CASE i \in 1..Len(s)
    BY <1>2, <1>5, <2>1
  <2>2. CASE i = Len(s) + 1
    BY <1>2, <2>2
  <2> QED BY <1>3, <2>1, <2>2
<1>8. ASSUME NEW i \in 1..Len(t), NEW j \in 1..Len(t), i < j PROVE Rank(t[i]) < Rank(t[j])
  <2>1. i \in 1..Len(s)
    BY <1>1, <1>2, <1>8
  <2>2. CASE j \in 1..Len(s)
    BY <1>2, <1>8, <2>1, <2>2 DEF Layers
  <2>3. CASE j = Len(s) + 1
    BY <1>2, <1>5, <2>1, <2>3
  <2> QED BY <1>3, <2>2, <2>3
<1>9. Layers(t, Rank(x))
  BY <1>2, <1>7, <1>8 DEF Layers
<1>10. ToSet(s) \subseteq ToSet(t) /\ x \in ToSet(t)
  <2>1. DOMAIN s = 1..Len(s) /\ DOMAIN t = 1..Len(t)
    BY <1>1, <1>2
  <2>2. Len(s) + 1 \in 1..Len(t) /\ 1..Len(s) \subseteq 1..Len(t)
    BY <1>1, <1>2
  <2>3. ASSUME NEW y \in ToSet(s) PROVE y \in ToSet(t)
    <3>1. PICK i \in 1..Len(s) : y = s[i]
      BY <2>1 DEF ToSet
    <3>2. i \in DOMAIN t /\ y = t[i]
      BY <1>2, <2>1, <2>2, <3>1
    <3> QED BY <3>2 DEF ToSet
  <2>4. x \in ToSet(t)
    BY <1>2, <2>1, <2>2 DEF ToSet
  <2> QED BY <2>3, <2>4
<1> QED BY <1>9, <1>10 DEF t

LEMMA LayersConcat ==
  ASSUME NEW a \in Globals, NEW b, Layers(b, 5)
  PROVE  /\ \A S : S \subseteq ToSet(b) => S \union ToSet(a) \subseteq ToSet(a \o b)
         /\ \A i, j \in DOMAIN (a \o b) : i < j => Rank((a \o b)[i]) < Rank((a \o b)[j])
<1> DEFINE c == a \o b
           G == Mw("global", 0)
<1>0. (a = <<>> \/ a = <<G>>) /\ Rank(G) = 1
  BY RankIs DEF Globals
<1> HIDE DEF G
<1>1. a \in Seq(MwType) /\ \A i \in 1..Len(a) : i = 1 /\ Len(a) = 1 /\ a[i] = G
  <2>1. CASE a = <<>>
    BY <2>1
  <2>2. CASE a = <<G>>
    <3>1. G \in MwType
      BY MwIs DEF G
    <3>2. a \in Seq(MwType) /\ Len(a) = 1 /\ a[1] = G
      BY <2>2, <3>1
    <3>3. \A i \in 1..1 : i = 1
      OBVIOUS
    <3> QED BY <3>2, <3>3
  <2> QED BY <1>0, <2>1, <2>2
<1>2. a \in Seq(MwType) /\ b \in Seq(MwType)
  BY <1>1 DEF Layers
<1>3. Len(a) \in Nat /\ Len(b) \in Nat /\ DOMAIN a = 1..Len(a) /\ DOMAIN b = 1..Len(b)
  BY <1>2
<1>4. /\ c \in Seq(MwType) /\ Len(c) = Len(a) + Len(b)
      /\ \A i \in 1..(Len(a) + Len(b)) : c[i] = IF i <= Len(a) THEN a[i] ELSE b[i - Len(a)]
  BY <1>2, ConcatProperties
<1>5. DOMAIN c = 1..(Len(a) + Len(b))
  BY <1>3, <1>4
<1>6. \A i \in 1..Len(a) : i = 1 /\ Len(a) = 1 /\ a[i] = G
  BY <1>1
<1> HIDE DEF c
<1>7. \A i \in 1..Len(a) : i \in DOMAIN c /\ c[i] = a[i]
  BY <1>3, <1>4, <1>5
<1>8. ASSUME NEW i \in 1..Len(b) PROVE Len(a) + i \in DOMAIN c /\ c[Len(a) + i] = b[i]
  <2>1. Len(a) + i \in 1..(Len(a) + Len(b)) /\ ~(Len(a) + i <= Len(a)) /\ (Len(a) + i) - Len(a) = i
    BY <1>3
  <2> QED BY <1>4, <1>5, <2>1
<1>9. ToSet(a) \subseteq ToSet(c) /\ ToSet(b) \subseteq ToSet(c)
  <2>1. ASSUME NEW y \in ToSet(a) PROVE y \in ToSet(c)
    <3>1. PICK i \in 1..Len(a) : y = a[i]
      BY <1>3 DEF ToSet
    <3> QED BY <1>7, <3>1 DEF ToSet
  <2>2. ASSUME NEW y \in ToSet(b) PROVE y \in ToSet(c)
    <3>1. PICK i \in 1..Len(b) : y = b[i]
      BY <1>3 DEF ToSet
    <3> QED BY <1>8, <3>1 DEF ToSet
  <2> QED BY <2>1, <2>2
<1>10. ASSUME NEW i \in DOMAIN c, NEW j \in DOMAIN c, i < j PROVE Rank(c[i]) < Rank(c[j])
  <2>1. i \in 1..(Len(a) + Len(b)) /\ j \in 1..(Len(a) + Len(b))
    BY <1>5
  <2>2. CASE i <= Len(a)
    <3>1. i \in 1..Len(a) /\ ~(j <= Len(a))
      <4>1. i \in 1..Len(a)
        BY <1>3, <2>1, <2>2
      <4>2. i = 1 /\ Len(a) = 1
        BY <1>6, <4>1
      <4> QED BY <1>10, <2>1, <4>1, <4>2
    <3>2. c[i] = G /\ j - Len(a) \in 1..Len(b) /\ c[j] = b[j - Len(a)]
      BY <1>3, <1>4, <1>6, <1>7, <2>1, <3>1
    <3>3. 2 <= Rank(c[j]) /\ c[j] \in MwType
      BY <1>2, <3>2 DEF Layers
    <3>4. Rank(c[j]) \in 1..5 /\ Rank(c[i]) = 1
      BY <1>0, <3>2, <3>3, RankIs
    <3> QED BY <3>3, <3>4
  <2>3. CASE ~(i <= Len(a))
    <3>1. ~(j <= Len(a))
      BY <1>3, <1>10, <2>1, <2>3
    <3>2. /\ i - Len(a) \in 1..Len(b) /\ j - Len(a) \in 1..Len(b) /\ i - Len(a) < j - Len(a)
      BY <1>3, <1>10, <2>1, <2>3, <3>1
    <3>3. c[i] = b[i - Len(a)] /\ c[j] = b[j - Len(a)]
      BY <1>4, <2>1, <2>3, <3>1
    <3> QED BY <3>2, <3>3 DEF Layers
  <2> QED BY <2>2, <2>3
<1> QED BY <1>9, <1>10 DEF c

\* What a slice holds while sp is in the spare cell of the caller's array.
Cells(sl, sp) == IF sl.lent = 0 THEN sl.own ELSE IF sl.lent = 1 THEN <<Given>> ELSE <<Given, sp>>

\* The outermost layer a slice may hold, given what it owes.
Hi(layer, n, owes) == IF Mw(layer, n) \in owes THEN Rank(Mw(layer, n)) ELSE Rank(Mw(layer, n)) - 1

\* A slice holds what it owes, in order; nobody has the spare cell while it is unused.
Holds(sl, owes, hi, sp) ==
  /\ owes \subseteq ToSet(Cells(sl, sp)) /\ Layers(Cells(sl, sp), hi)
  /\ sp = Unused => sl.lent # 2

\* The spare cell is written for the first time, if at all.
Moves(sp, new) == new = sp \/ (sp = Unused /\ new # Unused)

LEMMA UnusedIs == Unused \notin MwType
BY DEF Unused, Mw, MwType

LEMMA SliceIs ==
  ASSUME NEW sl \in Slice
  PROVE  sl.lent \in 0..2 /\ sl.own \in Seq(Slot)
BY DEF Slice

LEMMA ContentIs ==
  ASSUME NEW sl \in Slice
  PROVE  Content(sl) = Cells(sl, spare)
<1>1. sl.lent = 0 \/ sl.lent = 1 \/ sl.lent = 2
  BY SliceIs
<1>2. CASE sl.lent = 0
  BY <1>2 DEF Content, Cells
<1>3. CASE sl.lent = 1
  <2>1. sl.lent # 0 /\ sl.lent # 2
    BY <1>3
  <2> QED BY <1>3, <2>1 DEF Content, Cells
<1>4. CASE sl.lent = 2
  <2>1. sl.lent # 0 /\ sl.lent # 1
    BY <1>4
  <2> QED BY <1>4, <2>1 DEF Content, Cells
<1> QED BY <1>1, <1>2, <1>3, <1>4

LEMMA GivenIs == Given \in MwType /\ Given \in Slot
BY MwIs DEF Given, Slot

LEMMA CellsType ==
  ASSUME NEW sl \in Slice, NEW sp \in Slot
  PROVE  Cells(sl, sp) \in Seq(Slot)
<1>1. sl.own \in Seq(Slot) /\ <<Given>> \in Seq(Slot) /\ <<Given, sp>> \in Seq(Slot)
  BY SliceIs, GivenIs
<1> QED BY <1>1 DEF Cells

LEMMA OwnIs ==
  ASSUME NEW s \in Seq(Slot)
  PROVE  Own(s) \in Slice /\ Own(s).lent = 0 /\ \A sp : Cells(Own(s), sp) = s
<1>1. Own(s) \in Slice /\ Own(s).lent = 0 /\ Own(s).own = s
  BY DEF Own, Slice
<1> QED BY <1>1 DEF Cells

LEMMA LentIs == Lent \in Slice /\ Lent.lent = 1 /\ \A sp : Cells(Lent, sp) = <<Given>>
<1>1. Lent \in Slice /\ Lent.lent = 1
  BY DEF Lent, Slice
<1> QED BY <1>1 DEF Cells

LEMMA HiIs ==
  ASSUME NEW owes, NEW n \in Nat
  PROVE  /\ Hi("route", n, owes) \in 4..5
         /\ \A g \in Grouping : Hi(g, 0, owes) \in 2..4
         /\ Hi("group", 0, owes) \in 2..3 /\ Hi("sub", 0, owes) \in 3..4
<1>1. /\ Rank(Mw("route", n)) = 5
      /\ \A g \in Grouping : Rank(Mw(g, 0)) \in 3..4
      /\ Rank(Mw("sub", 0)) = 4 /\ Rank(Mw("group", 0)) = 3
  BY RankIs
<1> QED BY <1>1 DEF Hi

LEMMA HoldsStays ==
  ASSUME NEW sl \in Slice, NEW owes, NEW hi, NEW sp, NEW new, Holds(sl, owes, hi, sp), Moves(sp, new)
  PROVE  Holds(sl, owes, hi, new)
<1>1. CASE new = sp
  BY <1>1
<1>2. CASE sp = Unused /\ new # Unused
  <2>1. sl.lent # 2 /\ sl.lent \in 0..2
    BY <1>2, SliceIs DEF Holds
  <2>2. Cells(sl, new) = Cells(sl, sp)
    <3>1. sl.lent = 0 \/ sl.lent = 1
      BY <2>1
    <3> QED BY <3>1 DEF Cells
  <2> QED BY <1>2, <2>2 DEF Holds
<1> QED BY <1>1, <1>2 DEF Moves

LEMMA HoldsMono ==
  ASSUME NEW sl, NEW owes, NEW lo \in 1..5, NEW hi \in 1..5, lo <= hi, NEW sp, Holds(sl, owes, lo, sp)
  PROVE  Holds(sl, owes, hi, sp)
<1>1. Layers(Cells(sl, sp), hi)
  BY LayersMono DEF Holds
<1> QED BY <1>1 DEF Holds

LEMMA HoldsCopy ==
  ASSUME NEW sl \in Slice, NEW owes, NEW lo \in 1..5, NEW hi \in 1..5, lo <= hi, NEW sp \in Slot,
         Holds(sl, owes, lo, sp)
  PROVE  Holds(Own(Cells(sl, sp)), owes, hi, sp)
<1> DEFINE c == Cells(sl, sp)
<1>1. c \in Seq(Slot)
  BY CellsType
<1>2. owes \subseteq ToSet(c) /\ Layers(c, hi)
  BY LayersMono DEF Holds
<1> HIDE DEF c
<1>3. Own(c).lent = 0 /\ Cells(Own(c), sp) = c
  BY <1>1, OwnIs
<1>4. Own(c).lent # 2
  BY <1>3
<1>5. Holds(Own(c), owes, hi, sp)
  BY <1>2, <1>3, <1>4 DEF Holds
<1> QED BY <1>5 DEF c

LEMMA HoldsEmpty ==
  ASSUME NEW hi, NEW sp
  PROVE  Holds(Own(<<>>), {}, hi, sp) /\ Own(<<>>) \in Slice
<1>1. <<>> \in Seq(Slot)
  OBVIOUS
<1>2. Own(<<>>) \in Slice /\ Own(<<>>).lent = 0 /\ Cells(Own(<<>>), sp) = <<>>
  BY <1>1, OwnIs
<1>3. Own(<<>>).lent # 2
  BY <1>2
<1> QED BY <1>2, <1>3, LayersEmpty DEF Holds

LEMMA HoldsLent ==
  ASSUME NEW hi \in 2..5, NEW sp
  PROVE  Holds(Lent, {Given}, hi, sp)
<1>1. Lent.lent # 2 /\ Cells(Lent, sp) = <<Given>>
  BY LentIs
<1> QED BY <1>1, LayersGiven DEF Holds

\* append returns a slice with the new middleware at its end.
LEMMA SliceGrows ==
  ASSUME NEW sl \in Slice, NEW x \in MwType, spare \in Slot, overwritten \in BOOLEAN, AppendTo(sl, x)
  PROVE  /\ Appended(sl, x) \in Slice /\ spare' \in Slot /\ overwritten' \in BOOLEAN
         /\ Cells(Appended(sl, x), spare') = Append(Cells(sl, spare), x)
         /\ spare' = Unused => Appended(sl, x).lent # 2
         /\ ~overwritten' => ~overwritten /\ Moves(spare, spare')
<1>1. x \in Slot /\ x # Unused
  BY UnusedIs DEF Slot
<1>2. InPlace(sl) \in BOOLEAN
  BY DEF InPlace
<1>3. CASE InPlace(sl)
  <2> DEFINE new == Appended(sl, x)
  <2>1. sl.lent = 1 /\ sl.own \in Seq(Slot)
    BY <1>3, SliceIs DEF InPlace
  <2>2. new = [sl EXCEPT !.lent = 2]
    BY <1>3 DEF Appended
  <2>3. new \in Slice /\ new.lent = 2
    BY <2>2 DEF Slice
  <2> HIDE DEF new
  <2>4. spare' = x /\ overwritten' = (overwritten \/ spare # Unused)
    BY <1>3 DEF AppendTo
  <2>5. new.lent # 0 /\ new.lent # 1 /\ sl.lent # 0
    BY <2>1, <2>3
  <2>6. Cells(new, spare') = <<Given, x>> /\ Cells(sl, spare) = <<Given>>
    BY <2>1, <2>4, <2>5 DEF Cells
  <2>7. <<Given, x>> = Append(<<Given>>, x)
    BY GivenIs, <1>1
  <2>8. ~overwritten' => ~overwritten /\ Moves(spare, spare')
    BY <1>1, <2>4 DEF Moves
  <2>9. overwritten' \in BOOLEAN
    BY <2>4
  <2> QED BY <1>1, <2>3, <2>4, <2>6, <2>7, <2>8, <2>9 DEF new
<1>4. CASE ~InPlace(sl)
  <2> DEFINE c == Append(Cells(sl, spare), x)
  <2>1. Appended(sl, x) = Own(c)
    BY <1>4, ContentIs DEF Appended
  <2>2. spare' = spare /\ overwritten' = overwritten
    BY <1>4 DEF AppendTo
  <2>3. c \in Seq(Slot)
    BY <1>1, CellsType
  <2> HIDE DEF c
  <2>4. Own(c) \in Slice /\ Own(c).lent = 0 /\ Cells(Own(c), spare) = c
    BY <2>3, OwnIs
  <2>5. Own(c).lent # 2
    BY <2>4
  <2>6. ~overwritten' => ~overwritten /\ Moves(spare, spare')
    BY <2>2 DEF Moves
  <2> QED BY <2>1, <2>2, <2>4, <2>5, <2>6 DEF c
<1> QED BY <1>2, <1>3, <1>4

LEMMA HoldsAppended ==
  ASSUME NEW sl \in Slice, NEW owes, NEW x \in MwType, Rank(x) \in 3..5, spare \in Slot, overwritten \in BOOLEAN,
         AppendTo(sl, x), Holds(sl, owes, Rank(x) - 1, spare)
  PROVE  Holds(Appended(sl, x), owes \union {x}, Rank(x), spare')
<1> DEFINE c == Cells(sl, spare)
<1>1. owes \subseteq ToSet(c) /\ Layers(c, Rank(x) - 1)
  BY DEF Holds
<1> HIDE DEF c
<1>2. Layers(Append(c, x), Rank(x)) /\ owes \union {x} \subseteq ToSet(Append(c, x))
  BY <1>1, LayersAppend
<1>3. Cells(Appended(sl, x), spare') = Append(c, x) /\ (spare' = Unused => Appended(sl, x).lent # 2)
  BY SliceGrows DEF c
<1> QED BY <1>2, <1>3 DEF Holds

\* Registration: unless a cell in use was overwritten, every route and every
\* group has the middlewares it owes, in order.
RouteHolds(r, i, sp) == Holds(r.mw, r.owes, Hi("route", i, r.owes), sp)
GroupHolds(v, g, sp) == Holds(v.mw, v.owes, Hi(g, 0, v.owes), sp)
CleanInv ==
  /\ \A i \in 1..Len(routes) : RouteHolds(routes[i], i, spare)
  /\ \A g \in Grouping : GroupHolds(group[g], g, spare)
RegisterInv ==
  /\ routes \in Seq(RouteType) /\ globals \in Globals /\ group \in [Grouping -> GroupType]
  /\ spare \in Slot /\ overwritten \in BOOLEAN /\ named \in 0..Len(routes)
  /\ ~overwritten => CleanInv

\* What a request owes is owed by its route, and was in the slice it found.
Owed(r, rs) ==
  r.route > 0 => r.owes \subseteq rs[r.route].owes /\ r.owes \subseteq ToSet(r.mw) /\ Layers(r.mw, 5)

\* Serving: what a request found is still the first route for it, and it is
\* answered once.
ServeInv ==
  /\ request = NoHTTPRequest \/ request \in RequestType
  /\ request.pc = "matched" => LookedUp(request, routes) /\ (~overwritten => Owed(request, routes))
  /\ request.pc # "done" => answer = NoAnswer
  /\ ChainComplete

RoutingInv == RegisterInv /\ ServeInv

LEMMA GroupingIs == "group" \in Grouping /\ "sub" \in Grouping
BY DEF Grouping

LEMMA NoGroupHolds ==
  ASSUME NEW v, v.mw = Own(<<>>), v.owes = {}, NEW g, NEW sp
  PROVE  GroupHolds(v, g, sp)
BY HoldsEmpty DEF GroupHolds

LEMMA RoutingInitInv == RoutingInit => RoutingInv
<1> SUFFICES ASSUME RoutingInit PROVE RoutingInv
  OBVIOUS
<1>1. /\ routes = <<>> /\ globals = <<>> /\ named = 0 /\ request = NoHTTPRequest /\ answer = NoAnswer
      /\ group = [g \in Grouping |-> NoGroup] /\ spare = Unused /\ overwritten = FALSE
  BY DEF RoutingInit
<1>2. Len(routes) = 0 /\ routes \in Seq(RouteType) /\ 1..Len(routes) = {}
  BY <1>1
<1>3. named \in 0..Len(routes) /\ globals \in Globals /\ spare \in Slot /\ overwritten \in BOOLEAN
  <2>1. named \in 0..Len(routes)
    BY <1>1, <1>2
  <2>2. globals \in Globals /\ spare \in Slot /\ overwritten \in BOOLEAN
    BY <1>1, Zenon DEF Globals, Slot
  <2> QED BY <2>1, <2>2
<1>4. NoGroup \in GroupType /\ NoGroup.mw = Own(<<>>) /\ NoGroup.owes = {}
  BY HoldsEmpty DEF NoGroup, GroupType
<1>5. group \in [Grouping -> GroupType] /\ \A g \in Grouping : group[g] = NoGroup
  BY <1>1, <1>4
<1>6. CleanInv
  <2>1. \A g : GroupHolds(NoGroup, g, spare)
    BY <1>4, NoGroupHolds
  <2> QED BY <1>2, <1>5, <2>1 DEF CleanInv
<1>7. RegisterInv
  BY <1>2, <1>3, <1>5, <1>6 DEF RegisterInv
<1>8. request.pc = "none" /\ answer.kind = "none"
  BY <1>1 DEF NoHTTPRequest, NoAnswer
<1>9. ServeInv
  BY <1>1, <1>8 DEF ServeInv, ChainComplete
<1> QED BY <1>7, <1>9 DEF RoutingInv

LEMMA LookedUpSame ==
  ASSUME NEW r, NEW q, NEW rs, LookedUp(r, rs),
         q.path = r.path, q.route = r.route, q.method = r.method, q.allowed = r.allowed
  PROVE  LookedUp(q, rs)
BY DEF LookedUp

LEMMA OwedStays ==
  ASSUME NEW r, NEW q, NEW rs, NEW new, Owed(r, rs), Extends(rs, new), r.route > 0 => r.route \in 1..Len(rs),
         q.route = r.route, q.owes = r.owes, q.mw = r.mw
  PROVE  Owed(q, new)
<1>1. r.route > 0 => rs[r.route].owes \subseteq new[r.route].owes
  BY DEF Extends
<1> QED BY <1>1 DEF Owed

\* The request as a step of registration leaves it.
Marked(r, new) == new = r \/ (r.pc = "matched" /\ new = [r EXCEPT !.raced = TRUE])

LEMMA MarkedSame ==
  ASSUME NEW r \in RequestType, NEW new, Marked(r, new)
  PROVE  /\ new \in RequestType /\ new.pc = r.pc /\ new.path = r.path /\ new.route = r.route
         /\ new.method = r.method /\ new.allowed = r.allowed /\ new.owes = r.owes /\ new.mw = r.mw
<1>1. CASE new = r
  BY <1>1
<1>2. CASE new = [r EXCEPT !.raced = TRUE]
  BY <1>2 DEF RequestType
<1> QED BY <1>1, <1>2 DEF Marked

\* While routes are registered the request and its answer stay.
LEMMA ServeStays ==
  ASSUME ServeInv, routes \in Seq(RouteType), routes' \in Seq(RouteType), Extends(routes, routes'),
         request.pc # "done", Marked(request, request'), answer' = answer, overwritten => overwritten'
  PROVE  ServeInv'
<1>1. answer' = NoAnswer /\ (request = NoHTTPRequest \/ request \in RequestType)
  BY DEF ServeInv
<1>2. answer'.kind = "none"
  BY <1>1 DEF NoAnswer
<1>3. ChainComplete'
  BY <1>2 DEF ChainComplete
<1>4. CASE request \in RequestType
  <2>1. /\ request' \in RequestType /\ request'.pc = request.pc /\ request'.path = request.path
        /\ request'.route = request.route /\ request'.method = request.method
        /\ request'.allowed = request.allowed /\ request'.owes = request.owes /\ request'.mw = request.mw
    BY <1>4, MarkedSame
  <2>2. ASSUME request.pc = "matched"
        PROVE  LookedUp(request', routes') /\ (~overwritten' => Owed(request', routes'))
    <3>1. LookedUp(request, routes) /\ (~overwritten' => Owed(request, routes))
      BY <2>2 DEF ServeInv
    <3>2. LookedUp(request, routes')
      BY <3>1, LookedUpStays
    <3>3. request.route > 0 => request.route \in 1..Len(routes)
      <4>1. request.route \in 0..Len(routes) /\ Len(routes) \in Nat
        BY <3>1 DEF LookedUp
      <4> QED BY <4>1
    <3>4. LookedUp(request', routes')
      BY <2>1, <3>2, LookedUpSame
    <3> QED BY <2>1, <3>1, <3>3, <3>4, OwedStays
  <2> QED BY <1>1, <1>3, <2>1, <2>2 DEF ServeInv
<1>5. CASE request = NoHTTPRequest
  <2>1. request.pc = "none"
    BY <1>5 DEF NoHTTPRequest
  <2>2. request' = request
    BY <2>1 DEF Marked
  <2> QED BY <1>1, <1>3, <1>5, <2>1, <2>2 DEF ServeInv
<1> QED BY <1>1, <1>4, <1>5

LEMMA ExtendsSelf == \A rs \in Seq(RouteType) : Extends(rs, rs)
BY DEF Extends

LEMMA MarkedSelf == \A r : Marked(r, r)
BY DEF Marked

LEMMA RouteSlices ==
  ASSUME routes \in Seq(RouteType), NEW i \in 1..Len(routes)
  PROVE  routes[i] \in RouteType /\ routes[i].mw \in Slice /\ routes[i].owes \in SUBSET MwType
<1>1. routes[i] \in RouteType
  OBVIOUS
<1> QED BY <1>1 DEF RouteType

LEMMA GroupSlices ==
  ASSUME group \in [Grouping -> GroupType], NEW g \in Grouping
  PROVE  group[g] \in GroupType /\ group[g].mw \in Slice /\ group[g].owes \in SUBSET MwType
BY DEF GroupType

\* The others still hold what they owe when the spare cell is first written.
LEMMA CleanStays ==
  ASSUME RegisterInv, CleanInv, NEW new, Moves(spare, new)
  PROVE  /\ \A i \in 1..Len(routes) : RouteHolds(routes[i], i, new)
         /\ \A g \in Grouping : GroupHolds(group[g], g, new)
<1>1. routes \in Seq(RouteType) /\ group \in [Grouping -> GroupType]
  BY DEF RegisterInv
<1>2. ASSUME NEW i \in 1..Len(routes) PROVE RouteHolds(routes[i], i, new)
  <2>1. routes[i].mw \in Slice /\ RouteHolds(routes[i], i, spare)
    BY <1>1, RouteSlices DEF CleanInv
  <2> QED BY <2>1, HoldsStays DEF RouteHolds
<1>3. ASSUME NEW g \in Grouping PROVE GroupHolds(group[g], g, new)
  <2>1. group[g].mw \in Slice /\ GroupHolds(group[g], g, spare)
    BY <1>1, GroupSlices DEF CleanInv
  <2> QED BY <2>1, HoldsStays DEF GroupHolds
<1> QED BY <1>2, <1>3

LEMMA UseGlobalInv ==
  ASSUME RoutingInv, request.pc # "done", UseGlobal
  PROVE  RoutingInv'
<1>1. /\ globals' = <<Mw("global", 0)>>
      /\ UNCHANGED <<routes, group, spare, overwritten, named, request, answer>>
  BY DEF UseGlobal
<1>2. globals' \in Globals
  BY <1>1 DEF Globals
<1>3. RegisterInv'
  BY <1>1, <1>2 DEF RoutingInv, RegisterInv, CleanInv
<1>4. ServeInv'
  <2>1. ServeInv /\ routes \in Seq(RouteType)
    BY DEF RoutingInv, RegisterInv
  <2>2. /\ routes' \in Seq(RouteType) /\ Extends(routes, routes') /\ answer' = answer /\ Marked(request, request')
        /\ (overwritten => overwritten')
    BY <1>1, <2>1, ExtendsSelf, MarkedSelf
  <2> QED BY <2>1, <2>2, ServeStays
<1> QED BY <1>3, <1>4 DEF RoutingInv

\* A step of one group.
LEMMA GroupStepInv ==
  ASSUME RoutingInv, request.pc # "done", NEW g \in Grouping, NEW v \in GroupType,
         group' = [group EXCEPT ![g] = v], UNCHANGED <<routes, globals, named, request, answer>>,
         spare' \in Slot, overwritten' \in BOOLEAN,
         ~overwritten' => ~overwritten /\ Moves(spare, spare') /\ GroupHolds(v, g, spare')
  PROVE  RoutingInv'
<1>1. group \in [Grouping -> GroupType] /\ routes \in Seq(RouteType) /\ RegisterInv /\ ServeInv /\ overwritten \in BOOLEAN
  BY DEF RoutingInv, RegisterInv
<1>2. /\ group' \in [Grouping -> GroupType] /\ group'[g] = v
      /\ \A h \in Grouping : h # g => group'[h] = group[h]
  BY <1>1
<1>3. ASSUME ~overwritten' PROVE CleanInv'
  <2>1. CleanInv
    BY <1>1, <1>3 DEF RegisterInv
  <2>2. /\ \A i \in 1..Len(routes) : RouteHolds(routes[i], i, spare')
        /\ \A h \in Grouping : GroupHolds(group[h], h, spare')
    BY <1>1, <1>3, <2>1, CleanStays
  <2>3. ASSUME NEW h \in Grouping PROVE GroupHolds(group'[h], h, spare')
    BY <1>2, <1>3, <2>2
  <2> QED BY <2>2, <2>3 DEF CleanInv
<1>4. RegisterInv'
  BY <1>1, <1>2, <1>3 DEF RegisterInv
<1>5. ServeInv'
  <2>1. /\ routes' \in Seq(RouteType) /\ Extends(routes, routes') /\ answer' = answer /\ Marked(request, request')
    BY <1>1, ExtendsSelf, MarkedSelf
  <2>2. overwritten => overwritten'
    BY <1>1
  <2> QED BY <1>1, <2>1, <2>2, ServeStays
<1> QED BY <1>4, <1>5 DEF RoutingInv

LEMMA NewGroupInv ==
  ASSUME RoutingInv, request.pc # "done", NEW g \in Grouping, NEW lent \in BOOLEAN, NewGroup(g, lent)
  PROVE  RoutingInv'
<1> DEFINE up == group["group"]
           v == IF g = "sub" THEN [up EXCEPT !.mw = Own(Content(up.mw))]
                ELSE IF lent THEN [made |-> TRUE, mw |-> Lent, owes |-> {Given}]
                ELSE [NoGroup EXCEPT !.made = TRUE]
<1>1. /\ group' = [group EXCEPT ![g] = v]
      /\ UNCHANGED <<routes, globals, spare, overwritten, named, request, answer>>
  BY DEF NewGroup
<1>2. group \in [Grouping -> GroupType] /\ spare \in Slot /\ overwritten \in BOOLEAN
  BY DEF RoutingInv, RegisterInv
<1>3. Moves(spare, spare)
  BY DEF Moves
<1>4. v \in GroupType /\ (~overwritten => GroupHolds(v, g, spare))
  <2>1. CASE g = "sub"
    <3>1. up \in GroupType /\ up.mw \in Slice
      BY <1>2, GroupingIs, GroupSlices
    <3>2. Content(up.mw) = Cells(up.mw, spare) /\ Cells(up.mw, spare) \in Seq(Slot)
      BY <1>2, <3>1, ContentIs, CellsType
    <3> DEFINE o == Own(Cells(up.mw, spare))
    <3>3. o \in Slice
      BY <3>2, OwnIs
    <3>4. v = [up EXCEPT !.mw = o]
      BY <2>1, <3>2
    <3> HIDE DEF v, o
    <3>5. v \in GroupType /\ v.mw = o /\ v.owes = up.owes
      BY <3>1, <3>3, <3>4 DEF GroupType
    <3>6. ASSUME ~overwritten PROVE GroupHolds(v, g, spare)
      <4>1. GroupHolds(up, "group", spare)
        BY <3>6, GroupingIs DEF RoutingInv, RegisterInv, CleanInv
      <4> DEFINE lo == Hi("group", 0, up.owes)
                 hi == Hi("sub", 0, up.owes)
      <4>2. lo \in 2..3 /\ hi \in 3..4
        BY HiIs
      <4>3. Holds(up.mw, up.owes, lo, spare)
        BY <4>1 DEF GroupHolds
      <4> HIDE DEF lo, hi
      <4>4. lo \in 1..5 /\ hi \in 1..5 /\ lo <= hi
        BY <4>2
      <4>5. Holds(o, up.owes, hi, spare)
        BY <1>2, <3>1, <4>3, <4>4, HoldsCopy DEF o
      <4> QED BY <2>1, <3>5, <4>5 DEF GroupHolds, hi
    <3> QED BY <3>5, <3>6
  <2>2. CASE g # "sub" /\ lent
    <3>1. v = [made |-> TRUE, mw |-> Lent, owes |-> {Given}]
      BY <2>2
    <3> HIDE DEF v
    <3>2. v \in GroupType /\ v.mw = Lent /\ v.owes = {Given}
      BY <3>1, LentIs, GivenIs DEF GroupType
    <3>3. Hi(g, 0, {Given}) \in 2..5
      <4>1. Hi(g, 0, {Given}) \in 2..4
        BY HiIs
      <4> QED BY <4>1
    <3>4. Holds(Lent, {Given}, Hi(g, 0, {Given}), spare)
      BY <3>3, HoldsLent
    <3> QED BY <3>2, <3>4 DEF GroupHolds
  <2>3. CASE g # "sub" /\ ~lent
    <3>1. v = [NoGroup EXCEPT !.made = TRUE]
      BY <2>3
    <3> HIDE DEF v
    <3>2. v \in GroupType /\ v.mw = Own(<<>>) /\ v.owes = {}
      BY <3>1, HoldsEmpty DEF NoGroup, GroupType
    <3> QED BY <3>2, NoGroupHolds
  <2> QED BY <2>1, <2>2, <2>3
<1> HIDE DEF v
<1> QED BY <1>1, <1>2, <1>3, <1>4, GroupStepInv

LEMMA GroupUseInv ==
  ASSUME RoutingInv, request.pc # "done", NEW g \in Grouping, GroupUse(g)
  PROVE  RoutingInv'
<1> DEFINE x == Mw(g, 0)
           was == group[g]
           new == Appended(was.mw, x)
           v == [made |-> TRUE, mw |-> new, owes |-> was.owes \union {x}]
<1>1. group \in [Grouping -> GroupType] /\ spare \in Slot /\ overwritten \in BOOLEAN
  BY DEF RoutingInv, RegisterInv
<1>2. /\ x \notin was.owes /\ AppendTo(was.mw, x)
      /\ UNCHANGED <<routes, globals, named, request, answer>>
  BY DEF GroupUse
<1>3. group' = [group EXCEPT ![g] = v]
  BY <1>1 DEF GroupUse
<1>4. x \in MwType /\ Rank(x) \in 3..4
  BY MwIs, RankIs
<1>5. was.mw \in Slice /\ was.owes \in SUBSET MwType
  BY <1>1, GroupSlices
<1>6. Hi(g, 0, was.owes) = Rank(x) - 1 /\ Hi(g, 0, was.owes \union {x}) = Rank(x)
  BY <1>2 DEF Hi
<1> HIDE DEF x, was
<1>7. /\ new \in Slice /\ spare' \in Slot /\ overwritten' \in BOOLEAN
      /\ ~overwritten' => ~overwritten /\ Moves(spare, spare')
  BY <1>1, <1>2, <1>4, <1>5, SliceGrows
<1> HIDE DEF new
<1>8. v \in GroupType /\ v.mw = new /\ v.owes = was.owes \union {x}
  BY <1>4, <1>5, <1>7 DEF GroupType
<1>9. ASSUME ~overwritten' PROVE GroupHolds(v, g, spare')
  <2>1. GroupHolds(was, g, spare)
    BY <1>7, <1>9 DEF RoutingInv, RegisterInv, CleanInv, was
  <2>2. Holds(was.mw, was.owes, Rank(x) - 1, spare)
    BY <1>6, <2>1 DEF GroupHolds
  <2>3. Rank(x) \in 3..5
    BY <1>4
  <2>4. Holds(new, was.owes \union {x}, Rank(x), spare')
    BY <1>1, <1>2, <1>4, <1>5, <2>2, <2>3, HoldsAppended DEF new
  <2> QED BY <1>6, <1>8, <2>4 DEF GroupHolds
<1> HIDE DEF v
<1> QED BY <1>2, <1>3, <1>7, <1>8, <1>9, GroupStepInv

LEMMA RouteRecord ==
  ASSUME NEW m \in Method, NEW p \in Pattern, NEW sl \in Slice, NEW owes \in SUBSET MwType
  PROVE  [method |-> m, pattern |-> p, mw |-> sl, owes |-> owes] \in RouteType
BY DEF RouteType

LEMMA AddRouteInv ==
  ASSUME RoutingInv, request.pc # "done", NEW d \in Declared, AddRoute(d)
  PROVE  RoutingInv'
<1> DEFINE r == Registered(d)
           n == Len(routes) + 1
<1>1. /\ routes' = Append(routes, r)
      /\ UNCHANGED <<globals, group, spare, overwritten, named, request, answer>>
  BY DEF AddRoute
<1>2. /\ routes \in Seq(RouteType) /\ Len(routes) \in Nat /\ named \in 0..Len(routes)
      /\ group \in [Grouping -> GroupType] /\ spare \in Slot /\ overwritten \in BOOLEAN
      /\ RegisterInv /\ ServeInv
  BY DEF RoutingInv, RegisterInv
<1>3. d.method \in Method /\ d.on \in Place /\ d.pattern \in Pattern
  BY RoutingAssumption DEF Pattern
<1>4. n \in Nat
  BY <1>2
<1> HIDE DEF n
<1>5. /\ r.method = d.method /\ r.pattern = d.pattern /\ r.mw \in Slice /\ r.owes \in SUBSET MwType
      /\ ~overwritten => RouteHolds(r, n, spare)
  <2> DEFINE via == group[d.on]
             mw == CASE d.on = "router" -> Own(<<>>) [] d.on = "lent" -> Lent [] OTHER -> Own(Content(via.mw))
             owes == CASE d.on = "router" -> {} [] d.on = "lent" -> {Given} [] OTHER -> via.owes
  <2>1. r = [method |-> d.method, pattern |-> d.pattern, mw |-> mw, owes |-> owes]
    BY Zenon DEF Registered
  <2>2. r.method = d.method /\ r.pattern = d.pattern /\ r.mw = mw /\ r.owes = owes
    <3> HIDE DEF mw, owes, r
    <3> QED BY <2>1
  <2> HIDE DEF r
  <2>3. CASE d.on = "router"
    <3>1. mw = Own(<<>>) /\ owes = {}
      BY <2>3
    <3>2. Own(<<>>) \in Slice /\ Holds(Own(<<>>), {}, Hi("route", n, {}), spare)
      BY HoldsEmpty
    <3> HIDE DEF mw, owes
    <3> QED BY <2>2, <3>1, <3>2 DEF RouteHolds
  <2>4. CASE d.on = "lent"
    <3>1. mw = Lent /\ owes = {Given}
      BY <2>4
    <3>2. Hi("route", n, {Given}) \in 2..5
      <4>1. Hi("route", n, {Given}) \in 4..5
        BY <1>4, HiIs
      <4> QED BY <4>1
    <3>3. Holds(Lent, {Given}, Hi("route", n, {Given}), spare)
      BY <3>2, HoldsLent
    <3> HIDE DEF mw, owes
    <3> QED BY <2>2, <3>1, <3>3, LentIs, GivenIs DEF RouteHolds
  <2>5. CASE d.on # "router" /\ d.on # "lent"
    <3>1. d.on \in Grouping
      BY <1>3, <2>5 DEF Place
    <3>2. mw = Own(Content(via.mw)) /\ owes = via.owes
      BY <2>5
    <3>3. via.mw \in Slice /\ via.owes \in SUBSET MwType
      BY <1>2, <3>1, GroupSlices
    <3>4. Content(via.mw) = Cells(via.mw, spare) /\ Cells(via.mw, spare) \in Seq(Slot)
      BY <1>2, <3>3, ContentIs, CellsType
    <3>5. mw = Own(Cells(via.mw, spare)) /\ mw \in Slice
      <4> HIDE DEF mw
      <4> QED BY <3>2, <3>4, OwnIs
    <3> HIDE DEF mw, owes
    <3>6. ASSUME ~overwritten PROVE RouteHolds(r, n, spare)
      <4>1. GroupHolds(via, d.on, spare)
        BY <1>2, <3>1, <3>6 DEF RegisterInv, CleanInv
      <4> DEFINE lo == Hi(d.on, 0, via.owes)
                 hi == Hi("route", n, via.owes)
      <4>2. lo \in 2..4 /\ hi \in 4..5
        BY <1>4, <3>1, HiIs
      <4>3. Holds(via.mw, via.owes, lo, spare)
        BY <4>1 DEF GroupHolds
      <4> HIDE DEF lo, hi, via
      <4>4. lo \in 1..5 /\ hi \in 1..5 /\ lo <= hi
        BY <4>2
      <4>5. Holds(mw, via.owes, hi, spare)
        BY <1>2, <3>3, <3>5, <4>3, <4>4, HoldsCopy
      <4> QED BY <2>2, <3>2, <4>5 DEF RouteHolds, hi
    <3> QED BY <2>2, <3>2, <3>3, <3>5, <3>6
  <2> QED BY <2>3, <2>4, <2>5
<1>6. r \in RouteType
  <2>1. r = [method |-> r.method, pattern |-> r.pattern, mw |-> r.mw, owes |-> r.owes]
    BY DEF Registered
  <2> HIDE DEF r
  <2>2. r.mw \in Slice /\ r.owes \in SUBSET MwType /\ r.method \in Method /\ r.pattern \in Pattern
    BY <1>3, <1>5
  <2> QED BY <2>1, <2>2, RouteRecord
<1> HIDE DEF r
<1>7. /\ routes' \in Seq(RouteType) /\ Len(routes') = Len(routes) + 1 /\ routes'[Len(routes) + 1] = r
      /\ \A i \in 1..Len(routes) : routes'[i] = routes[i]
  BY <1>1, <1>2, <1>6
<1>8. ASSUME ~overwritten' PROVE CleanInv'
  <2>1. /\ \A i \in 1..Len(routes) : RouteHolds(routes[i], i, spare)
        /\ \A g \in Grouping : GroupHolds(group[g], g, spare)
    BY <1>1, <1>2, <1>8 DEF RegisterInv, CleanInv
  <2>2. RouteHolds(r, n, spare)
    BY <1>1, <1>5, <1>8
  <2>3. ASSUME NEW i \in 1..Len(routes') PROVE RouteHolds(routes'[i], i, spare)
    <3>1. CASE i = Len(routes) + 1
      BY <1>7, <2>2, <3>1 DEF n
    <3>2. CASE i # Len(routes) + 1
      <4>1. i \in 1..Len(routes)
        BY <1>2, <1>7, <3>2
      <4> QED BY <1>7, <2>1, <4>1
    <3> QED BY <3>1, <3>2
  <2> QED BY <1>1, <2>1, <2>3 DEF CleanInv
<1>9. named' \in 0..Len(routes')
  BY <1>1, <1>2, <1>7
<1>10. RegisterInv'
  BY <1>1, <1>2, <1>7, <1>8, <1>9 DEF RegisterInv
<1>11. Extends(routes, routes')
  BY <1>2, <1>7 DEF Extends
<1>12. ServeInv'
  <2>1. answer' = answer /\ Marked(request, request') /\ (overwritten => overwritten')
    BY <1>1, MarkedSelf
  <2> QED BY <1>2, <1>7, <1>11, <2>1, ServeStays
<1> QED BY <1>10, <1>12 DEF RoutingInv

LEMMA RouteMiddlewareInv ==
  ASSUME RoutingInv, request.pc # "done", NEW k \in 1..MaxRoutes, RouteMiddleware(k)
  PROVE  RoutingInv'
<1> DEFINE old == routes[k]
           x == Mw("route", k)
           new == Appended(old.mw, x)
           more == old.owes \union {x}
           r == [old EXCEPT !.mw = new, !.owes = more]
<1>1. /\ routes \in Seq(RouteType) /\ Len(routes) \in Nat /\ DOMAIN routes = 1..Len(routes)
      /\ named \in 0..Len(routes) /\ spare \in Slot /\ overwritten \in BOOLEAN /\ RegisterInv /\ ServeInv
  BY DEF RoutingInv, RegisterInv
<1>2. k \in 1..Len(routes) /\ x \notin old.owes /\ AppendTo(old.mw, x)
  BY <1>1 DEF RouteMiddleware
<1>3. /\ routes' = [routes EXCEPT ![k] = r] /\ Marked(request, request')
      /\ UNCHANGED <<globals, group, named, answer>>
  <2>1. /\ routes' = [routes EXCEPT ![k] = r]
        /\ UNCHANGED <<globals, group, named, answer>>
    <3>1. UNCHANGED <<globals, group, named, answer>>
      BY DEF RouteMiddleware
    <3>2. routes' = [routes EXCEPT ![k].mw = new, ![k].owes = more]
      BY <1>1, <1>2 DEF RouteMiddleware
    <3>3. old \in RouteType /\ k \in DOMAIN routes
      BY <1>1, <1>2, RouteSlices
    <3> HIDE DEF new, more
    <3>4. [routes EXCEPT ![k].mw = new, ![k].owes = more] = [routes EXCEPT ![k] = r]
      BY <1>1, <3>3 DEF RouteType
    <3> QED BY <3>1, <3>2, <3>4
  <2>2. request' = IF request.pc = "matched" /\ request.route = k THEN [request EXCEPT !.raced = TRUE] ELSE request
    BY DEF RouteMiddleware
  <2> QED BY <2>1, <2>2 DEF Marked
<1>4. old \in RouteType /\ old.mw \in Slice /\ old.owes \in SUBSET MwType
  BY <1>1, <1>2, RouteSlices
<1>5. k \in Nat
  BY <1>2
<1>6. x \in MwType /\ Rank(x) = 5
  BY <1>5, MwIs, RankIs
<1>7. Hi("route", k, old.owes) = Rank(x) - 1 /\ Hi("route", k, more) = Rank(x)
  BY <1>2 DEF Hi
<1> HIDE DEF x, old
<1>8. /\ new \in Slice /\ spare' \in Slot /\ overwritten' \in BOOLEAN
      /\ ~overwritten' => ~overwritten /\ Moves(spare, spare')
  BY <1>1, <1>2, <1>4, <1>6, SliceGrows
<1> HIDE DEF new
<1>9. more \in SUBSET MwType /\ old.owes \subseteq more
  BY <1>4, <1>6
<1>10. ASSUME ~overwritten' PROVE Holds(new, more, Hi("route", k, more), spare')
  <2>1. RouteHolds(old, k, spare)
    BY <1>1, <1>2, <1>8, <1>10 DEF RegisterInv, CleanInv, old
  <2>2. Holds(old.mw, old.owes, Rank(x) - 1, spare)
    BY <1>7, <2>1 DEF RouteHolds
  <2>3. Rank(x) \in 3..5
    BY <1>6
  <2>4. Holds(new, more, Rank(x), spare')
    BY <1>1, <1>2, <1>4, <1>6, <2>2, <2>3, HoldsAppended DEF new
  <2> QED BY <1>7, <2>4
<1> HIDE DEF more
<1>11. /\ r \in RouteType /\ r.mw = new /\ r.owes = more
       /\ r.method = old.method /\ r.pattern = old.pattern
  BY <1>4, <1>8, <1>9 DEF RouteType
<1> HIDE DEF r
<1>12. /\ routes' \in Seq(RouteType) /\ Len(routes') = Len(routes) /\ routes'[k] = r
       /\ \A i \in 1..Len(routes) : i # k => routes'[i] = routes[i]
  BY <1>1, <1>2, <1>3, <1>11
<1>13. ASSUME ~overwritten' PROVE CleanInv'
  <2>1. CleanInv /\ Moves(spare, spare')
    BY <1>1, <1>8, <1>13 DEF RegisterInv
  <2>2. /\ \A i \in 1..Len(routes) : RouteHolds(routes[i], i, spare')
        /\ \A g \in Grouping : GroupHolds(group[g], g, spare')
    BY <1>1, <2>1, CleanStays
  <2>3. RouteHolds(r, k, spare')
    BY <1>10, <1>11, <1>13 DEF RouteHolds
  <2>4. ASSUME NEW i \in 1..Len(routes') PROVE RouteHolds(routes'[i], i, spare')
    BY <1>12, <2>2, <2>3
  <2> QED BY <1>3, <2>2, <2>4 DEF CleanInv
<1>14. group' \in [Grouping -> GroupType] /\ globals' \in Globals /\ named' \in 0..Len(routes')
  BY <1>3, <1>12 DEF RoutingInv, RegisterInv
<1>15. RegisterInv'
  BY <1>8, <1>12, <1>13, <1>14 DEF RegisterInv
<1>16. Extends(routes, routes')
  <2>1. \A i \in 1..Len(routes) : /\ routes'[i].method = routes[i].method /\ routes'[i].pattern = routes[i].pattern
                                  /\ routes[i].owes \subseteq routes'[i].owes
    BY <1>9, <1>11, <1>12 DEF old
  <2> QED BY <1>1, <1>12, <2>1 DEF Extends
<1>17. ServeInv'
  <2>1. answer' = answer /\ (overwritten => overwritten')
    BY <1>1, <1>3, <1>8
  <2> QED BY <1>1, <1>3, <1>12, <1>16, <2>1, ServeStays
<1> QED BY <1>15, <1>17 DEF RoutingInv

LEMMA NameInv ==
  ASSUME RoutingInv, request.pc # "done", NEW k \in 1..MaxRoutes, Name(k)
  PROVE  RoutingInv'
<1>1. routes \in Seq(RouteType) /\ Len(routes) \in Nat /\ DOMAIN routes = 1..Len(routes) /\ ServeInv
  BY DEF RoutingInv, RegisterInv
<1>2. /\ k \in 1..Len(routes) /\ named' = k
      /\ UNCHANGED <<routes, globals, group, spare, overwritten, request, answer>>
  BY <1>1 DEF Name
<1>3. named' \in 0..Len(routes')
  BY <1>1, <1>2
<1>4. RegisterInv'
  BY <1>2, <1>3 DEF RoutingInv, RegisterInv, CleanInv
<1>5. /\ routes' \in Seq(RouteType) /\ Extends(routes, routes') /\ answer' = answer /\ Marked(request, request')
      /\ (overwritten => overwritten')
  BY <1>1, <1>2, ExtendsSelf, MarkedSelf
<1>6. ServeInv'
  BY <1>1, <1>5, ServeStays
<1> QED BY <1>4, <1>6 DEF RoutingInv

\* A route's slice, as a request reads it.
LEMMA RouteCells ==
  ASSUME RegisterInv, NEW k \in 1..Len(routes)
  PROVE  /\ Content(routes[k].mw) \in Seq(Slot)
         /\ ~overwritten => /\ routes[k].owes \subseteq ToSet(Content(routes[k].mw))
                            /\ Layers(Content(routes[k].mw), 5)
<1>1. routes \in Seq(RouteType) /\ spare \in Slot
  BY DEF RegisterInv
<1>2. routes[k].mw \in Slice
  BY <1>1, RouteSlices
<1> DEFINE sl == routes[k].mw
           owes == routes[k].owes
<1>3. Content(sl) = Cells(sl, spare) /\ Cells(sl, spare) \in Seq(Slot)
  BY <1>1, <1>2, ContentIs, CellsType
<1>4. ASSUME ~overwritten PROVE owes \subseteq ToSet(Cells(sl, spare)) /\ Layers(Cells(sl, spare), 5)
  <2>1. RouteHolds(routes[k], k, spare)
    BY <1>4 DEF RegisterInv, CleanInv
  <2>2. Holds(sl, owes, Hi("route", k, owes), spare)
    BY <2>1 DEF RouteHolds
  <2>3. k \in Nat
    BY <1>1
  <2> DEFINE lo == Hi("route", k, owes)
  <2>4. lo \in 4..5
    BY <2>3, HiIs
  <2> HIDE DEF lo, sl, owes
  <2>5. lo \in 1..5 /\ lo <= 5 /\ 5 \in 1..5
    BY <2>4
  <2>6. Holds(sl, owes, lo, spare)
    BY <2>2 DEF lo
  <2>7. Holds(sl, owes, 5, spare)
    BY <2>5, <2>6, HoldsMono
  <2> QED BY <2>7 DEF Holds
<1> HIDE DEF sl, owes
<1>5. Content(sl) \in Seq(Slot) /\ (~overwritten => owes \subseteq ToSet(Content(sl)) /\ Layers(Content(sl), 5))
  BY <1>3, <1>4
<1> QED BY <1>5 DEF sl, owes

LEMMA LookupInv ==
  ASSUME RoutingInv, NEW method \in Method, NEW path \in Path, Lookup(method, path)
  PROVE  RoutingInv'
<1> DEFINE parts == SplitPath(path)
           route == RouteFound(method, parts)
           methods == AllowedMethods(parts)
           mw == IF route > 0 THEN Content(routes[route].mw) ELSE <<>>
           owes == IF route > 0 THEN routes[route].owes ELSE {}
           r == [pc |-> "matched", method |-> method, path |-> path,
                 route |-> route, allowed |-> methods, chain |-> globals, raced |-> FALSE,
                 mw |-> mw, owes |-> owes]
<1>1. /\ request.pc = "none" /\ request' = r
      /\ UNCHANGED <<routes, globals, group, spare, overwritten, named, answer>>
  BY DEF Lookup
<1>2. routes \in Seq(RouteType) /\ globals \in Globals /\ RegisterInv /\ Len(routes) \in Nat
  BY DEF RoutingInv, RegisterInv
<1>3. methods \in SUBSET Method
  BY AllowedType
<1> HIDE DEF route, methods, mw, owes
<1>4. /\ r.path = path /\ r.method = method /\ r.route = route /\ r.allowed = methods /\ r.pc = "matched"
      /\ r.mw = mw /\ r.owes = owes
  OBVIOUS
<1> HIDE DEF r
<1>5. LookedUp(r, routes) /\ r.route \in Nat
  BY <1>2, <1>4, LookupFinds DEF route, methods
<1>6. route > 0 => route \in 1..Len(routes)
  <2>1. route \in 0..Len(routes)
    BY <1>4, <1>5 DEF LookedUp
  <2> QED BY <1>2, <2>1
<1>7. mw \in Seq(Slot) /\ owes \in SUBSET MwType
  <2>1. CASE route > 0
    <3>1. route \in 1..Len(routes) /\ mw = Content(routes[route].mw) /\ owes = routes[route].owes
      BY <1>6, <2>1 DEF mw, owes
    <3> QED BY <1>2, <3>1, RouteCells, RouteSlices
  <2>2. CASE ~(route > 0)
    <3>1. mw = <<>> /\ owes = {}
      BY <2>2 DEF mw, owes
    <3> QED BY <3>1
  <2> QED BY <2>1, <2>2
<1>8. ~overwritten => Owed(r, routes)
  <2> SUFFICES ASSUME ~overwritten, route > 0
               PROVE  owes \subseteq routes[route].owes /\ owes \subseteq ToSet(mw) /\ Layers(mw, 5)
    BY <1>4 DEF Owed
  <2>1. route \in 1..Len(routes) /\ mw = Content(routes[route].mw) /\ owes = routes[route].owes
    BY <1>6 DEF mw, owes
  <2> QED BY <1>2, <2>1, RouteCells
<1>9. r \in RequestType
  <2>1. route \in Nat
    BY <1>4, <1>5
  <2> QED BY <1>2, <1>3, <1>7, <2>1, Zenon DEF RequestType, r
<1>10. RegisterInv'
  BY <1>1, <1>2 DEF RegisterInv, CleanInv
<1>11. answer = NoAnswer /\ answer' = NoAnswer
  BY <1>1 DEF RoutingInv, ServeInv
<1>12. answer'.kind = "none"
  BY <1>11 DEF NoAnswer
<1>13. ChainComplete'
  BY <1>12 DEF ChainComplete
<1>14. ServeInv'
  BY <1>1, <1>4, <1>5, <1>8, <1>9, <1>11, <1>13 DEF ServeInv
<1> QED BY <1>10, <1>14 DEF RoutingInv

\* A request is answered once.
LEMMA DoneInv ==
  ASSUME RoutingInv, request.pc = "matched", request' = [request EXCEPT !.pc = "done"], ChainComplete',
         UNCHANGED <<routes, globals, group, spare, overwritten, named>>
  PROVE  RoutingInv'
<1>1. request \in RequestType
  <2>1. request # NoHTTPRequest
    BY DEF NoHTTPRequest
  <2> QED BY <2>1 DEF RoutingInv, ServeInv
<1>2. request' \in RequestType /\ request'.pc = "done"
  BY <1>1 DEF RequestType
<1>3. RegisterInv'
  BY DEF RoutingInv, RegisterInv, CleanInv
<1>4. ServeInv'
  BY <1>2 DEF ServeInv
<1> QED BY <1>3, <1>4 DEF RoutingInv

LEMMA RunInv ==
  ASSUME RoutingInv, Run
  PROVE  RoutingInv'
<1>1. /\ request.pc = "matched" /\ request' = [request EXCEPT !.pc = "done"]
      /\ \E mw \in SlicesSeen(request) : answer' = RunWithMiddleware(request, mw)
      /\ UNCHANGED <<routes, globals, group, spare, overwritten, named>>
  BY DEF Run
<1>2. request \in RequestType /\ LookedUp(request, routes) /\ (~overwritten => Owed(request, routes)) /\ RegisterInv
  <2>1. request # NoHTTPRequest
    BY <1>1 DEF NoHTTPRequest
  <2> QED BY <1>1, <2>1 DEF RoutingInv, ServeInv
<1>3. PICK mw \in SlicesSeen(request) : answer' = RunWithMiddleware(request, mw)
  BY <1>1
<1>4. request.chain \in Globals /\ request.route \in Nat
  BY <1>2 DEF RequestType
<1>5. ChainComplete'
  <2>1. CASE request.route > 0
    <3> DEFINE k == request.route
               c == request.chain \o mw
               ps == Match(routes[k].pattern, SplitPath(request.path)).params
    <3>1. k \in 1..Len(routes)
      <4>1. k \in 0..Len(routes) /\ Len(routes) \in Nat
        BY <1>2 DEF LookedUp, RegisterInv
      <4> QED BY <2>1, <4>1
    <3>2. mw = Content(routes[k].mw) \/ mw = request.mw
      BY <2>1 DEF SlicesSeen
    <3>3. ASSUME ~overwritten PROVE request.owes \subseteq ToSet(mw) /\ Layers(mw, 5)
      <4>1. request.owes \subseteq routes[k].owes /\ request.owes \subseteq ToSet(request.mw) /\ Layers(request.mw, 5)
        BY <1>2, <2>1, <3>3 DEF Owed
      <4>2. routes[k].owes \subseteq ToSet(Content(routes[k].mw)) /\ Layers(Content(routes[k].mw), 5)
        BY <1>2, <3>1, <3>3, RouteCells
      <4> QED BY <3>2, <4>1, <4>2
    <3>4. ASSUME ~overwritten
          PROVE  /\ request.owes \union ToSet(request.chain) \subseteq ToSet(c)
                 /\ \A i, j \in DOMAIN c : i < j => Rank(c[i]) < Rank(c[j])
      BY <1>4, <3>3, <3>4, LayersConcat
    <3>5. answer' = [kind |-> "route", req |-> request, chain |-> c, params |-> ps]
      BY <1>3, <2>1 DEF RunWithMiddleware
    <3> HIDE DEF c, ps
    <3>6. answer'.kind = "route" /\ answer'.req = request /\ answer'.chain = c
      BY <3>5
    <3> QED BY <1>1, <3>4, <3>6 DEF ChainComplete
  <2>2. CASE ~(request.route > 0)
    <3>1. answer' = [kind |-> Unrouted(request), req |-> request, chain |-> request.chain, params |-> {}]
      BY <1>3, <2>2 DEF RunWithMiddleware
    <3>2. answer'.kind = Unrouted(request) /\ answer'.req = request /\ answer'.chain = request.chain
      BY <3>1
    <3>3. Unrouted(request) # "route"
      BY DEF Unrouted
    <3> QED BY <3>2, <3>3 DEF ChainComplete
  <2> QED BY <2>1, <2>2
<1> QED BY <1>1, <1>5, DoneInv

LEMMA RunTornInv ==
  ASSUME RoutingInv, RunTorn
  PROVE  RoutingInv'
<1>1. /\ request.pc = "matched" /\ request' = [request EXCEPT !.pc = "done"] /\ answer' = [kind |-> "torn"]
      /\ UNCHANGED <<routes, globals, group, spare, overwritten, named>>
  BY DEF RunTorn
<1>2. answer'.kind = "torn"
  BY <1>1
<1>3. ChainComplete'
  BY <1>2 DEF ChainComplete
<1> QED BY <1>1, <1>3, DoneInv

LEMMA RoutingStep == RoutingInv /\ [RoutingNext]_routeVars => RoutingInv'
<1> SUFFICES ASSUME RoutingInv, [RoutingNext]_routeVars PROVE RoutingInv'
  OBVIOUS
<1>1. CASE UNCHANGED routeVars
  <2>1. RegisterInv'
    BY <1>1 DEF RoutingInv, RegisterInv, CleanInv, routeVars
  <2>2. ServeInv'
    BY <1>1 DEF RoutingInv, ServeInv, routeVars, ChainComplete
  <2> QED BY <2>1, <2>2 DEF RoutingInv
<1>2. CASE Register(UseGlobal)
  BY <1>2, UseGlobalInv DEF Register
<1>3. ASSUME NEW o \in Opened, Register(NewGroup(o[1], o[2])) PROVE RoutingInv'
  <2>1. o[1] \in Grouping /\ o[2] \in BOOLEAN
    BY RoutingAssumption
  <2>2. request.pc # "done" /\ NewGroup(o[1], o[2])
    BY <1>3 DEF Register
  <2> QED BY <2>1, <2>2, NewGroupInv
<1>4. ASSUME NEW g \in Grouping, Register(GroupUse(g)) PROVE RoutingInv'
  BY <1>4, GroupUseInv DEF Register
<1>5. ASSUME NEW d \in Declared, Register(AddRoute(d)) PROVE RoutingInv'
  BY <1>5, AddRouteInv DEF Register
<1>6. ASSUME NEW i \in 1..MaxRoutes, Register(RouteMiddleware(i)) PROVE RoutingInv'
  BY <1>6, RouteMiddlewareInv DEF Register
<1>7. ASSUME NEW i \in 1..MaxRoutes, Register(Name(i)) PROVE RoutingInv'
  BY <1>7, NameInv DEF Register
<1>8. ASSUME NEW m \in Method, NEW p \in Path, Lookup(m, p) PROVE RoutingInv'
  BY <1>8, LookupInv
<1>9. CASE Run
  BY <1>9, RunInv
<1>10. CASE RunTorn
  BY <1>10, RunTornInv
<1> QED BY <1>1, <1>2, <1>3, <1>4, <1>5, <1>6, <1>7, <1>8, <1>9, <1>10 DEF RoutingNext

LEMMA RoutingInvExact == RoutingInv => RoutesExact
<1> SUFFICES ASSUME RoutingInv PROVE RoutesExact
  OBVIOUS
<1>1. /\ routes \in Seq(RouteType) /\ Len(routes) \in Nat /\ DOMAIN routes = 1..Len(routes)
      /\ named \in 0..Len(routes)
  BY DEF RoutingInv, RegisterInv
<1>2. \A i \in 1..Len(routes) : routes[i].pattern \in Pattern
  <2>1. \A i \in 1..Len(routes) : routes[i] \in RouteType
    BY <1>1
  <2>2. \A r \in RouteType : r.pattern \in Pattern
    BY DEF RouteType
  <2> QED BY <2>1, <2>2
<1>3. RequestsFindRoutes
  <2> SUFFICES ASSUME request.pc = "matched", request.allowed = AllowedMethods(SplitPath(request.path))
               PROVE  /\ request.route > 0 => Stands(routes[request.route].pattern, request.path)
                      /\ (request.route = 0) <=> ~Serves(request.method, request.path)
                      /\ request.allowed = {m \in Method : Serves(m, request.path)}
                      /\ \A i \in DOMAIN routes :
                           i < request.route /\ routes[i].method = routes[request.route].method =>
                             ~Stands(routes[i].pattern, request.path)
    BY Zenon DEF RequestsFindRoutes
  <2>1. request \in RequestType /\ LookedUp(request, routes)
    <3>1. request # NoHTTPRequest
      BY DEF NoHTTPRequest
    <3> QED BY <3>1 DEF RoutingInv, ServeInv
  <2> DEFINE path == request.path
             parts == SplitPath(path)
             k == request.route
  <2>2. path \in Path /\ request.method \in Method /\ request.allowed \subseteq Method /\ k \in Nat
    BY <2>1 DEF RequestType
  <2>3. \A i \in 1..Len(routes) : Stands(routes[i].pattern, path) <=> Match(routes[i].pattern, parts).ok
    BY <1>2, <2>2, StandsIs
  <2>4. \A m \in Method : Serves(m, path) <=> m \in AllowedMethods(parts)
    BY <1>1, <2>2, ServesIs
  <2>5. /\ k \in 0..Len(routes)
        /\ k > 0 => Match(routes[k].pattern, parts).ok
        /\ k > 0 => \A i \in 1..Len(routes) : i < k => ~Hit(routes, i, routes[k].method, parts)
        /\ k = 0 <=> request.method \notin request.allowed
    BY <2>1 DEF LookedUp
  <2>6. request.allowed = AllowedMethods(parts)
    OBVIOUS
  <2> HIDE DEF k, parts, path
  <2>7. k > 0 => Stands(routes[k].pattern, path)
    <3>1. k > 0 => k \in 1..Len(routes)
      BY <1>1, <2>5
    <3> QED BY <2>3, <2>5, <3>1
  <2>8. k = 0 <=> ~Serves(request.method, path)
    BY <2>2, <2>4, <2>5, <2>6
  <2>9. request.allowed = {m \in Method : Serves(m, path)}
    BY <2>2, <2>4, <2>6
  <2>10. ASSUME NEW i \in DOMAIN routes, i < k, routes[i].method = routes[k].method
         PROVE  ~Stands(routes[i].pattern, path)
    <3>1. i \in 1..Len(routes) /\ k > 0
      BY <1>1, <2>2, <2>10
    <3>2. ~Hit(routes, i, routes[k].method, parts)
      BY <2>5, <2>10, <3>1
    <3>3. ~Match(routes[i].pattern, parts).ok
      BY <2>10, <3>2 DEF Hit
    <3> QED BY <2>3, <3>1, <3>3
  <2> QED BY <2>7, <2>8, <2>9, <2>10 DEF k, path
<1>4. URLLeadsBack
  <2> SUFFICES ASSUME named > 0, NEW kv \in Values(routes[named].pattern),
                      \A n \in DOMAIN kv : ~Contains(kv[n], NoText)
               PROVE  LET pattern == routes[named].pattern
                          parts == SplitPath(Received(URL(pattern, kv)))
                          back == Match(pattern, parts)
                      IN /\ back.ok /\ back.params = {<<n, kv[n]>> : n \in DOMAIN kv}
                         /\ MatchRoute(routes[named].method, parts) \in 1..named
    BY Zenon DEF URLLeadsBack
  <2> DEFINE p == routes[named].pattern
             q == SplitPath(Received(URL(p, kv)))
             m == MatchRoute(routes[named].method, q)
  <2>1. named \in 1..Len(routes)
    BY <1>1
  <2>2. Shape(p)
    BY <1>2, <2>1, PatternShape
  <2>3. Spells(q, p, kv)
    BY <2>2, URLSpells
  <2>4. Fits(p, q) /\ Bound(p, q) = {<<n, kv[n]>> : n \in DOMAIN kv}
    <3> HIDE DEF p, q
    <3> QED BY <2>2, <2>3, SpellsMatch DEF p
  <2>5. Match(p, q).ok /\ Match(p, q).params = {<<n, kv[n]>> : n \in DOMAIN kv}
    <3> HIDE DEF p, q
    <3> QED BY <2>4, MatchIs
  <2>6. Hit(routes, named, routes[named].method, q)
    BY <2>5 DEF Hit
  <2>7. /\ m \in 0..Len(routes)
        /\ m = 0 => \A i \in 1..Len(routes) : ~Hit(routes, i, routes[named].method, q)
        /\ m > 0 => \A i \in 1..Len(routes) : i < m => ~Hit(routes, i, routes[named].method, q)
    <3> HIDE DEF q
    <3> QED BY <1>1, MatchRouteIs
  <2> HIDE DEF m, q, p
  <2>8. m # 0 /\ ~(named < m)
    <3>1. m # 0
      BY <2>1, <2>6, <2>7
    <3>2. m > 0
      BY <1>1, <2>7, <3>1
    <3> QED BY <2>1, <2>6, <2>7, <3>1, <3>2
  <2>9. m \in 1..named
    BY <1>1, <2>1, <2>7, <2>8
  <2> QED BY <2>5, <2>9, Zenon DEF m, q, p
<1>5. ChainComplete
  BY DEF RoutingInv, ServeInv
<1> QED BY <1>3, <1>4, <1>5 DEF RoutesExact

\* Requests find the first route that stands for them, through every middleware
\* that applies, and named URLs of words lead back (framework/routing/router.go
\* 121-305, group.go, route.go 31-36), for every set of patterns whose wildcard is
\* last and whose names differ, every number of routes and parts, and whatever is
\* registered while a request is served.  ChainComplete says which chains it leaves
\* out: those of a program that gives one slice twice, and torn ones.
THEOREM RoutesServe == RoutingSpec => []RoutesExact
<1> QED BY RoutingInitInv, RoutingStep, RoutingInvExact, PTL DEF RoutingSpec
=============================================================================
