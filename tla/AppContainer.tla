---------------------------- MODULE AppContainer ----------------------------
(***************************************************************************)
(* The service container and the start of an application (framework/app):  *)
(* goroutines that Make services while others are registered, replaced or  *)
(* flushed, and the two phases Register and Boot of service providers.  A  *)
(* provider's Register binds the service of its name as a singleton; its   *)
(* Boot may register further providers.                                    *)
(***************************************************************************)
EXTENDS Naturals, Sequences, SequencesExt, FiniteSets

CONSTANTS
  Service,   \* abstracts, one per provider
  Maker,     \* goroutines that call Make
  MaxBuilt,  \* bound on the instances factories build
  MaxBinds   \* bound on registrations outside providers

ASSUME ContainerAssumption == MaxBuilt \in Nat /\ MaxBinds \in Nat

VARIABLES
  binding,   \* bindings and singletons: "none", "transient", "singleton"
  alias,     \* an alias of each service is registered
  instances, \* instances: 0 for none
  make,      \* the Make each goroutine is running
  built,     \* instances built so far; an instance is its number
  given,     \* reference: shared instances handed out since the last Instance or Flush
  providers, \* registered providers in order
  boot,      \* Boot: its phase, the providers it ranges over, how many have booted
  booted,    \* providers whose Boot has run, in order
  binds

contVars == <<binding, alias, instances, make, built, given, providers, boot, booted, binds>>

NoInst == 0
NoMake == [pc |-> "idle"]
Inst == 1..MaxBuilt

ContTypeOK ==
  /\ binding \in [Service -> {"none", "transient", "singleton"}] /\ alias \in [Service -> BOOLEAN]
  /\ instances \in [Service -> Inst \union {NoInst}]
  /\ \A g \in Maker : make[g].pc \in {"idle", "named", "build", "store"}
  /\ built \in 0..MaxBuilt /\ given \in [Service -> SUBSET Inst]
  /\ ToSet(providers) \subseteq Service /\ ToSet(booted) \subseteq Service
  /\ boot.phase \in {"no", "running", "done"} /\ binds \in 0..MaxBinds

ContInit ==
  /\ binding = [s \in Service |-> "none"] /\ alias = [s \in Service |-> FALSE]
  /\ instances = [s \in Service |-> NoInst]
  /\ make = [g \in Maker |-> NoMake] /\ built = 0
  /\ given = [s \in Service |-> {}]
  /\ providers = <<>> /\ booted = <<>> /\ binds = 0
  /\ boot = [phase |-> "no", todo |-> <<>>]

Rebinds(A) ==
  /\ binds < MaxBinds /\ binds' = binds + 1
  /\ A
  /\ UNCHANGED <<make, providers, boot, booted>>

\* Bind and Singleton leave an instance that exists where it is.
Bind(s, kind) ==
  /\ binding' = [binding EXCEPT ![s] = kind]
  /\ UNCHANGED <<alias, instances, built, given>>

Instance(s) ==
  /\ built < MaxBuilt /\ built' = built + 1
  /\ instances' = [instances EXCEPT ![s] = built + 1]
  /\ binding' = [binding EXCEPT ![s] = IF @ = "transient" THEN "singleton" ELSE @]
  /\ given' = [given EXCEPT ![s] = {}]
  /\ UNCHANGED alias

Alias(s) ==
  /\ alias' = [alias EXCEPT ![s] = TRUE]
  /\ UNCHANGED <<binding, instances, built, given>>

Flush ==
  /\ binding' = [s \in Service |-> "none"] /\ alias' = [s \in Service |-> FALSE]
  /\ instances' = [s \in Service |-> NoInst] /\ given' = [s \in Service |-> {}]
  /\ UNCHANGED built

---------------------------------------------------------------------------
(* Make: three critical sections, the factory outside of them.             *)

Stays == UNCHANGED <<binding, alias, providers, boot, booted, binds>>
MakeEnds(g) == make' = [make EXCEPT ![g] = NoMake]
Give(s, i) == given' = [given EXCEPT ![s] = @ \union {i}]

\* The name is resolved under a lock of its own; an alias that is not
\* registered is looked up as a name, and nothing is bound under it.
ResolveAlias(g, s, aliased) ==
  /\ make[g].pc = "idle" /\ built < MaxBuilt
  /\ make' = [make EXCEPT ![g] =
       IF aliased /\ ~alias[s] THEN NoMake ELSE [pc |-> "named", service |-> s]]
  /\ UNCHANGED <<instances, built, given>> /\ Stays

\* The instance if there is one, else the factory and whether to keep the
\* result; an error without a factory.
FindService(g) ==
  /\ make[g].pc = "named"
  /\ LET s == make[g].service IN
     IF instances[s] # NoInst THEN MakeEnds(g) /\ Give(s, instances[s])
     ELSE /\ IF binding[s] = "none" THEN MakeEnds(g)
             ELSE make' = [make EXCEPT ![g] = [pc |-> "build", service |-> s,
                                               single |-> binding[s] = "singleton"]]
          /\ UNCHANGED given
  /\ UNCHANGED <<instances, built>> /\ Stays

\* The factory returns an instance; a transient one is returned as it is.
Build(g) ==
  /\ make[g].pc = "build" /\ built < MaxBuilt
  /\ built' = built + 1
  /\ IF make[g].single
     THEN make' = [make EXCEPT ![g] = [pc |-> "store", service |-> make[g].service, inst |-> built + 1]]
     ELSE MakeEnds(g)
  /\ UNCHANGED <<instances, given>> /\ Stays

BuildFails(g) ==
  /\ make[g].pc = "build" /\ MakeEnds(g)
  /\ UNCHANGED <<instances, built, given>> /\ Stays

\* Mutant of Keep: no second look.
StoreBlindly(g) ==
  /\ make[g].pc = "store"
  /\ instances' = [instances EXCEPT ![make[g].service] = make[g].inst]
  /\ Give(make[g].service, make[g].inst) /\ MakeEnds(g)
  /\ UNCHANGED built /\ Stays

\* The second look: an instance stored meanwhile wins.
Keep(g) ==
  /\ make[g].pc = "store"
  /\ LET s == make[g].service
         i == IF instances[s] # NoInst THEN instances[s] ELSE make[g].inst
     IN instances' = [instances EXCEPT ![s] = i] /\ Give(s, i)
  /\ MakeEnds(g)
  /\ UNCHANGED built /\ Stays

---------------------------------------------------------------------------
(* Application.Register and Boot.                                          *)

Unmade == UNCHANGED <<alias, instances, make, built, given, binds>>

RegisterProvider(p) ==
  /\ ~Contains(providers, p)
  /\ providers' = Append(providers, p)
  /\ binding' = [binding EXCEPT ![p] = "singleton"]
  /\ UNCHANGED <<boot, booted>> /\ Unmade

\* Boot is called by hand and again by Serve; it ranges over the providers
\* there are when it begins.
BootBegins ==
  /\ boot.phase = "no"
  /\ boot' = [phase |-> "running", todo |-> providers]
  /\ UNCHANGED <<binding, providers, booted>> /\ Unmade

BootNext ==
  /\ boot.phase = "running"
  /\ IF boot.todo = <<>>
     THEN boot' = [boot EXCEPT !.phase = "done"] /\ UNCHANGED booted
     ELSE boot' = [boot EXCEPT !.todo = Tail(@)] /\ booted' = Append(booted, Head(boot.todo))
  /\ UNCHANGED <<binding, providers>> /\ Unmade

ContNext ==
  \/ \E s \in Service :
       \/ Rebinds(Bind(s, "transient")) \/ Rebinds(Bind(s, "singleton"))
       \/ Rebinds(Instance(s)) \/ Rebinds(Alias(s)) \/ RegisterProvider(s)
       \/ \E g \in Maker, aliased \in BOOLEAN : ResolveAlias(g, s, aliased)
  \/ Rebinds(Flush)
  \/ \E g \in Maker : FindService(g) \/ Build(g) \/ BuildFails(g) \/ Keep(g)
  \/ BootBegins \/ BootNext

ContSpec == ContInit /\ [][ContNext]_contVars

---------------------------------------------------------------------------
\* "The same instance is returned on every Make call" (container.go 42): between
\* two calls of Instance or Flush all goroutines are given one shared instance
\* of a service, although several may build one at the same time and although
\* it is bound again meanwhile.
OneInstance == \A s \in Service : Cardinality(given[s]) <= 1

\* Every provider that is registered when Boot begins boots exactly once, in
\* the order of registration, and by then all of them have bound their services
\* unless the container is flushed (application.go 69-91); one that is
\* registered later never boots.
BootsOnceInOrder ==
  /\ IsPrefix(booted, providers)
  /\ boot.phase = "running" => IsPrefix(booted \o boot.todo, providers)
  /\ boot.phase = "running" /\ binds = 0 => \A p \in ToSet(providers) : binding[p] # "none"

\* The container shares one instance of a service, and the application boots
\* its providers once and in order, whatever goroutines make, bind and flush
\* meanwhile (container.go 34-131, application.go 71-92).
ContainerExact == OneInstance /\ BootsOnceInOrder
=============================================================================
