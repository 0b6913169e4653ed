---------------------------- MODULE HTTPRouting ----------------------------
(***************************************************************************)
(* The HTTP router (framework/routing): routes and groups that are         *)
(* registered while requests are served, matching in registration order,   *)
(* implicit HEAD, 405 with Allow, automatic OPTIONS, middleware chains and *)
(* named URLs.  A path is the sequence of its parts, "/a//" being          *)
(* <<"a", "", "">>.  ServeHTTP matches under the read lock and runs the    *)
(* chain after it has released it.  A slice of middlewares is a value, but *)
(* for the ones that still lie in an array of the caller: appending to     *)
(* those writes into the array while it has room.                          *)
(***************************************************************************)
EXTENDS Integers, Sequences, SequencesExt, FiniteSets

CONSTANTS
  Word,       \* the texts between two slashes, but for the empty one
  Declared,   \* the routes the application may register: method, pattern, where
  Opened,     \* the groups it may open, with the caller's slice of middlewares or not
  Room,       \* whether the caller's slice of middlewares has a cell to spare
  MaxRoutes,  \* bound on registered routes
  MaxOps,     \* bound on registration calls
  MaxParts    \* bound on the parts of a request path

Method == {"GET", "HEAD", "POST", "OPTIONS"}
NoText == ""  \* the part between two slashes and after the last one
Part == Word \union {NoText}
Path == SeqOf(Part, MaxParts)

\* Texts a URL does not bring over as they are.
Odd == {"a?b", "%2F"}

\* What parsePattern makes of a pattern; a literal is never empty.
PatternSegment == [kind : {"lit", "param", "wild"}, text : STRING]
Regular(p) ==
  /\ p \in Seq(PatternSegment)
  /\ \A i \in 1..Len(p) : (p[i].kind = "lit" => p[i].text \in Word) /\ (p[i].kind = "wild" => i = Len(p))
  /\ \A i, j \in 1..Len(p) : p[i].kind # "lit" /\ p[j].kind # "lit" /\ p[i].text = p[j].text => i = j

\* Where a route is registered: on a group, or on the router, there with the
\* caller's slice of middlewares ("lent") or without.
Grouping == {"group", "other", "sub"}
Place == {"router", "lent"} \union Grouping

\* Wildcards are last, and the parameters of a pattern have different names.
ASSUME RoutingAssumption ==
  /\ {MaxRoutes, MaxOps, MaxParts} \subseteq Nat /\ Room \in BOOLEAN
  /\ NoText \notin Word /\ Odd \intersect Part = {}
  /\ Opened \subseteq Grouping \X BOOLEAN
  /\ \A d \in Declared : d.method \in Method /\ d.on \in Place /\ Regular(d.pattern)

VARIABLES
  routes,   \* registered routes in order; the code keeps one list per method
  globals,  \* router.middleware
  group,    \* two groups and a sub-group of the first, with what they owe their routes
  spare,    \* the spare cell of the caller's array
  overwritten, \* reference: that cell was written although it was in use
  named,    \* the route that has the name, 0 if none has
  request,  \* the request being served; one is followed, they do not affect each other
  answer,   \* what became of it
  ops

routeVars == <<routes, globals, group, spare, overwritten, named, request, answer, ops>>

---------------------------------------------------------------------------
(* Paths and patterns.                                                     *)

\* Mutant of SplitPath: slashes stay.
SplitKeepsSlash(p) == p

\* splitPath drops one leading and one trailing slash.
SplitPath(p) ==
  LET q == IF p # <<>> /\ Last(p) = NoText THEN Front(p) ELSE p IN IF q = <<NoText>> THEN <<>> ELSE q

NoMatch == [ok |-> FALSE, params |-> {}]

\* compiledRoute.match: the parameters as pairs; a wildcard takes the rest and
\* anything else must use up the path.
Match(pattern, parts) ==
  LET n == Len(pattern)
      wild == n > 0 /\ pattern[n].kind = "wild"
      fixed == IF wild THEN n - 1 ELSE n
      fits == /\ IF wild THEN Len(parts) >= fixed ELSE Len(parts) = fixed
              /\ \A i \in 1..fixed : pattern[i].kind = "lit" => parts[i] = pattern[i].text
  IN IF ~fits THEN NoMatch
     ELSE [ok |-> TRUE,
           params |-> {<<pattern[i].text, <<parts[i]>>>> : i \in {i \in 1..fixed : pattern[i].kind = "param"}}
             \union (IF wild THEN {<<pattern[n].text, SubSeq(parts, n, Len(parts))>>} ELSE {})]

\* matchRoute: the first route of the method that matches, 0 if none does.
MatchRoute(method, parts) ==
  LET hits == {i \in DOMAIN routes : routes[i].method = method /\ Match(routes[i].pattern, parts).ok}
  IN IF hits = {} THEN 0 ELSE CHOOSE i \in hits : \A j \in hits : i <= j

\* allowedMethods: the methods with a route for the path, and HEAD with GET.
AllowedMethods(parts) ==
  LET ms == {m \in Method : MatchRoute(m, parts) > 0} IN
  IF "GET" \in ms THEN ms \union {"HEAD"} ELSE ms

\* The sequences of s, one after the other.
Joined(s) ==
  LET upTo[i \in 0..Len(s)] == IF i = 0 THEN <<>> ELSE upTo[i - 1] \o s[i] IN upTo[Len(s)]

\* Router.URL: the text of the generated URL, split at its slashes, with the
\* values as they are; "missing" without a parameter.
URL(pattern, kv) ==
  LET seg(s) == IF s.kind = "lit" THEN <<s.text>>
                ELSE IF s.text \in DOMAIN kv /\ kv[s.text] # <<>> THEN kv[s.text] ELSE <<NoText>>
  IN IF \E i \in 1..Len(pattern) : pattern[i].kind = "param" /\ pattern[i].text \notin DOMAIN kv
     THEN "missing"
     ELSE Joined([i \in 1..Len(pattern) |-> seg(pattern[i])])

\* The path of a request to a URL: a question mark ends it, and escapes are
\* decoded (net/url, external).
Received(url) ==
  LET ends == {i \in DOMAIN url : url[i] = "a?b"}
      path == IF ends = {} THEN url ELSE Append(SubSeq(url, 1, Min(ends) - 1), "a")
  IN Joined([i \in 1..Len(path) |-> IF path[i] = "%2F" THEN <<NoText, NoText>> ELSE <<path[i]>>])

---------------------------------------------------------------------------
(* Slices of middlewares.  The caller's slice has one middleware, given to *)
(* a group or to a route with "mws...", which keep the slice itself.       *)

Mw(layer, n) == [layer |-> layer, of |-> n]
Rank(mw) ==
  CASE mw.layer = "global" -> 1 [] mw.layer = "given" -> 2 [] mw.layer \in {"group", "other"} -> 3
    [] mw.layer = "sub" -> 4 [] mw.layer = "route" -> 5

Given == Mw("given", 0)
Unused == Mw("none", 0)

\* A slice has cells of the caller's array, or is the only one of its array.
Own(s) == [lent |-> 0, own |-> s]
Lent == [lent |-> 1, own |-> <<>>]
Content(s) == CASE s.lent = 0 -> s.own [] s.lent = 1 -> <<Given>> [] s.lent = 2 -> <<Given, spare>>

\* append(s, mw): in place while the array has room, else into a new array.
InPlace(s) == s.lent = 1 /\ Room
Appended(s, mw) == IF InPlace(s) THEN [s EXCEPT !.lent = 2] ELSE Own(Append(Content(s), mw))
AppendTo(s, mw) ==
  /\ spare' = IF InPlace(s) THEN mw ELSE spare
  /\ overwritten' = (overwritten \/ (InPlace(s) /\ spare # Unused))

---------------------------------------------------------------------------
(* Registration.                                                           *)

NoGroup == [made |-> FALSE, mw |-> Own(<<>>), owes |-> {}]
NoHTTPRequest == [pc |-> "none"]
NoAnswer == [kind |-> "none"]

\* Only the router's own groups and routes ever write into a caller's array
\* (group.go 19-26).
RoutingTypeOK ==
  /\ Len(routes) <= MaxRoutes /\ \A i \in DOMAIN routes : routes[i].method \in Method
  /\ globals \in {<<>>, <<Mw("global", 0)>>} /\ DOMAIN group = Grouping
  /\ spare.layer \in {"none", "group", "other", "route"} /\ overwritten \in BOOLEAN
  /\ named \in 0..MaxRoutes /\ request.pc \in {"none", "matched", "done"}
  /\ answer.kind \in {"none", "route", "torn", "auto", "405", "404"} /\ ops \in 0..MaxOps

RoutingInit ==
  /\ routes = <<>> /\ globals = <<>> /\ named = 0 /\ group = [g \in Grouping |-> NoGroup]
  /\ spare = Unused /\ overwritten = FALSE
  /\ request = NoHTTPRequest /\ answer = NoAnswer /\ ops = 0

UseGlobal ==
  /\ globals = <<>> /\ globals' = <<Mw("global", 0)>>
  /\ UNCHANGED <<routes, group, spare, overwritten, named, request, answer>>

\* Router.Group, which keeps the caller's slice, and Group.Group, which copies
\* what its parent has by then.
NewGroup(g, lent) ==
  /\ ~group[g].made /\ (g = "sub" => group["group"].made /\ ~lent)
  /\ group' = [group EXCEPT ![g] =
       IF g = "sub" THEN [group["group"] EXCEPT !.mw = Own(Content(group["group"].mw))]
       ELSE IF lent THEN [made |-> TRUE, mw |-> Lent, owes |-> {Given}]
       ELSE [NoGroup EXCEPT !.made = TRUE]]
  /\ UNCHANGED <<routes, globals, spare, overwritten, named, request, answer>>

GroupUse(g) ==
  LET mw == Mw(g, 0) IN
  /\ group[g].made /\ mw \notin group[g].owes
  /\ group' = [group EXCEPT ![g] = [made |-> TRUE, mw |-> Appended(@.mw, mw), owes |-> @.owes \union {mw}]]
  /\ AppendTo(group[g].mw, mw)
  /\ UNCHANGED <<routes, globals, named, request, answer>>

\* addRoute, with the slice of the caller, or through a group, which copies its
\* own.  Route and compiledRoute keep the same slice and grow alike.
Registered(d) ==
  LET via == group[d.on] IN
  [method |-> d.method, pattern |-> d.pattern,
   mw |-> CASE d.on = "router" -> Own(<<>>) [] d.on = "lent" -> Lent [] OTHER -> Own(Content(via.mw)),
   owes |-> CASE d.on = "router" -> {} [] d.on = "lent" -> {Given} [] OTHER -> via.owes]
AddRoute(d) ==
  /\ Len(routes) < MaxRoutes /\ (d.on \in Grouping => group[d.on].made)
  /\ routes' = Append(routes, Registered(d))
  /\ UNCHANGED <<globals, group, spare, overwritten, named, request, answer>>

\* Route.Middleware, without the lock, after the route is registered: a request
\* that has found the route meanwhile may be reading the slice.
RouteMiddleware(i) ==
  LET mw == Mw("route", i) IN
  /\ i \in DOMAIN routes /\ mw \notin routes[i].owes
  /\ routes' = [routes EXCEPT ![i].mw = Appended(@, mw), ![i].owes = @ \union {mw}]
  /\ AppendTo(routes[i].mw, mw)
  /\ request' = IF request.pc = "matched" /\ request.route = i THEN [request EXCEPT !.raced = TRUE] ELSE request
  /\ UNCHANGED <<globals, group, named, answer>>

Name(i) ==
  /\ i \in DOMAIN routes /\ named # i /\ named' = i
  /\ UNCHANGED <<routes, globals, group, spare, overwritten, request, answer>>

---------------------------------------------------------------------------
(* ServeHTTP.                                                              *)

\* Under the read lock: the route, for HEAD that of GET if it has none, and the
\* methods for a 405.
RouteFound(method, parts) ==
  LET own == MatchRoute(method, parts) IN
  IF own = 0 /\ method = "HEAD" THEN MatchRoute("GET", parts) ELSE own

Lookup(method, path) ==
  /\ request.pc = "none"
  /\ LET parts == SplitPath(path)
         route == RouteFound(method, parts)
     IN request' = [pc |-> "matched", method |-> method, path |-> path,
                    route |-> route, allowed |-> AllowedMethods(parts), chain |-> globals, raced |-> FALSE,
                    mw |-> IF route > 0 THEN Content(routes[route].mw) ELSE <<>>,
                    owes |-> IF route > 0 THEN routes[route].owes ELSE {}]
  /\ UNCHANGED <<routes, globals, group, spare, overwritten, named, answer>>

\* After it: the chain global, group, route, handler; without a route the
\* handler is the 405, the automatic OPTIONS or the 404.
Unrouted(r) == IF r.allowed = {} THEN "404" ELSE IF r.method = "OPTIONS" THEN "auto" ELSE "405"
RunWithMiddleware(r, mw) ==
  IF r.route > 0
  THEN [kind |-> "route", req |-> r, chain |-> r.chain \o mw,
        params |-> Match(routes[r.route].pattern, SplitPath(r.path)).params]
  ELSE [kind |-> Unrouted(r), req |-> r, chain |-> r.chain, params |-> {}]

\* The slice the route has now, or, if Middleware raced, as it was before.
SlicesSeen(r) ==
  {IF r.route > 0 THEN Content(routes[r.route].mw) ELSE <<>>} \union (IF r.raced THEN {r.mw} ELSE {})

Run ==
  /\ request.pc = "matched"
  /\ request' = [request EXCEPT !.pc = "done"]
  /\ \E mw \in SlicesSeen(request) : answer' = RunWithMiddleware(request, mw)
  /\ UNCHANGED <<routes, globals, group, spare, overwritten, named>>

\* If Middleware raced, the length of one slice may be read with the array of
\* the other.
RunTorn ==
  /\ request.pc = "matched" /\ request.raced
  /\ request' = [request EXCEPT !.pc = "done"]
  /\ answer' = [kind |-> "torn"]
  /\ UNCHANGED <<routes, globals, group, spare, overwritten, named>>

Register(A) == request.pc # "done" /\ ops < MaxOps /\ ops' = ops + 1 /\ A

RoutingNext ==
  \/ Register(UseGlobal)
  \/ \E o \in Opened : Register(NewGroup(o[1], o[2]))
  \/ \E g \in Grouping : Register(GroupUse(g))
  \/ \E d \in Declared : Register(AddRoute(d))
  \/ \E i \in 1..MaxRoutes : Register(RouteMiddleware(i)) \/ Register(Name(i))
  \/ \E m \in Method, p \in Path : Lookup(m, p) /\ UNCHANGED ops
  \/ Run /\ UNCHANGED ops
  \/ RunTorn /\ UNCHANGED ops

RoutingSpec == RoutingInit /\ [][RoutingNext]_routeVars

---------------------------------------------------------------------------
(* The reference: a pattern stands for every path that some values of its  *)
(* parameters produce.                                                     *)

\* The ways to write a path of these parts: with a slash at the end or, if the
\* last part is not empty, without.
Written(parts) ==
  CASE parts = <<>> -> {<<>>, <<NoText>>, <<NoText, NoText>>}
    [] parts = <<NoText>> -> {}
    [] OTHER -> {Append(parts, NoText)} \union (IF Last(parts) # NoText THEN {parts} ELSE {})

\* The values of a pattern's parameters: any parts for a wildcard, one part for
\* any other.
Names(pattern) == {pattern[i].text : i \in {i \in 1..Len(pattern) : pattern[i].kind # "lit"}}
Values(pattern) ==
  LET wild == \E i \in 1..Len(pattern) : pattern[i].kind = "wild" IN
  {kv \in [Names(pattern) -> IF wild THEN Path ELSE SeqOf(Part, 1)] :
     \A i \in 1..Len(pattern) : pattern[i].kind = "param" => Len(kv[pattern[i].text]) = 1}
Expansion(pattern, kv) ==
  Joined([i \in 1..Len(pattern) |->
    IF pattern[i].kind = "lit" THEN <<pattern[i].text>> ELSE kv[pattern[i].text]])
Stands(pattern, path) ==
  \E kv \in Values(pattern) : path \in Written(Expansion(pattern, kv))

Serves(method, path) ==
  \E i \in DOMAIN routes :
    /\ routes[i].method \in IF method = "HEAD" THEN {"HEAD", "GET"} ELSE {method}
    /\ Stands(routes[i].pattern, path)

\* A request runs the first route registered for its method whose pattern
\* stands for its path, with the values that produce the path; it is answered
\* 405 (or by the automatic OPTIONS) exactly if only other methods have one,
\* and then Allow lists exactly the methods that would be served (router.go
\* 168-279).  Stated as long as no registration changed the answer meanwhile.
RequestsFindRoutes ==
  request.pc = "matched" =>
    LET r == request IN
    r.allowed = AllowedMethods(SplitPath(r.path)) =>
      /\ r.route > 0 => Stands(routes[r.route].pattern, r.path)
      /\ (r.route = 0) <=> ~Serves(r.method, r.path)
      /\ r.allowed = {m \in Method : Serves(m, r.path)}
      /\ \A i \in DOMAIN routes :
           i < r.route /\ routes[i].method = routes[r.route].method => ~Stands(routes[i].pattern, r.path)

\* A request runs through every middleware the router had when it was matched,
\* every one its route's groups had when the route was added and every one the
\* route had been given itself, in the order global, group, route, whatever is
\* registered while it runs (router.go 41-55, 215-222, group.go 13-26, 73-80,
\* route.go 31-36).  Excepted: an append that wrote a cell in use of a slice the
\* caller gave twice, which loses what a route or group was given there, and a
\* Middleware call on its route that tears the slice it reads.
ChainComplete ==
  /\ answer.kind = "route" /\ ~overwritten =>
       /\ answer.req.owes \union ToSet(answer.req.chain) \subseteq ToSet(answer.chain)
       /\ \A i, j \in DOMAIN answer.chain :
            i < j => Rank(answer.chain[i]) < Rank(answer.chain[j])
  /\ answer.kind \in {"405", "404", "auto"} => answer.chain = answer.req.chain

\* The URL of a named route leads back to it, or to a route before it, with the
\* parameters it was made from, if they are words: one for a parameter, any
\* number, between slashes, for a wildcard (router.go 121-154).  An empty text,
\* a slash, a question mark or an escape in a parameter is written as it is, and
\* the URL is for another path then.
URLLeadsBack ==
  named > 0 =>
    \A kv \in Values(routes[named].pattern) :
      LET pattern == routes[named].pattern
          parts == SplitPath(Received(URL(pattern, kv)))
          back == Match(pattern, parts)
      IN (\A n \in DOMAIN kv : ~Contains(kv[n], NoText)) =>
           /\ back.ok /\ back.params = {<<n, kv[n]>> : n \in DOMAIN kv}
           /\ MatchRoute(routes[named].method, parts) \in 1..named

\* A request finds the route it stands for, through every middleware that
\* applies, and the URL of a named route leads back to it (router.go 121-305).
RoutesExact == RequestsFindRoutes /\ URLLeadsBack /\ ChainComplete
=============================================================================
