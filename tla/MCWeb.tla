------------------------------- MODULE MCWeb -------------------------------
(***************************************************************************)
(* The web layer for TLC, each part by itself: a behaviour is a behaviour  *)
(* of the part chosen at the start, and the others rest.                   *)
(*   routing    routes, middlewares and named URLs (HTTPRouting)           *)
(*   session    sessions and logins (SessionAuth)                          *)
(*   container  services and providers (AppContainer)                      *)
(*   roles      roles, permissions and wildcards (Roles)                   *)
(*   ratelimit  the rate limiter (RateLimit)                               *)
(*   answer     one answer under the middlewares (MCAnswer)                *)
(***************************************************************************)
EXTENDS HTTPRouting, SessionAuth, AppContainer, Roles, RateLimit, MCAnswer

VARIABLE part

\* The routes an application declares: on the router, with the caller's slice of
\* middlewares or without, and on its groups.
Lit(t) == [kind |-> "lit", text |-> t]
Param(n) == [kind |-> "param", text |-> n]
Wild(n) == [kind |-> "wild", text |-> n]
On(m, p, place) == [method |-> m, pattern |-> p, on |-> place]

Routes ==
  {On("GET", p, "router") :
     p \in {<<>>, <<Lit("a")>>, <<Param("x")>>, <<Lit("a"), Param("x")>>,
            <<Param("x"), Param("y")>>, <<Lit("a"), Wild("r")>>}}
  \union {On("POST", p, "router") : p \in {<<Lit("a")>>, <<Param("x")>>}}
  \union {On("HEAD", <<Lit("a")>>, "router")}
  \union {On("GET", <<Lit("a")>>, place) : place \in {"lent", "group", "sub"}}

Groups == {<<"group", FALSE>>, <<"group", TRUE>>, <<"other", TRUE>>, <<"sub", FALSE>>}

webVars == <<part, routeVars, sessVars, contVars, roleVars, rateVars, answerVars>>

WebTypeOK ==
  RoutingTypeOK /\ SessTypeOK /\ ContTypeOK /\ RolesTypeOK /\ RateTypeOK /\ AnswerTypeOK

WebInit ==
  /\ part \in {"routing", "session", "container", "roles", "ratelimit", "answer"}
  /\ RoutingInit /\ SessInit /\ ContInit /\ RolesInit /\ RateInit /\ AnswerInit
  /\ part = "session" \/ savesFirst
  /\ part = "answer" \/ (around = <<>> /\ ~out.wrapped)

RoutingPart ==
  part = "routing" /\ RoutingNext /\ UNCHANGED <<part, sessVars, contVars, roleVars, rateVars, answerVars>>
SessionPart ==
  part = "session" /\ SessNext /\ UNCHANGED <<part, routeVars, contVars, roleVars, rateVars, answerVars>>
ContainerPart ==
  part = "container" /\ ContNext /\ UNCHANGED <<part, routeVars, sessVars, roleVars, rateVars, answerVars>>
RolesPart ==
  part = "roles" /\ RolesNext /\ UNCHANGED <<part, routeVars, sessVars, contVars, rateVars, answerVars>>
RatePart ==
  part = "ratelimit" /\ RateNext /\ UNCHANGED <<part, routeVars, sessVars, contVars, roleVars, answerVars>>
AnswerPart ==
  part = "answer" /\ AnswerNext /\ UNCHANGED <<part, routeVars, sessVars, contVars, roleVars, rateVars>>

WebNext == RoutingPart \/ SessionPart \/ ContainerPart \/ RolesPart \/ RatePart \/ AnswerPart

WebSpec == WebInit /\ [][WebNext]_webVars
=============================================================================
