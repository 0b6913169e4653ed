-------------------------------- MODULE Roles --------------------------------
(***************************************************************************)
(* Role based permissions (framework/roles/rbac.go): Can asks the          *)
(* application for the user's roles, then takes the read lock and matches  *)
(* the definitions there are by then.  Roles are defined again and users   *)
(* gain and lose them meanwhile.  A permission is the sequence of its      *)
(* segments between colons.                                                *)
(***************************************************************************)
EXTENDS Naturals, Sequences, SequencesExt

CONSTANTS
  Role,    \* names of roles
  MaxSegs  \* bound on the segments of a permission that is asked for

ASSUME RolesAssumption == MaxSegs \in Nat

Segment == {"u", "c", "*"}
Permission == SeqOf(Segment, MaxSegs) \ {<<>>}
Granted == { <<"*">>, <<"u">>, <<"u", "*">>, <<"u", "c">>, <<"*", "c">>, <<"u", "*", "c">> }

VARIABLES
  defined,  \* role -> its permissions; {} if it is not defined
  holds,    \* what userRolesFn returns
  ask       \* the Can that is running: the permission, the roles resolved, the answer

roleVars == <<defined, holds, ask>>

NoAsk == [pc |-> "idle"]

RolesTypeOK ==
  /\ defined \in [Role -> SUBSET Granted] /\ holds \subseteq Role
  /\ ask.pc \in {"idle", "resolved", "answered"}

RolesInit == defined = [r \in Role |-> {}] /\ holds = {} /\ ask = NoAsk

---------------------------------------------------------------------------
\* Mutant of IsWildcardMatch: a star may stand for no segment.
StarTakesNothing(p, t) ==
  LET n == Len(p)  open == p[n] = "*"  fixed == IF open THEN n - 1 ELSE n
  IN /\ IF open THEN Len(t) >= fixed ELSE Len(t) = fixed
     /\ \A i \in 1..fixed : p[i] \in {"*", t[i]}

\* isWildcardMatch: a "*" at the end takes what is left, at least one segment,
\* any other "*" exactly one; without one at the end the lengths agree.
IsWildcardMatch(p, t) ==
  LET n == Len(p)  open == p[n] = "*"  fixed == IF open THEN n - 1 ELSE n
  IN /\ IF open THEN Len(t) > fixed ELSE Len(t) = fixed
     /\ \A i \in 1..fixed : p[i] \in {"*", t[i]}

MatchesPermission(perms, t) == t \in perms \/ \E p \in perms : IsWildcardMatch(p, t)

\* Define replaces the role.
Define(r, perms) ==
  /\ defined' = [defined EXCEPT ![r] = perms]
  /\ UNCHANGED <<holds, ask>>

\* The application assigns and withdraws roles.
Assign(r) ==
  /\ holds' = IF r \in holds THEN holds \ {r} ELSE holds \union {r}
  /\ UNCHANGED <<defined, ask>>

Resolve(t) ==
  /\ ask.pc # "resolved"
  /\ ask' \in {[pc |-> "resolved", perm |-> t, roles |-> holds], NoAsk}  \* userRolesFn fails
  /\ UNCHANGED <<defined, holds>>

\* Roles that are not defined are passed over.
Can ==
  /\ ask.pc = "resolved"
  /\ ask' = [pc |-> "answered", perm |-> ask.perm, roles |-> ask.roles,
             yes |-> \E r \in ask.roles : MatchesPermission(defined[r], ask.perm)]
  /\ UNCHANGED <<defined, holds>>

\* AllPermissions, for the roles Can used.
AllPermissions == UNION {defined[r] : r \in ask.roles}

RolesNext ==
  \/ \E r \in Role : Assign(r) \/ \E p \in Granted : Define(r, {p})
  \/ \E t \in Permission : Resolve(t)
  \/ Can

RolesSpec == RolesInit /\ [][RolesNext]_roleVars

---------------------------------------------------------------------------
\* The permissions a pattern stands for: every "*" but the last segment is any
\* one segment, a "*" at the end any segments, one or more (rbac.go 144-153).
Denotes(p) ==
  {t \in Permission :
     \E cut \in {SubSeq(t, 1, i) : i \in 1..Len(t)} :
       /\ Len(cut) = Len(p) /\ (cut # t => Last(p) = "*")
       /\ \A i \in DOMAIN p : p[i] # "*" => cut[i] = p[i]}

\* Can says yes exactly if a role the user held when it asked has, as defined
\* when it looked, a permission that stands for the one asked for (rbac.go
\* 73-95), and then AllPermissions lists one that does.
CanExact ==
  [][ Can => ask'.yes = \E p \in AllPermissions : ask.perm \in Denotes(p) ]_roleVars
=============================================================================
