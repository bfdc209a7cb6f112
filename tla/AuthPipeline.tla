----------------------------- MODULE AuthPipeline -----------------------------
(***************************************************************************)
(* A request on its way to a handler: Auth of middleware/auth.go with      *)
(* Verifier.Verify and Resolver.Resolve, then the gates of                 *)
(* middleware/require_perm.go, which the gin, echo and chi adapters repeat,*)
(* over the permission rules of authz/permission.go.                       *)
(*                                                                         *)
(* What the two caches promise is taken over from JWKS and                 *)
(* PermissionResolver: a key is found for KeyAge after its withdrawal, a   *)
(* mapping is returned for MappingAge after it was replaced.               *)
(***************************************************************************)
EXTENDS Integers, Sequences

CONSTANTS
  Routes,       \* what stands before a handler: Auth or not, and the gates
  Tokens,       \* the bearer tokens that requests carry
  Mappings,     \* sets of permission strings the token's roles may map to
  Concrete,     \* the segments that concretePermissionSegment accepts
  KeyAge,       \* bound of JWKS: Refresh + Latency
  MappingAge,   \* bound of PermissionResolver: TTL + Latency
  Leeway,       \* VerifierOptions.ClockSkewLeeway
  MaxDuration   \* bound: time that a request takes

\* A gate of a route: what it requires, of the keys, of the acr, of the actor.
Gates == [kind : {"all", "any", "stepup", "human"},
          keys : SUBSET [resource : STRING, action : STRING], acr : STRING]

ASSUME ConstantsAssumption ==
  /\ {} \in Mappings /\ \A m \in Mappings : m \subseteq Seq(STRING)
  /\ \A r \in Routes : r.auth \in BOOLEAN /\ r.gates \in Seq(Gates)
  /\ \A t \in Tokens : t.acr # "none"
  /\ KeyAge \in Nat /\ MappingAge \in Nat /\ Leeway \in Nat
  /\ MaxDuration \in Nat

VARIABLES
  failOpen,    \* the resolver's FailOpen, fixed at construction
  published,   \* IAM server: time since the token's key was last published
  inForce,     \* IAM server: the roles' mapping now and at each earlier time
  sinceExp,    \* time since the token expired, 0 and below if it has not
  pc,          \* where the request is
  age,         \* time since it arrived
  route,       \* the route it takes
  token,       \* the token it carries
  user,        \* the User in its context, or NoUser
  left         \* the gates it has not passed

server == <<published, inForce>>
vars == <<failOpen, server, sinceExp, pc, age, route, token, user, left>>

Window == MappingAge + MaxDuration
KeyWindow == KeyAge + MaxDuration + 1
ExpWindow == Leeway + MaxDuration + 1

NoRoute == [auth |-> FALSE, gates |-> <<>>]
NoToken == [signed |-> FALSE, claims |-> FALSE, roles |-> FALSE, acr |-> "none",
            actor |-> "nobody"]
NoUser == [perms |-> {}, acr |-> "none", actor |-> "nobody"]
Users == [perms : Mappings, acr : { t.acr : t \in Tokens },
          actor : { t.actor : t \in Tokens }] \cup {NoUser}

Suffixes(s) == { SubSeq(s, i, Len(s)) : i \in 1 .. Len(s) + 1 }

TypeOK ==
  /\ failOpen \in BOOLEAN
  /\ published \in 0 .. KeyWindow
  /\ inForce \in [0 .. Window -> Mappings]
  /\ sinceExp \in -1 .. ExpWindow
  /\ pc \in {"idle", "verifying", "resolving", "gates", "handled", "denied"}
  /\ age \in 0 .. MaxDuration
  /\ route \in Routes \cup {NoRoute}
  /\ token \in Tokens \cup {NoToken}
  /\ user \in Users
  /\ left \in Suffixes(route.gates)

Init ==
  /\ failOpen \in BOOLEAN
  /\ published \in {0, KeyWindow}
  /\ \E m \in Mappings : inForce = [i \in 0 .. Window |-> m]
  /\ sinceExp = -1
  /\ pc = "idle"
  /\ age = 0
  /\ route = NoRoute /\ token = NoToken
  /\ user = NoUser
  /\ left = <<>>

-----------------------------------------------------------------------------
(* Permissions: a PermissionKey is a record of two segments, a permission  *)
(* string the sequence of its segments.                                    *)

IsConcrete(k) == k.resource \in Concrete /\ k.action \in Concrete

\* ParsePermission succeeds.
Parses(g) == Len(g) = 2 /\ g[1] # "" /\ g[2] # ""

\* Mutant: the wildcard of a resource leaves the action to be compared.
MatchesAnyResource(k, g) ==
  /\ IsConcrete(k) /\ Parses(g)
  /\ g[1] \in {"*", k.resource} /\ g[2] \in {"*", k.action}

Matches(k, g) ==
  /\ IsConcrete(k)
  /\ Parses(g)
  /\ \/ g[1] = "*" /\ g[2] = "*"
     \/ g[1] \in Concrete /\ g[2] = "*" /\ g[1] = k.resource
     \/ g[1] \in Concrete /\ g[2] \in Concrete /\ g = <<k.resource, k.action>>

HasPermission(k, granted) == \E g \in granted : Matches(k, g)

HasAllPermissions(keys, granted) ==
  (\A k \in keys : HasPermission(k, granted)) /\ keys # {}

HasAnyPermission(keys, granted) == \E k \in keys : HasPermission(k, granted)

IsImpersonating(u) == u.actor # "nobody"

\* A gate: RequirePerm and RequireAllPerms, RequireAnyPerm, RequireStepUp,
\* RequireNoImpersonation.
Passes(gate, u) ==
  /\ u # NoUser
  /\ CASE gate.kind = "all" -> HasAllPermissions(gate.keys, u.perms)
       [] gate.kind = "any" -> HasAnyPermission(gate.keys, u.perms)
       [] gate.kind = "stepup" -> u.acr = gate.acr
       [] gate.kind = "human" -> ~IsImpersonating(u)

-----------------------------------------------------------------------------
(* The request *)

Arrive(r, t) ==
  /\ pc = "idle"
  /\ \E n \in -1 .. ExpWindow : sinceExp' = n
  /\ route' = r /\ token' = t
  /\ pc' = IF r.auth THEN "verifying" ELSE "gates"
  /\ age' = 0
  /\ user' = NoUser
  /\ left' = r.gates
  /\ UNCHANGED <<failOpen, server>>

\* 401 or 403 is written; the rest of the chain is not called.
Deny ==
  /\ pc' = "denied"
  /\ UNCHANGED <<failOpen, server, sinceExp, age, route, token, user, left>>

\* Mutant: the claims are not validated.
AnyClaims == TRUE

\* ValidateWithLeeway, at the time of the lookup's return.
ClaimsValid == token.claims /\ sinceExp =< Leeway

\* KeyByID may find the token's key: what JWKS promises.
KeyFound == published =< KeyAge

\* What the verifier does once it has the key.
Check ==
  /\ token.signed /\ ClaimsValid
  /\ pc' = "resolving"
  /\ UNCHANGED <<failOpen, server, sinceExp, age, route, token, user, left>>

Verify == pc = "verifying" /\ KeyFound /\ Check

\* No token, or one that does not parse, has no kid or a bad signature; the key
\* is unknown or cannot be fetched.
Unauthorized ==
  /\ pc = "verifying"
  /\ Deny

\* Mutant: the list of a resolver that fails open has an empty string in it.
NilList == {<<"">>}

\* What Resolve returns when it fails and failOpen is set.
EmptyList == {}

\* The user with the permissions that Resolve returned goes into the context.
Inject(perms) ==
  /\ user' = [perms |-> perms, acr |-> token.acr, actor |-> token.actor]
  /\ pc' = "gates"
  /\ UNCHANGED <<failOpen, server, sinceExp, age, route, token, left>>

Resolve ==
  /\ pc = "resolving"
  /\ \/ token.roles /\ \E i \in 0 .. MappingAge : Inject(inForce[i])
     \/ ~token.roles /\ Inject({})
     \/ token.roles /\ failOpen /\ Inject(EmptyList)

Unresolved ==
  /\ pc = "resolving" /\ token.roles /\ ~failOpen
  /\ Deny

Pass ==
  /\ pc = "gates" /\ left # <<>> /\ Passes(Head(left), user)
  /\ left' = Tail(left)
  /\ UNCHANGED <<failOpen, server, sinceExp, pc, age, route, token, user>>

Forbid ==
  /\ pc = "gates" /\ left # <<>> /\ ~Passes(Head(left), user)
  /\ Deny

Handle ==
  /\ pc = "gates" /\ left = <<>>
  /\ pc' = "handled"
  /\ UNCHANGED <<failOpen, server, sinceExp, age, route, token, user, left>>

Finish ==
  /\ pc \in {"handled", "denied"}
  /\ pc' = "idle" /\ age' = 0 /\ sinceExp' = -1
  /\ route' = NoRoute /\ token' = NoToken /\ user' = NoUser /\ left' = <<>>
  /\ UNCHANGED <<failOpen, server>>

-----------------------------------------------------------------------------
(* Time and the IAM server *)

Older(n, limit) == IF n < limit THEN n + 1 ELSE limit

\* The server publishes the key, again or for the first time.
Publish ==
  /\ published' = 0
  /\ UNCHANGED <<failOpen, inForce, sinceExp, pc, age, route, token, user, left>>

\* The server still publishes the key or does not, and its mapping is m from now on.
Tick(m) ==
  /\ pc # "idle" => age < MaxDuration
  /\ published' \in {0, Older(published, KeyWindow)}
  /\ inForce' = [i \in 0 .. Window |-> IF i = 0 THEN m ELSE inForce[i - 1]]
  /\ IF pc = "idle" THEN UNCHANGED <<sinceExp, age>>
     ELSE sinceExp' = Older(sinceExp, ExpWindow) /\ age' = age + 1
  /\ UNCHANGED <<failOpen, pc, route, token, user, left>>

Next ==
  \/ \E r \in Routes, t \in Tokens : Arrive(r, t)
  \/ Verify \/ Unauthorized \/ Resolve \/ Unresolved
  \/ Pass \/ Forbid \/ Handle \/ Finish
  \/ Publish \/ \E m \in Mappings : Tick(m)

Spec == Init /\ [][Next]_vars

-----------------------------------------------------------------------------
(* Properties *)

\* A handler behind Auth runs only for a token with the right claims, signed by
\* a key that was published KeyAge before the request arrived or later, and
\* expired no longer than the leeway when it arrived.
ServedIsAuthentic ==
  pc = "handled" /\ route.auth =>
    /\ token.signed /\ token.claims
    /\ published =< KeyAge + age
    /\ sinceExp =< Leeway + age

\* The permission strings that grant a key, by the comment on Matches.
Granting(k) ==
  IF IsConcrete(k)
  THEN {<<k.resource, k.action>>, <<k.resource, "*">>, <<"*", "*">>} ELSE {}

Justifies(gate, m) ==
  CASE gate.kind = "all" -> gate.keys # {} /\ \A k \in gate.keys : m \cap Granting(k) # {}
    [] gate.kind = "any" -> \E k \in gate.keys : m \cap Granting(k) # {}
    [] gate.kind = "stepup" -> token.acr = gate.acr
    [] gate.kind = "human" -> token.actor = "nobody"

\* A handler behind gates runs only behind Auth too, and only if one mapping
\* that was in force for the token's roles MappingAge before the request
\* arrived, or later, grants what all the gates require; a resolver that fails
\* grants nothing.
ServedIsPermitted ==
  pc = "handled" /\ route.gates # <<>> =>
    /\ route.auth
    /\ \E m \in { inForce[i] : i \in 0 .. MappingAge + age } \cup {{}} :
         /\ m # {} => token.roles
         /\ \A i \in 1 .. Len(route.gates) : Justifies(route.gates[i], m)
=============================================================================
