------------------------------ MODULE AuthSystem ------------------------------
(***************************************************************************)
(* AuthPipeline with the two caches themselves in the place of what they   *)
(* promise: one request calls KeyByID of JWKS and Resolve of               *)
(* PermissionResolver, while other goroutines use, refresh, invalidate and *)
(* clear the same caches (Verifier.Verify of jwt/verifier.go, Auth of      *)
(* middleware/auth.go, the wiring of sdk.go).                              *)
(*                                                                         *)
(* A call to a cache returns, and its caller goes on, in one step: nothing  *)
(* waits between the two.                                                  *)
(***************************************************************************)
EXTENDS AuthPipeline

CONSTANTS
  Kids, Issuable, Verifiers, Preloaders,           \* of JWKS
  Refresh, Cooldown, FetchTime,
  Callers, CacheKeys, TTL, ResolveTime,            \* of PermissionResolver
  MaxPending, Nobody,
  Me,        \* the goroutine that serves the request
  TokenKid,  \* the kid of the request's token
  RolesKey   \* the cache key of its client and roles

VARIABLES
  serverKids, set, sinceFetch, sinceForced,        \* of JWKS
  verifier, kid, fetched, fetchAge, found, withdrawn, throughout,
  entry, setBuf, flight,                           \* of PermissionResolver
  resolver, key, hand, answerAge, resolved, before, excused

Cache == INSTANCE JWKS_proofs
           WITH Latency <- FetchTime, server <- serverKids, pc <- verifier,
                answer <- fetched, elapsed <- fetchAge, result <- found
Resolver == INSTANCE PermissionResolver_proofs
              WITH Keys <- CacheKeys, Latency <- ResolveTime, pc <- resolver,
                   elapsed <- answerAge, result <- resolved

\* The two ages of AuthPipeline are the bounds that the caches keep.
SystemAssumption ==
  /\ Cache!ConstantsAssumption /\ Resolver!ConstantsAssumption
  /\ Me \in Verifiers /\ Me \in Callers
  /\ TokenKid \in Kids /\ RolesKey \in CacheKeys
  /\ KeyAge = Refresh + FetchTime /\ MappingAge = TTL + ResolveTime

keyVars == <<serverKids, set, sinceFetch, sinceForced, verifier, kid, fetched,
             fetchAge, found, withdrawn, throughout>>
permVars == <<entry, setBuf, flight, resolver, key, hand, answerAge, resolved,
              before, excused>>
sysvars == <<vars, keyVars, permVars>>

SystemInit ==
  /\ Init /\ Cache!Init /\ Resolver!Init
  /\ published = IF TokenKid \in serverKids THEN 0 ELSE KeyWindow

-----------------------------------------------------------------------------
(* The request and the key cache *)

\* Everything that waits for neither cache.
Proceed ==
  /\ \/ \E r \in Routes, t \in Tokens : Arrive(r, t)
     \/ Unauthorized /\ verifier[Me] = "idle"
     \/ Pass \/ Forbid \/ Handle \/ Finish
  /\ UNCHANGED <<keyVars, permVars>>

\* The verifier goes on with the key that KeyByID returned, or gives up.
Judge ==
  \/ found'[Me] = "key" /\ Check
  \/ /\ found'[Me] = "key" => ~(token.signed /\ ClaimsValid)
     /\ Deny

\* A step of the request's own KeyByID.
KeyByID ==
  /\ \/ pc = "verifying" /\ Cache!Begin(Me, TokenKid)
     \/ Cache!Refuse(Me) \/ Cache!ClaimRefresh(Me) \/ Cache!Recheck(Me)
     \/ Cache!Answer(Me) \/ Cache!FetchFails(Me) \/ Cache!Install(Me)
  /\ IF verifier'[Me] = "idle" THEN Judge ELSE UNCHANGED vars
  /\ UNCHANGED permVars

\* Other verifiers and preloads, and the keys of other tokens.
OtherKeys ==
  /\ \/ \E v \in Verifiers \ {Me}, k \in Kids : Cache!Begin(v, k)
     \/ \E v \in Verifiers \ {Me} :
          Cache!Refuse(v) \/ Cache!ClaimRefresh(v) \/ Cache!Recheck(v)
     \/ \E p \in Preloaders : Cache!Preload(p)
     \/ \E t \in Cache!Threads \ {Me} :
          Cache!Answer(t) \/ Cache!FetchFails(t) \/ Cache!Install(t)
     \/ \E k \in Issuable : Cache!Withdraw(k)
     \/ \E k \in Issuable \ {TokenKid} : Cache!Publish(k)
  /\ UNCHANGED <<vars, permVars>>

PublishKey ==
  /\ TokenKid \in Issuable /\ Cache!Publish(TokenKid)
  /\ Publish
  /\ UNCHANGED permVars

-----------------------------------------------------------------------------
(* The request and the resolver *)

\* Auth goes on with what Resolve returned.
Deliver ==
  \/ resolved'[Me].outcome = "perms" /\ Inject(inForce[resolved'[Me].map.age])
  \/ resolved'[Me].outcome = "empty" /\ Inject(IF token.roles THEN EmptyList ELSE {})
  \/ resolved'[Me].outcome = "error" /\ Deny

Return == IF resolver'[Me] = "idle" THEN Deliver ELSE UNCHANGED vars

\* A step of the request's own Resolve.
ResolveRoles ==
  /\ \/ pc = "resolving" /\ token.roles /\ Resolver!Resolve(Me, RolesKey)
     \/ pc = "resolving" /\ ~token.roles /\ Resolver!ResolveNoRoles(Me)
     \/ Resolver!Join(Me) \/ Resolver!Answer(Me) \/ Resolver!Store(Me)
     \/ Resolver!Succeed(Me) \/ Resolver!Fail(Me)
  /\ Return
  /\ UNCHANGED keyVars

\* Other callers, invalidations and ristretto; a leader may end the request's
\* own call.
OtherRoles ==
  /\ \/ \E c \in Callers \ {Me} :
          \/ Resolver!ResolveNoRoles(c) \/ \E k \in CacheKeys : Resolver!Resolve(c, k)
          \/ Resolver!Join(c) \/ Resolver!Answer(c) \/ Resolver!Store(c)
          \/ Resolver!Succeed(c) \/ Resolver!Fail(c)
     \/ \E k \in CacheKeys : Resolver!Invalidate(k) \/ Resolver!Evict(k)
     \/ Resolver!Clear \/ Resolver!ApplyWrite
  /\ IF resolver[Me] = "idle" THEN UNCHANGED vars ELSE Return
  /\ UNCHANGED keyVars

-----------------------------------------------------------------------------

\* One unit of time for all: nobody's request is due.
SystemTick ==
  /\ Cache!Tick /\ Resolver!Tick
  /\ \E m \in Mappings : Tick(m)
  /\ published' = IF TokenKid \in serverKids THEN 0 ELSE Older(published, KeyWindow)

SystemNext ==
  \/ Proceed \/ KeyByID \/ OtherKeys \/ PublishKey
  \/ ResolveRoles \/ OtherRoles \/ SystemTick

SystemSpec == SystemInit /\ [][SystemNext]_sysvars

-----------------------------------------------------------------------------
(* Properties *)

\* The system implements AuthPipeline: of the caches, a request sees nothing
\* but what they promise.
ImplementsPipeline == Spec

\* The permissions of a handler are those that Resolve returned to its request:
\* the mapping that was in force when the IAM server answered, and one of before
\* an invalidation only if the request's own call, a fetch or a queued write
\* overlapped it.
InvalidationReachesHandlers ==
  pc = "handled" /\ user.perms # {} =>
    /\ \E d \in 0 .. age : user.perms = inForce[resolved[Me].map.age + d]
    /\ resolved[Me].map.old => before[Me] \/ excused[RolesKey]
=============================================================================
