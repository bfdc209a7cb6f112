# Formal models of vertex-sdk-go

TLA+ models of the parts of the SDK where goroutines, clocks, retries and a
remote server meet: what the caches may serve, what the retry loops may send,
what holds under the mutexes, which request reaches a handler, what a mutation
whose answer is lost may do. TLC checks the models on small instances; TLAPS
proves the theorems for every value of the constants.

Run `tlc -config MC_X.cfg MC_X` for a check, `tlapm X_proofs.tla` for the proofs.

## The system

The SDK is a library inside a resource server. Requests run in goroutines that
share one `SDK` value: a JWT verifier with its key cache, a permission resolver
with its cache, an HTTP client with retries, a profile cache. Back-office code
uses two more clients, each with machine tokens of its own: the Portal client
and the permission manifest client. The IAM server rotates keys, changes role
mappings and profiles, and grants tokens; it is the environment of every model.

| Component | State | Operations | Hard behaviour | What makes it correct | Module |
| --- | --- | --- | --- | --- | --- |
| JWKS key cache, `jwt/jwks.go` | key set, `lastFetch`, `lastForcedRefresh`, RW mutex | `KeyByID`, `Preload` | fetches without the lock; forced refreshes under a cooldown; answers installed out of order | withdrawn keys expire; forced fetches do not pile up; "unknown kid" is true; new keys are adopted | `JWKS` |
| Portal client, `portal_open_api_client.go` | token per scope, mutex held during the token request | `GetMachineToken`, `RequestJSON`, scoped requests, `ClearTokenCache` | a request and a clearing at the same time; lifetimes near the skew; the server's own choice of granted scopes | tokens alive on arrival, granted for the method, gone once cleared; one token request at a time | `PortalToken` |
| Permission resolver, `authz/http_resolver.go` | ristretto store and write buffer, singleflight flights | `Resolve`, `Invalidate`, `Clear` | deletions that overtake queued writes and flights; a leader that fails for its followers; a full buffer | staleness is bounded; an invalidated mapping comes back only in known ways; one request per key; everyone returns | `PermissionResolver` |
| Permission manifest client, `permission_manifest.go` | token, mutex; per command a budget and a deadline | validate, upsert, `ClearPermissionManifestTokenCache`, startup | two nested requests under one retry budget; the mutex wait heeds no context | attempts shared; success is honest; the token outlives the retries; commands end | `ManifestSync` |
| HTTP client, `client.go` | per call: retries, elapsed time | account calls, `ResolvePermissions`, `ListPermissions` | lost answers, broken bodies, undecodable results, cancellation, timeouts inside a retry loop | bounded requests and time; no repetition of what a strict call saw answered | `RetryClient` |
| Profile cache, `sdk.go` | ristretto store | `GetMe`, `BypassProfileCache`, `UpdateAccountProfile` | reads and updates of one account that overlap | staleness is bounded; an update is seen | `ProfileCache` |
| Verifier, middleware, adapters, permission matching: `jwt/verifier.go`, `middleware/`, `authz/`, `gin/`, `echo/`, `chi/` | none but the request's context | `Verify`, `Auth`, `RequirePerm`, `RequireAnyPerm`, `RequireAllPerms`, `RequireStepUp`, `RequireNoImpersonation`, `Matches` | two caches of different age decide one request; a resolver may fail open | a handler runs only for an authentic token and for permissions in force recently | `AuthPipeline` |
| Account security client, `account_security*.go` | none; the server's operations | some fifty methods, mutations with idempotency keys | a mutation with an unknown outcome must not be sent again; secrets are delivered once | sent once, outcomes are honest, no secret is lost unnoticed | `AccountSecurity` |
| Registration grants, organization and authorization management, `*_management_client.go`, `registration_grant*.go` | none; the server's resources | CRUD with `If-Match`, expected version, idempotency keys | concurrent editors, lost and late requests, replays by net/http | no lost update where the SDK sends the precondition; secrets are accounted for | `ManagedResource` |
| `iam-codegen`, `iamtest`, examples | none | | sequential text processing; test doubles | | not modelled |

`Auth` calls the verifier (hence the key cache) and then the resolver, which
calls `Client.ResolvePermissions` (a strict call of `RetryClient`) through a shim.
`SDK.GetMe` and `SDK.UpdateAccountProfile` sit on account calls of the same
client. The management clients send scoped requests of the Portal client; the
account security client sends its own through `accountSecurityRequest`, without
retries.

The models compose in three ways. `AuthPipeline` stands on what `JWKS` and
`PermissionResolver` promise: its `KeyAge` is the `Refresh + Latency` of
`WithdrawnKeysExpire`, its `MappingAge` the `TTL + Latency` of `MappingIsRecent`,
and its server answers a lookup or a resolution with anything those bounds allow.
`AuthSystem` runs the same request over the two caches themselves, and is proved
to implement `AuthPipeline`.
`ManifestSync` and `RetryClient` implement the abstract `BoundedCall`, and
`AccountSecurity` implements `OneShotCall`.

## Modules

Common conventions. Time is abstract: countdowns (time left) and ages, stepped by
`Tick`. A step that waits for nothing takes no time, so `Tick` is disabled while
some goroutine must act, or while a request has used up its timeout. Ages
saturate just above the largest value a property tells apart, so behaviours are
unbounded in time and nothing is cut off. Variables marked *history* are not in
the code; no guard reads them. Definitions whose comment starts with "Mutant:"
are plausible bugs of the definition that follows; nothing in `Next` uses them,
they show that each property can fail.

### `JWKS`

`set`, `sinceFetch`, `sinceForced` stand for `set`, `lastFetch`, `lastForcedRefresh`.
A goroutine runs `Begin` (`lookup`), then `Refuse` or `ClaimRefresh` (under the
lock, jwks.go:77-85), fetches without the lock (`Answer` at the server, then
`Install` or `FetchFails`), and `Recheck`s. `Preload` is the same fetch without
the cooldown and runs beside the verifiers. The server publishes and withdraws
keys at any time; an answer carries the set at the moment the server gives it,
and is installed up to `Latency` later. A fetch ends within `Latency`:
NewJWKSProvider always sets a timeout.

### `PortalToken`

`owner` is the mutex, `grant`/`ttl`/`life` the token cache by scope: the scopes
the server granted, the time until `ExpiresAt`, and (history) the time the server
really accepts the token. `Lifetimes` lists what the server may answer, `Issue`
picks one and any set of scopes. `RequestJSON` derives the scope from the method;
`RequestJSONWithScope` is the path of the management clients. `CacheTime` is the
clamped subtraction of the skew. The resource request itself is the time from
`Take` to `RequestDone`: within it the token has to be alive.

### `PermissionResolver`

`entry` and `setBuf` are ristretto's store and write buffer: a write to a key
that is present is immediate, another is queued and may be refused, a deletion is
immediate and queued too (ristretto removes the entry first and then waits for
room in the buffer; the model lets it wait first, which differs only while the
buffer's goroutine is stopped). `flight` is singleflight. A mapping is its age
since the server answered with it, and whether it was invalidated since. The
follower of a flight ignores its own context, as `sf.Do` does; the leader's
cancellation is part of `Fail`.

### `ManifestSync`

One command is `Begin`, the mutex (`Lock` inside `CacheHit` or `CacheMiss`), the
token request if there is no token, the sync request, `Return`. Both requests run
the loop of `execute` (`Send`, then what its answer leads to, `Retry`), charge one
`budget`, and are cut by one deadline, counted by `age` from the start of `send`.
`sync.Mutex` is modelled as it is: waiters queue, a goroutine that calls `Lock` at
the moment of a release may overtake them, and a waiter overtaken once puts the
mutex into starvation mode, which hands it over in order (`starving`).

### `RetryClient`

One call is `backoff.Retry` around an attempt: `Send`, an answer heard in full or
broken off (`Hear`), and then `Success`, `Stop` (`backoff.Permanent`) or `Again`
(`Backoff`: a retry if count, elapsed time and context allow one). `kind` tells
strict calls, calls that decode a result, and calls that decode none apart; they
treat undecodable and broken answers differently. A client timeout counts as
`context.DeadlineExceeded` in net/http, so a strict call gives up on it. The names
it shares with other specifications carry the prefix RC (`RCInit`, `RCNext`,
`RCReturn`), so that a proof module can extend it together with `ProfileCache`.

### `ProfileCache`

Profiles are numbered by the changes at the server. GetMe is one cached step or
`GetMeFetch`, `Answer`, `StoreProfile`; an update deletes the entry, sends the
PATCH (again, if its answer is lost) and returns. The history variables record
when a profile was replaced and what ended calls have promised to later ones.

### `AuthPipeline`

One request: `Arrive` at a route, `Verify` or `Unauthorized` (jwt/verifier.go),
`Resolve` or `Unresolved` (middleware/auth.go; an empty list if `FailOpen`), one
`Pass` or `Forbid` per gate of the route, `Handle`. A route is Auth or no Auth and
a sequence of gates, one kind for each middleware of require_perm.go (the gin,
echo and chi adapters repeat them). A permission string is the sequence of its
segments, so that wildcards, empty segments, a missing colon and segments which
`concretePermissionSegment` rejects are told apart; `Matches` is translated clause by
clause and compared with `Granting`, the set its comment describes. `published`
is the age of the key's last publication, `inForce` the mapping of the token's
roles at each earlier time: `Tick` moves both on while a request is in any stage,
and `Publish` is the server publishing the key at any moment. `Check` is what
`Verify` does once it has the key. Requests share nothing but the caches, hence one
at a time.

### `AuthSystem`

`AuthPipeline`, `JWKS` and `PermissionResolver` in one state: the caches are
instances whose clashing names are renamed (`verifier` and `resolver` are their
`pc`, `found` and `resolved` their `result`). `KeyByID` and `ResolveRoles` are the
steps of the request `Me` inside a cache, which start in its stage; the step that
ends the call is also the one with which the request goes on (`Judge`, `Deliver`).
`OtherKeys` and `OtherRoles` are all steps of all other goroutines, so the caches
keep every interleaving of their own modules; another leader may end the request's
own call, if it joined that flight. `SystemTick` is one unit of time for all, and
requires that none of the three has something due. What a handler sees of the
mappings is `inForce` at the age that the resolver's mapping has.
`ImplementsPipeline` is the refinement, `InvalidationReachesHandlers` what
`Invalidate` means for a handler.

### `AccountSecurity`

The methods are records of a verb, whether a key is sent, and an effect; several
methods of the same kind are one record, named in the comments. A call is `Reject`
(arguments), `Send`, then what net/http or the server makes of it, then `Lose` or
`Return`. `late` holds requests whose caller has given up and which the server may
still carry out. `Replay` is net/http's repetition on a dead connection: it is
enabled for reads only, because account_security_transport.go:203-204 takes the
body's `GetBody` away (`BodyRewindable`). `WellFormed` is `securitySemantic`; the
server may break it (`Garble`), and the answer may belong to no call
(`Misdeliver`). `OneShotCall` states what a caller may conclude from an outcome:
"done" means carried out, "refused" means not, and never more than once.

### `ManagedResource`

Editors read and change one resource of one family. `Send` takes the precondition
from what the editor read last (`Matches`, `MayOmit`: the organization methods take
it from the caller, who may omit it), `Receive` or `Fail` or `Lose` ends the call. The
server keeps a version, and the command each idempotency key was used for.
`Replay` is net/http's repetition again, here enabled for keyed commands too:
portal_open_api_client.go:286 leaves the request its `GetBody`. The first copy may
still arrive after the second (`late`). `Valid` is what the methods require of an
answer: a strong ETag or a version (`Versioned`), and exactly one of secret and
`SecretAlreadyIssued`.

A 204 is not decoded (portal_open_api_client.go:309-311), so the method's item stays
zero. The authorization methods miss its ETag, and creating, rotating and delivering
a grant miss its contents; the organization methods, and reading, pausing, resuming
and revoking a grant, return it without error, and the editor then knows no version
and no contents. A 204 is taken to bear no ETag.

RotateRegistrationGrant refuses only a negative `expectedVersion`
(registration_grant_delivery_client.go:98). The zero grant, or no grant at all, gives
the number 0 (`ExpectedZero`), which names the first version to a Portal that counts
from 0; one that counts from 1 refuses it. That is the one way in which a secret is
rotated over a version nobody read, and `NoBlindWrite` states it as its exception
("unread"); updates and deletions of organizations without `If-Match` are the other
("plain"), for which the SDK leaves the choice to the application.

### `BoundedCall`

The abstract promise of a retrying call: at most `MaxSends` requests, all before
it returns, and success only for a call of which the server accepted a request.
`ManifestSync` and `RetryClient` implement it under the mapping
`running <- {c : not idle}`, `sends <- sent`.

## Checks

Every run finishes within three minutes on two cores; the largest,
`MC_ManagedResource`, has three and a half million states.

| Run | Instance | Shows |
| --- | --- | --- |
| `MC_JWKS` | 2 verifiers and a Preload, a rotating kid and one never published, refresh 2, cooldown 2, fetch 1 | `WithdrawnKeysExpire`, `OneForcedFetch`, `UnknownMeansAbsent`, `PublishedKeyIsAdopted` |
| `MC_PortalToken` | 2 callers, 2 scopes, lifetimes 3 and 5 around the skew 4 | `TokenAliveOnArrival`, `GrantCoversMethod`, `ClearedTokenIsGone`, `OneTokenRequest` |
| `MC_PermissionResolver` | 2 callers of 1 key, TTL 2, buffer of 2 | `MappingIsRecent`, `InvalidateHolds`, `OneRequestPerKey`, `CallsReturn` |
| `MC_ManifestSync` | 2 commands, 3 attempts, 2 retries per request, deadline 2 | `SharedAttempts` (implements `BoundedCall`), `TokenOutlivesRetries`, `WithinTwoDeadlines`, `CommandsReturn` |
| `MC_ManifestSync_deadline` | as `MC_ManifestSync` | violated: `WithinDeadline` |
| `MC_RetryClient` | 1 call, 3 retries, attempt 2, elapsed limit 5 | `BoundedRetries` (implements `BoundedCall`), `EndsInTime`, `StrictNeverRepeats` |
| `MC_ProfileCache` | 3 callers of 1 key, TTL 1, latency 1, 2 changes | `StaleIsBounded`, `UpdateIsSeen` |
| `MC_ProfileCache_fresh` | 2 callers | violated: `FreshReplacesCached` |
| `MC_AccountSecurity` | 2 callers, 1 operation, 1 late request | `HonestOutcomes` (implements `OneShotCall`), `SecretOnce`, `LostSecretIsKnown` |
| `MC_ManagedResource` | 2 editors, 2 keys, 2 versions, 1 late request, each family | `NoBlindWrite`, `SecretOnce`, `SecretAccountedFor` |
| `MC_ManagedResource_replay` | as `MC_ManagedResource` | violated: `NeverRetried` |
| `MC_AuthPipeline` | 8 routes with up to 3 gates, 6 tokens, 4 mappings, key age 2, mapping age 1, leeway 1, requests of 1 unit | `ServedIsAuthentic`, `ServedIsPermitted` |

`MC_AuthSystem` is an instance of the composition on which TLC agrees with the
theorems (`tlc -config MC_AuthSystem.cfg MC_AuthSystem`: one request with its key and
its mapping, both bounds 1, four million states). It is not among the runs: what it
checks is proved for any number of goroutines, keys and mappings.

Why these bounds are enough. Two goroutines give every race for a lock, a flight
or a forced refresh: one acts, the other reads, and what a goroutine last returned
stays visible while it is idle. The profile cache has a third: an old fetch that
returns between a newer fetch and its reader, with an update beside them. Keys of
the resolver and of the profile cache share nothing but ristretto's buffer, whose
limit one key reaches; a kid that is never published is there to compete with one
that is. Calls of `RetryClient` share nothing, hence one. Times are in units in
which the order of the code's constants is kept: a refresh above a fetch, a fetch
within the cooldown, the skew between two lifetimes, a deadline above an
attempt's timeout and with it within the skew, an elapsed limit that is reached before the retries are used up. `MaxVersion` bounds
the changes of a profile at 2: a profile, an update, and another client's change.

Two callers of one operation give `AccountSecurity` every race for its secret: one
begins or completes, the other does too, or cancels, and `MaxLate` keeps one request
of a caller who gave up on its way between them; operations share nothing. Two
editors, two versions and one late copy give `ManagedResource` the lost update (read,
read, write, write) and its late form; the second key is there so that a
create and a rotation, or two rotations, can be told apart. The routes, tokens and
mappings of `AuthPipeline` are chosen one per clause of the code: each kind of gate,
alone and in a chain, without Auth, with an empty list of keys and with a target that
is no concrete key; a token for each way to be refused; a mapping for each clause of
`Matches`, malformed entries included.

Fairness. In `JWKS` goroutines run, verifiers keep being called, time passes, and
a fetch repeated for ever succeeds at last (strong fairness of the answer: without
it a dead server refutes everything). In `PermissionResolver` goroutines run and a
leader's request ends (`RetryClient` shows why: `EndsInTime`). In `ManifestSync`
weak fairness of steps and of time is enough: the mutex's queue is in the model.
The other modules claim no liveness.

## What the violated runs say

* `WithinDeadline` - README.md:12-13 of the SDK gives a manifest command fifteen
  seconds. The wait for the token mutex heeds no context: a command that another
  one overtakes waits for that one's deadline. Two deadlines are the bound
  (`WithinTwoDeadlines`).
* `FreshReplacesCached` - sdk.go:123-124 says a bypass replaces the cached entry.
  An older GetMe that overlaps it puts the older profile back.
* `NeverRetried` - README.md:236 of the SDK says of create, delivery and rotation of
  grants that "the SDK never automatically retries mutations". net/http does it in
  the SDK's name: a keyed request with a `GetBody` is sent again when a reused
  connection dies. `SecretAccountedFor` has the consequence as its exception: a
  single call may come back with `SecretAlreadyIssued` and no secret.

Three observations that need no run. README.md:114 of the SDK says that `*:read`
matches `posts:read`; `Matches` rejects it, as its own comment says
(permission.go:70), and `AuthPipeline` follows the code. The key cache has no
background refresh, in spite of the word at jwks.go:16-17: once the set is older than
`refresh`, one goroutine fetches in its own call and the others are refused, cached
and published kids included, until that fetch ends, and for the whole cooldown if it
fails; `PublishedKeyIsAdopted` says that this ends. And the account calls of
`RetryClient` repeat a request that the server accepted when its result does not
decode; `StrictNeverRepeats` says which calls do not.

## Proofs

TLAPS proves the theorems below for every value of the constants that satisfies
the assumption named `ConstantsAssumption` of the module: types, and nothing about
timing unless it is said here (`RCAssumption` for `RetryClient`). Every safety
property of a passing run is a theorem, refinements included. Each proof has the same
plan: a type invariant, an inductive strengthening built from named parts, one lemma
that says each action preserves it with one step per action, and the property as its
consequence.

* `JWKS_proofs` - `TypeCorrect`, `KeysExpire`, `SerialRefresh`, `UnknownIsHonest`.
  Expiry does not follow from the age of the set alone: an answer under way is
  older than its installation. The invariant bounds, for every thread, the age of
  the answer it carries by the time since it was given, and the age of the
  installed set by `sinceFetch` plus `Latency`; a withdrawn key in a set was
  withdrawn after that set was answered. `SerialRefresh` and `UnknownIsHonest`
  assume `Serial`: a fetch ends before the cooldown does and within the refresh
  time. With `Serial`, whoever rechecks has installed the set itself, unless a
  Preload has, and `UnknownMeansAbsent` excepts the latter.
* `PortalToken_proofs` - `TypeCorrect`, `TokenRequestsExclude`, `ClearIsFinal`,
  `TokensStayAlive`, `GrantsCoverMethods`. Exclusion is the invariant of the other
  ones: who requests a token owns the mutex, so a clearing sees no request under
  way. `TokensStayAlive` assumes `TimingAssumption`: the two timeouts together
  stay within the skew and lifetimes exceed them; its invariant relates the cached
  time to the real one (cached time plus skew is covered by the life left plus the
  delay of the answer).
* `PermissionResolver_proofs` - `TypeCorrect`, `OneFlight`, `MappingsAreRecent`,
  `InvalidationHolds`. A mapping lives in a goroutine's hand, in the store or in the
  write buffer. `AgeInv` bounds its age in each: in the hand by the time of the
  request, in the store and in the queue by the entry's time to live and `Latency`
  (`HandAge`, `EntryAge`, `QueueAge`). `OldInv` says of each of the three where
  an invalidated mapping may be: only where the invalidation left an excuse behind
  (`OldInHand`, `OldInStore`, `OldInQueue`). The buffer is a sequence, and the proof
  follows its elements through append and tail.
* `ManifestSync_proofs` - `TypeCorrect`, `CommandsEndInTwoDeadlines`,
  `TokensOutliveRetries` and `Implements`, the refinement of `BoundedCall`. That a
  command ends within two deadlines is a fact about `sync.Mutex` and the waiters'
  ages together. `Queued` says that waiters are exactly the members of the queue, each
  once, and in the order of their ages. `Turns` compares a waiter with the holder of
  the mutex: it is no older, unless the holder took its turn, and then by at most a
  deadline, because the mutex is starving and goes to the head of the queue next.
  `Looped` accounts for budgets, delays and attempts inside the retry loop, and ties
  the requests sent to the budget left, so that neither a nested loop nor a token
  request that used the budget up adds a request. `TokensOutliveRetries` assumes
  `TimingAssumption`; its invariant `Lasting` compares the cached time with the life
  the server gives the token, and the life of the token in hand with the deadline.
  `RemoveAtProperties` and `EnqueueKeepsQueue` say what leaving and joining do to a
  queue of any length.
* `ProfileCache_proofs` - `TypeCorrect`, `StalenessIsBounded`, `UpdatesAreSeen`.
  `StaleInv` bounds how long ago a profile in a hand or in the cache was replaced
  (by the age of the fetch, by the entry's time plus `Latency`). `SeenInv` says that
  what ended updates promise is never above what the cache, or a fetch, holds. A
  new promise keeps that because of `UpdateAlone`: while an update goes on that no
  read overlaps, the cache has no entry and nobody reads.
* `ProfileCache_proofs`, second part - of `RetryClient`, which carries the requests
  of the profile cache: `CallTypesCorrect`, `CallsEndInTime`,
  `StrictCallsNeverRepeat` and `CallsImplement`, the refinement of `BoundedCall`. No
  theorem is about both modules. The invariant `CallInv` has four parts besides the
  types: the time left of an attempt or delay stays within the call's limits
  (`Timely`), requests and backoff's count agree (`Counted`), a good answer means an
  accepted request (`Honest`), and a strict call that waits has heard nothing final
  (`Silent`).
* `AccountSecurity_proofs` - `TypeCorrect`, `SecretReturnedOnce`, `LostSecretKnown`,
  `OutcomesHonest`. `CallInv` ties an answer to what the server did: 2xx means
  carried out, an error means not. `SecretInv` says that at most one answer under
  way bears an operation's secret and that none does once it was returned. `DoubtInv`
  says of each late request that its caller left the outcome open, and of each given
  secret that its fate is known or an answer still holds it. `OutcomesHonest` is
  the refinement of `OneShotCall`, step by step.
* `ManagedResource_proofs` - `TypeCorrect`, `NothingIsOverwrittenBlindly`,
  `SecretReturnedOnce`, `SecretsAreAccountedFor`. `ProperInv` holds for every copy of
  a request alike, with its editor or late: it carries no version, the one that its
  editor read, or the 0 of a rotation whose editor has read nothing (`Sending`,
  `Arriving`), and an editor's ETag is that of the contents it has seen
  (`Remembered`). `SecretInv` says that at most one answer under way has a
  key's secret, and none once it was returned; `AccountInv`, that a late command
  which issues a secret was left behind by a call that said so, or by net/http.
* `AuthPipeline_proofs` - `TypeCorrect`, `HandlersSeeAuthenticTokens`,
  `HandlersArePermitted`, for every set of routes, chains of gates of any length,
  tokens and mappings. `Verified` and `InContext` carry what held at verification and
  at resolution through the time that passes until the handler runs; `PassedGates`
  says that what is left of the chain is a suffix and that all the gates before it
  have let this user pass. The lemma `MatchesGrants` compares the code's matching with
  its description for arbitrary strings of segments.
* `AuthPipeline_proofs`, second part - of `AuthSystem`: `SystemImplements`,
  `SystemSeesAuthenticTokens`, `SystemIsPermitted`, `InvalidationReaches`, for any
  number of goroutines that use the caches beside the request. They assume
  `SystemAssumption`: the assumptions of the two caches, and that the two ages of
  `AuthPipeline` are the bounds which the caches keep. The argument has three steps.
  Every step of the system is one of each cache's or leaves it alone
  (`SystemHasCache`, `SystemHasResolver`), so the theorems of `JWKS_proofs` and
  `PermissionResolver_proofs` hold here, cited through the instances (`Promises`).
  `Linked` says that a call to a cache belongs to the stage the request is in, and
  asks for its own key; `PublishedAge`, that the pipeline's clock of the token's key
  never runs ahead of the cache's clock of its withdrawal, which is what turns "found"
  into `KeyFound`. And each step is a step of `AuthPipeline` or a stutter, the ones in
  which another goroutine's flight ends the request's call included
  (`SystemStepRefines`): the properties of handlers follow from those of
  `AuthPipeline`. `InvalidationReaches` adds `Delivered`: the permissions in the
  context stay those of the last `Resolve`, however old they get on the way.

Model-checked only. All liveness
(`PublishedKeyIsAdopted`, `CallsReturn`, `CommandsReturn`), which is out of TLAPS's
reach with the installed backends (fairness, ENABLED).

## Not modelled

* `RunPermissionManifestStartup`: one command of `ManifestSync` and a decision about
  its error, without state. `GetCurrentUser`: one request without a retry.
* Lists and the validation of pages, snapshots, profiles and manifests; JSON,
  canonical manifests and fingerprints, UUID and timestamp patterns, signatures:
  formats. Where a decision hangs on one, the models have its outcomes.
* How `cacheKey` joins roles (http_resolver.go:107) and how the key of a profile
  is made from a context (sdk.go:344): keys are abstract.
* Overflow of `expires_in`, which a server would have to set to centuries: times are
  abstract.
* ristretto, singleflight, backoff, net/http, sync.Mutex and the servers are
  modelled from how the code uses them. `SetHTTPClient` is for tests.
* `iam-codegen` (sequential text processing; its upload is one manifest command),
  `iamtest` and the examples.

## Plan

1. The startup of the manifest client and its failure policies.
2. The keys of the two caches, made from roles and from contexts, with what shared or
   split keys mean for `InvalidateHolds` and `UpdateIsSeen`.
