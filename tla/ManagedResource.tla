--------------------------- MODULE ManagedResource ---------------------------
(***************************************************************************)
(* The management methods of PortalOpenAPIClient: roles, permissions and   *)
(* user roles (authorization_management_client.go), organizations          *)
(* (organization_management_client.go) and registration grants             *)
(* (registration_grant_client.go, registration_grant_delivery_client.go).  *)
(* Goroutines of an application edit one resource, each from what it read  *)
(* last, through requestJSONWithScopeAndHeaders and net/http.  A write     *)
(* replaces what it is about, as ReplaceRolePermissions does with a set.   *)
(***************************************************************************)
EXTENDS Naturals, FiniteSets

CONSTANTS
  Editors,     \* goroutines of the application
  Keys,        \* idempotency keys it uses
  MaxVersion,  \* bound on the versions of the resource
  MaxLate      \* bound: copies of requests that nobody waits for

ASSUME ConstantsAssumption ==
  /\ "none" \notin Keys
  /\ MaxVersion \in Nat \ {0}
  /\ MaxLate \in Nat

VARIABLES
  family,    \* the kind of the resource, which decides the methods it has
  request,   \* the request of each editor's call
  phase,     \* where it is
  answer,    \* the response on its way back
  etag,      \* ETag, or version of a grant, the editor read last, 0 for none
  seen,      \* the version whose contents it read last
  late,      \* copies of requests, still on their way, that nobody waits for
  version,   \* server: version of the resource, 0 before it is created
  gone,      \* server: it was deleted
  used,      \* server: the command each idempotency key was used for
  blind,     \* history: the writes over a version that the editor had not read
  resent,    \* history: keys of the mutations that were sent more than once
  handed,    \* history: how often the secret issued under a key was returned
  told       \* history: a method said that the secret may have been issued

client == <<family, request, phase, answer, etag, seen, late>>
server == <<version, gone, used>>
secrets == <<handed, told>>
vars == <<client, server, blind, resent, secrets>>

-----------------------------------------------------------------------------
(* The methods: verb, what they do, whether If-Match (or the expected      *)
(* version of a grant) and Idempotency-Key are sent.                       *)

Method(verb, effect, match, keyed) ==
  [verb |-> verb, effect |-> effect, match |-> match, keyed |-> keyed]

Get == Method("GET", "read", "never", "never")

AuthorizationMethods == {
  Get,                                         \* Get*, ListRolePermissions
  Method("POST", "create", "never", "maybe"),  \* CreateRole, CreatePermission,
                                               \* CreateUserRole
  Method("PATCH", "write", "always", "never"), \* UpdateRole, UpdatePermission,
                                               \* UpdateUserRole,
                                               \* ReplaceRolePermissions
  Method("DELETE", "delete", "always", "never") } \* Delete*

OrganizationMethods == {
  Get,                                         \* GetOrganization, ...Member
  Method("POST", "create", "never", "maybe"),  \* CreateOrganization,
                                               \* CreateOrganizationInvitation
  Method("PATCH", "write", "maybe", "never"),  \* UpdateOrganization,
                                               \* UpdateOrganizationMemberRole
  Method("DELETE", "delete", "maybe", "never"), \* DeleteOrganization and, with
                                               \* no If-Match ever, Cancel...-
                                               \* Invitation, Remove...Member
  Method("POST", "touch", "never", "never") }  \* ResendOrganizationInvitation

GrantMethods == {
  Get,                                         \* GetRegistrationGrant
  Method("POST", "create", "never", "always"), \* CreateRegistrationGrant
  Method("POST", "touch", "never", "never"),   \* Pause-, Resume-, Revoke-
                                               \* RegistrationGrant
  Method("POST", "rotate", "always", "always"), \* RotateRegistrationGrant
  Method("POST", "deliver", "never", "always") } \* DeliverRegistrationGrant

Methods == [authorization |-> AuthorizationMethods,
            organization |-> OrganizationMethods, grant |-> GrantMethods]

\* The families whose responses must have an ETag or a version.
Strict == family \in {"authorization", "grant"}

\* create and rotate of a grant issue a secret.
Issues(m) == m.effect \in {"create", "rotate"} /\ m.keyed = "always"

Mutation(m) == m.verb # "GET"

\* The methods that replace or remove what is there, rather than add to it.
Overwrites(m) == m.effect \in {"write", "delete", "rotate"}

Requests ==
  [method : UNION { Methods[f] : f \in DOMAIN Methods },
   match : 0 .. MaxVersion, based : 0 .. MaxVersion, key : Keys \cup {"none"}]

Request(m, v, s, k) == [method |-> m, match |-> v, based |-> s, key |-> k]
NoRequest == Request(Get, 0, 0, "none")

\* A response: its ETag, the version of its contents, and whether the secret is
\* in it ("issued"), is said to have been told ("already"), or neither or both.
Answer(status, tag, contents, secret) ==
  [status |-> status, tag |-> tag, contents |-> contents, secret |-> secret]
NoAnswer == Answer("none", 0, 0, "none")

\* The server's responses.
Answers ==
  {NoAnswer} \cup { Answer("2xx", v, v, s) : v \in 0 .. MaxVersion,
                                            s \in {"none", "issued", "already"} }

TypeOK ==
  /\ family \in DOMAIN Methods
  /\ request \in [Editors -> Requests]
  /\ phase \in [Editors -> {"idle", "sent", "answered"}]
  /\ answer \in [Editors -> Answers]
  /\ etag \in [Editors -> 0 .. MaxVersion]
  /\ seen \in [Editors -> 0 .. MaxVersion]
  /\ late \subseteq Requests
  /\ version \in 0 .. MaxVersion
  /\ gone \in BOOLEAN
  /\ used \in [Keys -> {"none", "create", "rotate", "deliver"}]
  /\ blind \subseteq {"conditional", "plain", "unread"}
  /\ resent \subseteq Keys
  /\ handed \in [Keys -> 0 .. 2]
  /\ told \in [Keys -> BOOLEAN]

Init ==
  /\ family \in DOMAIN Methods
  /\ request = [e \in Editors |-> NoRequest]
  /\ phase = [e \in Editors |-> "idle"]
  /\ answer = [e \in Editors |-> NoAnswer]
  /\ etag = [e \in Editors |-> 0]
  /\ seen = [e \in Editors |-> 0]
  /\ late = {}
  /\ version \in {0, 1}
  /\ gone = FALSE
  /\ used = [k \in Keys |-> "none"]
  /\ blind = {}
  /\ resent = {}
  /\ handed = [k \in Keys |-> 0]
  /\ told = [k \in Keys |-> FALSE]

-----------------------------------------------------------------------------
(* The client *)

\* Mutant: If-Match may be left out everywhere.
MayOmit(m) == IF m.match = "never" THEN {0} ELSE 0 .. MaxVersion

\* validateIfMatch, ifMatchHeader, the expectedVersion of a rotation: the
\* preconditions that method m accepts.  Version v of the model is the number v
\* to a Portal that counts from 1, and v - 1 to one that counts from 0.
Matches(m) ==
  CASE m.match = "never" -> {0}
    [] m.match = "maybe" -> 0 .. MaxVersion
    [] m.match = "always" -> 1 .. MaxVersion

\* registrationCommandHeaders, authorizationIdempotencyHeader, idempotencyHeader
KeysOf(m) ==
  CASE m.keyed = "never" -> {"none"}
    [] m.keyed = "maybe" -> Keys \cup {"none"}
    [] m.keyed = "always" -> Keys

\* expectedVersion is not validated but for its sign: an editor that has read no
\* grant, or the zero grant of an empty answer, may pass 0.  That is the first
\* version if the Portal counts from 0; if it counts from 1 it refuses (Fail).
ExpectedZero(e, m) == IF m.effect = "rotate" /\ seen[e] = 0 THEN {1} ELSE {}

\* History: what the editor had read of what it overwrites.
Based(e, m) == IF Overwrites(m) THEN seen[e] ELSE 0

\* The editor calls method m with the ETag it has, or none, and key k.  A call
\* whose arguments are refused, or that gets no machine token, sends nothing
\* and changes nothing.
Send(e, m, k) ==
  /\ phase[e] = "idle"
  /\ k \in KeysOf(m)
  /\ \E v \in Matches(m) \cap ({0, etag[e]} \cup ExpectedZero(e, m)) :
       request' = [request EXCEPT ![e] = Request(m, v, Based(e, m), k)]
  /\ phase' = [phase EXCEPT ![e] = "sent"]
  /\ UNCHANGED <<family, answer, etag, seen, late, server, blind, resent, secrets>>

\* NewRequestWithContext gives the request a GetBody, and net/http counts one
\* with an Idempotency-Key as idempotent: it sends it again when the reused
\* connection dies before the first byte of the response.
Replayable(r) == ~Mutation(r.method) \/ r.key # "none"

\* The request that editor e no longer waits for may still arrive.
Abandon(e) ==
  \/ late' = late
  \/ /\ phase[e] = "sent" /\ Mutation(request[e].method)
     /\ Cardinality(late) < MaxLate
     /\ late' = late \cup {request[e]}

Replay(e) ==
  /\ phase[e] \in {"sent", "answered"}
  /\ Replayable(request[e])
  /\ Abandon(e)
  /\ phase' = [phase EXCEPT ![e] = "sent"]
  /\ answer' = [answer EXCEPT ![e] = NoAnswer]
  /\ resent' = resent \cup ({request[e].key} \ {"none"})
  /\ UNCHANGED <<family, request, etag, seen, server, blind, secrets>>

\* The method returns; if open, the outcome of its request is.
Conclude(e, open) ==
  /\ request' = [request EXCEPT ![e] = NoRequest]
  /\ phase' = [phase EXCEPT ![e] = "idle"]
  /\ answer' = [answer EXCEPT ![e] = NoAnswer]
  /\ told' = [k \in Keys |-> told[k] \/ ( /\ k = request[e].key /\ open
                                       /\ Issues(request[e].method) )]

\* The transport fails, or the context or the client's timeout ends the call.
Lose(e) ==
  /\ phase[e] \in {"sent", "answered"}
  /\ Conclude(e, TRUE)
  /\ Abandon(e)
  /\ UNCHANGED <<family, etag, seen, server, blind, resent, handed>>

\* The response has the ETag or the version that the method looks for.  An empty
\* one (204) is not decoded: the grant methods that validate nothing else return
\* the zero grant, DeliverRegistrationGrant misses the ID of the grant in it.
Versioned(m, a) ==
  /\ Strict /\ m.effect \notin {"delete", "deliver"}
       => a.tag > 0 \/ (family = "grant" /\ a.status = "empty")
  /\ m.effect = "deliver" => a.status # "empty"

\* Mutants: the secret, or the flag, is not looked at.
SecretUnchecked(m, a) == Versioned(m, a)
FlagUnchecked(m, a) == Versioned(m, a) /\ (Issues(m) => a.secret # "both")

\* CreatedRegistrationGrant.validate: what the method requires of a response
\* with a status below 400.
Valid(m, a) == Versioned(m, a) /\ (Issues(m) => a.secret \in {"issued", "already"})

\* Mutant: the client reckons the next ETag itself.
ReckonNext(e, a) ==
  /\ etag' = [etag EXCEPT ![e] = a.tag + 1]
  /\ seen' = [seen EXCEPT ![e] = a.contents]

\* The editor keeps what the method returned, with its ETag.
Remember(e, a) ==
  /\ etag' = [etag EXCEPT ![e] = a.tag]
  /\ seen' = [seen EXCEPT ![e] = a.contents]

\* What comes of response a to method m: a, or a response without the ETag, with
\* the secret left out or told together with the flag that it was told before,
\* or one that is empty, or not the server's.
Received(m, a) ==
  { a, [a EXCEPT !.tag = 0], Answer("empty", 0, 0, "none"),
    [a EXCEPT !.status = "garbled"] } \cup
  (IF Issues(m) THEN { [a EXCEPT !.secret = s] : s \in {"missing", "both"} } ELSE {})

\* Status below 400 and a response that is valid.
Succeed(e, a) ==
  LET r == request[e] IN
  /\ a.status \in {"2xx", "empty"} /\ Valid(r.method, a)
  /\ Conclude(e, a.secret \in {"already", "both"})
  /\ IF r.method.effect \in {"delete", "deliver"}
     THEN UNCHANGED <<etag, seen>> ELSE Remember(e, a)
  /\ handed' = [k \in Keys |->
                  IF k = r.key /\ a.secret \in {"issued", "both"} /\ handed[k] < 2
                  THEN handed[k] + 1 ELSE handed[k]]
  /\ UNCHANGED <<family, late, server, blind, resent>>

\* A response that cannot be decoded, or is not valid: the methods return the
\* error they return for an invalid argument.  Or the 5xx of a gateway.
Distrust(e, a) ==
  /\ a.status = "garbled" \/ ~Valid(request[e].method, a)
  /\ Conclude(e, TRUE)
  /\ UNCHANGED <<family, etag, seen, late, server, blind, resent, handed>>

Receive(e) ==
  /\ phase[e] = "answered"
  /\ \E a \in Received(request[e].method, answer[e]) : Succeed(e, a) \/ Distrust(e, a)

\* The server refuses the request, and the method returns a PortalOpenAPIError
\* with the status of the response.
Fail(e) ==
  /\ phase[e] = "sent"
  /\ Conclude(e, FALSE)
  /\ UNCHANGED <<family, etag, seen, late, server, blind, resent, handed>>

-----------------------------------------------------------------------------
(* The server *)

Repeated(r) == r.key # "none" /\ used[r.key] = r.method.effect

\* The request may be carried out: its precondition holds.
Permitted(r) ==
  /\ ~gone
  /\ r.key # "none" => used[r.key] = "none"
  /\ r.match \in {0, version}
  /\ IF r.method.effect = "create" THEN version = 0 ELSE version > 0

\* What request r says of the version it replaces: nothing, the number 0 that an
\* editor who has read nothing may pass, or the ETag that its editor has.
Says(r) ==
  CASE r.match = 0 -> "plain"
    [] r.match > 0 /\ r.method.effect = "rotate" /\ r.based = 0 -> "unread"
    [] OTHER -> "conditional"

Perform(r) ==
  /\ IF r.method.effect \in {"create", "write", "touch", "rotate"}
     THEN version < MaxVersion /\ version' = version + 1 ELSE version' = version
  /\ gone' = (r.method.effect = "delete")
  /\ used' = [k \in Keys |-> IF k = r.key THEN r.method.effect ELSE used[k]]
  /\ blind' = IF Overwrites(r.method) /\ r.based # version
              THEN blind \cup {Says(r)} ELSE blind

\* A command whose key was used for it is answered and not carried out.
CarryOut(r) ==
  \/ Repeated(r) /\ UNCHANGED <<server, blind>>
  \/ ~Repeated(r) /\ Permitted(r) /\ Perform(r)

Reply(r) ==
  Answer("2xx", version', version',
         IF ~Issues(r.method) THEN "none"
         ELSE IF Repeated(r) THEN "already" ELSE "issued")

Accept(e) ==
  /\ phase[e] = "sent"
  /\ CarryOut(request[e])
  /\ phase' = [phase EXCEPT ![e] = "answered"]
  /\ answer' = [answer EXCEPT ![e] = Reply(request[e])]
  /\ UNCHANGED <<family, request, etag, seen, late, resent, secrets>>

AcceptLate(r) ==
  /\ r \in late
  /\ late' = late \ {r}
  /\ CarryOut(r)
  /\ UNCHANGED <<family, request, phase, answer, etag, seen, resent, secrets>>

Next ==
  \/ \E e \in Editors, m \in Methods[family], k \in Keys \cup {"none"} : Send(e, m, k)
  \/ \E e \in Editors : \/ Replay(e) \/ Lose(e) \/ Receive(e) \/ Fail(e)
                        \/ Accept(e)
  \/ \E r \in late : AcceptLate(r)

Spec == Init /\ [][Next]_vars

-----------------------------------------------------------------------------
(* Properties *)

\* A write that carries the editor's ETag never replaces a version that the
\* editor has not read, and roles, permissions, user roles and the secrets of
\* grants are never replaced in any other way: not by a request that was sent
\* twice, arrives late, or follows a response that was refused.  The exception
\* is the code's: RotateRegistrationGrant takes the expectedVersion 0 of an
\* editor that has read nothing.
NoBlindWrite == "conditional" \notin blind /\ (Strict => blind \subseteq {"unread"})

\* The secret issued under a key is returned to the application at most once,
\* by all its goroutines together, however often the command is sent.
SecretOnce == \A k \in Keys : handed[k] =< 1

\* The secret issued under a key has been returned, or a method has said that
\* it may have been issued, or the command is still going on, unless net/http
\* has sent the command more than once.
SecretAccountedFor ==
  \A k \in Keys : family = "grant" /\ used[k] \in {"create", "rotate"} =>
    \/ handed[k] > 0 \/ told[k] \/ k \in resent
    \/ \E e \in Editors : phase[e] = "answered" /\ request[e].key = k

\* README.md: "the SDK never automatically retries mutations".
NeverRetried == resent = {}
=============================================================================
