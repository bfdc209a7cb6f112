--------------------------- MODULE AccountSecurity ---------------------------
(***************************************************************************)
(* The account security client: the methods of account_security.go, all of *)
(* which go through accountSecurityRequest of account_security_transport.go*)
(* and are called by goroutines of an application, with net/http under     *)
(* them and the operations of the IAM server at the other end.             *)
(*                                                                         *)
(* An operation is known by the idempotency key it was created under.  A   *)
(* method is what tells it from others here: its verb, whether it sends an *)
(* Idempotency-Key, and what it asks of the server.                        *)
(***************************************************************************)
EXTENDS Naturals, FiniteSets

CONSTANTS
  Callers,  \* goroutines of the application
  Keys,     \* idempotency keys the application retains
  MaxLate   \* bound: requests whose caller has given up that still arrive

VARIABLES
  call,      \* the method each caller is in, or was in last
  phase,     \* where its request is
  answer,    \* the response on its way back
  outcome,   \* what the method returned
  late,      \* requests on their way whose caller has given up
  op,        \* server: the operation created under each key
  given,     \* server: the secret of the operation was put in an answer
  carried,   \* history: how often the server carried the current call out
  handed,    \* history: how often a method returned the operation's secret
  doubted    \* history: a method left the outcome for the operation open

client == <<call, phase, answer, outcome, late>>
server == <<op, given>>
history == <<carried, handed, doubted>>
vars == <<client, server, history>>

-----------------------------------------------------------------------------
(* Types of the wire *)

\* An operation without a secret, an identity operation too, goes the way of
\* TOTP_DISABLE.
MFAOperationType == {"TOTP_ENROLL", "TOTP_DISABLE", "RECOVERY_CODES_GENERATE"}

MFAOperationState == {"AWAITING_REAUTH", "READY", "AWAITING_CONFIRMATION",
                      "COMMITTED", "CANCELLED", "EXPIRED"}

Terminal == {"COMMITTED", "CANCELLED", "EXPIRED"}

SensitiveDelivery == {"AVAILABLE", "ALREADY_DELIVERED", "NOT_APPLICABLE"}

\* The create request that is retained with a key fixes the type.
Operation == [type : MFAOperationType, state : MFAOperationState \cup {"absent"}]

\* A response: a 2xx one with its delivery flag and whether it holds a secret;
\* a well-formed error of the server; or anything else, from whomever.
Ok(delivery, secret) ==
  [status |-> "2xx", delivery |-> delivery, secret |-> secret]

ErrorWire == [status |-> "error", delivery |-> "NOT_APPLICABLE", secret |-> FALSE]
Garbled == [ErrorWire EXCEPT !.status = "garbled"]
NoAnswer == [ErrorWire EXCEPT !.status = "none"]

Answers == [status : {"2xx", "error", "garbled", "none"},
            delivery : SensitiveDelivery, secret : BOOLEAN]

-----------------------------------------------------------------------------
(* The methods *)

Method(verb, keyed, effect) ==
  [verb |-> verb, keyed |-> keyed, effect |-> effect]

Read == Method("GET", FALSE, "read")
Post(effect) == Method("POST", FALSE, effect)

IdentityMethods == {
  Read,                             \* ListAccountIdentifiers,
                                    \* ListAccountLoginMethods,
                                    \* ListLinkableIdentityProviders,
                                    \* GetIdentityOperation, ListIdentityTransfers
  Method("POST", TRUE, "create"),   \* CreateIdentityOperation
  Post("prove"),                    \* ReauthenticateIdentityOperation,
                                    \* CompleteIdentityProviderAuthorization
  Post("challenge"),                \* ChallengeIdentityOperation,
                                    \* ChallengeIdentityCurrentAccount,
                                    \* AuthorizeIdentityOperation
  Post("complete"),                 \* CompleteIdentityOperation,
                                    \* ConfirmIdentityTransfer
  Post("cancel") }                  \* CancelIdentityOperation

MFAMethods == {
  Read,                             \* GetMFACapabilities, GetMFAOperation
  Method("POST", TRUE, "create"),   \* CreateMFAOperation
  Post("prove"),                    \* ReauthenticateMFAOperation,
                                    \* CompleteMFAProviderAuthorization
  Post("challenge"),                \* ChallengeMFAOperation, AuthorizeMFAOperation
  Post("begin"),                    \* BeginTOTPEnrollmentOperation
  Post("complete"),                 \* CompleteMFAOperation
  Post("cancel") }                  \* CancelMFAOperation

StepUpMethods == {
  Post("challenge"),                \* StartIdentityOperationStepUp,
                                    \* StartIdentityOperationWebAuthn,
                                    \* StartMFAOperationStepUp,
                                    \* StartMFAOperationWebAuthn
  Post("prove"),                    \* VerifyIdentityOperationStepUp,
                                    \* VerifyIdentityOperationWebAuthn,
                                    \* VerifyMFAOperationStepUp,
                                    \* VerifyMFAOperationWebAuthn
  Read }                            \* GetRecoveryCodesRemaining

Methods == IdentityMethods \cup MFAMethods \cup StepUpMethods

\* A call: a method, and the key of the operation it is about.
Requests == [method : Methods, key : Keys]

Mutation(r) == r.method.verb # "GET"

TypeOK ==
  /\ call \in [Callers -> Requests]
  /\ phase \in [Callers -> {"idle", "sent", "answered"}]
  /\ answer \in [Callers -> Answers]
  /\ outcome \in [Callers -> {"none", "ok", "rejected", "refused", "protocol",
                              "unknown", "failed"}]
  /\ late \subseteq Requests
  /\ op \in [Keys -> Operation]
  /\ given \in [Keys -> BOOLEAN]
  /\ carried \in [Callers -> 0 .. 1]
  /\ handed \in [Keys -> 0 .. 2]
  /\ doubted \in [Keys -> BOOLEAN]

Init ==
  /\ \E k \in Keys : call =
       [c \in Callers |-> [method |-> Read, key |-> k]]
  /\ phase = [c \in Callers |-> "idle"]
  /\ answer = [c \in Callers |-> NoAnswer]
  /\ outcome = [c \in Callers |-> "none"]
  /\ late = {}
  /\ op \in [Keys -> [type : MFAOperationType, state : {"absent"}]]
  /\ given = [k \in Keys |-> FALSE]
  /\ carried = [c \in Callers |-> 0]
  /\ handed = [k \in Keys |-> 0]
  /\ doubted = [k \in Keys |-> FALSE]

-----------------------------------------------------------------------------
(* The client *)

\* The method finds its token, id, request or key invalid, or its context
\* cancelled, and sends nothing.
Reject(c, m, k) ==
  /\ phase[c] = "idle"
  /\ call' = [call EXCEPT ![c] = [method |-> m, key |-> k]]
  /\ outcome' = [outcome EXCEPT ![c] = "rejected"]
  /\ carried' = [carried EXCEPT ![c] = 0]
  /\ UNCHANGED <<phase, answer, late, server, handed, doubted>>

\* scoped.Do sends the request.
Send(c, m, k) ==
  /\ phase[c] = "idle"
  /\ call' = [call EXCEPT ![c] = [method |-> m, key |-> k]]
  /\ phase' = [phase EXCEPT ![c] = "sent"]
  /\ outcome' = [outcome EXCEPT ![c] = "none"]
  /\ carried' = [carried EXCEPT ![c] = 0]
  /\ UNCHANGED <<answer, late, server, handed, doubted>>

\* Mutant: the request keeps the GetBody that NewRequest gave it.
KeepsGetBody == TRUE

\* req.GetBody = nil
BodyRewindable == FALSE

\* net/http may send a request again, on a new connection, when the reused
\* connection dies before the first byte of the response: one that is
\* idempotent by its verb or by its Idempotency-Key, if it has the body still.
Replayable(r) == ~Mutation(r) \/ (r.method.keyed /\ BodyRewindable)

Replay(c) ==
  /\ phase[c] = "answered"
  /\ Replayable(call[c])
  /\ phase' = [phase EXCEPT ![c] = "sent"]
  /\ answer' = [answer EXCEPT ![c] = NoAnswer]
  /\ UNCHANGED <<call, outcome, late, server, history>>

\* The method returns with this outcome.
Conclude(c, result) ==
  /\ phase' = [phase EXCEPT ![c] = "idle"]
  /\ answer' = [answer EXCEPT ![c] = NoAnswer]
  /\ outcome' = [outcome EXCEPT ![c] = result]
  /\ doubted' = [doubted EXCEPT ![call[c].key] =
                   @ \/ result \in {"unknown", "protocol"}]

\* Mutant: an error while the body is read is taken for a failed call.
UnknownUnlessAnswered(c) ==
  IF Mutation(call[c]) /\ phase[c] = "sent" THEN "unknown" ELSE "failed"

\* AccountSecurityTransportError{OutcomeUnknown: method != "GET"}
TransportError(c) == IF Mutation(call[c]) THEN "unknown" ELSE "failed"

\* The transport fails, the client's timeout or the caller's context ends the
\* call, or the body breaks off.  The server may get the request all the same.
Lose(c) ==
  /\ phase[c] \in {"sent", "answered"}
  /\ Conclude(c, TransportError(c))
  /\ \/ late' = late
     \/ /\ phase[c] = "sent" /\ Mutation(call[c])
        /\ Cardinality(late) < MaxLate
        /\ late' = late \cup {call[c]}
  /\ UNCHANGED <<call, server, carried, handed>>

\* Mutants: the delivery flag is believed without a look at the secret, or the
\* secret without a look at the flag.
FlagBelieved(r, a) == a.secret => a.delivery = "AVAILABLE"
SecretBelieved(r, a) == a.delivery = "AVAILABLE" => a.secret

\* securitySemantic: a secret comes with delivery AVAILABLE, and only in the
\* answer to begin or complete.
WellFormed(r, a) ==
  /\ (a.delivery = "AVAILABLE") = a.secret
  /\ r.method.effect = "begin" => a.delivery # "NOT_APPLICABLE"
  /\ r.method.effect \notin {"begin", "complete"} => ~a.secret

\* The method reads the response and returns what it says.
Return(c) ==
  LET a == answer[c]
      result == IF a.status = "error" THEN "refused"
                ELSE IF a.status = "2xx" /\ WellFormed(call[c], a) THEN "ok"
                ELSE "protocol"
  IN  /\ phase[c] = "answered"
      /\ Conclude(c, result)
      /\ handed' = [handed EXCEPT ![call[c].key] =
                      IF result = "ok" /\ a.secret /\ @ < 2 THEN @ + 1 ELSE @]
      /\ UNCHANGED <<call, late, server, carried>>

-----------------------------------------------------------------------------
(* The server *)

\* The state a request moves the operation to, where the server allows it.
Moves(r, o) ==
  CASE r.method.effect = "read" -> {o}
    [] r.method.effect = "create" ->
         IF o.state = "absent"
         THEN { [o EXCEPT !.state = s] : s \in {"AWAITING_REAUTH", "READY"} }
         ELSE {o}
    [] r.method.effect = "prove" ->
         IF o.state = "AWAITING_REAUTH" THEN {[o EXCEPT !.state = "READY"]} ELSE {}
    [] r.method.effect = "challenge" -> IF o.state = "AWAITING_REAUTH" THEN {o} ELSE {}
    [] r.method.effect = "begin" ->
         IF o.type = "TOTP_ENROLL" /\ o.state \in {"READY", "AWAITING_CONFIRMATION"}
         THEN {[o EXCEPT !.state = "AWAITING_CONFIRMATION"]} ELSE {}
    [] r.method.effect = "complete" ->
         IF o.state \in {IF o.type = "TOTP_ENROLL" THEN "AWAITING_CONFIRMATION"
                          ELSE "READY", "COMMITTED"}
         THEN {[o EXCEPT !.state = "COMMITTED"]} ELSE {}
    [] r.method.effect = "cancel" ->
         IF o.state \notin Terminal \cup {"absent"}
         THEN {[o EXCEPT !.state = "CANCELLED"]} ELSE {}

\* begin gives the enrolment material, complete the generated recovery codes.
CarriesSecret(r, o) ==
  \/ r.method.effect = "begin" /\ o.type = "TOTP_ENROLL"
  \/ r.method.effect = "complete" /\ o.type = "RECOVERY_CODES_GENERATE"

Reply(r) ==
  IF ~CarriesSecret(r, op[r.key]) THEN Ok("NOT_APPLICABLE", FALSE)
  ELSE IF given[r.key] THEN Ok("ALREADY_DELIVERED", FALSE)
  ELSE Ok("AVAILABLE", TRUE)

CarryOut(r) ==
  /\ \E o \in Moves(r, op[r.key]) : op' = [op EXCEPT ![r.key] = o]
  /\ given' = [given EXCEPT ![r.key] = @ \/ CarriesSecret(r, op[r.key])]

Accept(c) ==
  /\ phase[c] = "sent"
  /\ CarryOut(call[c])
  /\ phase' = [phase EXCEPT ![c] = "answered"]
  /\ answer' = [answer EXCEPT ![c] = Reply(call[c])]
  /\ carried' = [carried EXCEPT ![c] = IF Mutation(call[c]) THEN @ + 1 ELSE @]
  /\ UNCHANGED <<call, outcome, late, handed, doubted>>

Refuse(c) ==
  /\ phase[c] = "sent"
  /\ phase' = [phase EXCEPT ![c] = "answered"]
  /\ answer' = [answer EXCEPT ![c] = ErrorWire]
  /\ UNCHANGED <<call, outcome, late, server, history>>

\* An answer that is not the server's: a gateway's error page, a redirect,
\* which the client does not follow, or more than a megabyte.
Garble(c) ==
  /\ phase[c] = "answered"
  /\ answer' = [answer EXCEPT ![c] = Garbled]
  /\ UNCHANGED <<call, phase, outcome, late, server, history>>

\* A server that leaves the secret out of its answer, or tells it again.
Misdeliver(c) ==
  /\ phase[c] = "answered"
  /\ answer[c].status = "2xx" /\ given[call[c].key]
  /\ answer' = [answer EXCEPT ![c].secret = ~@]
  /\ UNCHANGED <<call, phase, outcome, late, server, history>>

\* A request whose caller has given up arrives.
AcceptLate(r) ==
  /\ r \in late
  /\ CarryOut(r)
  /\ late' = late \ {r}
  /\ UNCHANGED <<call, phase, answer, outcome, history>>

Expire(k) ==
  /\ op[k].state \notin Terminal \cup {"absent"}
  /\ op' = [op EXCEPT ![k].state = "EXPIRED"]
  /\ UNCHANGED <<client, given, history>>

Next ==
  \/ \E c \in Callers, m \in Methods, k \in Keys : Reject(c, m, k) \/ Send(c, m, k)
  \/ \E c \in Callers : \/ Replay(c) \/ Lose(c) \/ Return(c)
                        \/ Accept(c) \/ Refuse(c) \/ Garble(c) \/ Misdeliver(c)
  \/ \E r \in late : AcceptLate(r)
  \/ \E k \in Keys : Expire(k)

Spec == Init /\ [][Next]_vars
-----------------------------------------------------------------------------
(* Properties *)

\* The secret of an operation is returned to the application at most once, by
\* all its goroutines together, even if the server tells it again.
SecretOnce == \A k \in Keys : handed[k] =< 1

\* A secret that was put in an answer and that no method returned is still on
\* its way, or some method said that the outcome for the operation is open: the
\* application is never left believing that there is a secret to come.
LostSecretIsKnown ==
  \A k \in Keys : given[k] =>
    \/ handed[k] > 0 \/ doubted[k]
    \/ \E c \in Callers : /\ phase[c] = "answered" /\ call[c].key = k
                          /\ call[c].method.effect \in {"begin", "complete"}

\* Each caller's mutations as the calls of OneShotCall; reads are none of them.
StateOf(c) == IF ~Mutation(call[c]) THEN "ready"
              ELSE IF phase[c] = "idle" THEN "closed" ELSE "open"
DoneOf(c) == Mutation(call[c]) /\ carried[c] = 1
VerdictOf(c) ==
  IF StateOf(c) # "closed" THEN "none"
  ELSE IF outcome[c] = "ok" THEN "done"
  ELSE IF outcome[c] \in {"unknown", "protocol"} THEN "unknown" ELSE "refused"

Promise == INSTANCE OneShotCall WITH
  state <- [c \in Callers |-> StateOf(c)],
  done <- [c \in Callers |-> DoneOf(c)],
  verdict <- [c \in Callers |-> VerdictOf(c)]

\* No mutation is carried out twice, and each method tells the truth about its
\* own: a nil error only if it was carried out, a definite error only if not.
HonestOutcomes == Promise!Spec
=============================================================================
