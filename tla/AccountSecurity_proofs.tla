----------------------- MODULE AccountSecurity_proofs -----------------------
(***************************************************************************)
(* Proofs about AccountSecurity for every set of callers and keys and any  *)
(* number of late requests.                                                *)
(***************************************************************************)
EXTENDS AccountSecurity, TLAPS

\* The server moves an operation to an operation.
LEMMA MovesType ==
  ASSUME NEW r \in Requests, NEW o \in Operation, NEW p \in Moves(r, o)
  PROVE  p \in Operation
<1> USE DEF Operation, MFAOperationState
<1>1. r.method.effect \in {"read", "create", "prove", "challenge", "begin",
                           "complete", "cancel"}
  BY DEF Requests, Methods, IdentityMethods, MFAMethods, StepUpMethods, Method,
         Read, Post
<1>2. CASE r.method.effect \in {"read", "challenge"}
  BY <1>2 DEF Moves
<1>3. CASE r.method.effect = "create"
  BY <1>3 DEF Moves
<1>4. CASE r.method.effect = "prove"
  BY <1>4 DEF Moves
<1>5. CASE r.method.effect = "begin"
  BY <1>5 DEF Moves
<1>6. CASE r.method.effect = "complete"
  BY <1>6 DEF Moves
<1>7. CASE r.method.effect = "cancel"
  BY <1>7 DEF Moves
<1>8. QED
  BY <1>1, <1>2, <1>3, <1>4, <1>5, <1>6, <1>7

\* A request that moves an operation keeps the server's variables in type.
LEMMA CarryOutType ==
  ASSUME TypeOK, NEW r \in Requests, CarryOut(r)
  PROVE  op' \in [Keys -> Operation] /\ given' \in [Keys -> BOOLEAN]
<1>1. r.key \in Keys
  BY DEF Requests
<1>2. PICK o \in Moves(r, op[r.key]) : op' = [op EXCEPT ![r.key] = o]
  BY DEF CarryOut
<1>3. o \in Operation
  BY <1>1, <1>2, MovesType DEF TypeOK
<1>4. CarriesSecret(r, op[r.key]) \in BOOLEAN
  BY DEF CarriesSecret
<1>5. op' \in [Keys -> Operation]
  BY <1>2, <1>3 DEF TypeOK
<1>6. given' \in [Keys -> BOOLEAN]
  BY <1>4 DEF TypeOK, CarryOut
<1>7. QED
  BY <1>5, <1>6

\* A method that returns leaves the client's variables in type.
LEMMA ConcludeType ==
  ASSUME TypeOK, NEW c \in Callers,
         NEW result \in {"ok", "refused", "protocol", "unknown", "failed"},
         Conclude(c, result)
  PROVE  /\ phase' \in [Callers -> {"idle", "sent", "answered"}]
         /\ answer' \in [Callers -> Answers]
         /\ outcome' \in [Callers -> {"none", "ok", "rejected", "refused",
                                      "protocol", "unknown", "failed"}]
         /\ doubted' \in [Keys -> BOOLEAN]
<1>1. NoAnswer \in Answers
  BY DEF NoAnswer, ErrorWire, Answers, SensitiveDelivery
<1>2. phase' \in [Callers -> {"idle", "sent", "answered"}]
  BY DEF Conclude, TypeOK
<1>3. answer' \in [Callers -> Answers]
  BY <1>1 DEF Conclude, TypeOK
<1>4. outcome' \in [Callers -> {"none", "ok", "rejected", "refused",
                                "protocol", "unknown", "failed"}]
  BY DEF Conclude, TypeOK
<1>5. doubted' \in [Keys -> BOOLEAN]
  BY DEF Conclude, TypeOK
<1>6. QED
  BY <1>2, <1>3, <1>4, <1>5

-----------------------------------------------------------------------------
(* The calls: a mutation is carried out at most once, and what its answer  *)
(* says of that is true.                                                   *)

CallInv ==
  \A c \in Callers : Mutation(call[c]) =>
    /\ phase[c] = "sent" => carried[c] = 0
    /\ phase[c] = "answered" =>
         /\ answer[c].status # "none"
         /\ answer[c].status = "2xx" => carried[c] = 1
         /\ answer[c].status = "error" => carried[c] = 0

\* What the server carried out stays in type, a mutation's count too.
LEMMA AcceptType ==
  ASSUME TypeOK, CallInv, NEW c \in Callers, Accept(c)
  PROVE  TypeOK'
<1>1. call[c] \in Requests /\ CarryOut(call[c])
  BY DEF TypeOK, Accept
<1>2. Reply(call[c]) \in Answers
  BY DEF Reply, SensitiveDelivery, Ok, Answers
<1>3. carried' \in [Callers -> 0 .. 1]
  <2>1. CASE Mutation(call[c])
    <3>1. carried[c] = 0
      BY <2>1 DEF CallInv, Accept
    <3>2. QED
      BY <2>1, <3>1 DEF Accept, TypeOK
  <2>2. CASE ~Mutation(call[c])
    BY <2>2 DEF Accept, TypeOK
  <2>3. QED
    BY <2>1, <2>2
<1>4. QED
  BY <1>1, <1>2, <1>3, CarryOutType DEF Accept, TypeOK

\* The types are kept by every step.
LEMMA TypeStep ==
  ASSUME TypeOK, CallInv, [Next]_vars
  PROVE  TypeOK'
<1> USE DEF client, server, history
<1>0. NoAnswer \in Answers /\ ErrorWire \in Answers /\ Garbled \in Answers
  BY DEF NoAnswer, ErrorWire, Garbled, Answers, SensitiveDelivery
<1>1. ASSUME NEW c \in Callers, NEW m \in Methods, NEW k \in Keys, Reject(c, m, k)
      PROVE  TypeOK'
  <2>1. [method |-> m, key |-> k] \in Requests
    BY DEF Requests
  <2>2. QED
    BY <1>1, <2>1 DEF Reject, TypeOK
<1>2. ASSUME NEW c \in Callers, NEW m \in Methods, NEW k \in Keys, Send(c, m, k)
      PROVE  TypeOK'
  <2>1. [method |-> m, key |-> k] \in Requests
    BY DEF Requests
  <2>2. QED
    BY <1>2, <2>1 DEF Send, TypeOK
<1>3. ASSUME NEW c \in Callers, Replay(c) PROVE TypeOK'
  BY <1>3, <1>0 DEF Replay, TypeOK
<1>4. ASSUME NEW c \in Callers, Lose(c) PROVE TypeOK'
  <2>1. TransportError(c) \in {"unknown", "failed"}
    BY DEF TransportError
  <2>2. late' \subseteq Requests
    BY <1>4 DEF Lose, TypeOK
  <2>3. QED
    BY <1>4, <2>1, <2>2, ConcludeType DEF Lose, TypeOK
<1>5. ASSUME NEW c \in Callers, Return(c) PROVE TypeOK'
  <2> DEFINE result == IF answer[c].status = "error" THEN "refused"
                       ELSE IF answer[c].status = "2xx" /\ WellFormed(call[c], answer[c])
                            THEN "ok" ELSE "protocol"
             n == handed[call[c].key]
             more == result = "ok" /\ answer[c].secret /\ n < 2
  <2>1. result \in {"ok", "refused", "protocol"} /\ Conclude(c, result)
    BY <1>5 DEF Return
  <2>2. handed' = [handed EXCEPT ![call[c].key] = IF more THEN n + 1 ELSE n]
    BY <1>5 DEF Return, TypeOK
  <2>3. n \in 0 .. 2
    BY DEF TypeOK, Requests
  <2>4. (IF more THEN n + 1 ELSE n) \in 0 .. 2
    <3>1. more => n < 2
      OBVIOUS
    <3> HIDE DEF more, n
    <3>2. QED
      BY <2>3, <3>1
  <2> HIDE DEF result, more, n
  <2>5. handed' \in [Keys -> 0 .. 2]
    BY <2>2, <2>4 DEF TypeOK
  <2>6. QED
    BY <1>5, <2>1, <2>5, ConcludeType DEF Return, TypeOK
<1>6. ASSUME NEW c \in Callers, Accept(c) PROVE TypeOK'
  BY <1>6, AcceptType
<1>7. ASSUME NEW c \in Callers, Refuse(c) PROVE TypeOK'
  BY <1>7, <1>0 DEF Refuse, TypeOK
<1>8. ASSUME NEW c \in Callers, Garble(c) PROVE TypeOK'
  BY <1>8, <1>0 DEF Garble, TypeOK
<1>9. ASSUME NEW c \in Callers, Misdeliver(c) PROVE TypeOK'
  <2>1. [answer[c] EXCEPT !.secret = ~answer[c].secret] \in Answers
    BY DEF TypeOK, Answers
  <2>2. answer' = [answer EXCEPT ![c] = [answer[c] EXCEPT !.secret = ~answer[c].secret]]
    BY <1>9 DEF Misdeliver, TypeOK
  <2>3. QED
    BY <1>9, <2>1, <2>2 DEF Misdeliver, TypeOK
<1>10. ASSUME NEW r \in late, AcceptLate(r) PROVE TypeOK'
  <2>1. r \in Requests
    BY DEF TypeOK
  <2>2. QED
    BY <1>10, <2>1, CarryOutType DEF AcceptLate, TypeOK
<1>11. ASSUME NEW k \in Keys, Expire(k) PROVE TypeOK'
  <2>1. [op[k] EXCEPT !.state = "EXPIRED"] \in Operation
    BY DEF TypeOK, Operation, MFAOperationState
  <2>2. QED
    BY <1>11, <2>1 DEF Expire, TypeOK
<1>12. CASE UNCHANGED vars
  BY <1>12 DEF vars, TypeOK
<1>13. QED
  BY <1>1, <1>2, <1>3, <1>4, <1>5, <1>6, <1>7, <1>8, <1>9, <1>10, <1>11, <1>12
  DEF Next

\* What a step does to a call is seen in that call alone.
LEMMA CallStep ==
  ASSUME TypeOK, CallInv, [Next]_vars
  PROVE  CallInv'
<1> USE DEF client, server, history, TypeOK, CallInv
<1>1. ASSUME NEW c \in Callers, NEW m \in Methods, NEW k \in Keys, Reject(c, m, k)
      PROVE  CallInv'
  BY <1>1 DEF Reject
<1>2. ASSUME NEW c \in Callers, NEW m \in Methods, NEW k \in Keys, Send(c, m, k)
      PROVE  CallInv'
  BY <1>2 DEF Send
<1>3. ASSUME NEW c \in Callers, Replay(c) PROVE CallInv'
  BY <1>3 DEF Replay, Replayable, BodyRewindable
<1>4. ASSUME NEW c \in Callers, Lose(c) PROVE CallInv'
  BY <1>4 DEF Lose, Conclude
<1>5. ASSUME NEW c \in Callers, Return(c) PROVE CallInv'
  BY <1>5 DEF Return, Conclude
<1>6. ASSUME NEW c \in Callers, Accept(c) PROVE CallInv'
  <2>1. Reply(call[c]).status = "2xx"
    BY DEF Reply, Ok
  <2>2. QED
    BY <1>6, <2>1 DEF Accept
<1>7. ASSUME NEW c \in Callers, Refuse(c) PROVE CallInv'
  BY <1>7 DEF Refuse, ErrorWire
<1>8. ASSUME NEW c \in Callers, Garble(c) PROVE CallInv'
  BY <1>8 DEF Garble, Garbled, ErrorWire
<1>9. ASSUME NEW c \in Callers, Misdeliver(c) PROVE CallInv'
  BY <1>9 DEF Misdeliver, Answers
<1>10. ASSUME NEW r \in late, AcceptLate(r) PROVE CallInv'
  BY <1>10 DEF AcceptLate
<1>11. ASSUME NEW k \in Keys, Expire(k) PROVE CallInv'
  BY <1>11 DEF Expire
<1>12. CASE UNCHANGED vars
  BY <1>12 DEF vars
<1>13. QED
  BY <1>1, <1>2, <1>3, <1>4, <1>5, <1>6, <1>7, <1>8, <1>9, <1>10, <1>11, <1>12
  DEF Next

\* Nothing has been sent when the client is built.
LEMMA CallInit == Init => TypeOK /\ CallInv
<1> SUFFICES ASSUME Init PROVE TypeOK /\ CallInv
  OBVIOUS
<1>1. NoAnswer \in Answers
  BY DEF NoAnswer, ErrorWire, Answers, SensitiveDelivery
<1>2. Read \in Methods
  BY DEF Methods, IdentityMethods
<1>3. call \in [Callers -> Requests]
  BY <1>2 DEF Init, Requests
<1>4. op \in [Keys -> Operation]
  BY DEF Init, Operation
<1>5. TypeOK
  BY <1>1, <1>3, <1>4 DEF Init, TypeOK
<1>6. CallInv
  BY DEF Init, CallInv
<1>7. QED
  BY <1>5, <1>6

\* The types of calls, operations and histories are invariant; that the server
\* carries a call out at most once is among them.
THEOREM TypeCorrect == Spec => []TypeOK
<1>1. TypeOK /\ CallInv /\ [Next]_vars => TypeOK' /\ CallInv'
  BY TypeStep, CallStep
<1>2. QED
  BY CallInit, <1>1, PTL DEF Spec
-----------------------------------------------------------------------------
(* The secret: an answer that says AVAILABLE is the only one for its       *)
(* operation, and is on its way before any method has returned the secret. *)

\* The answer on its way to c has the secret of operation k.
Bears(c, k) ==
  /\ phase[c] = "answered" /\ call[c].key = k
  /\ answer[c].delivery = "AVAILABLE"

SecretInv ==
  /\ \A c \in Callers : answer[c].delivery = "AVAILABLE" =>
       /\ phase[c] = "answered"
       /\ answer[c].status = "2xx"
       /\ call[c].method.effect \in {"begin", "complete"}
       /\ given[call[c].key] /\ handed[call[c].key] = 0
       /\ \A d \in Callers : Bears(d, call[c].key) => d = c
  /\ \A k \in Keys : handed[k] > 0 => given[k]
  /\ SecretOnce

\* What the methods ask of the server, by their verbs.
LEMMA VerbOfEffect ==
  ASSUME NEW m \in Methods
  PROVE  /\ m.verb # "GET" <=> m.effect # "read"
         /\ m.effect \in {"begin", "complete"} => m.verb # "GET"
BY DEF Methods, IdentityMethods, MFAMethods, StepUpMethods, Method, Read, Post

\* A call that goes back to no answer, or to one without the secret, leaves the
\* secret's invariant alone.
LEMMA SecretKept ==
  ASSUME TypeOK, SecretInv, UNCHANGED handed, NEW c \in Callers,
         given' \in [Keys -> BOOLEAN], \A k \in Keys : given[k] => given'[k],
         \A d \in Callers \ {c} : /\ call'[d] = call[d] /\ phase'[d] = phase[d]
                                  /\ answer'[d] = answer[d],
         answer'[c].delivery # "AVAILABLE"
  PROVE  SecretInv'
BY DEF TypeOK, SecretInv, SecretOnce, Bears, Requests

\* The steps of the client and the server keep the secret's invariant.
LEMMA SecretStep ==
  ASSUME TypeOK, TypeOK', SecretInv, [Next]_vars
  PROVE  SecretInv'
<1> USE DEF client, server, history
<1>0. /\ NoAnswer.delivery # "AVAILABLE" /\ ErrorWire.delivery # "AVAILABLE"
      /\ Garbled.delivery # "AVAILABLE"
  BY DEF NoAnswer, ErrorWire, Garbled
<1>1. ASSUME NEW c \in Callers, NEW m \in Methods, NEW k \in Keys, Reject(c, m, k)
      PROVE  SecretInv'
  <2>1. answer'[c].delivery # "AVAILABLE"
    BY <1>1 DEF Reject, SecretInv
  <2>2. QED
    BY <1>1, <2>1, SecretKept DEF Reject, TypeOK
<1>2. ASSUME NEW c \in Callers, NEW m \in Methods, NEW k \in Keys, Send(c, m, k)
      PROVE  SecretInv'
  <2>1. answer'[c].delivery # "AVAILABLE"
    BY <1>2 DEF Send, SecretInv
  <2>2. QED
    BY <1>2, <2>1, SecretKept DEF Send, TypeOK
<1>3. ASSUME NEW c \in Callers, Replay(c) PROVE SecretInv'
  BY <1>3, <1>0, SecretKept DEF Replay, TypeOK
<1>4. ASSUME NEW c \in Callers, Lose(c) PROVE SecretInv'
  BY <1>4, <1>0, SecretKept DEF Lose, Conclude, TypeOK
<1>5. ASSUME NEW c \in Callers, Return(c) PROVE SecretInv'
  <2> DEFINE k == call[c].key
             hands == /\ answer[c].status = "2xx" /\ WellFormed(call[c], answer[c])
                      /\ answer[c].secret /\ handed[k] < 2
  <2>1. k \in Keys /\ handed[k] \in 0 .. 2
    BY DEF TypeOK, Requests
  <2>2. handed' = [handed EXCEPT ![k] = IF hands THEN handed[k] + 1 ELSE handed[k]]
    BY <1>5 DEF Return, TypeOK
  <2>3. /\ answer' = [answer EXCEPT ![c] = NoAnswer]
        /\ phase' = [phase EXCEPT ![c] = "idle"] /\ call' = call /\ given' = given
    BY <1>5 DEF Return, Conclude
  <2>4. CASE ~hands
    <3>1. handed' = handed
      BY <2>1, <2>2, <2>4 DEF TypeOK
    <3>2. QED
      BY <2>3, <3>1, <1>0, SecretKept DEF TypeOK
  <2>5. CASE hands
    <3>1. Bears(c, k)
      BY <1>5, <2>5 DEF Bears, WellFormed, Return
    <3>2. given[k] /\ handed[k] = 0 /\ \A d \in Callers : Bears(d, k) => d = c
      BY <3>1 DEF SecretInv, Bears
    <3>3. /\ handed'[k] = 1 /\ \A l \in Keys \ {k} : handed'[l] = handed[l]
      BY <2>1, <2>2, <2>5, <3>2 DEF TypeOK
    <3>4. \A d \in Callers : d # c /\ answer[d].delivery = "AVAILABLE" =>
            call[d].key \in Keys \ {k}
      BY <3>2 DEF SecretInv, Bears, TypeOK, Requests
    <3>5. \A d \in Callers : answer'[d].delivery = "AVAILABLE" =>
            d # c /\ answer'[d] = answer[d] /\ phase'[d] = phase[d]
      BY <2>3, <1>0 DEF TypeOK
    <3>6. \A d \in Callers, l \in Keys : Bears(d, l)' => Bears(d, l)
      BY <2>3, <3>5 DEF Bears
    <3> HIDE DEF hands, k
    <3>7. \A d \in Callers : answer'[d].delivery = "AVAILABLE" =>
            /\ phase'[d] = "answered"
            /\ answer'[d].status = "2xx"
            /\ call'[d].method.effect \in {"begin", "complete"}
            /\ given'[call'[d].key] /\ handed'[call'[d].key] = 0
            /\ \A e \in Callers : Bears(e, call[d].key)' => e = d
      BY <2>3, <3>3, <3>4, <3>5, <3>6 DEF SecretInv
    <3>8. \A l \in Keys : handed'[l] > 0 => given'[l]
      BY <2>3, <3>2, <3>3 DEF SecretInv
    <3>9. SecretOnce'
      BY <3>3 DEF SecretInv, SecretOnce
    <3>10. QED
      BY <2>3, <3>7, <3>8, <3>9 DEF SecretInv, Bears
  <2>6. QED
    BY <2>4, <2>5
<1>6. ASSUME NEW c \in Callers, Accept(c) PROVE SecretInv'
  <2> DEFINE k == call[c].key
  <2>1. k \in Keys /\ call[c] \in Requests
    BY DEF TypeOK, Requests
  <2>2. /\ answer' = [answer EXCEPT ![c] = Reply(call[c])]
        /\ phase' = [phase EXCEPT ![c] = "answered"]
        /\ call' = call /\ handed' = handed
        /\ given' = [given EXCEPT ![k] = given[k] \/ CarriesSecret(call[c], op[k])]
    BY <1>6 DEF Accept, CarryOut, TypeOK
  <2>3. \A l \in Keys : given[l] => given'[l]
    BY <2>2 DEF TypeOK
  <2>4. CASE Reply(call[c]).delivery # "AVAILABLE"
    BY <2>2, <2>3, <2>4, SecretKept DEF TypeOK
  <2>5. CASE Reply(call[c]).delivery = "AVAILABLE"
    <3>1. /\ CarriesSecret(call[c], op[k]) /\ ~given[k]
          /\ Reply(call[c]).status = "2xx"
      BY <2>5 DEF Reply, Ok
    <3>2. call[c].method.effect \in {"begin", "complete"}
      BY <3>1 DEF CarriesSecret
    <3>3. handed[k] = 0 /\ given'[k]
      <4>1. handed[k] \in 0 .. 2 /\ ~(handed[k] > 0)
        BY <2>1, <3>1 DEF SecretInv, TypeOK
      <4>2. handed[k] = 0
        BY <4>1
      <4>3. given'[k]
        BY <2>1, <2>2, <3>1 DEF TypeOK
      <4>4. QED
        BY <4>2, <4>3
    <3>4. \A d \in Callers : answer[d].delivery = "AVAILABLE" => call[d].key # k
      BY <3>1 DEF SecretInv
    <3>5. \A d \in Callers \ {c} : answer'[d] = answer[d] /\ phase'[d] = phase[d]
      BY <2>2 DEF TypeOK
    <3>6. answer'[c] = Reply(call[c]) /\ phase'[c] = "answered"
      BY <2>2 DEF TypeOK
    <3>7. \A d \in Callers : Bears(d, k)' => d = c
      <4>1. k' = k
        BY <2>2
      <4>2. \A d \in Callers : d # c /\ Bears(d, k)' => Bears(d, k)
        BY <2>2, <3>5, <4>1 DEF Bears
      <4>3. QED
        BY <3>4, <4>2 DEF Bears
    <3> HIDE DEF k
    <3>8. \A d \in Callers \ {c} : answer'[d].delivery = "AVAILABLE" =>
            \A e \in Callers : Bears(e, call[d].key)' => e = d
      BY <2>2, <3>4, <3>5, <3>6 DEF Bears, SecretInv, k
    <3>9. QED
      BY <2>1, <2>2, <2>3, <3>1, <3>2, <3>3, <3>5, <3>6, <3>7, <3>8
      DEF SecretInv, SecretOnce, k, TypeOK, Requests
  <2>6. QED
    BY <2>4, <2>5
<1>7. ASSUME NEW c \in Callers, Refuse(c) PROVE SecretInv'
  BY <1>7, <1>0, SecretKept DEF Refuse, TypeOK
<1>8. ASSUME NEW c \in Callers, Garble(c) PROVE SecretInv'
  BY <1>8, <1>0, SecretKept DEF Garble, TypeOK
<1>9. ASSUME NEW c \in Callers, Misdeliver(c) PROVE SecretInv'
  <2>1. \A d \in Callers : /\ answer'[d].delivery = answer[d].delivery
                           /\ answer'[d].status = answer[d].status
    BY <1>9 DEF Misdeliver, TypeOK, Answers
  <2>2. UNCHANGED <<call, phase, given, handed>>
    BY <1>9 DEF Misdeliver
  <2>3. QED
    BY <2>1, <2>2 DEF SecretInv, SecretOnce, Bears
<1>10. ASSUME NEW r \in late, AcceptLate(r) PROVE SecretInv'
  <2>1. \A l \in Keys : given[l] => given'[l]
    BY <1>10 DEF AcceptLate, CarryOut, TypeOK
  <2>2. UNCHANGED <<call, phase, answer, handed>>
    BY <1>10 DEF AcceptLate
  <2>3. QED
    BY <2>1, <2>2 DEF SecretInv, SecretOnce, Bears, TypeOK, Requests
<1>11. ASSUME NEW k \in Keys, Expire(k) PROVE SecretInv'
  BY <1>11 DEF Expire, SecretInv, SecretOnce, Bears
<1>12. CASE UNCHANGED vars
  BY <1>12 DEF vars, SecretInv, SecretOnce, Bears
<1>13. QED
  BY <1>1, <1>2, <1>3, <1>4, <1>5, <1>6, <1>7, <1>8, <1>9, <1>10, <1>11, <1>12
  DEF Next

IInv == TypeOK /\ CallInv /\ SecretInv

\* No secret has been given when the client is built.
LEMMA SecretInit == Init => SecretInv
  BY DEF Init, SecretInv, SecretOnce, Bears, NoAnswer, ErrorWire

\* All goroutines together are returned the secret of an operation at most once.
THEOREM SecretReturnedOnce == Spec => []SecretOnce
<1>1. Init => IInv
  BY CallInit, SecretInit DEF IInv
<1>2. IInv /\ [Next]_vars => IInv'
  BY TypeStep, CallStep, SecretStep DEF IInv
<1>3. IInv => SecretOnce
  BY DEF IInv, SecretInv
<1>4. QED
  BY <1>1, <1>2, <1>3, PTL DEF Spec
-----------------------------------------------------------------------------
(* What becomes of a secret that was put in an answer                      *)

\* The answer to c has the secret of operation k, or is illegible.
Holds(c, k) ==
  /\ phase[c] = "answered" /\ call[c].key = k
  /\ call[c].method.effect \in {"begin", "complete"}
  /\ answer[c].delivery = "AVAILABLE" \/ answer[c].status = "garbled"

Known(k) == handed[k] > 0 \/ doubted[k]

DoubtInv ==
  /\ \A r \in late : doubted[r.key]
  /\ \A k \in Keys : given[k] => Known(k) \/ \E c \in Callers : Holds(c, k)

\* A step that gives no secret has to leave each answer that may hold one where
\* it is, or to say so.
LEMMA DoubtKept ==
  ASSUME TypeOK, DoubtInv, UNCHANGED given,
         \A k \in Keys : Known(k) => Known(k)',
         \A r \in late' : doubted'[r.key],
         \A c \in Callers, k \in Keys : Holds(c, k) => Holds(c, k)' \/ Known(k)'
  PROVE  DoubtInv'
<1>1. SUFFICES ASSUME NEW k \in Keys, given[k]
               PROVE  Known(k)' \/ \E c \in Callers : Holds(c, k)'
  BY DEF DoubtInv
<1>2. CASE Known(k)
  BY <1>2
<1>3. CASE \E c \in Callers : Holds(c, k)
  BY <1>3
<1>4. QED
  BY <1>1, <1>2, <1>3 DEF DoubtInv

\* A method that returns forgets no doubt, and has one if its outcome is open.
LEMMA ConcludeDoubt ==
  ASSUME TypeOK, NEW c \in Callers, NEW result, Conclude(c, result)
  PROVE  /\ \A k \in Keys : doubted[k] => doubted'[k]
         /\ result \in {"unknown", "protocol"} => doubted'[call[c].key]
         /\ \A d \in Callers \ {c} : phase'[d] = phase[d] /\ answer'[d] = answer[d]
<1>1. call[c].key \in Keys
  BY DEF TypeOK, Requests
<1>2. doubted' = [doubted EXCEPT ![call[c].key] =
                    doubted[call[c].key] \/ result \in {"unknown", "protocol"}]
  BY DEF Conclude, TypeOK
<1>3. QED
  BY <1>1, <1>2 DEF Conclude, TypeOK

\* No step loses a secret without a word.
LEMMA DoubtStep ==
  ASSUME TypeOK, TypeOK', SecretInv, DoubtInv, [Next]_vars
  PROVE  DoubtInv'
<1> USE DEF client, server, history
<1>0. \A r \in late : r.key \in Keys
  BY DEF TypeOK, Requests
<1>1. ASSUME NEW c \in Callers, NEW m \in Methods, NEW k \in Keys, Reject(c, m, k)
      PROVE  DoubtInv'
  <2>1. \A d \in Callers, l \in Keys : Holds(d, l) => Holds(d, l)'
    BY <1>1 DEF Reject, Holds, TypeOK
  <2>2. QED
    BY <1>1, <2>1, DoubtKept DEF Reject, Known, DoubtInv
<1>2. ASSUME NEW c \in Callers, NEW m \in Methods, NEW k \in Keys, Send(c, m, k)
      PROVE  DoubtInv'
  <2>1. \A d \in Callers, l \in Keys : Holds(d, l) => Holds(d, l)'
    BY <1>2 DEF Send, Holds, TypeOK
  <2>2. QED
    BY <1>2, <2>1, DoubtKept DEF Send, Known, DoubtInv
<1>3. ASSUME NEW c \in Callers, Replay(c) PROVE DoubtInv'
  <2>1. call[c].method \in Methods
    BY DEF TypeOK, Requests
  <2>2. call[c].method.effect \notin {"begin", "complete"}
    BY <1>3, <2>1, VerbOfEffect DEF Replay, Replayable, BodyRewindable, Mutation
  <2>3. \A d \in Callers, l \in Keys : Holds(d, l) => Holds(d, l)'
    BY <1>3, <2>2 DEF Replay, Holds, TypeOK
  <2>4. QED
    BY <1>3, <2>3, DoubtKept DEF Replay, Known, DoubtInv
<1>4. ASSUME NEW c \in Callers, Lose(c) PROVE DoubtInv'
  <2>1. call[c].method \in Methods /\ call[c].key \in Keys
    BY DEF TypeOK, Requests
  <2>2. Conclude(c, TransportError(c)) /\ UNCHANGED <<call, given, handed>>
    BY <1>4 DEF Lose
  <2>3. Mutation(call[c]) => doubted'[call[c].key]
    BY <2>2, ConcludeDoubt DEF TransportError
  <2>4. \A k \in Keys : Known(k) => Known(k)'
    BY <2>2, ConcludeDoubt DEF Known
  <2>5. \A r \in late' : doubted'[r.key]
    BY <1>0, <1>4, <2>2, <2>3, ConcludeDoubt DEF Lose, DoubtInv
  <2>6. \A d \in Callers, l \in Keys : Holds(d, l) => Holds(d, l)' \/ Known(l)'
    <3>1. \A l \in Keys : Holds(c, l) => Mutation(call[c]) /\ l = call[c].key
      BY <2>1, VerbOfEffect DEF Holds, Mutation
    <3>2. \A d \in Callers \ {c}, l \in Keys : Holds(d, l) => Holds(d, l)'
      BY <2>2, ConcludeDoubt DEF Holds
    <3>3. QED
      BY <2>3, <3>1, <3>2 DEF Known
  <2>7. QED
    BY <2>2, <2>4, <2>5, <2>6, DoubtKept
<1>5. ASSUME NEW c \in Callers, Return(c) PROVE DoubtInv'
  <2> DEFINE fine == answer[c].status = "2xx" /\ WellFormed(call[c], answer[c])
             result == IF answer[c].status = "error" THEN "refused"
                       ELSE IF fine THEN "ok" ELSE "protocol"
             k == call[c].key
             hands == result = "ok" /\ answer[c].secret /\ handed[k] < 2
  <2>1. k \in Keys /\ handed[k] \in 0 .. 2
    BY DEF TypeOK, Requests
  <2>2. Conclude(c, result) /\ UNCHANGED <<call, late, given>>
    BY <1>5 DEF Return
  <2>3. handed' = [handed EXCEPT ![k] = IF hands THEN handed[k] + 1 ELSE handed[k]]
    BY <1>5 DEF Return, TypeOK
  <2>4. \A l \in Keys : handed[l] > 0 => handed'[l] > 0
    <3>1. \A l \in Keys \ {k} : handed'[l] = handed[l]
      BY <2>1, <2>3 DEF TypeOK
    <3>2. handed'[k] \in {handed[k], handed[k] + 1}
      BY <2>1, <2>3 DEF TypeOK
    <3> HIDE DEF k
    <3>3. QED
      BY <2>1, <3>1, <3>2
  <2>5. \A l \in Keys : Known(l) => Known(l)'
    BY <2>2, <2>4, ConcludeDoubt DEF Known
  <2>6. Holds(c, k) => handed'[k] > 0 \/ doubted'[k]
    <3>1. CASE answer[c].status = "garbled"
      BY <2>2, <3>1, ConcludeDoubt
    <3>2. CASE answer[c].delivery = "AVAILABLE" /\ ~fine
      <4>1. result = "protocol"
        BY <3>2 DEF SecretInv
      <4>2. QED
        BY <2>2, <4>1, ConcludeDoubt
    <3>3. CASE answer[c].delivery = "AVAILABLE" /\ fine
      <4>1. handed[k] = 0 /\ answer[c].secret /\ result = "ok"
        BY <3>3 DEF SecretInv, WellFormed, TypeOK, Answers
      <4>2. hands
        BY <4>1
      <4>3. handed'[k] = 1
        BY <2>1, <2>3, <4>1, <4>2 DEF TypeOK
      <4>4. QED
        BY <4>3
    <3>4. Holds(c, k) => answer[c].status = "garbled" \/ answer[c].delivery = "AVAILABLE"
      BY DEF Holds
    <3> HIDE DEF fine, k
    <3>5. QED
      BY <3>1, <3>2, <3>3, <3>4
  <2>7. \A d \in Callers \ {c}, l \in Keys : Holds(d, l) => Holds(d, l)'
    BY <2>2, ConcludeDoubt DEF Holds
  <2>8. \A l \in Keys : Holds(c, l) => l = k
    BY DEF Holds
  <2>9. \A r \in late' : doubted'[r.key]
    BY <1>0, <2>2, ConcludeDoubt DEF DoubtInv
  <2> HIDE DEF k, result
  <2>10. \A d \in Callers, l \in Keys : Holds(d, l) => Holds(d, l)' \/ Known(l)'
    BY <2>6, <2>7, <2>8 DEF Known
  <2>11. QED
    BY <2>2, <2>5, <2>9, <2>10, DoubtKept
<1>6. ASSUME NEW c \in Callers, Accept(c) PROVE DoubtInv'
  <2> DEFINE k == call[c].key
  <2>1. k \in Keys
    BY DEF TypeOK, Requests
  <2>2. /\ answer' = [answer EXCEPT ![c] = Reply(call[c])]
        /\ phase' = [phase EXCEPT ![c] = "answered"] /\ phase[c] = "sent"
        /\ UNCHANGED <<call, handed, doubted, late>>
        /\ given' = [given EXCEPT ![k] = given[k] \/ CarriesSecret(call[c], op[k])]
    BY <1>6 DEF Accept, CarryOut, TypeOK
  <2>3. \A d \in Callers, l \in Keys : Holds(d, l) => Holds(d, l)'
    BY <2>2 DEF Holds, TypeOK
  <2>4. ASSUME NEW l \in Keys, given'[l], ~given[l]
        PROVE  Holds(c, l)'
    <3>1. l = k /\ CarriesSecret(call[c], op[k])
      BY <2>1, <2>2, <2>4 DEF TypeOK
    <3>2. Reply(call[c]).delivery = "AVAILABLE"
      BY <2>4, <3>1 DEF Reply, Ok
    <3>3. call[c].method.effect \in {"begin", "complete"}
      BY <3>1 DEF CarriesSecret
    <3>4. QED
      BY <2>2, <3>1, <3>2, <3>3 DEF Holds, TypeOK
  <2>5. \A l \in Keys : Known(l) => Known(l)'
    BY <2>2 DEF Known
  <2>6. QED
    BY <2>2, <2>3, <2>4, <2>5 DEF DoubtInv
<1>7. ASSUME NEW c \in Callers, Refuse(c) PROVE DoubtInv'
  <2>1. \A d \in Callers, l \in Keys : Holds(d, l) => Holds(d, l)'
    BY <1>7 DEF Refuse, Holds, TypeOK
  <2>2. QED
    BY <1>7, <2>1, DoubtKept DEF Refuse, Known, DoubtInv
<1>8. ASSUME NEW c \in Callers, Garble(c) PROVE DoubtInv'
  <2>1. \A d \in Callers, l \in Keys : Holds(d, l) => Holds(d, l)'
    BY <1>8 DEF Garble, Garbled, ErrorWire, Holds, TypeOK
  <2>2. QED
    BY <1>8, <2>1, DoubtKept DEF Garble, Known, DoubtInv
<1>9. ASSUME NEW c \in Callers, Misdeliver(c) PROVE DoubtInv'
  <2>1. \A d \in Callers : /\ answer'[d].delivery = answer[d].delivery
                           /\ answer'[d].status = answer[d].status
    BY <1>9 DEF Misdeliver, TypeOK, Answers
  <2>2. \A d \in Callers, l \in Keys : Holds(d, l) => Holds(d, l)'
    BY <1>9, <2>1 DEF Misdeliver, Holds
  <2>3. QED
    BY <1>9, <2>2, DoubtKept DEF Misdeliver, Known, DoubtInv
<1>10. ASSUME NEW r \in late, AcceptLate(r) PROVE DoubtInv'
  <2>1. doubted[r.key] /\ r.key \in Keys
    BY <1>0 DEF DoubtInv
  <2>2. \A l \in Keys \ {r.key} : given'[l] = given[l]
    BY <1>10 DEF AcceptLate, CarryOut, TypeOK
  <2>3. UNCHANGED <<call, phase, answer, handed, doubted>> /\ late' \subseteq late
    BY <1>10 DEF AcceptLate
  <2>4. QED
    BY <2>1, <2>2, <2>3 DEF DoubtInv, Known, Holds
<1>11. ASSUME NEW k \in Keys, Expire(k) PROVE DoubtInv'
  BY <1>11 DEF Expire, DoubtInv, Known, Holds
<1>12. CASE UNCHANGED vars
  BY <1>12 DEF vars, DoubtInv, Known, Holds
<1>13. QED
  BY <1>1, <1>2, <1>3, <1>4, <1>5, <1>6, <1>7, <1>8, <1>9, <1>10, <1>11, <1>12
  DEF Next

\* A secret that was put in an answer was returned, is on its way, or some
\* method has said that the outcome for the operation is open.
THEOREM LostSecretKnown == Spec => []LostSecretIsKnown
<1>1. Init => IInv /\ DoubtInv
  BY CallInit, SecretInit DEF IInv, Init, DoubtInv
<1>2. IInv /\ DoubtInv /\ [Next]_vars => (IInv /\ DoubtInv)'
  BY TypeStep, CallStep, SecretStep, DoubtStep DEF IInv
<1>3. DoubtInv => LostSecretIsKnown
  BY DEF DoubtInv, Known, Holds, LostSecretIsKnown
<1>4. QED
  BY <1>1, <1>2, <1>3, PTL DEF Spec
-----------------------------------------------------------------------------
(* AccountSecurity implements OneShotCall                                  *)

Same(c) == /\ call'[c] = call[c] /\ phase'[c] = phase[c]
           /\ outcome'[c] = outcome[c] /\ carried'[c] = carried[c]

\* A call that a step leaves alone is mapped to what it was mapped to.
LEMMA SameMaps ==
  ASSUME NEW c \in Callers, Same(c)
  PROVE  /\ StateOf(c)' = StateOf(c) /\ DoneOf(c)' = DoneOf(c)
         /\ VerdictOf(c)' = VerdictOf(c)
BY DEF Same, StateOf, DoneOf, VerdictOf, Mutation

\* A step that touches one call maps to a Set of that call.
LEMMA StepMaps ==
  ASSUME NEW c \in Callers, \A d \in Callers \ {c} : Same(d),
         NEW s, StateOf(c)' = s, NEW o, DoneOf(c)' = o, NEW v, VerdictOf(c)' = v
  PROVE  Promise!Set(c, s, o, v)
<1>1. \A d \in Callers \ {c} : /\ StateOf(d)' = StateOf(d) /\ DoneOf(d)' = DoneOf(d)
                               /\ VerdictOf(d)' = VerdictOf(d)
  BY SameMaps
<1>2. \A d \in Callers : StateOf(d)' = IF d = c THEN s ELSE StateOf(d)
  BY <1>1
<1>3. \A d \in Callers : DoneOf(d)' = IF d = c THEN o ELSE DoneOf(d)
  BY <1>1
<1>4. \A d \in Callers : VerdictOf(d)' = IF d = c THEN v ELSE VerdictOf(d)
  BY <1>1
<1>5. QED
  BY <1>2, <1>3, <1>4 DEF Promise!Set

\* A step that touches no call that is mapped is a stutter.
LEMMA StutterMaps ==
  ASSUME \A c \in Callers : /\ StateOf(c)' = StateOf(c) /\ DoneOf(c)' = DoneOf(c)
                            /\ VerdictOf(c)' = VerdictOf(c)
  PROVE  UNCHANGED Promise!vars
BY DEF Promise!vars

\* The answers a caller gets from the client, by those of OneShotCall.
LEMMA CloseMaps ==
  ASSUME TypeOK, TypeOK', NEW c \in Callers, Mutation(call[c]), phase[c] # "idle",
         phase'[c] = "idle", call'[c] = call[c], carried'[c] = carried[c],
         \A d \in Callers \ {c} : Same(d),
         outcome'[c] = "ok" => carried[c] = 1,
         outcome'[c] \in {"ok", "unknown", "protocol"} \/ carried[c] = 0
  PROVE  Promise!Close(c)
<1> DEFINE st == [d \in Callers |-> StateOf(d)]
           dn == [d \in Callers |-> DoneOf(d)]
<1>1. st[c] = "open" /\ dn[c] = DoneOf(c)
  BY DEF StateOf
<1>2. StateOf(c)' = "closed" /\ DoneOf(c)' = DoneOf(c)
  BY DEF StateOf, DoneOf, Mutation
<1>3. PICK v \in {IF DoneOf(c) THEN "done" ELSE "refused", "unknown"} : VerdictOf(c)' = v
  BY <1>2 DEF VerdictOf, DoneOf
<1>4. PICK o : o = DoneOf(c)
  OBVIOUS
<1>5. Promise!Set(c, "closed", o, v)
  BY <1>2, <1>3, <1>4, StepMaps
<1>6. QED
  BY <1>1, <1>3, <1>4, <1>5 DEF Promise!Close

\* Before its first call no caller has been told anything.
LEMMA InitMaps == Init => Promise!Init
<1> SUFFICES ASSUME Init PROVE Promise!Init
  OBVIOUS
<1>1. \A c \in Callers : ~Mutation(call[c])
  BY DEF Init, Mutation, Read, Method
<1>2. \A c \in Callers : StateOf(c) = "ready" /\ DoneOf(c) = FALSE
                         /\ VerdictOf(c) = "none"
  BY <1>1 DEF StateOf, DoneOf, VerdictOf
<1>3. QED
  BY <1>2 DEF Promise!Init

\* Every step is a step of OneShotCall for one caller, or none.
LEMMA NextMaps ==
  ASSUME TypeOK, TypeOK', CallInv, [Next]_vars
  PROVE  [Promise!Next]_(Promise!vars)
<1> USE DEF client, server, history
<1> DEFINE st == [d \in Callers |-> StateOf(d)]
           dn == [d \in Callers |-> DoneOf(d)]
<1>0. \A d \in Callers : st[d] = StateOf(d) /\ dn[d] = DoneOf(d)
  OBVIOUS
<1>1. ASSUME NEW c \in Callers, NEW m \in Methods, NEW k \in Keys, Reject(c, m, k)
      PROVE  Promise!Next
  <2>1. StateOf(c) # "open"
    BY <1>1 DEF Reject, StateOf
  <2>2. \A d \in Callers \ {c} : Same(d)
    BY <1>1 DEF Reject, Same, TypeOK
  <2>3. /\ phase'[c] = "idle" /\ outcome'[c] = "rejected" /\ carried'[c] = 0
        /\ DoneOf(c)' = FALSE
    BY <1>1 DEF Reject, DoneOf, TypeOK
  <2>4. CASE Mutation(call[c])'
    <3>1. StateOf(c)' = "closed" /\ VerdictOf(c)' = "refused"
      BY <2>3, <2>4 DEF StateOf, VerdictOf
    <3>2. Promise!Reject(c)
      BY <1>0, <2>1, <2>2, <2>3, <3>1, StepMaps DEF Promise!Reject
    <3>3. QED
      BY <3>2 DEF Promise!Next
  <2>5. CASE ~Mutation(call[c])'
    <3>1. StateOf(c)' = "ready" /\ VerdictOf(c)' = "none"
      BY <2>5 DEF StateOf, VerdictOf
    <3>2. Promise!Forget(c)
      BY <1>0, <2>1, <2>2, <2>3, <3>1, StepMaps DEF Promise!Forget
    <3>3. QED
      BY <3>2 DEF Promise!Next
  <2>6. QED
    BY <2>4, <2>5
<1>2. ASSUME NEW c \in Callers, NEW m \in Methods, NEW k \in Keys, Send(c, m, k)
      PROVE  Promise!Next
  <2>1. StateOf(c) # "open"
    BY <1>2 DEF Send, StateOf
  <2>2. \A d \in Callers \ {c} : Same(d)
    BY <1>2 DEF Send, Same, TypeOK
  <2>3. phase'[c] = "sent" /\ carried'[c] = 0 /\ DoneOf(c)' = FALSE
    BY <1>2 DEF Send, DoneOf, TypeOK
  <2>4. CASE Mutation(call[c])'
    <3>1. StateOf(c)' = "open" /\ VerdictOf(c)' = "none"
      BY <2>3, <2>4 DEF StateOf, VerdictOf
    <3>2. Promise!Start(c)
      BY <1>0, <2>1, <2>2, <2>3, <3>1, StepMaps DEF Promise!Start
    <3>3. QED
      BY <3>2 DEF Promise!Next
  <2>5. CASE ~Mutation(call[c])'
    <3>1. StateOf(c)' = "ready" /\ VerdictOf(c)' = "none"
      BY <2>5 DEF StateOf, VerdictOf
    <3>2. Promise!Forget(c)
      BY <1>0, <2>1, <2>2, <2>3, <3>1, StepMaps DEF Promise!Forget
    <3>3. QED
      BY <3>2 DEF Promise!Next
  <2>6. QED
    BY <2>4, <2>5
<1>3. ASSUME NEW c \in Callers, Replay(c) PROVE UNCHANGED Promise!vars
  <2>1. ~Mutation(call[c])
    BY <1>3 DEF Replay, Replayable, BodyRewindable
  <2>2. \A d \in Callers \ {c} : Same(d)
    BY <1>3 DEF Replay, Same, TypeOK
  <2>3. /\ StateOf(c)' = StateOf(c) /\ DoneOf(c)' = DoneOf(c)
        /\ VerdictOf(c)' = VerdictOf(c)
    BY <1>3, <2>1 DEF Replay, StateOf, DoneOf, VerdictOf, Mutation
  <2>4. QED
    BY <2>2, <2>3, SameMaps, StutterMaps
<1>4. ASSUME NEW c \in Callers, NEW result, Conclude(c, result),
             phase[c] # "idle", UNCHANGED <<call, carried>>,
             Mutation(call[c]) =>
               /\ result = "ok" => carried[c] = 1
               /\ result \in {"ok", "unknown", "protocol"} \/ carried[c] = 0
      PROVE  Promise!Next \/ UNCHANGED Promise!vars
  <2>1. \A d \in Callers \ {c} : Same(d)
    BY <1>4 DEF Conclude, Same, TypeOK
  <2>2. phase'[c] = "idle" /\ outcome'[c] = result
    BY <1>4 DEF Conclude, TypeOK
  <2>3. CASE Mutation(call[c])
    <3>1. Promise!Close(c)
      BY <1>4, <2>1, <2>2, <2>3, CloseMaps
    <3>2. QED
      BY <3>1 DEF Promise!Next
  <2>4. CASE ~Mutation(call[c])
    <3>1. /\ StateOf(c)' = StateOf(c) /\ DoneOf(c)' = DoneOf(c)
          /\ VerdictOf(c)' = VerdictOf(c)
      BY <1>4, <2>4 DEF StateOf, DoneOf, VerdictOf, Mutation
    <3>2. QED
      BY <2>1, <3>1, SameMaps, StutterMaps
  <2>5. QED
    BY <2>3, <2>4
<1>5. ASSUME NEW c \in Callers, Lose(c)
      PROVE  Promise!Next \/ UNCHANGED Promise!vars
  <2>1. Conclude(c, TransportError(c)) /\ phase[c] # "idle" /\ UNCHANGED <<call, carried>>
    BY <1>5 DEF Lose
  <2>2. Mutation(call[c]) => TransportError(c) = "unknown"
    BY DEF TransportError
  <2>3. QED
    BY <1>4, <2>1, <2>2
<1>6. ASSUME NEW c \in Callers, Return(c)
      PROVE  Promise!Next \/ UNCHANGED Promise!vars
  <2> DEFINE result == IF answer[c].status = "error" THEN "refused"
                       ELSE IF answer[c].status = "2xx" /\ WellFormed(call[c], answer[c])
                            THEN "ok" ELSE "protocol"
  <2>1. Conclude(c, result) /\ phase[c] = "answered" /\ UNCHANGED <<call, carried>>
    BY <1>6 DEF Return
  <2>2. Mutation(call[c]) => /\ result = "ok" => carried[c] = 1
                             /\ result = "refused" => carried[c] = 0
    BY <2>1 DEF CallInv
  <2>3. result \in {"refused", "ok", "protocol"}
    OBVIOUS
  <2> HIDE DEF result
  <2>4. QED
    BY <1>4, <2>1, <2>2, <2>3
<1>7. ASSUME NEW c \in Callers, Accept(c)
      PROVE  Promise!Next \/ UNCHANGED Promise!vars
  <2>1. \A d \in Callers \ {c} : Same(d)
    BY <1>7 DEF Accept, Same, TypeOK
  <2>2. phase[c] = "sent" /\ phase'[c] = "answered" /\ call' = call
    BY <1>7 DEF Accept, TypeOK
  <2>3. CASE Mutation(call[c])
    <3>1. carried[c] = 0
      BY <2>2, <2>3 DEF CallInv
    <3>2. carried'[c] = 1
      BY <1>7, <2>3, <3>1 DEF Accept, TypeOK
    <3>3. /\ StateOf(c) = "open" /\ ~DoneOf(c)
          /\ StateOf(c)' = "open" /\ DoneOf(c)' = TRUE /\ VerdictOf(c)' = "none"
      BY <2>2, <2>3, <3>1, <3>2 DEF StateOf, DoneOf, VerdictOf, Mutation
    <3>4. Promise!Perform(c)
      BY <1>0, <2>1, <3>3, StepMaps DEF Promise!Perform
    <3>5. QED
      BY <3>4 DEF Promise!Next
  <2>4. CASE ~Mutation(call[c])
    <3>1. /\ StateOf(c)' = StateOf(c) /\ DoneOf(c)' = DoneOf(c)
          /\ VerdictOf(c)' = VerdictOf(c)
      BY <2>2, <2>4 DEF StateOf, DoneOf, VerdictOf, Mutation
    <3>2. QED
      BY <2>1, <3>1, SameMaps, StutterMaps
  <2>5. QED
    BY <2>3, <2>4
<1>8. ASSUME NEW c \in Callers, Refuse(c) PROVE UNCHANGED Promise!vars
  <2>1. \A d \in Callers \ {c} : Same(d)
    BY <1>8 DEF Refuse, Same, TypeOK
  <2>2. phase[c] = "sent" /\ phase'[c] = "answered" /\ UNCHANGED <<call, outcome, carried>>
    BY <1>8 DEF Refuse, TypeOK
  <2>3. /\ StateOf(c)' = StateOf(c) /\ DoneOf(c)' = DoneOf(c)
        /\ VerdictOf(c)' = VerdictOf(c)
    BY <2>2 DEF StateOf, DoneOf, VerdictOf, Mutation
  <2>4. QED
    BY <2>1, <2>3, SameMaps, StutterMaps
<1>9. ASSUME UNCHANGED <<call, phase, outcome, carried>>
      PROVE  UNCHANGED Promise!vars
  BY <1>9, SameMaps, StutterMaps DEF Same
<1>10. ASSUME NEW c \in Callers, Garble(c) \/ Misdeliver(c)
       PROVE  UNCHANGED Promise!vars
  BY <1>9, <1>10 DEF Garble, Misdeliver
<1>11. ASSUME NEW r \in late, AcceptLate(r) PROVE UNCHANGED Promise!vars
  BY <1>9, <1>11 DEF AcceptLate
<1>12. ASSUME NEW k \in Keys, Expire(k) PROVE UNCHANGED Promise!vars
  BY <1>9, <1>12 DEF Expire
<1>13. CASE UNCHANGED vars
  BY <1>9, <1>13 DEF vars
<1>14. QED
  BY <1>1, <1>2, <1>3, <1>5, <1>6, <1>7, <1>8, <1>10, <1>11, <1>12, <1>13 DEF Next

\* No mutation is carried out twice while its caller waits, and each method
\* tells the truth about its own.
THEOREM OutcomesHonest == Spec => HonestOutcomes
<1>1. TypeOK /\ CallInv /\ [Next]_vars => TypeOK' /\ CallInv'
  BY TypeStep, CallStep
<1>2. TypeOK /\ CallInv /\ TypeOK' /\ [Next]_vars => [Promise!Next]_(Promise!vars)
  BY NextMaps
<1>3. QED
  BY CallInit, InitMaps, <1>1, <1>2, PTL DEF Spec, HonestOutcomes, Promise!Spec
=============================================================================
