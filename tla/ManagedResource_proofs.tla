------------------------- MODULE ManagedResource_proofs -------------------------
(***************************************************************************)
(* Proofs about ManagedResource for every number of editors, idempotency   *)
(* keys, versions of the resource and late copies of requests.             *)
(***************************************************************************)
EXTENDS ManagedResource, TLAPS

Families == {"authorization", "organization", "grant"}
AllMethods == UNION { Methods[f] : f \in DOMAIN Methods }
Tags == 0 .. MaxVersion
AnyKey == Keys \cup {"none"}

\* The families and their methods.
LEMMA MethodsOf ==
  /\ DOMAIN Methods = Families /\ Methods["authorization"] = AuthorizationMethods
  /\ Methods["organization"] = OrganizationMethods /\ Methods["grant"] = GrantMethods
  /\ \A f \in Families : Methods[f] \subseteq AllMethods
  /\ Get \in AllMethods
<1>1. /\ DOMAIN Methods = Families /\ Methods["authorization"] = AuthorizationMethods
      /\ Methods["organization"] = OrganizationMethods /\ Methods["grant"] = GrantMethods
  BY DEF Methods, Families
<1>2. \A f \in Families : Methods[f] \subseteq AllMethods
  BY <1>1, Zenon DEF AllMethods
<1>3. Get \in Methods["grant"] /\ "grant" \in Families
  BY <1>1 DEF GrantMethods, Families
<1>4. QED
  BY <1>1, <1>2, <1>3

\* A method of a strict family that replaces what is there sends If-Match, and
\* one that creates or rotates a grant issues a secret.
LEMMA MethodFacts ==
  ASSUME NEW f \in Families, NEW m \in Methods[f]
  PROVE  /\ f # "organization" /\ m.effect \in {"write", "delete", "rotate"}
              => m.match = "always"
         /\ f = "grant" /\ m.effect \in {"create", "rotate"} => Issues(m)
         /\ m.effect # "none"
         /\ m.keyed # "never" => m.effect \in {"create", "rotate", "deliver"}
         /\ m.match # "never" => Overwrites(m)
BY MethodsOf
DEF Families, AuthorizationMethods, OrganizationMethods, GrantMethods, Method, Get, Issues,
    Overwrites

LEMMA RequestFields ==
  ASSUME NEW m \in AllMethods, NEW v \in Tags, NEW s \in Tags, NEW k \in AnyKey
  PROVE  /\ Request(m, v, s, k) \in Requests
         /\ Request(m, v, s, k).method = m /\ Request(m, v, s, k).match = v
         /\ Request(m, v, s, k).based = s /\ Request(m, v, s, k).key = k
BY DEF Requests, Request, AllMethods, Tags, AnyKey

\* Every request and every answer of the server.
LEMMA Numbers ==
  /\ MaxVersion \in Nat /\ MaxVersion > 0 /\ 0 \in Tags /\ NoRequest \in Requests
  /\ \A r \in Requests : /\ r.method \in AllMethods /\ r.match \in Tags
                         /\ r.based \in Tags /\ r.key \in AnyKey
  /\ \A a \in Answers : /\ a.tag \in Tags /\ a.contents = a.tag
                        /\ a.secret \in {"none", "issued", "already"}
  /\ NoAnswer \in Answers
  /\ \A v \in Tags, s \in {"none", "issued", "already"} :
       Answer("2xx", v, v, s) \in Answers /\ Answer("2xx", v, v, s).secret = s
<1>1. MaxVersion \in Nat /\ MaxVersion > 0 /\ 0 \in Tags
  BY ConstantsAssumption DEF Tags
<1>2. NoRequest \in Requests
  BY <1>1, MethodsOf, RequestFields DEF NoRequest, AnyKey
<1>3. \A r \in Requests : /\ r.method \in AllMethods /\ r.match \in Tags
                          /\ r.based \in Tags /\ r.key \in AnyKey
  BY DEF Requests, AllMethods, Tags, AnyKey
<1>4. \A a \in Answers : /\ a.tag \in Tags /\ a.contents = a.tag
                         /\ a.secret \in {"none", "issued", "already"}
  BY <1>1 DEF Answers, Answer, NoAnswer, Tags
<1>5. NoAnswer \in Answers
  BY DEF Answers
<1>6. \A v \in Tags, s \in {"none", "issued", "already"} :
        Answer("2xx", v, v, s) \in Answers /\ Answer("2xx", v, v, s).secret = s
  BY DEF Answers, Answer, Tags
<1>7. QED
  BY <1>1, <1>2, <1>3, <1>4, <1>5, <1>6

-----------------------------------------------------------------------------
(* What the actions change *)

LEMMA Concluded ==
  ASSUME TypeOK, NEW e \in Editors, NEW open \in BOOLEAN, Conclude(e, open)
  PROVE  /\ request' \in [Editors -> Requests] /\ answer' \in [Editors -> Answers]
         /\ phase' \in [Editors -> {"idle", "sent", "answered"}]
         /\ told' \in [Keys -> BOOLEAN] /\ phase'[e] = "idle"
         /\ \A d \in Editors : d # e => /\ request'[d] = request[d]
                                        /\ phase'[d] = phase[d] /\ answer'[d] = answer[d]
         /\ \A k \in Keys : told[k] => told'[k]
         /\ open /\ Issues(request[e].method) /\ request[e].key \in Keys
              => told'[request[e].key]
<1>1. /\ request' \in [Editors -> Requests] /\ answer' \in [Editors -> Answers]
      /\ phase' \in [Editors -> {"idle", "sent", "answered"}] /\ phase'[e] = "idle"
      /\ \A d \in Editors : d # e => /\ request'[d] = request[d]
                                     /\ phase'[d] = phase[d] /\ answer'[d] = answer[d]
  BY Numbers DEF Conclude, TypeOK
<1>2. /\ told' \in [Keys -> BOOLEAN] /\ \A k \in Keys : told[k] => told'[k]
      /\ open /\ Issues(request[e].method) /\ request[e].key \in Keys
           => told'[request[e].key]
  BY Zenon DEF Conclude, TypeOK, Issues
<1>3. QED
  BY <1>1, <1>2

LEMMA Abandoned ==
  ASSUME TypeOK, NEW e \in Editors, Abandon(e)
  PROVE  /\ late' \subseteq Requests
         /\ \A r \in late' : \/ r \in late
                             \/ r = request[e] /\ phase[e] = "sent" /\ Mutation(r.method)
BY DEF Abandon, TypeOK

\* What comes of an answer, and what the editor keeps of it.
LEMMA Distorted ==
  ASSUME NEW m, NEW b \in Answers, NEW a \in Received(m, b)
  PROVE  /\ a.tag \in {0, b.tag} /\ a.tag \in {0, a.contents}
         /\ a.contents \in {0, b.contents}
         /\ a.secret \in {"none", b.secret} \/ (Issues(m) /\ a.secret \in {"missing", "both"})
BY DEF Received, Answers, Answer, NoAnswer

\* A request as the methods of the family send it: a precondition it carries is
\* the version that the editor read, or the 0 of one that has read nothing.
Proper(r) ==
  /\ r \in Requests /\ r.method \in Methods[family]
  /\ r.match \in Matches(r.method)
  /\ r.match \in {0, r.based} \/ (r.method.effect = "rotate" /\ r.based = 0)
  /\ r.key \in KeysOf(r.method)

LEMMA Performed ==
  ASSUME TypeOK, NEW r, Proper(r), Perform(r)
  PROVE  /\ version' \in Tags /\ gone' \in BOOLEAN
         /\ used' \in [Keys -> {"none", "create", "rotate", "deliver"}]
         /\ \A k \in Keys : k # r.key => used'[k] = used[k]
         /\ r.key \in Keys => used'[r.key] = r.method.effect
         /\ blind' \subseteq {"conditional", "plain", "unread"}
         /\ \/ blind' = blind
            \/ /\ Overwrites(r.method) /\ r.based # version
               /\ blind' = blind \cup {Says(r)}
<1>1. version' \in Tags
  BY Numbers DEF Perform, TypeOK, Tags
<1>2. gone' \in BOOLEAN
  BY Zenon DEF Perform
<1>3. /\ \A k \in Keys : k # r.key => used'[k] = used[k]
      /\ r.key \in Keys => used'[r.key] = r.method.effect
      /\ used' = [k \in Keys |-> used'[k]]
  BY DEF Perform
<1>4. \/ blind' = blind
      \/ Overwrites(r.method) /\ r.based # version /\ blind' = blind \cup {Says(r)}
  BY Zenon DEF Perform
<1>5. blind' \subseteq {"conditional", "plain", "unread"}
  <2>1. Says(r) \in {"conditional", "plain", "unread"}
    BY DEF Says
  <2>2. QED
    BY <1>4, <2>1 DEF TypeOK
<1>6. r.key # "none" => r.method.effect \in {"create", "rotate", "deliver"}
  <2>1. r.key # "none" => r.method.keyed # "never"
    BY DEF Proper, KeysOf
  <2>2. family \in Families /\ r.method \in Methods[family]
    BY MethodsOf DEF Proper, TypeOK
  <2>3. QED
    BY <2>1, <2>2, MethodFacts
<1>7. used' \in [Keys -> {"none", "create", "rotate", "deliver"}]
  <2>1. ASSUME NEW k \in Keys PROVE used'[k] \in {"none", "create", "rotate", "deliver"}
    BY <1>3, <1>6, ConstantsAssumption DEF TypeOK
  <2>2. QED
    BY <1>3, <2>1
<1>8. QED
  BY <1>1, <1>2, <1>3, <1>4, <1>5, <1>7

-----------------------------------------------------------------------------
(* Types, and requests as the methods send them *)

Sending == \A e \in Editors : phase[e] # "idle" => Proper(request[e])
Arriving == \A r \in late : Proper(r)

\* The ETag an editor has is that of the version it read last.
Remembered == \A e \in Editors : etag[e] \in {0, seen[e]}

ProperInv == TypeOK /\ Sending /\ Arriving /\ Remembered

\* The actions of the server on one request.
LEMMA Carried ==
  ASSUME ProperInv, NEW r, Proper(r), CarryOut(r)
  PROVE  /\ version' \in Tags /\ gone' \in BOOLEAN
         /\ used' \in [Keys -> {"none", "create", "rotate", "deliver"}]
         /\ blind' \subseteq {"conditional", "plain", "unread"}
         /\ Reply(r) \in Answers
         /\ Reply(r).secret = "none" \/ Issues(r.method)
         /\ Reply(r).secret = "issued" => ~Repeated(r)
         /\ \/ Repeated(r) /\ UNCHANGED <<used, blind>>
            \/ ~Repeated(r) /\ Permitted(r) /\ Perform(r)
<1>1. /\ \/ Repeated(r) /\ UNCHANGED <<version, gone, used, blind>>
         \/ ~Repeated(r) /\ Permitted(r) /\ Perform(r)
  BY Zenon DEF CarryOut, server
<1>2. /\ version' \in Tags /\ gone' \in BOOLEAN
      /\ used' \in [Keys -> {"none", "create", "rotate", "deliver"}]
      /\ blind' \subseteq {"conditional", "plain", "unread"}
  BY <1>1, Performed DEF ProperInv, TypeOK, Tags
<1> DEFINE s == IF ~Issues(r.method) THEN "none"
                ELSE IF Repeated(r) THEN "already" ELSE "issued"
<1>3. /\ s \in {"none", "issued", "already"} /\ (s = "none" \/ Issues(r.method))
      /\ s = "issued" => ~Repeated(r)
  BY Zenon
<1>4. Reply(r) = Answer("2xx", version', version', s)
  BY DEF Reply
<1> HIDE DEF s
<1>5. Reply(r) \in Answers /\ Reply(r).secret = s
  BY <1>2, <1>3, <1>4, Numbers
<1>6. QED
  BY <1>1, <1>2, <1>3, <1>5, Zenon

LEMMA ProperStep == ProperInv /\ [Next]_vars => ProperInv'
<1> SUFFICES ASSUME ProperInv, [Next]_vars PROVE ProperInv'
  OBVIOUS
<1> USE Numbers
<1>a. TypeOK /\ Sending /\ Arriving /\ Remembered
  BY DEF ProperInv
<1>b. ASSUME family' = family, NEW r, Proper(r) PROVE Proper(r)'
  BY <1>b DEF Proper
<1>1. ASSUME NEW e \in Editors, NEW m \in Methods[family], NEW k \in AnyKey, Send(e, m, k)
      PROVE  ProperInv'
  <2> DEFINE b == Based(e, m)
  <2>1. PICK v \in Matches(m) \cap ({0, etag[e]} \cup ExpectedZero(e, m)) :
          request' = [request EXCEPT ![e] = Request(m, v, b, k)]
    BY <1>1 DEF Send
  <2> DEFINE r == Request(m, v, b, k)
  <2>2. m \in AllMethods /\ v \in Tags /\ b \in Tags
    <3>1. etag[e] \in Tags /\ seen[e] \in Tags /\ 1 \in Tags
      BY <1>a DEF TypeOK, Tags
    <3>2. m \in AllMethods
      BY <1>a, MethodsOf DEF TypeOK
    <3>3. QED
      BY <2>1, <3>1, <3>2 DEF ExpectedZero, Based
  <2>3. r \in Requests /\ r.method = m /\ r.match = v /\ r.based = b /\ r.key = k
    BY <2>2, RequestFields
  <2>4. v \in {0, b} \/ (m.effect = "rotate" /\ b = 0)
    <3>1. v \in {0, seen[e]} \/ (m.effect = "rotate" /\ seen[e] = 0)
      BY <1>a, <2>1 DEF Remembered, ExpectedZero
    <3>2. CASE Overwrites(m)
      BY <3>1, <3>2 DEF Based
    <3>3. CASE ~Overwrites(m)
      <4>1. m.match = "never"
        BY <1>a, <3>3, MethodsOf, MethodFacts DEF TypeOK
      <4>2. QED
        BY <2>1, <4>1 DEF Matches
    <3>4. QED
      BY <3>2, <3>3
  <2> HIDE DEF r, b
  <2>5. Proper(r)
    BY <1>1, <2>1, <2>3, <2>4 DEF Send, Proper
  <2>6. /\ UNCHANGED <<family, answer, etag, seen, late, version, gone, used, blind, resent,
                      handed, told>>
        /\ phase' = [phase EXCEPT ![e] = "sent"] /\ request' = [request EXCEPT ![e] = r]
    BY <1>1, <2>1 DEF Send, server, secrets, r, b
  <2>7. TypeOK'
    BY <1>a, <2>3, <2>6 DEF TypeOK
  <2>8. Sending' /\ Arriving' /\ Remembered'
    BY <1>a, <1>b, <2>5, <2>6 DEF Sending, Arriving, Remembered, TypeOK
  <2>9. QED
    BY <2>7, <2>8 DEF ProperInv
<1>2. ASSUME NEW e \in Editors, Abandon(e), phase[e] # "idle", family' = family
      PROVE  late' \subseteq Requests /\ Arriving'
  <2>1. /\ late' \subseteq Requests
        /\ \A r \in late' : r \in late \/ r = request[e]
    BY <1>2, <1>a, Abandoned
  <2>2. QED
    BY <1>2, <1>a, <1>b, <2>1 DEF Sending, Arriving
<1>3. ASSUME NEW e \in Editors, Replay(e) PROVE ProperInv'
  <2>1. /\ UNCHANGED <<family, request, etag, seen, version, gone, used, blind, handed, told>>
        /\ Abandon(e) /\ phase[e] # "idle"
        /\ phase' = [phase EXCEPT ![e] = "sent"]
        /\ answer' = [answer EXCEPT ![e] = NoAnswer]
        /\ resent' = resent \cup ({request[e].key} \ {"none"})
    BY <1>3 DEF Replay, server, secrets
  <2>2. resent' \subseteq Keys
    BY <1>a, <2>1 DEF TypeOK, AnyKey
  <2>3. TypeOK'
    BY <1>a, <1>2, <2>1, <2>2 DEF TypeOK
  <2>4. Sending' /\ Remembered'
    BY <1>a, <1>b, <2>1 DEF Sending, Remembered, TypeOK
  <2>5. QED
    BY <1>2, <2>1, <2>3, <2>4 DEF ProperInv
<1>4. ASSUME NEW e \in Editors, NEW open \in BOOLEAN, Conclude(e, open), family' = family,
             UNCHANGED <<version, gone, used, blind, resent>>,
             late' \subseteq Requests, Arriving',
             etag' \in [Editors -> Tags], seen' \in [Editors -> Tags],
             handed' \in [Keys -> 0 .. 2], Remembered'
      PROVE  ProperInv'
  <2>1. TypeOK'
    BY <1>4, <1>a, Concluded DEF TypeOK, Tags
  <2>2. Sending'
    BY <1>4, <1>a, <1>b, Concluded DEF Sending
  <2>3. QED
    BY <1>4, <2>1, <2>2 DEF ProperInv
<1>5. ASSUME NEW e \in Editors, NEW open \in BOOLEAN, Conclude(e, open),
             UNCHANGED <<family, etag, seen, version, gone, used, blind, resent, handed>>,
             late' \subseteq Requests /\ Arriving'
      PROVE  ProperInv'
  <2>1. /\ etag' \in [Editors -> Tags] /\ seen' \in [Editors -> Tags]
        /\ handed' \in [Keys -> 0 .. 2] /\ Remembered'
    BY <1>5, <1>a DEF TypeOK, Tags, Remembered
  <2>2. QED
    BY <1>5, <1>4, <2>1
<1>6. UNCHANGED <<family, late>> => late' \subseteq Requests /\ Arriving'
  BY <1>a, <1>b DEF Arriving, TypeOK
<1>7. ASSUME NEW e \in Editors, Lose(e) PROVE ProperInv'
  <2>1. /\ Conclude(e, TRUE) /\ Abandon(e) /\ phase[e] # "idle"
        /\ UNCHANGED <<family, etag, seen, version, gone, used, blind, resent, handed>>
    BY <1>7 DEF Lose, server
  <2>2. QED
    BY <2>1, <1>2, <1>5
<1>8. ASSUME NEW e \in Editors, Receive(e) PROVE ProperInv'
  <2>1. PICK a \in Received(request[e].method, answer[e]) : Succeed(e, a) \/ Distrust(e, a)
    BY <1>8 DEF Receive
  <2>2. answer[e] \in Answers
    BY <1>a DEF TypeOK
  <2>3. a.tag \in Tags /\ a.contents \in Tags /\ a.tag \in {0, a.contents}
    BY <2>1, <2>2, Distorted
  <2>4. CASE Succeed(e, a)
    <3> DEFINE open == a.secret \in {"already", "both"}
    <3>6. open \in BOOLEAN
      OBVIOUS
    <3>1. /\ Conclude(e, open)
          /\ UNCHANGED <<family, late, version, gone, used, blind, resent>>
      BY <2>4 DEF Succeed, server
    <3> HIDE DEF open
    <3>2. \/ UNCHANGED <<etag, seen>>
          \/ /\ etag' = [etag EXCEPT ![e] = a.tag]
             /\ seen' = [seen EXCEPT ![e] = a.contents]
      BY <2>4, Zenon DEF Succeed, Remember
    <3>3. etag' \in [Editors -> Tags] /\ seen' \in [Editors -> Tags] /\ Remembered'
      <4>1. etag \in [Editors -> Tags] /\ seen \in [Editors -> Tags]
        BY <1>a DEF TypeOK, Tags
      <4> DEFINE t == a.tag
                 v == a.contents
      <4>2. t \in Tags /\ v \in Tags /\ t \in {0, v}
        BY <2>3
      <4> HIDE DEF t, v
      <4>3. \/ UNCHANGED <<etag, seen>>
            \/ etag' = [etag EXCEPT ![e] = t] /\ seen' = [seen EXCEPT ![e] = v]
        BY <3>2 DEF t, v
      <4>4. etag' \in [Editors -> Tags] /\ seen' \in [Editors -> Tags]
        BY <4>1, <4>2, <4>3
      <4>5. \A d \in Editors : etag'[d] \in {0, seen'[d]}
        BY <1>a, <4>1, <4>2, <4>3 DEF Remembered
      <4>6. QED
        BY <4>4, <4>5 DEF Remembered
    <3>4. handed' \in [Keys -> 0 .. 2]
      BY <1>a, <2>4 DEF Succeed, TypeOK
    <3>5. QED
      BY <1>4, <1>6, <3>1, <3>3, <3>4, <3>6
  <2>5. CASE Distrust(e, a)
    BY <1>5, <1>6, <2>5 DEF Distrust, server
  <2>6. QED
    BY <2>1, <2>4, <2>5
<1>9. ASSUME NEW e \in Editors, Fail(e) PROVE ProperInv'
  BY <1>5, <1>6, <1>9 DEF Fail, server
<1>10. ASSUME NEW e \in Editors, Accept(e) PROVE ProperInv'
  <2>1. /\ UNCHANGED <<family, request, etag, seen, late, resent, handed, told>>
        /\ phase[e] = "sent" /\ CarryOut(request[e])
        /\ phase' = [phase EXCEPT ![e] = "answered"]
        /\ answer' = [answer EXCEPT ![e] = Reply(request[e])]
    BY <1>10 DEF Accept, secrets
  <2>2. Proper(request[e])
    BY <1>a, <2>1 DEF Sending
  <2>3. /\ version' \in Tags /\ gone' \in BOOLEAN
        /\ used' \in [Keys -> {"none", "create", "rotate", "deliver"}]
        /\ blind' \subseteq {"conditional", "plain", "unread"} /\ Reply(request[e]) \in Answers
    BY <2>1, <2>2, Carried
  <2>4. TypeOK'
    BY <1>a, <2>1, <2>3 DEF TypeOK, Tags
  <2>5. Sending' /\ Remembered'
    BY <1>a, <1>b, <2>1, <2>2 DEF Sending, Remembered, TypeOK
  <2>6. QED
    BY <1>6, <2>1, <2>4, <2>5 DEF ProperInv
<1>11. ASSUME NEW r \in late, AcceptLate(r) PROVE ProperInv'
  <2>1. /\ UNCHANGED <<family, request, phase, answer, etag, seen, resent, handed, told>>
        /\ late' = late \ {r} /\ CarryOut(r)
    BY <1>11 DEF AcceptLate, secrets
  <2>2. Proper(r)
    BY <1>a, <1>11 DEF Arriving
  <2>3. /\ version' \in Tags /\ gone' \in BOOLEAN
        /\ used' \in [Keys -> {"none", "create", "rotate", "deliver"}]
        /\ blind' \subseteq {"conditional", "plain", "unread"}
    BY <2>1, <2>2, Carried
  <2>4. TypeOK'
    BY <1>a, <2>1, <2>3 DEF TypeOK, Tags
  <2>5. Sending' /\ Remembered' /\ Arriving'
    BY <1>a, <1>b, <2>1 DEF Sending, Remembered, Arriving
  <2>6. QED
    BY <2>4, <2>5 DEF ProperInv
<1>12. CASE UNCHANGED vars
  <2>1. TypeOK'
    BY <1>a, <1>12 DEF vars, client, server, secrets, TypeOK
  <2>2. Sending' /\ Remembered'
    BY <1>a, <1>b, <1>12 DEF vars, client, Sending, Remembered
  <2>3. QED
    BY <1>6, <1>12, <2>1, <2>2 DEF vars, client, ProperInv
<1>13. ASSUME Next PROVE ProperInv'
  <2>1. CASE \E e \in Editors, m \in Methods[family], k \in AnyKey : Send(e, m, k)
    BY <1>1, <2>1
  <2>2. CASE \E e \in Editors : Replay(e) \/ Lose(e) \/ Receive(e) \/ Fail(e) \/ Accept(e)
    BY <1>3, <1>7, <1>8, <1>9, <1>10, <2>2
  <2>3. CASE \E r \in late : AcceptLate(r)
    BY <1>11, <2>3
  <2>4. QED
    BY <1>13, <2>1, <2>2, <2>3, Zenon DEF Next, AnyKey
<1>14. QED
  BY <1>12, <1>13

LEMMA ProperInit == Init => ProperInv
<1> SUFFICES ASSUME Init PROVE ProperInv
  OBVIOUS
<1>1. TypeOK
  <2>1. told \in [Keys -> BOOLEAN] /\ gone \in BOOLEAN
    BY Zenon DEF Init
  <2>2. version \in 0 .. MaxVersion /\ 0 \in 0 .. MaxVersion
    BY Numbers DEF Init, Tags
  <2>3. request \in [Editors -> Requests] /\ answer \in [Editors -> Answers]
    BY Numbers DEF Init
  <2>4. QED
    BY <2>1, <2>2, <2>3 DEF Init, TypeOK
<1>2. Sending /\ Arriving /\ Remembered
  BY DEF Init, Sending, Arriving, Remembered
<1>3. QED
  BY <1>1, <1>2 DEF ProperInv

\* The types of the client, of the server and of the history.
THEOREM TypeCorrect == Spec => []TypeOK
<1>1. ProperInv => TypeOK
  BY DEF ProperInv
<1>2. QED
  BY <1>1, ProperInit, ProperStep, PTL DEF Spec

-----------------------------------------------------------------------------
(* No write over what the editor has not read *)

LEMMA CarriedIsSeen ==
  ASSUME ProperInv, NoBlindWrite, NEW r, Proper(r), CarryOut(r), family' = family
  PROVE  NoBlindWrite'
<1>1. CASE blind' = blind
  BY <1>1 DEF NoBlindWrite, Strict
<1>2. CASE blind' # blind
  <2>1. Permitted(r) /\ Perform(r)
    BY <1>2, Carried
  <2>2. Overwrites(r.method) /\ r.based # version /\ blind' = blind \cup {Says(r)}
    BY <1>2, <2>1, Performed DEF ProperInv
  <2>3. r.match \in {0, version} /\ r.match \in Nat
    BY <2>1, Numbers DEF Permitted, Proper, Tags
  <2>4. CASE r.match = 0
    <3>1. r.method.match # "always"
      <4>1. SUFFICES ASSUME r.method.match = "always" PROVE FALSE
        OBVIOUS
      <4>2. r.match \in 1 .. MaxVersion
        BY <4>1 DEF Proper, Matches
      <4>3. QED
        BY <2>4, <4>2, Numbers
    <3>2. family \in Families /\ r.method \in Methods[family]
      BY MethodsOf DEF ProperInv, TypeOK, Proper
    <3>3. family = "organization"
      BY <2>2, <3>1, <3>2, MethodFacts DEF Overwrites
    <3>4. QED
      BY <2>2, <2>4, <3>3 DEF NoBlindWrite, Strict, Says
  <2>5. CASE r.match # 0
    <3>1. r.method.effect = "rotate" /\ r.based = 0
      BY <2>2, <2>3, <2>5 DEF Proper
    <3>2. Says(r) = "unread"
      BY <2>3, <2>5, <3>1 DEF Says
    <3>3. QED
      BY <2>2, <3>2 DEF NoBlindWrite, Strict
  <2>6. QED
    BY <2>4, <2>5
<1>3. QED
  BY <1>1, <1>2

LEMMA BlindStep == ProperInv /\ NoBlindWrite /\ [Next]_vars => NoBlindWrite'
<1> SUFFICES ASSUME ProperInv, NoBlindWrite, [Next]_vars PROVE NoBlindWrite'
  OBVIOUS
<1>1. ASSUME UNCHANGED <<family, blind>> PROVE NoBlindWrite'
  BY <1>1 DEF NoBlindWrite, Strict
<1>2. ASSUME NEW e \in Editors, NEW m \in Methods[family], NEW k \in AnyKey, Send(e, m, k)
      PROVE  NoBlindWrite'
  BY <1>1, <1>2 DEF Send
<1>3. ASSUME NEW e \in Editors, Replay(e) \/ Lose(e) \/ Fail(e) PROVE NoBlindWrite'
  BY <1>1, <1>3 DEF Replay, Lose, Fail
<1>4. ASSUME NEW e \in Editors, Receive(e) PROVE NoBlindWrite'
  BY <1>1, <1>4 DEF Receive, Succeed, Distrust
<1>5. ASSUME NEW e \in Editors, Accept(e) PROVE NoBlindWrite'
  BY <1>5, CarriedIsSeen DEF Accept, ProperInv, Sending
<1>6. ASSUME NEW r \in late, AcceptLate(r) PROVE NoBlindWrite'
  BY <1>6, CarriedIsSeen DEF AcceptLate, ProperInv, Arriving
<1>7. CASE UNCHANGED vars
  BY <1>1, <1>7 DEF vars, client
<1>8. ASSUME Next PROVE NoBlindWrite'
  <2>1. CASE \E e \in Editors, m \in Methods[family], k \in AnyKey : Send(e, m, k)
    BY <1>2, <2>1
  <2>2. CASE \E e \in Editors : Replay(e) \/ Lose(e) \/ Receive(e) \/ Fail(e) \/ Accept(e)
    BY <1>3, <1>4, <1>5, <2>2
  <2>3. CASE \E r \in late : AcceptLate(r)
    BY <1>6, <2>3
  <2>4. QED
    BY <1>8, <2>1, <2>2, <2>3, Zenon DEF Next, AnyKey
<1>9. QED
  BY <1>7, <1>8

\* No request that carries an ETag, or is one of the strict families, replaces a
\* version that its editor has not read, however often and late it arrives, but
\* for the rotation by an editor that has read nothing and passes version 0.
THEOREM NothingIsOverwrittenBlindly == Spec => []NoBlindWrite
<1>1. Init => NoBlindWrite
  BY DEF Init, NoBlindWrite
<1>2. QED
  BY <1>1, ProperInit, ProperStep, BlindStep, PTL DEF Spec

-----------------------------------------------------------------------------
(* The secret of a grant *)

\* An answer belongs to the command its key was used for, and has a secret only
\* if that command issues one.
AnswerInv ==
  \A e \in Editors : phase[e] = "answered" =>
    /\ request[e].key # "none" => used[request[e].key] = request[e].method.effect
    /\ answer[e].secret # "none" => Issues(request[e].method)

\* A secret on its way has not been returned, and is on its way once; nothing
\* is returned under a key that was not used.
OnItsWay(e) == phase[e] = "answered" /\ answer[e].secret = "issued"
WayInv ==
  /\ \A e \in Editors : OnItsWay(e) => handed[request[e].key] = 0
  /\ \A d, e \in Editors :
       OnItsWay(d) /\ OnItsWay(e) /\ request[d].key = request[e].key => d = e
  /\ \A k \in Keys : used[k] = "none" => handed[k] = 0

SecretInv == AnswerInv /\ WayInv /\ SecretOnce

\* A method that issues a secret has a key, and its effect is not "none".
LEMMA IssuesKeyed ==
  ASSUME ProperInv, NEW r, Proper(r)
  PROVE  /\ Issues(r.method) => r.key \in Keys
         /\ r.method.effect # "none"
         /\ r.key \in AnyKey
         /\ family = "grant" /\ r.method.effect \in {"create", "rotate"} => Issues(r.method)
<1>1. family \in Families /\ r.method \in Methods[family] /\ r.key \in KeysOf(r.method)
  BY MethodsOf DEF ProperInv, TypeOK, Proper
<1>2. Issues(r.method) => r.key \in Keys
  BY <1>1 DEF Issues, KeysOf
<1>3. r.key \in AnyKey
  BY Numbers DEF Proper
<1>4. QED
  BY <1>1, <1>2, <1>3, MethodFacts

\* What the server's step on a request does to keys and secrets.
LEMMA CarriedSecret ==
  ASSUME ProperInv, AnswerInv, NEW r, Proper(r), CarryOut(r)
  PROVE  /\ \A k \in Keys : used[k] # "none" => used'[k] = used[k]
         /\ \A k \in Keys : used'[k] # used[k] => k = r.key
         /\ r.key \in Keys => used'[r.key] = r.method.effect
         /\ Reply(r).secret = "issued" => r.key \in Keys /\ used[r.key] = "none"
<1>1. r.key \in AnyKey /\ (Issues(r.method) => r.key \in Keys)
  BY IssuesKeyed
<1>2. CASE Repeated(r)
  <2>1. UNCHANGED used /\ (r.key \in Keys => used[r.key] = r.method.effect)
    BY <1>2, Carried DEF Repeated
  <2>2. QED
    BY <1>2, <2>1, Carried
<1>3. CASE ~Repeated(r)
  <2>1. Permitted(r) /\ Perform(r)
    BY <1>3, Carried
  <2>2. /\ \A k \in Keys : k # r.key => used'[k] = used[k]
        /\ r.key \in Keys => used'[r.key] = r.method.effect
    BY <2>1, Performed DEF ProperInv
  <2>3. r.key \in Keys => used[r.key] = "none"
    BY <2>1, ConstantsAssumption DEF Permitted
  <2>4. Reply(r).secret = "issued" => r.key \in Keys
    BY <1>1, Carried
  <2>5. QED
    BY <2>2, <2>3, <2>4
<1>4. QED
  BY <1>2, <1>3

LEMMA SecretStep == ProperInv /\ SecretInv /\ [Next]_vars => SecretInv'
<1> SUFFICES ASSUME ProperInv, SecretInv, [Next]_vars PROVE SecretInv'
  OBVIOUS
<1> USE DEF SecretInv
<1>a. TypeOK /\ Sending /\ Arriving
  BY DEF ProperInv
\* A step that ends or begins a call, and returns no secret.
<1>1. ASSUME NEW e \in Editors, UNCHANGED <<used, handed>>, phase'[e] # "answered",
             \A d \in Editors : d # e => /\ request'[d] = request[d]
                                         /\ phase'[d] = phase[d] /\ answer'[d] = answer[d]
      PROVE  SecretInv'
  BY <1>1 DEF AnswerInv, WayInv, OnItsWay, SecretOnce
<1>2. ASSUME NEW e \in Editors, NEW m \in Methods[family], NEW k \in AnyKey, Send(e, m, k)
      PROVE  SecretInv'
  BY <1>a, <1>1, <1>2 DEF Send, server, secrets, TypeOK
<1>3. ASSUME NEW e \in Editors, Replay(e) PROVE SecretInv'
  BY <1>a, <1>1, <1>3 DEF Replay, server, secrets, TypeOK
<1>4. ASSUME NEW e \in Editors, Lose(e) PROVE SecretInv'
  BY <1>a, <1>1, <1>4, Concluded DEF Lose, server
<1>5. ASSUME NEW e \in Editors, Fail(e) PROVE SecretInv'
  BY <1>a, <1>1, <1>5, Concluded DEF Fail, server
<1>6. ASSUME NEW e \in Editors, Receive(e) PROVE SecretInv'
  <2>1. PICK a \in Received(request[e].method, answer[e]) : Succeed(e, a) \/ Distrust(e, a)
    BY <1>6 DEF Receive
  <2>2. CASE Distrust(e, a)
    BY <1>a, <1>1, <2>2, Concluded DEF Distrust, server
  <2>3. CASE Succeed(e, a)
    <3> DEFINE open == a.secret \in {"already", "both"}
               r == request[e]
    <3>1. open \in BOOLEAN /\ Conclude(e, open) /\ UNCHANGED used
      BY <2>3 DEF Succeed, server
    <3> HIDE DEF open
    <3>2. /\ phase'[e] = "idle"
          /\ \A d \in Editors : d # e => /\ request'[d] = request[d]
                                         /\ phase'[d] = phase[d] /\ answer'[d] = answer[d]
      BY <1>a, <3>1, Concluded
    <3>3. phase[e] = "answered" /\ answer[e] \in Answers
      BY <1>a, <1>6 DEF Receive, TypeOK
    <3>4. CASE a.secret \notin {"issued", "both"}
      <4>1. handed' = handed
        BY <1>a, <2>3, <3>4 DEF Succeed, TypeOK
      <4>2. QED
        BY <1>1, <3>1, <3>2, <4>1
    <3>5. CASE a.secret \in {"issued", "both"}
      <4>1. OnItsWay(e) /\ Issues(r.method)
        <5>1. Issues(r.method)
          BY <2>1, <3>3, <3>5, Distorted DEF AnswerInv
        <5>2. a.secret = "issued"
          BY <2>3, <3>5, <5>1 DEF Succeed, Valid
        <5>3. a.secret = answer[e].secret
          BY <2>1, <3>3, <5>2, Distorted
        <5>4. QED
          BY <3>3, <5>1, <5>2, <5>3 DEF OnItsWay
      <4>2. r.key \in Keys /\ used[r.key] # "none" /\ r.key # "none"
        BY <1>a, <3>3, <4>1, IssuesKeyed, ConstantsAssumption DEF Sending, AnswerInv
      <4>3. handed[r.key] = 0
        BY <4>1 DEF WayInv
      <4>4. handed'[r.key] = 1 /\ \A k \in Keys : k # r.key => handed'[k] = handed[k]
        BY <2>3, <3>5, <4>2, <4>3 DEF Succeed
      <4>5. AnswerInv'
        BY <3>1, <3>2 DEF AnswerInv
      <4>6. SecretOnce'
        BY <4>4 DEF SecretOnce
      <4>7. ASSUME NEW d \in Editors, OnItsWay(d)'
            PROVE  /\ OnItsWay(d) /\ request'[d] = request[d]
                   /\ handed'[request[d].key] = 0
        <5>1. d # e /\ OnItsWay(d) /\ request'[d] = request[d]
          BY <3>2, <4>7 DEF OnItsWay
        <5>2. request[d].key # r.key /\ handed[request[d].key] = 0
          BY <4>1, <5>1 DEF WayInv
        <5>3. request[d].key \in Keys
          BY <1>a, <5>1, IssuesKeyed DEF OnItsWay, AnswerInv, Sending
        <5>4. QED
          BY <4>4, <5>1, <5>2, <5>3
      <4>8. \A k \in Keys : used'[k] = "none" => handed'[k] = 0
        BY <3>1, <4>2, <4>4 DEF WayInv
      <4>9. WayInv'
        BY <4>7, <4>8 DEF WayInv
      <4>10. QED
        BY <4>5, <4>6, <4>9
    <3>6. QED
      BY <3>4, <3>5
  <2>4. QED
    BY <2>1, <2>2, <2>3
<1>7. ASSUME NEW r, Proper(r), CarryOut(r), NEW d \in Editors, OnItsWay(d)
      PROVE  request[d].key \in Keys /\ used[request[d].key] # "none"
  BY <1>a, <1>7, IssuesKeyed, ConstantsAssumption DEF OnItsWay, AnswerInv, Sending
<1>8. ASSUME NEW r, Proper(r), CarryOut(r), UNCHANGED handed
      PROVE  /\ \A k \in Keys : used'[k] = "none" => handed'[k] = 0
             /\ SecretOnce'
             /\ \A d \in Editors : phase[d] = "answered" /\ request[d].key # "none"
                  => used'[request[d].key] = request[d].method.effect
  <2>1. /\ \A k \in Keys : used[k] # "none" => used'[k] = used[k]
        /\ \A k \in Keys : used'[k] # used[k] => k = r.key
        /\ r.key \in Keys => used'[r.key] = r.method.effect
    BY <1>8, CarriedSecret
  <2>2. r.method.effect # "none"
    BY <1>8, IssuesKeyed
  <2>3. \A k \in Keys : used'[k] = "none" => handed'[k] = 0
    BY <1>8, <2>1, <2>2 DEF WayInv
  <2>4. ASSUME NEW d \in Editors, phase[d] = "answered", request[d].key # "none"
        PROVE  used'[request[d].key] = request[d].method.effect
    <3>1. /\ request[d].key \in Keys /\ request[d].method.effect # "none"
          /\ used[request[d].key] = request[d].method.effect
      BY <1>a, <2>4, IssuesKeyed DEF AnswerInv, Sending, AnyKey
    <3>2. QED
      BY <2>1, <3>1
  <2>5. QED
    BY <1>8, <2>3, <2>4 DEF SecretOnce
<1>9. ASSUME NEW e \in Editors, Accept(e) PROVE SecretInv'
  <2> DEFINE r == request[e]
  <2>1. /\ UNCHANGED <<request, handed>> /\ CarryOut(r) /\ phase[e] = "sent"
        /\ phase'[e] = "answered" /\ answer'[e] = Reply(r)
        /\ \A d \in Editors : d # e => phase'[d] = phase[d] /\ answer'[d] = answer[d]
    BY <1>a, <1>9 DEF Accept, secrets, TypeOK
  <2>2. Proper(r)
    BY <1>a, <2>1 DEF Sending
  <2>3. /\ r.key # "none" => used'[r.key] = r.method.effect
        /\ answer'[e].secret # "none" => Issues(r.method)
        /\ answer'[e].secret = "issued" => r.key \in Keys /\ used[r.key] = "none"
    BY <2>1, <2>2, Carried, CarriedSecret, IssuesKeyed DEF AnyKey
  <2>4. AnswerInv'
    BY <1>8, <2>1, <2>2, <2>3 DEF AnswerInv
  <2>5. WayInv'
    <3>1. \A d \in Editors : OnItsWay(d)' => d = e \/ OnItsWay(d)
      BY <2>1 DEF OnItsWay
    <3>2. OnItsWay(e)' => r.key \in Keys /\ used[r.key] = "none" /\ handed[r.key] = 0
      BY <2>3 DEF OnItsWay, WayInv
    <3>3. \A d \in Editors : OnItsWay(d) /\ OnItsWay(e)' => request[d].key # r.key
      BY <1>7, <2>1, <2>2, <3>2
    <3>4. \A k \in Keys : used'[k] = "none" => handed'[k] = 0
      BY <1>8, <2>1, <2>2
    <3>5. \A d \in Editors : OnItsWay(d)' => handed'[request'[d].key] = 0
      BY <2>1, <3>1, <3>2 DEF WayInv
    <3>6. \A d, f \in Editors :
            OnItsWay(d)' /\ OnItsWay(f)' /\ request'[d].key = request'[f].key => d = f
      BY <2>1, <3>1, <3>3 DEF WayInv
    <3>7. QED
      BY <3>4, <3>5, <3>6 DEF WayInv
  <2>6. SecretOnce'
    BY <1>8, <2>1, <2>2
  <2>7. QED
    BY <2>4, <2>5, <2>6
<1>10. ASSUME NEW r \in late, AcceptLate(r) PROVE SecretInv'
  <2>1. UNCHANGED <<request, phase, answer, handed>> /\ CarryOut(r)
    BY <1>10 DEF AcceptLate, secrets
  <2>2. Proper(r)
    BY <1>a, <1>10 DEF Arriving
  <2>3. AnswerInv' /\ SecretOnce'
    BY <1>8, <2>1, <2>2 DEF AnswerInv
  <2>4. WayInv'
    <3>1. \A d \in Editors : OnItsWay(d)' <=> OnItsWay(d)
      BY <2>1 DEF OnItsWay
    <3>2. \A k \in Keys : used'[k] = "none" => handed'[k] = 0
      BY <1>8, <2>1, <2>2
    <3>3. QED
      BY <2>1, <3>1, <3>2 DEF WayInv
  <2>5. QED
    BY <2>3, <2>4
<1>11. CASE UNCHANGED vars
  BY <1>11 DEF vars, client, server, secrets, AnswerInv, WayInv, OnItsWay, SecretOnce
<1>12. ASSUME Next PROVE SecretInv'
  <2>1. CASE \E e \in Editors, m \in Methods[family], k \in AnyKey : Send(e, m, k)
    BY <1>2, <2>1
  <2>2. CASE \E e \in Editors : Replay(e) \/ Lose(e) \/ Receive(e) \/ Fail(e) \/ Accept(e)
    BY <1>3, <1>4, <1>5, <1>6, <1>9, <2>2
  <2>3. CASE \E r \in late : AcceptLate(r)
    BY <1>10, <2>3
  <2>4. QED
    BY <1>12, <2>1, <2>2, <2>3, Zenon DEF Next, AnyKey
<1>13. QED
  BY <1>11, <1>12

LEMMA SecretInit == Init => SecretInv
BY DEF Init, SecretInv, AnswerInv, WayInv, OnItsWay, SecretOnce

\* The secret issued under a key is returned to the application at most once.
THEOREM SecretReturnedOnce == Spec => []SecretOnce
<1>1. SecretInv => SecretOnce
  BY DEF SecretInv
<1>2. QED
  BY <1>1, ProperInit, ProperStep, SecretInit, SecretStep, PTL DEF Spec

\* A copy that nobody waits for, of a command that issues a secret, was left
\* behind by a call that said so, or by net/http.
LateTold ==
  \A r \in late : Issues(r.method) => told[r.key] \/ r.key \in resent

\* A secret that was issued under k can be accounted for.
Accounted(k) ==
  \/ handed[k] > 0 \/ told[k] \/ k \in resent
  \/ \E e \in Editors : phase[e] = "answered" /\ request[e].key = k

AccountInv == LateTold /\ SecretAccountedFor

LEMMA AccountStep == ProperInv /\ SecretInv /\ AccountInv /\ [Next]_vars => AccountInv'
<1> SUFFICES ASSUME ProperInv, SecretInv, AccountInv, [Next]_vars PROVE AccountInv'
  OBVIOUS
<1> USE DEF AccountInv
<1>a. TypeOK /\ Sending /\ Arriving
  BY DEF ProperInv
<1>b. \A k \in Keys : handed[k] \in 0 .. 2
  BY <1>a DEF TypeOK
<1>c. ASSUME NEW k \in Keys, family = "grant", used[k] \in {"create", "rotate"}
      PROVE  Accounted(k)
  BY <1>c DEF SecretAccountedFor, Accounted
\* A step that may end the call of e: what e was answered is accounted for.
<1>1. ASSUME NEW e \in Editors, UNCHANGED <<family, used>>, LateTold',
             \A k \in Keys : /\ handed[k] > 0 => handed'[k] > 0
                             /\ told[k] => told'[k]
                             /\ k \in resent => k \in resent',
             \A d \in Editors : d # e => request'[d] = request[d] /\ phase'[d] = phase[d],
             phase[e] = "answered" /\ Issues(request[e].method) =>
               \/ handed'[request[e].key] > 0
               \/ told'[request[e].key] \/ request[e].key \in resent'
      PROVE  AccountInv'
  <2>1. ASSUME NEW k \in Keys, family = "grant", used[k] \in {"create", "rotate"}
        PROVE  Accounted(k)'
    <3>1. CASE \E d \in Editors : phase[d] = "answered" /\ request[d].key = k
      <4>1. PICK d \in Editors : phase[d] = "answered" /\ request[d].key = k
        BY <3>1
      <4>2. CASE d # e
        BY <1>1, <4>1, <4>2 DEF Accounted
      <4>3. CASE d = e
        <5>1. request[e].method.effect = used[k]
          BY <4>1, <4>3, ConstantsAssumption DEF SecretInv, AnswerInv
        <5>2. Issues(request[e].method)
          BY <1>a, <2>1, <4>1, <4>3, <5>1, IssuesKeyed DEF Sending
        <5>3. QED
          BY <1>1, <4>1, <4>3, <5>2 DEF Accounted
      <4>4. QED
        BY <4>2, <4>3
    <3>2. CASE ~\E d \in Editors : phase[d] = "answered" /\ request[d].key = k
      <4>1. handed[k] > 0 \/ told[k] \/ k \in resent
        BY <1>c, <2>1, <3>2 DEF Accounted
      <4>2. handed'[k] > 0 \/ told'[k] \/ k \in resent'
        BY <1>1, <4>1
      <4>3. QED
        BY <4>2 DEF Accounted
    <3>3. QED
      BY <3>1, <3>2
  <2>2. QED
    BY <1>1, <2>1 DEF SecretAccountedFor, Accounted
<1>2. ASSUME NEW e \in Editors, NEW m \in Methods[family], NEW k \in AnyKey, Send(e, m, k)
      PROVE  AccountInv'
  <2>1. /\ UNCHANGED <<family, used, late, resent, handed, told>> /\ phase[e] = "idle"
        /\ \A d \in Editors : d # e => request'[d] = request[d] /\ phase'[d] = phase[d]
    BY <1>a, <1>2 DEF Send, server, secrets, TypeOK
  <2>2. QED
    BY <1>1, <2>1 DEF LateTold
\* A copy left behind by a call that says so, or that net/http has repeated.
<1>3. ASSUME NEW e \in Editors, Abandon(e),
             \A k \in Keys : told[k] => told'[k], resent \subseteq resent',
             Issues(request[e].method) /\ request[e].key \in Keys
               => told'[request[e].key] \/ request[e].key \in resent'
      PROVE  LateTold'
  <2>1. ASSUME NEW r \in late', Issues(r.method)
        PROVE  told'[r.key] \/ r.key \in resent'
    <3>1. r \in late \/ (r = request[e] /\ phase[e] = "sent")
      BY <1>a, <1>3, Abandoned
    <3>2. Proper(r)
      BY <1>a, <3>1 DEF Arriving, Sending
    <3>3. r.key \in Keys
      BY <2>1, <3>2, IssuesKeyed
    <3>4. QED
      BY <1>3, <2>1, <3>1, <3>3 DEF LateTold
  <2>2. QED
    BY <2>1 DEF LateTold
<1>4. ASSUME NEW e \in Editors, Replay(e) PROVE AccountInv'
  <2>1. /\ UNCHANGED <<family, request, used, handed, told>> /\ Abandon(e)
        /\ phase[e] # "idle" /\ resent' = resent \cup ({request[e].key} \ {"none"})
        /\ \A d \in Editors : d # e => phase'[d] = phase[d]
    BY <1>a, <1>4 DEF Replay, server, secrets, TypeOK
  <2>2. Issues(request[e].method) => request[e].key \in Keys /\ request[e].key \in resent'
    BY <1>a, <2>1, IssuesKeyed, ConstantsAssumption DEF Sending
  <2>3. LateTold'
    BY <1>3, <2>1, <2>2
  <2>4. QED
    BY <1>1, <2>1, <2>2, <2>3
\* A call that ends, and whose outcome is open, says that it may have issued.
<1>5. ASSUME NEW e \in Editors, phase[e] # "idle", Conclude(e, TRUE),
             UNCHANGED <<family, used, resent, handed>>
      PROVE  /\ LateTold' => AccountInv'
             /\ Abandon(e) => LateTold'
  <2>1. /\ \A d \in Editors : d # e => request'[d] = request[d] /\ phase'[d] = phase[d]
        /\ \A k \in Keys : told[k] => told'[k]
        /\ Issues(request[e].method) /\ request[e].key \in Keys => told'[request[e].key]
    BY <1>a, <1>5, Concluded
  <2>2. Issues(request[e].method) => request[e].key \in Keys
    BY <1>a, <1>5, IssuesKeyed DEF Sending
  <2>3. Abandon(e) => LateTold'
    BY <1>3, <1>5, <2>1
  <2>4. LateTold' => AccountInv'
    BY <1>1, <1>5, <2>1, <2>2
  <2>5. QED
    BY <2>3, <2>4
<1>6. ASSUME NEW e \in Editors, Lose(e) PROVE AccountInv'
  BY <1>5, <1>6 DEF Lose, server
\* A call that ends leaves what is said of the copies as it is.
<1>7. ASSUME NEW e \in Editors, NEW open \in BOOLEAN, Conclude(e, open),
             UNCHANGED <<late, resent>>
      PROVE  LateTold'
  <2>1. \A k \in Keys : told[k] => told'[k]
    BY <1>a, <1>7, Concluded
  <2>2. \A r \in late : Issues(r.method) => r.key \in Keys
    BY <1>a, IssuesKeyed DEF Arriving
  <2>3. QED
    BY <1>7, <2>1, <2>2 DEF LateTold
<1>8. ASSUME NEW e \in Editors, Fail(e) PROVE AccountInv'
  <2>1. /\ Conclude(e, FALSE) /\ UNCHANGED <<family, used, late, resent, handed>>
        /\ phase[e] = "sent"
    BY <1>8 DEF Fail, server
  <2>2. LateTold'
    BY <1>7, <2>1
  <2>3. /\ \A d \in Editors : d # e => request'[d] = request[d] /\ phase'[d] = phase[d]
        /\ \A k \in Keys : told[k] => told'[k]
    BY <1>a, <2>1, Concluded
  <2>4. QED
    BY <1>1, <2>1, <2>2, <2>3
<1>9. ASSUME NEW e \in Editors, Receive(e) PROVE AccountInv'
  <2>1. PICK a \in Received(request[e].method, answer[e]) : Succeed(e, a) \/ Distrust(e, a)
    BY <1>9 DEF Receive
  <2>2. phase[e] = "answered"
    BY <1>9 DEF Receive
  <2>3. CASE Distrust(e, a)
    <3>1. Conclude(e, TRUE) /\ UNCHANGED <<family, used, late, resent, handed>>
      BY <2>3 DEF Distrust, server
    <3>2. LateTold'
      BY <1>7, <3>1
    <3>3. QED
      BY <1>5, <2>2, <3>1, <3>2
  <2>4. CASE Succeed(e, a)
    <3> DEFINE open == a.secret \in {"already", "both"}
               r == request[e]
    <3>1. /\ open \in BOOLEAN /\ Conclude(e, open)
          /\ UNCHANGED <<family, used, late, resent>>
          /\ Issues(r.method) => open \/ a.secret = "issued"
      BY <2>4 DEF Succeed, server, Valid
    <3> HIDE DEF open
    <3>2. LateTold'
      BY <1>7, <3>1
    <3>3. /\ \A d \in Editors : d # e => request'[d] = request[d] /\ phase'[d] = phase[d]
          /\ \A k \in Keys : told[k] => told'[k]
          /\ open /\ Issues(r.method) /\ r.key \in Keys => told'[r.key]
      BY <1>a, <3>1, Concluded
    <3>4. Issues(r.method) => r.key \in Keys
      BY <1>a, <2>2, IssuesKeyed DEF Sending
    <3>5. /\ \A k \in Keys : handed[k] > 0 => handed'[k] > 0
          /\ a.secret = "issued" /\ r.key \in Keys => handed'[r.key] > 0
      BY <1>b, <2>4 DEF Succeed
    <3>6. QED
      BY <1>1, <3>1, <3>2, <3>3, <3>4, <3>5
  <2>5. QED
    BY <2>1, <2>3, <2>4
<1>10. ASSUME NEW e \in Editors, Accept(e) PROVE AccountInv'
  <2>1. /\ UNCHANGED <<family, request, late, resent, handed, told>> /\ phase[e] = "sent"
        /\ CarryOut(request[e]) /\ phase'[e] = "answered"
        /\ \A d \in Editors : d # e => phase'[d] = phase[d]
    BY <1>a, <1>10 DEF Accept, secrets, TypeOK
  <2>2. \A k \in Keys : used'[k] # used[k] => k = request[e].key
    BY <1>a, <2>1, CarriedSecret DEF Sending, SecretInv
  <2>3. ASSUME NEW k \in Keys, family = "grant", used'[k] \in {"create", "rotate"}
        PROVE  Accounted(k)'
    <3>1. CASE k = request[e].key
      BY <2>1, <3>1 DEF Accounted
    <3>2. CASE k # request[e].key
      BY <1>c, <2>1, <2>2, <2>3, <3>2 DEF Accounted
    <3>3. QED
      BY <3>1, <3>2
  <2>4. QED
    BY <2>1, <2>3 DEF LateTold, SecretAccountedFor, Accounted
<1>11. ASSUME NEW r \in late, AcceptLate(r) PROVE AccountInv'
  <2>1. /\ UNCHANGED <<family, request, phase, resent, handed, told>>
        /\ late' = late \ {r} /\ CarryOut(r)
    BY <1>11 DEF AcceptLate, secrets
  <2>2. Proper(r)
    BY <1>a, <1>11 DEF Arriving
  <2>3. /\ \A k \in Keys : used'[k] # used[k] => k = r.key
        /\ r.key \in Keys => used'[r.key] = r.method.effect
    BY <2>1, <2>2, CarriedSecret DEF SecretInv
  <2>4. ASSUME NEW k \in Keys, family = "grant", used'[k] \in {"create", "rotate"}
        PROVE  Accounted(k)'
    <3>1. CASE k = r.key
      <4>1. Issues(r.method)
        BY <2>2, <2>3, <2>4, <3>1, IssuesKeyed
      <4>2. QED
        BY <1>11, <2>1, <3>1, <4>1 DEF LateTold, Accounted
    <3>2. CASE k # r.key
      BY <1>c, <2>1, <2>3, <2>4, <3>2 DEF Accounted
    <3>3. QED
      BY <3>1, <3>2
  <2>5. QED
    BY <2>1, <2>4 DEF LateTold, SecretAccountedFor, Accounted
<1>12. CASE UNCHANGED vars
  BY <1>12 DEF vars, client, server, secrets, LateTold, SecretAccountedFor
<1>13. ASSUME Next PROVE AccountInv'
  <2>1. CASE \E e \in Editors, m \in Methods[family], k \in AnyKey : Send(e, m, k)
    BY <1>2, <2>1
  <2>2. CASE \E e \in Editors : Replay(e) \/ Lose(e) \/ Receive(e) \/ Fail(e) \/ Accept(e)
    BY <1>4, <1>6, <1>8, <1>9, <1>10, <2>2
  <2>3. CASE \E r \in late : AcceptLate(r)
    BY <1>11, <2>3
  <2>4. QED
    BY <1>13, <2>1, <2>2, <2>3, Zenon DEF Next, AnyKey
<1>14. QED
  BY <1>12, <1>13

LEMMA AccountInit == Init => AccountInv
BY DEF Init, AccountInv, LateTold, SecretAccountedFor

\* The secret issued under a key was returned, or a method said that it may have
\* been issued, or the command goes on, unless net/http sent it more than once.
THEOREM SecretsAreAccountedFor == Spec => []SecretAccountedFor
<1>1. AccountInv => SecretAccountedFor
  BY DEF AccountInv
<1>2. QED
  BY <1>1, ProperInit, ProperStep, SecretInit, SecretStep, AccountInit, AccountStep, PTL
  DEF Spec
=============================================================================
