------------------------- MODULE AuthPipeline_proofs -------------------------
(***************************************************************************)
(* Proofs about AuthPipeline for every set of routes, tokens and mappings  *)
(* and every bound of the two caches, and about AuthSystem, which puts the *)
(* caches themselves in the place of the bounds.                           *)
(***************************************************************************)
EXTENDS AuthSystem, SequenceTheorems, TLAPS

-----------------------------------------------------------------------------
(* The chain of gates *)

\* A chain that nobody has passed a gate of is a suffix of itself.
LEMMA WholeIsSuffix ==
  ASSUME NEW s \in Seq(Gates)
  PROVE  /\ Len(s) \in Nat /\ 1 \in 1 .. Len(s) + 1
         /\ s = SubSeq(s, 1, Len(s)) /\ s \in Suffixes(s)
<1>1. Len(s) \in Nat
  BY LenProperties
<1>2. \A i \in 1 .. Len(s) : s[i] \in Gates
  BY ElementOfSeq
<1>3. /\ SubSeq(s, 1, Len(s)) \in Seq(Gates)
      /\ Len(SubSeq(s, 1, Len(s))) = Len(s)
      /\ \A i \in 1 .. Len(s) : SubSeq(s, 1, Len(s))[i] = s[i]
  BY <1>1, <1>2, SubSeqProperties
<1>4. s = SubSeq(s, 1, Len(s))
  BY <1>3, SeqEqual
<1>5. QED
  BY <1>1, <1>4 DEF Suffixes

\* The gate at the head of a suffix, and the suffix after it.
LEMMA NextSuffix ==
  ASSUME NEW s \in Seq(Gates), NEW n \in 1 .. Len(s) + 1,
         SubSeq(s, n, Len(s)) # <<>>
  PROVE  /\ n \in 1 .. Len(s) /\ n + 1 \in 1 .. Len(s) + 1
         /\ Head(SubSeq(s, n, Len(s))) = s[n]
         /\ Tail(SubSeq(s, n, Len(s))) = SubSeq(s, n + 1, Len(s))
<1>1. Len(s) \in Nat
  BY LenProperties
<1>2. \A i \in 1 .. Len(s) : s[i] \in Gates
  BY ElementOfSeq
<1> DEFINE t == SubSeq(s, n, Len(s))
           u == SubSeq(s, n + 1, Len(s))
<1>3. /\ t \in Seq(Gates)
      /\ Len(t) = IF n =< Len(s) THEN Len(s) - n + 1 ELSE 0
      /\ \A i \in 1 .. Len(s) - n + 1 : t[i] = s[n + i - 1]
  BY <1>1, <1>2, SubSeqProperties
<1>4. /\ u \in Seq(Gates)
      /\ Len(u) = IF n + 1 =< Len(s) THEN Len(s) - n ELSE 0
      /\ \A i \in 1 .. Len(s) - n : u[i] = s[n + i]
  <2>1. \A i \in n + 1 .. Len(s) : s[i] \in Gates
    BY <1>1, <1>2
  <2>2. /\ u \in Seq(Gates)
        /\ Len(u) = IF n + 1 =< Len(s) THEN Len(s) - (n + 1) + 1 ELSE 0
        /\ \A i \in 1 .. Len(s) - (n + 1) + 1 : u[i] = s[(n + 1) + i - 1]
    BY <1>1, <2>1, SubSeqProperties
  <2>3. QED
    BY <1>1, <2>2
<1>5. t # <<>>
  OBVIOUS
<1> HIDE DEF t, u
<1>6. Len(t) \in Nat \ {0}
  BY <1>3, <1>5, EmptySeq
<1>7. n =< Len(s) /\ Len(t) = Len(s) - n + 1
  BY <1>1, <1>3, <1>6
<1>8. /\ Tail(t) \in Seq(Gates) /\ Len(Tail(t)) = Len(t) - 1
      /\ \A i \in 1 .. Len(Tail(t)) : Tail(t)[i] = t[i + 1]
  BY <1>3, <1>5, HeadTailProperties
<1>9. Len(u) = Len(s) - n
  BY <1>1, <1>4, <1>7
<1>10. \A i \in 1 .. Len(Tail(t)) : Tail(t)[i] = u[i]
  <2>1. SUFFICES ASSUME NEW i \in 1 .. Len(Tail(t))
                 PROVE  Tail(t)[i] = u[i]
    OBVIOUS
  <2>2. i \in 1 .. Len(s) - n /\ i + 1 \in 1 .. Len(s) - n + 1
    BY <1>1, <1>7, <1>8
  <2>3. t[i + 1] = s[n + (i + 1) - 1] /\ u[i] = s[n + i]
    BY <1>3, <1>4, <2>2
  <2>4. n + (i + 1) - 1 = n + i
    BY <2>2, <1>1
  <2>5. QED
    BY <1>8, <2>3, <2>4
<1>11. Len(Tail(t)) = Len(u)
  BY <1>1, <1>7, <1>8, <1>9
<1>12. Tail(t) = u
  BY <1>4, <1>8, <1>10, <1>11, SeqEqual
<1>13. t[1] = s[n] /\ Head(t) = t[1]
  <2>1. 1 \in 1 .. Len(s) - n + 1
    BY <1>1, <1>7
  <2>2. t[1] = s[n + 1 - 1] /\ n + 1 - 1 = n
    BY <1>1, <1>3, <2>1
  <2>3. QED
    BY <1>3, <1>5, <2>2
<1>14. QED
  BY <1>1, <1>7, <1>12, <1>13 DEF t, u

\* A suffix that is empty begins after the last gate.
LEMMA EmptySuffix ==
  ASSUME NEW s \in Seq(Gates), NEW n \in 1 .. Len(s) + 1,
         SubSeq(s, n, Len(s)) = <<>>
  PROVE  n = Len(s) + 1
<1>1. Len(s) \in Nat
  BY LenProperties
<1>2. \A i \in n .. Len(s) : s[i] \in Gates
  BY <1>1, ElementOfSeq
<1>3. n \in Int /\ Len(s) \in Int
  BY <1>1
<1>4. Len(SubSeq(s, n, Len(s))) = IF n =< Len(s) THEN Len(s) - n + 1 ELSE 0
  BY <1>2, <1>3, SubSeqProperties, Zenon
<1>5. n =< Len(s) => Len(s) - n + 1 # 0
  BY <1>1
<1>6. Len(SubSeq(s, n, Len(s))) = 0
  BY EmptySeq
<1>7. QED
  BY <1>1, <1>4, <1>5, <1>6

-----------------------------------------------------------------------------
(* Types *)

\* The gates of a route.
LEMMA RouteGates ==
  ASSUME NEW r \in Routes \cup {NoRoute}
  PROVE  /\ r.auth \in BOOLEAN /\ r.gates \in Seq(Gates)
         /\ NoRoute.gates = <<>> /\ NoRoute.auth = FALSE
<1>1. NoRoute.gates = <<>> /\ NoRoute.auth = FALSE /\ <<>> \in Seq(Gates)
  BY EmptySeq DEF NoRoute
<1>2. CASE r \in Routes
  BY <1>1, <1>2, ConstantsAssumption, Zenon
<1>3. CASE r = NoRoute
  BY <1>1, <1>3, Zenon
<1>4. QED
  BY <1>2, <1>3

\* What Inject puts into the context.
LEMMA InjectedUser ==
  ASSUME NEW m \in Mappings, NEW t \in Tokens
  PROVE  /\ [perms |-> m, acr |-> t.acr, actor |-> t.actor] \in Users
         /\ [perms |-> m, acr |-> t.acr, actor |-> t.actor] # NoUser
BY ConstantsAssumption DEF Users, NoUser

LEMMA Numbers ==
  /\ KeyAge \in Nat /\ MappingAge \in Nat /\ Leeway \in Nat /\ MaxDuration \in Nat
  /\ Window = MappingAge + MaxDuration /\ KeyWindow = KeyAge + MaxDuration + 1
  /\ ExpWindow = Leeway + MaxDuration + 1
  /\ Window \in Nat /\ KeyWindow \in Nat /\ ExpWindow \in Nat
BY ConstantsAssumption DEF Window, KeyWindow, ExpWindow

\* An age grows by one at most, up to its bound.
LEMMA OlderIs ==
  ASSUME NEW l \in Nat, NEW n \in Int, n =< l
  PROVE  Older(n, l) \in Int /\ Older(n, l) =< l /\ n =< Older(n, l)
         /\ Older(n, l) =< n + 1
BY DEF Older

\* A request that is on its way has a route and a token.
OnItsWay == pc # "idle" => route \in Routes /\ token \in Tokens

TypeInv == TypeOK /\ OnItsWay

LEMMA TypeInitially == Init => TypeInv
<1> SUFFICES ASSUME Init PROVE TypeInv
  OBVIOUS
<1>1. <<>> \in Suffixes(route.gates)
  BY WholeIsSuffix, EmptySeq DEF Init, NoRoute
<1>2. user \in Users
  BY DEF Init, Users
<1>3. published \in 0 .. KeyWindow /\ sinceExp \in -1 .. ExpWindow /\ age \in 0 .. MaxDuration
  BY Numbers DEF Init
<1>4. inForce \in [0 .. Window -> Mappings]
  BY DEF Init
<1>5. QED
  BY <1>1, <1>2, <1>3, <1>4 DEF Init, TypeInv, TypeOK, OnItsWay

LEMMA TypeStep == TypeInv /\ [Next]_vars => TypeInv'
<1> SUFFICES ASSUME TypeInv, [Next]_vars PROVE TypeInv'
  OBVIOUS
<1> USE DEF TypeInv
<1>1. ASSUME NEW r \in Routes, NEW t \in Tokens, Arrive(r, t) PROVE TypeInv'
  <2>1. r.gates \in Suffixes(r.gates)
    BY WholeIsSuffix, RouteGates
  <2>2. NoUser \in Users
    BY DEF Users
  <2>3. pc' \in {"verifying", "gates"}
    BY <1>1 DEF Arrive
  <2>4. QED
    BY <1>1, <2>1, <2>2, <2>3, Numbers DEF Arrive, TypeOK, OnItsWay, server
<1>2. ASSUME Deny PROVE TypeInv' \/ pc = "idle"
  BY <1>2 DEF Deny, TypeOK, OnItsWay, server
<1>3. ASSUME NEW m \in Mappings, Inject(m), pc # "idle" PROVE TypeInv'
  <2>1. user' \in Users
    BY <1>3, InjectedUser DEF Inject, OnItsWay
  <2>2. QED
    BY <1>3, <2>1 DEF Inject, TypeOK, OnItsWay, server
<1>4. ASSUME Verify PROVE TypeInv'
  BY <1>4 DEF Verify, Check, TypeOK, OnItsWay, server
<1>5. ASSUME Unauthorized PROVE TypeInv'
  BY <1>5, <1>2 DEF Unauthorized
<1>6. ASSUME Resolve PROVE TypeInv'
  <2>1. \E m \in Mappings : Inject(m)
    <3>1. CASE \E i \in 0 .. MappingAge : Inject(inForce[i])
      <4>1. PICK i \in 0 .. MappingAge : Inject(inForce[i])
        BY <3>1
      <4>2. i \in 0 .. Window
        BY Numbers
      <4>3. inForce[i] \in Mappings
        BY <4>2 DEF TypeOK
      <4>4. QED
        BY <4>1, <4>3
    <3>2. CASE Inject({}) \/ Inject(EmptyList)
      BY <3>2, ConstantsAssumption DEF EmptyList
    <3>3. QED
      BY <1>6, <3>1, <3>2 DEF Resolve
  <2>2. QED
    BY <1>6, <1>3, <2>1 DEF Resolve
<1>7. ASSUME Unresolved PROVE TypeInv'
  BY <1>7, <1>2 DEF Unresolved
<1>8. ASSUME Pass PROVE TypeInv'
  <2>1. route.gates \in Seq(Gates)
    BY RouteGates DEF TypeOK
  <2>2. PICK n \in 1 .. Len(route.gates) + 1 :
          left = SubSeq(route.gates, n, Len(route.gates))
    BY DEF TypeOK, Suffixes
  <2>3. Tail(left) \in Suffixes(route.gates)
    BY <1>8, <2>1, <2>2, NextSuffix DEF Pass, Suffixes
  <2>4. QED
    BY <1>8, <2>3 DEF Pass, TypeOK, OnItsWay, server
<1>9. ASSUME Forbid PROVE TypeInv'
  BY <1>9, <1>2 DEF Forbid
<1>10. ASSUME Handle PROVE TypeInv'
  BY <1>10 DEF Handle, TypeOK, OnItsWay, server
<1>11. ASSUME Finish PROVE TypeInv'
  <2>1. <<>> \in Suffixes(NoRoute.gates)
    BY WholeIsSuffix, EmptySeq DEF NoRoute
  <2>2. NoUser \in Users
    BY DEF Users
  <2>3. QED
    BY <1>11, <2>1, <2>2, Numbers DEF Finish, TypeOK, OnItsWay, server
<1>12. ASSUME NEW m \in Mappings, Tick(m) PROVE TypeInv'
  <2>1. published' \in 0 .. KeyWindow
    <3>1. published \in Int /\ published =< KeyWindow /\ 0 =< published
      BY Numbers DEF TypeOK
    <3>2. Older(published, KeyWindow) \in 0 .. KeyWindow
      BY <3>1, Numbers DEF Older
    <3>3. QED
      BY <1>12, <3>2, Numbers DEF Tick
  <2>2. inForce' \in [0 .. Window -> Mappings]
    BY <1>12, Numbers DEF Tick, TypeOK
  <2>3. sinceExp' \in -1 .. ExpWindow /\ age' \in 0 .. MaxDuration
    <3>1. Older(sinceExp, ExpWindow) \in -1 .. ExpWindow
      <4>1. sinceExp \in Int /\ sinceExp =< ExpWindow /\ -1 =< sinceExp
        BY Numbers DEF TypeOK
      <4>2. QED
        BY <4>1, Numbers DEF Older
    <3>2. pc # "idle" => age + 1 \in 0 .. MaxDuration
      BY <1>12, Numbers DEF Tick, TypeOK
    <3>3. QED
      BY <1>12, <3>1, <3>2 DEF Tick, TypeOK
  <2>4. QED
    BY <1>12, <2>1, <2>2, <2>3 DEF Tick, TypeOK, OnItsWay
<1>13. ASSUME Publish PROVE TypeInv'
  BY <1>13, Numbers DEF Publish, TypeOK, OnItsWay
<1>14. ASSUME UNCHANGED vars PROVE TypeInv'
  BY <1>14 DEF vars, server, TypeOK, OnItsWay
<1>15. QED
  BY <1>1, <1>4, <1>5, <1>6, <1>7, <1>8, <1>9, <1>10, <1>11, <1>12, <1>13, <1>14
     DEF Next

\* Every variable keeps its type: a request on its way has a known route, token
\* and user, and what is left of its gates is a suffix of the route's.
THEOREM TypeCorrect == Spec => []TypeOK
<1>1. TypeInv => TypeOK
  BY DEF TypeInv
<1>2. QED
  BY TypeInitially, TypeStep, <1>1, PTL DEF Spec

-----------------------------------------------------------------------------
(* The token *)

\* Only a route behind Auth is verified, and without Auth there is no user.
OnlyAuth ==
  /\ pc \in {"verifying", "resolving"} => route.auth
  /\ ~route.auth => user = NoUser

\* Since Verify: what held of the token then holds of it now, but for the time
\* that has passed.
Verified ==
  pc \in {"resolving", "gates", "handled"} /\ route.auth =>
    /\ token.signed /\ token.claims
    /\ published =< KeyAge + age
    /\ sinceExp =< Leeway + age

\* A key's age that Verify reads, and the token's, only grow with the request's.
TokenInv == TypeInv /\ OnlyAuth /\ Verified

LEMMA TokenStep == TokenInv /\ [Next]_vars => (OnlyAuth /\ Verified)'
<1> SUFFICES ASSUME TokenInv, [Next]_vars PROVE (OnlyAuth /\ Verified)'
  OBVIOUS
<1> USE DEF TokenInv
<1>1. ASSUME NEW r \in Routes, NEW t \in Tokens, Arrive(r, t)
      PROVE  (OnlyAuth /\ Verified)'
  BY <1>1, RouteGates DEF Arrive, OnlyAuth, Verified
<1>2. ASSUME Deny PROVE (OnlyAuth /\ Verified)'
  BY <1>2 DEF Deny, OnlyAuth, Verified
<1>3. ASSUME NEW m, Inject(m), pc = "resolving" PROVE (OnlyAuth /\ Verified)'
  BY <1>3 DEF Inject, OnlyAuth, Verified, server
<1>4. ASSUME Verify PROVE (OnlyAuth /\ Verified)'
  <2>1. OnlyAuth'
    BY <1>4 DEF Verify, Check, OnlyAuth
  <2>2. token.signed /\ token.claims /\ published =< KeyAge /\ sinceExp =< Leeway
    BY <1>4 DEF Verify, Check, KeyFound, ClaimsValid
  <2>3. published =< KeyAge + age /\ sinceExp =< Leeway + age
    BY <2>2, Numbers DEF TypeInv, TypeOK
  <2>4. QED
    BY <1>4, <2>1, <2>2, <2>3 DEF Verify, Check, Verified, server
<1>5. ASSUME Resolve PROVE (OnlyAuth /\ Verified)'
  BY <1>5, <1>3 DEF Resolve
<1>6. ASSUME Unauthorized \/ Unresolved \/ Forbid PROVE (OnlyAuth /\ Verified)'
  BY <1>6, <1>2 DEF Unauthorized, Unresolved, Forbid
<1>7. ASSUME Pass \/ Handle PROVE (OnlyAuth /\ Verified)'
  BY <1>7 DEF Pass, Handle, OnlyAuth, Verified, server
<1>8. ASSUME Finish PROVE (OnlyAuth /\ Verified)'
  BY <1>8 DEF Finish, OnlyAuth, Verified, NoRoute
<1>9. ASSUME NEW m \in Mappings, Tick(m) PROVE (OnlyAuth /\ Verified)'
  <2>1. OnlyAuth'
    BY <1>9 DEF Tick, OnlyAuth
  <2>2. ASSUME pc \in {"resolving", "gates", "handled"}, route.auth
        PROVE  /\ token.signed /\ token.claims
               /\ published' =< KeyAge + age' /\ sinceExp' =< Leeway + age'
    <3>1. age' = age + 1 /\ sinceExp' = Older(sinceExp, ExpWindow)
          /\ published' \in {0, Older(published, KeyWindow)}
      BY <1>9, <2>2 DEF Tick
    <3>2. Older(published, KeyWindow) =< published + 1
          /\ Older(sinceExp, ExpWindow) =< sinceExp + 1
          /\ Older(published, KeyWindow) \in Int /\ Older(sinceExp, ExpWindow) \in Int
      <4>1. /\ published \in Int /\ published =< KeyWindow
            /\ sinceExp \in Int /\ sinceExp =< ExpWindow
        BY Numbers DEF TypeInv, TypeOK
      <4>2. KeyWindow \in Nat /\ ExpWindow \in Nat
        BY Numbers
      <4>3. QED
        BY <4>1, <4>2, OlderIs
    <3>3. /\ token.signed /\ token.claims
          /\ published =< KeyAge + age /\ sinceExp =< Leeway + age
      BY <2>2 DEF Verified
    <3>4. age \in Nat /\ published \in Int /\ sinceExp \in Int
      BY Numbers DEF TypeInv, TypeOK
    <3>5. published' =< KeyAge + age'
      BY <3>1, <3>2, <3>3, <3>4, Numbers
    <3>6. sinceExp' =< Leeway + age'
      BY <3>1, <3>2, <3>3, <3>4, Numbers
    <3>7. QED
      BY <3>3, <3>5, <3>6
  <2>3. QED
    BY <1>9, <2>1, <2>2 DEF Tick, Verified
<1>10. ASSUME Publish PROVE (OnlyAuth /\ Verified)'
  <2>1. 0 =< KeyAge + age
    BY Numbers DEF TypeInv, TypeOK
  <2>2. QED
    BY <1>10, <2>1 DEF Publish, OnlyAuth, Verified
<1>11. ASSUME UNCHANGED vars PROVE (OnlyAuth /\ Verified)'
  BY <1>11 DEF vars, server, OnlyAuth, Verified
<1>12. QED
  BY <1>1, <1>4, <1>5, <1>6, <1>7, <1>8, <1>9, <1>10, <1>11 DEF Next

LEMMA TokenInvariant == Spec => []TokenInv
<1>1. Init => TokenInv
  BY TypeInitially DEF Init, TokenInv, OnlyAuth, Verified, NoRoute
<1>2. TokenInv /\ [Next]_vars => TokenInv'
  BY TypeStep, TokenStep DEF TokenInv
<1>3. QED
  BY <1>1, <1>2, PTL DEF Spec

\* A handler behind Auth runs only for a token that Auth verified, with a key
\* published and a lifetime not over longer ago than the two bounds allow
\* (Verifier.Verify, jwt/verifier.go).
THEOREM HandlersSeeAuthenticTokens == Spec => []ServedIsAuthentic
<1>1. TokenInv => ServedIsAuthentic
  BY DEF TokenInv, Verified, ServedIsAuthentic
<1>2. QED
  BY TokenInvariant, <1>1, PTL

-----------------------------------------------------------------------------
(* The permissions *)

\* The user is the token's, with a mapping of its roles that was in force
\* MappingAge before the request arrived or later, or with none.
InContext ==
  pc \in {"gates", "handled"} /\ route.auth =>
    /\ user.acr = token.acr /\ user.actor = token.actor
    /\ user.perms \in Mappings
    /\ user.perms = {}
       \/ (token.roles /\ \E i \in 0 .. MappingAge + age : inForce[i] = user.perms)

\* The gates before the suffix that is left have let this user pass.
PassedGates ==
  /\ pc \in {"verifying", "resolving"} => left = route.gates
  /\ pc \in {"gates", "handled"} =>
       \E n \in 1 .. Len(route.gates) + 1 :
         /\ left = SubSeq(route.gates, n, Len(route.gates))
         /\ \A i \in 1 .. n - 1 : Passes(route.gates[i], user)
  /\ pc = "handled" => left = <<>>

GateInv == TypeInv /\ OnlyAuth /\ InContext /\ PassedGates

\* A chain of which nothing is passed.
LEMMA NothingPassed ==
  ASSUME NEW s \in Seq(Gates), NEW u
  PROVE  \E n \in 1 .. Len(s) + 1 : /\ s = SubSeq(s, n, Len(s))
                                    /\ \A i \in 1 .. n - 1 : Passes(s[i], u)
<1>1. 1 \in 1 .. Len(s) + 1 /\ s = SubSeq(s, 1, Len(s))
  BY WholeIsSuffix
<1>2. \A i \in 1 .. 1 - 1 : Passes(s[i], u)
  OBVIOUS
<1>3. QED
  BY <1>1, <1>2

LEMMA ContextStep == GateInv /\ [Next]_vars => InContext'
<1> SUFFICES ASSUME GateInv, [Next]_vars PROVE InContext'
  OBVIOUS
<1> USE DEF GateInv
<1>1. ASSUME NEW r \in Routes, NEW t \in Tokens, Arrive(r, t) PROVE InContext'
  BY <1>1 DEF Arrive, InContext
<1>2. ASSUME Deny PROVE InContext'
  BY <1>2 DEF Deny, InContext
<1>3. ASSUME NEW m \in Mappings, Inject(m),
             m = {} \/ (token.roles /\ \E i \in 0 .. MappingAge : inForce[i] = m)
      PROVE  InContext'
  <2>1. user'.acr = token.acr /\ user'.actor = token.actor /\ user'.perms = m
    BY <1>3 DEF Inject
  <2>2. 0 .. MappingAge \subseteq 0 .. MappingAge + age
    BY Numbers DEF TypeInv, TypeOK
  <2>3. m = {} \/ (token.roles /\ \E i \in 0 .. MappingAge + age : inForce[i] = m)
    BY <1>3, <2>2
  <2>4. UNCHANGED <<inForce, age, token, route>>
    BY <1>3 DEF Inject, server
  <2>5. QED
    BY <1>3, <2>1, <2>3, <2>4 DEF InContext
<1>4. ASSUME Resolve PROVE InContext'
  <2>1. CASE token.roles /\ \E i \in 0 .. MappingAge : Inject(inForce[i])
    <3>1. PICK i \in 0 .. MappingAge : Inject(inForce[i])
      BY <2>1
    <3>2. i \in 0 .. Window
      BY Numbers
    <3>3. inForce[i] \in Mappings
      BY <3>2 DEF TypeInv, TypeOK
    <3>4. QED
      BY <2>1, <3>1, <3>3, <1>3
  <2>2. CASE Inject({}) \/ Inject(EmptyList)
    BY <2>2, <1>3, ConstantsAssumption DEF EmptyList
  <2>3. QED
    BY <1>4, <2>1, <2>2 DEF Resolve
<1>5. ASSUME Unauthorized \/ Unresolved \/ Forbid PROVE InContext'
  BY <1>5, <1>2 DEF Unauthorized, Unresolved, Forbid
<1>6. ASSUME Pass \/ Handle PROVE InContext'
  BY <1>6 DEF Pass, Handle, InContext, server
<1>7. ASSUME Verify \/ Finish \/ Publish PROVE InContext'
  BY <1>7 DEF Verify, Check, Finish, Publish, InContext
<1>8. ASSUME NEW m \in Mappings, Tick(m) PROVE InContext'
  <2>1. UNCHANGED <<pc, route, token, user>>
    BY <1>8 DEF Tick
  <2>2. ASSUME pc \in {"gates", "handled"},
               NEW i \in 0 .. MappingAge + age, inForce[i] = user.perms
        PROVE  \E j \in 0 .. MappingAge + age' : inForce'[j] = user.perms
    <3>1. age' = age + 1 /\ age < MaxDuration
      BY <1>8, <2>2 DEF Tick
    <3>2. i + 1 \in 0 .. MappingAge + age' /\ i + 1 \in 0 .. Window
          /\ i + 1 # 0 /\ (i + 1) - 1 = i
      BY <3>1, Numbers DEF TypeInv, TypeOK
    <3>3. inForce'[i + 1] = inForce[(i + 1) - 1]
      BY <1>8, <3>2 DEF Tick
    <3>4. QED
      BY <2>2, <3>2, <3>3
  <2>3. QED
    BY <2>1, <2>2 DEF InContext
<1>9. ASSUME UNCHANGED vars PROVE InContext'
  BY <1>9 DEF vars, server, InContext
<1>10. QED
  BY <1>1, <1>4, <1>5, <1>6, <1>7, <1>8, <1>9 DEF Next

LEMMA GatesStep == GateInv /\ [Next]_vars => PassedGates'
<1> SUFFICES ASSUME GateInv, [Next]_vars PROVE PassedGates'
  OBVIOUS
<1> USE DEF GateInv
<1>1. ASSUME NEW r \in Routes, NEW t \in Tokens, Arrive(r, t) PROVE PassedGates'
  <2>1. r.gates \in Seq(Gates)
    BY RouteGates
  <2>2. pc' \in {"verifying", "gates"} /\ left' = r.gates /\ route' = r /\ user' = NoUser
    BY <1>1 DEF Arrive
  <2>3. QED
    BY <2>1, <2>2, NothingPassed DEF PassedGates
<1>2. ASSUME Deny PROVE PassedGates'
  BY <1>2 DEF Deny, PassedGates
<1>3. ASSUME NEW m, Inject(m), pc = "resolving" PROVE PassedGates'
  <2>1. left' = route'.gates /\ pc' = "gates" /\ route' = route
    BY <1>3 DEF Inject, PassedGates
  <2>2. route.gates \in Seq(Gates)
    BY RouteGates DEF TypeInv, TypeOK
  <2>3. QED
    BY <2>1, <2>2, NothingPassed DEF PassedGates
<1>4. ASSUME Resolve PROVE PassedGates'
  BY <1>4, <1>3 DEF Resolve
<1>5. ASSUME Unauthorized \/ Unresolved \/ Forbid PROVE PassedGates'
  BY <1>5, <1>2 DEF Unauthorized, Unresolved, Forbid
<1>6. ASSUME Pass PROVE PassedGates'
  <2>1. route.gates \in Seq(Gates)
    BY RouteGates DEF TypeInv, TypeOK
  <2>2. PICK n \in 1 .. Len(route.gates) + 1 :
          /\ left = SubSeq(route.gates, n, Len(route.gates))
          /\ \A i \in 1 .. n - 1 : Passes(route.gates[i], user)
    BY <1>6 DEF Pass, PassedGates
  <2>3. /\ n \in 1 .. Len(route.gates) /\ n + 1 \in 1 .. Len(route.gates) + 1
        /\ Head(left) = route.gates[n]
        /\ Tail(left) = SubSeq(route.gates, n + 1, Len(route.gates))
    BY <1>6, <2>1, <2>2, NextSuffix DEF Pass
  <2>4. \A i \in 1 .. (n + 1) - 1 : Passes(route.gates[i], user)
    <3>1. SUFFICES ASSUME NEW i \in 1 .. (n + 1) - 1
                   PROVE  Passes(route.gates[i], user)
      OBVIOUS
    <3>2. CASE i = n
      BY <1>6, <2>3, <3>2 DEF Pass
    <3>3. CASE i # n
      <4>1. i \in 1 .. n - 1
        BY <2>3, <3>3
      <4>2. QED
        BY <2>2, <4>1
    <3>4. QED
      BY <3>2, <3>3
  <2>5. left' = Tail(left) /\ pc' = "gates" /\ UNCHANGED <<route, user>>
    BY <1>6 DEF Pass
  <2>6. QED
    BY <2>3, <2>4, <2>5 DEF PassedGates
<1>7. ASSUME Handle PROVE PassedGates'
  BY <1>7 DEF Handle, PassedGates
<1>8. ASSUME Verify PROVE PassedGates'
  BY <1>8 DEF Verify, Check, PassedGates
<1>9. ASSUME Finish \/ Publish PROVE PassedGates'
  BY <1>9 DEF Finish, Publish, PassedGates
<1>10. ASSUME NEW m \in Mappings, Tick(m) PROVE PassedGates'
  BY <1>10 DEF Tick, PassedGates
<1>11. ASSUME UNCHANGED vars PROVE PassedGates'
  BY <1>11 DEF vars, PassedGates
<1>12. QED
  BY <1>1, <1>4, <1>5, <1>6, <1>7, <1>8, <1>9, <1>10, <1>11 DEF Next

LEMMA GateInvariant == Spec => [](GateInv /\ TokenInv)
<1>1. Init => GateInv
  BY TypeInitially DEF Init, GateInv, OnlyAuth, InContext, PassedGates, NoRoute
<1>2. GateInv /\ TokenInv /\ [Next]_vars => GateInv'
  BY TypeStep, TokenStep, ContextStep, GatesStep DEF GateInv, TokenInv
<1>3. QED
  BY <1>1, <1>2, TokenInvariant, PTL DEF Spec

\* A permission string that matches a key is one of the three that grant it.
LEMMA MatchesGrants ==
  ASSUME NEW k, NEW g \in Seq(STRING), Matches(k, g)
  PROVE  g \in Granting(k)
<1>1. Len(g) = 2 /\ IsConcrete(k)
  BY DEF Matches, Parses
<1>2. g = <<g[1], g[2]>>
  BY <1>1
<1>3. CASE g[1] = "*" /\ g[2] = "*"
  BY <1>1, <1>2, <1>3 DEF Granting
<1>4. CASE g[2] = "*" /\ g[1] = k.resource
  BY <1>1, <1>2, <1>4 DEF Granting
<1>5. CASE g = <<k.resource, k.action>>
  BY <1>1, <1>5 DEF Granting
<1>6. QED
  BY <1>3, <1>4, <1>5 DEF Matches

LEMMA HasGrants ==
  ASSUME NEW k, NEW m \in Mappings, HasPermission(k, m)
  PROVE  m \cap Granting(k) # {}
<1>1. PICK g \in m : Matches(k, g)
  BY DEF HasPermission
<1>2. g \in Seq(STRING)
  BY ConstantsAssumption
<1>3. QED
  BY <1>1, <1>2, MatchesGrants

\* A gate that the user passes is justified by the user's mapping.
LEMMA PassesJustifies ==
  ASSUME NEW gate \in Gates, Passes(gate, user), user.perms \in Mappings,
         user.acr = token.acr, user.actor = token.actor
  PROVE  Justifies(gate, user.perms)
<1>1. gate.kind \in {"all", "any", "stepup", "human"}
  BY DEF Gates
<1>2. CASE gate.kind = "all"
  <2>1. HasAllPermissions(gate.keys, user.perms)
    BY <1>2 DEF Passes
  <2>2. QED
    BY <1>2, <2>1, HasGrants DEF Justifies, HasAllPermissions
<1>3. CASE gate.kind = "any"
  <2>1. HasAnyPermission(gate.keys, user.perms)
    BY <1>3 DEF Passes
  <2>2. QED
    BY <1>3, <2>1, HasGrants DEF Justifies, HasAnyPermission
<1>4. CASE gate.kind = "stepup"
  BY <1>4 DEF Passes, Justifies
<1>5. CASE gate.kind = "human"
  BY <1>5 DEF Passes, Justifies, IsImpersonating
<1>6. QED
  BY <1>1, <1>2, <1>3, <1>4, <1>5

\* A handler behind gates runs only behind Auth, and one mapping that was in
\* force recently enough justifies all the gates at once (require_perm.go over
\* authz/permission.go).
THEOREM HandlersArePermitted == Spec => []ServedIsPermitted
<1>1. GateInv => ServedIsPermitted
  <2>1. SUFFICES ASSUME GateInv, pc = "handled", route.gates # <<>>
                 PROVE  /\ route.auth
                        /\ \E m \in { inForce[i] : i \in 0 .. MappingAge + age } \cup {{}} :
                             /\ m # {} => token.roles
                             /\ \A i \in 1 .. Len(route.gates) : Justifies(route.gates[i], m)
    BY DEF ServedIsPermitted
  <2>2. route.gates \in Seq(Gates) /\ Len(route.gates) \in Nat \ {0}
    BY <2>1, RouteGates, EmptySeq DEF GateInv, TypeInv, TypeOK
  <2>3. \A i \in 1 .. Len(route.gates) : Passes(route.gates[i], user)
    <3>1. PICK n \in 1 .. Len(route.gates) + 1 :
            /\ left = SubSeq(route.gates, n, Len(route.gates))
            /\ \A i \in 1 .. n - 1 : Passes(route.gates[i], user)
      BY <2>1 DEF GateInv, PassedGates
    <3>2. left = <<>>
      BY <2>1 DEF GateInv, PassedGates
    <3>3. n = Len(route.gates) + 1
      BY <2>2, <3>1, <3>2, EmptySuffix
    <3>4. QED
      BY <2>2, <3>1, <3>3
  <2>4. route.auth
    <3>1. 1 \in 1 .. Len(route.gates)
      BY <2>2
    <3>2. user # NoUser
      BY <2>3, <3>1 DEF Passes
    <3>3. ~route.auth => user = NoUser
      BY <2>1 DEF GateInv, OnlyAuth
    <3>4. QED
      BY <3>2, <3>3, Zenon
  <2>5. /\ user.acr = token.acr /\ user.actor = token.actor /\ user.perms \in Mappings
        /\ user.perms = {}
           \/ (token.roles /\ \E i \in 0 .. MappingAge + age : inForce[i] = user.perms)
    BY <2>1, <2>4 DEF GateInv, InContext
  <2>6. \A i \in 1 .. Len(route.gates) : Justifies(route.gates[i], user.perms)
    BY <2>2, <2>3, <2>5, PassesJustifies, ElementOfSeq
  <2>7. /\ user.perms \in { inForce[i] : i \in 0 .. MappingAge + age } \cup {{}}
        /\ user.perms # {} => token.roles
    BY <2>5
  <2>8. QED
    BY <2>4, <2>6, <2>7
<1>2. QED
  BY GateInvariant, <1>1, PTL

-----------------------------------------------------------------------------
(* The system: AuthPipeline over the caches themselves *)

\* What the other proofs say of the two caches.
Promises ==
  /\ Cache!TypeOK /\ Cache!WithdrawnKeysExpire
  /\ Resolver!TypeOK /\ Resolver!MappingIsRecent /\ Resolver!InvalidateHolds

\* Every step of the system is one of the key cache's, or leaves it alone.
LEMMA SystemHasCache == ASSUME SystemAssumption PROVE SystemSpec => Cache!Spec
<1>1. SystemInit => Cache!Init
  BY DEF SystemInit
<1>2. [SystemNext]_sysvars => [Cache!Next]_(Cache!vars)
  <2> SUFFICES ASSUME [SystemNext]_sysvars PROVE [Cache!Next]_(Cache!vars)
    OBVIOUS
  <2>1. CASE UNCHANGED keyVars
    BY <2>1 DEF keyVars, Cache!vars, Cache!provider, Cache!external, Cache!calls
  <2>2. CASE KeyByID
    BY <2>2 DEF KeyByID, Cache!Next, Cache!Threads, SystemAssumption
  <2>3. CASE OtherKeys
    BY <2>3 DEF OtherKeys, Cache!Next
  <2>4. CASE PublishKey
    BY <2>4 DEF PublishKey, Cache!Next
  <2>5. CASE SystemTick
    BY <2>5 DEF SystemTick, Cache!Next
  <2>6. QED
    BY <2>1, <2>2, <2>3, <2>4, <2>5
       DEF SystemNext, Proceed, ResolveRoles, OtherRoles, sysvars
<1>3. QED
  BY <1>1, <1>2, PTL DEF SystemSpec, Cache!Spec

\* No step of a request changes FailOpen, so each is one of the resolver's or
\* leaves that alone.
LEMMA SystemHasResolver == ASSUME SystemAssumption PROVE SystemSpec => Resolver!Spec
<1>1. SystemInit => Resolver!Init
  BY DEF SystemInit
<1>2. [SystemNext]_sysvars => [Resolver!Next]_(Resolver!vars)
  <2> SUFFICES ASSUME [SystemNext]_sysvars PROVE [Resolver!Next]_(Resolver!vars)
    OBVIOUS
  <2>1. CASE UNCHANGED permVars /\ UNCHANGED failOpen
    BY <2>1 DEF permVars, Resolver!vars, Resolver!libraries
  <2>2. CASE Proceed
    BY <2>1, <2>2
       DEF Proceed, Arrive, Unauthorized, Deny, Pass, Forbid, Handle, Finish
  <2>3. CASE KeyByID
    BY <2>1, <2>3 DEF KeyByID, Judge, Check, Deny, vars
  <2>4. CASE OtherKeys
    BY <2>1, <2>4 DEF OtherKeys, vars
  <2>5. CASE PublishKey
    BY <2>1, <2>5 DEF PublishKey, Publish
  <2>6. CASE ResolveRoles
    BY <2>6 DEF ResolveRoles, Resolver!Next, SystemAssumption
  <2>7. CASE OtherRoles
    BY <2>7 DEF OtherRoles, Resolver!Next
  <2>8. CASE SystemTick
    BY <2>8 DEF SystemTick, Resolver!Next
  <2>9. CASE UNCHANGED sysvars
    BY <2>1, <2>9 DEF sysvars, vars
  <2>10. QED
    BY <2>2, <2>3, <2>4, <2>5, <2>6, <2>7, <2>8, <2>9 DEF SystemNext
<1>3. QED
  BY <1>1, <1>2, PTL DEF SystemSpec, Resolver!Spec

LEMMA PromisesKept == ASSUME SystemAssumption PROVE SystemSpec => []Promises
<1>1. Cache!ConstantsAssumption /\ Resolver!ConstantsAssumption
  BY DEF SystemAssumption
<1>2. Cache!Spec => []Cache!TypeOK /\ []Cache!WithdrawnKeysExpire
  BY <1>1, Cache!TypeCorrect, Cache!KeysExpire
<1>3. Resolver!Spec => /\ []Resolver!TypeOK /\ []Resolver!MappingIsRecent
                       /\ []Resolver!InvalidateHolds
  BY <1>1, Resolver!TypeCorrect, Resolver!MappingsAreRecent,
     Resolver!InvalidationHolds
<1>4. /\ Cache!TypeOK /\ Cache!WithdrawnKeysExpire /\ Resolver!TypeOK
      /\ Resolver!MappingIsRecent /\ Resolver!InvalidateHolds
      => Promises
  BY DEF Promises
<1>5. QED
  BY <1>2, <1>3, <1>4, SystemHasCache, SystemHasResolver, PTL

\* A call to a cache belongs to the request's stage, and asks for its key.
Linked ==
  /\ verifier[Me] # "idle" => pc = "verifying" /\ kid[Me] = TokenKid
  /\ resolver[Me] # "idle" =>
       pc = "resolving" /\ token.roles /\ key[Me] = RolesKey

\* A step of the request's own KeyByID: what it can return.
LEMMA OwnKeyStep ==
  ASSUME SystemAssumption, Promises, Linked, KeyByID
  PROVE  /\ pc = "verifying" /\ kid'[Me] = TokenKid
         /\ UNCHANGED <<serverKids, withdrawn>>
         /\ found'[Me] = "key" /\ verifier'[Me] = "idle" => Cache!Lookup(TokenKid)
<1> USE DEF SystemAssumption
<1>1. /\ verifier \in [Cache!Threads -> {"idle", "forcing", "sending", "answered",
                                         "rechecking"}]
      /\ kid \in [Verifiers -> Kids] /\ Me \in Cache!Threads /\ Me \in Verifiers
      /\ found \in [Verifiers -> {"none", "key", "unknown", "cooldown", "error"}]
  BY DEF Promises, Cache!TypeOK, Cache!Threads
<1>2. CASE pc = "verifying" /\ Cache!Begin(Me, TokenKid)
  BY <1>1, <1>2 DEF Cache!Begin, Cache!external
<1>3. CASE Cache!Recheck(Me)
  BY <1>1, <1>3 DEF Cache!Recheck, Cache!external, Linked
<1>4. CASE \/ Cache!Refuse(Me) \/ Cache!ClaimRefresh(Me) \/ Cache!Answer(Me)
           \/ Cache!FetchFails(Me) \/ Cache!Install(Me)
  BY <1>1, <1>4
     DEF Cache!Refuse, Cache!ClaimRefresh, Cache!Answer, Cache!FetchFails,
         Cache!Install, Cache!external, Linked
<1>5. QED
  BY <1>2, <1>3, <1>4 DEF KeyByID

\* The steps of others leave the request's own call alone.
LEMMA OtherKeyStep ==
  ASSUME SystemAssumption, Promises, OtherKeys \/ PublishKey \/ SystemTick
  PROVE  verifier'[Me] = verifier[Me] /\ kid'[Me] = kid[Me]
<1> USE DEF SystemAssumption
<1>1. /\ verifier \in [Cache!Threads -> {"idle", "forcing", "sending", "answered",
                                         "rechecking"}]
      /\ kid \in [Verifiers -> Kids] /\ Me \in Cache!Threads /\ Me \in Verifiers
      /\ Me \notin Preloaders
  BY DEF Promises, Cache!TypeOK, Cache!Threads, Cache!ConstantsAssumption
<1>2. ASSUME NEW v \in Verifiers \ {Me}, NEW k \in Kids, Cache!Begin(v, k)
      PROVE  verifier'[Me] = verifier[Me] /\ kid'[Me] = kid[Me]
  BY <1>1, <1>2 DEF Cache!Begin
<1>3. ASSUME NEW t \in Cache!Threads \ {Me},
             \/ Cache!Refuse(t) \/ Cache!ClaimRefresh(t) \/ Cache!Recheck(t)
             \/ Cache!Preload(t) \/ Cache!Answer(t) \/ Cache!FetchFails(t)
             \/ Cache!Install(t)
      PROVE  verifier'[Me] = verifier[Me] /\ kid'[Me] = kid[Me]
  BY <1>1, <1>3
     DEF Cache!Refuse, Cache!ClaimRefresh, Cache!Recheck, Cache!Preload,
         Cache!Answer, Cache!FetchFails, Cache!Install
<1>4. ASSUME NEW k \in Issuable, Cache!Withdraw(k) \/ Cache!Publish(k)
      PROVE  verifier'[Me] = verifier[Me] /\ kid'[Me] = kid[Me]
  BY <1>4 DEF Cache!Withdraw, Cache!Publish, Cache!calls
<1>5. CASE SystemTick
  BY <1>5 DEF SystemTick, Cache!Tick
<1>6. CASE PublishKey
  BY <1>4, <1>6 DEF PublishKey
<1>7. CASE OtherKeys
  BY <1>1, <1>2, <1>3, <1>4, <1>7 DEF OtherKeys, Cache!Threads
<1>8. QED
  BY <1>5, <1>6, <1>7

\* What Resolve may have returned to the request, in a step that ends it.
Outcome ==
  /\ resolved'[Me].outcome \in {"perms", "empty", "error"}
  /\ resolved'[Me].outcome = "perms" => token.roles
  /\ resolved'[Me].outcome = "empty" => ~token.roles \/ failOpen
  /\ resolved'[Me].outcome = "error" => token.roles /\ ~failOpen

\* A step of the request's own Resolve.
LEMMA OwnRolesStep ==
  ASSUME SystemAssumption, Promises, Linked, ResolveRoles
  PROVE  /\ pc = "resolving"
         /\ token.roles => key'[Me] = RolesKey
         /\ resolver'[Me] # "idle" => token.roles
         /\ resolver'[Me] = "idle" => Outcome
<1> USE DEF SystemAssumption
<1> DEFINE places == {"idle", "missed", "leading", "answered", "stored", "waiting"}
<1>1. /\ resolver \in [Callers -> places]
      /\ key \in [Callers -> CacheKeys] /\ Me \in Callers
      /\ resolved \in [Callers -> [outcome : {"none", "perms", "empty", "error"},
                                   map : Resolver!Mapping]]
  BY DEF Promises, Resolver!TypeOK
<1>2. CASE pc = "resolving" /\ token.roles /\ Resolver!Resolve(Me, RolesKey)
  BY <1>1, <1>2 DEF Resolver!Resolve, Resolver!Granted, Outcome
<1>3. CASE pc = "resolving" /\ ~token.roles /\ Resolver!ResolveNoRoles(Me)
  BY <1>1, <1>3 DEF Resolver!ResolveNoRoles, Outcome
<1>4. CASE Resolver!Join(Me) \/ Resolver!Answer(Me) \/ Resolver!Store(Me)
  BY <1>1, <1>4 DEF Resolver!Join, Resolver!Answer, Resolver!Store, Linked
<1>5. CASE Resolver!Succeed(Me) \/ Resolver!Fail(Me)
  BY <1>1, <1>5
     DEF Resolver!Succeed, Resolver!Fail, Resolver!Land, Resolver!Sharers,
         Resolver!Granted, Resolver!Failed, Linked, Outcome
<1>6. QED
  BY <1>2, <1>3, <1>4, <1>5 DEF ResolveRoles

\* The others may end it, when they lead the flight that it joined.
LEMMA OtherRolesStep ==
  ASSUME SystemAssumption, Promises, Linked, OtherRoles \/ SystemTick
  PROVE  /\ key'[Me] = key[Me]
         /\ resolver'[Me] \in {resolver[Me], "idle"}
         /\ resolver'[Me] = resolver[Me] => resolved'[Me] = resolved[Me]
         /\ resolver[Me] # "idle" /\ resolver'[Me] = "idle" => Outcome
<1> USE DEF SystemAssumption
<1> DEFINE places == {"idle", "missed", "leading", "answered", "stored", "waiting"}
<1>1. /\ resolver \in [Callers -> places]
      /\ key \in [Callers -> CacheKeys] /\ Me \in Callers
      /\ resolved \in [Callers -> [outcome : {"none", "perms", "empty", "error"},
                                   map : Resolver!Mapping]]
  BY DEF Promises, Resolver!TypeOK
<1>2. ASSUME NEW c \in Callers \ {Me}, NEW k \in CacheKeys, Resolver!Resolve(c, k)
      PROVE  UNCHANGED <<key[Me], resolver[Me], resolved[Me]>>
  BY <1>1, <1>2 DEF Resolver!Resolve
<1>3. ASSUME NEW c \in Callers \ {Me},
             \/ Resolver!ResolveNoRoles(c) \/ Resolver!Join(c)
             \/ Resolver!Answer(c) \/ Resolver!Store(c)
      PROVE  UNCHANGED <<key[Me], resolver[Me], resolved[Me]>>
  BY <1>1, <1>3
     DEF Resolver!ResolveNoRoles, Resolver!Join, Resolver!Answer, Resolver!Store
<1>4. ASSUME NEW c \in Callers \ {Me}, NEW r, Resolver!Land(c, r),
             r.outcome \in {"perms", IF failOpen THEN "empty" ELSE "error"}
      PROVE  /\ key'[Me] = key[Me]
             /\ resolver'[Me] \in {resolver[Me], "idle"}
             /\ resolver'[Me] = resolver[Me] => resolved'[Me] = resolved[Me]
             /\ resolver[Me] # "idle" /\ resolver'[Me] = "idle" => Outcome
  <2>1. CASE Me \in Resolver!Sharers(c)
    <3>1. resolver[Me] = "waiting" /\ token.roles
      BY <2>1 DEF Resolver!Sharers, Linked
    <3>2. resolver'[Me] = "idle" /\ resolved'[Me] = r /\ key' = key
      BY <1>1, <1>4, <2>1 DEF Resolver!Land
    <3>3. QED
      BY <1>4, <3>1, <3>2 DEF Outcome
  <2>2. CASE Me \notin Resolver!Sharers(c)
    BY <1>1, <1>4, <2>2 DEF Resolver!Land
  <2>3. QED
    BY <2>1, <2>2
<1>5. ASSUME NEW c \in Callers \ {Me}, Resolver!Succeed(c) \/ Resolver!Fail(c)
      PROVE  \E r : /\ Resolver!Land(c, r)
                    /\ r.outcome \in {"perms", IF failOpen THEN "empty" ELSE "error"}
  BY <1>5 DEF Resolver!Succeed, Resolver!Fail, Resolver!Granted, Resolver!Failed
<1>6. CASE \/ \E k \in CacheKeys : Resolver!Invalidate(k) \/ Resolver!Evict(k)
           \/ Resolver!Clear \/ Resolver!ApplyWrite \/ SystemTick
  BY <1>6 DEF Resolver!Invalidate, Resolver!Evict, Resolver!Clear,
              Resolver!ApplyWrite, Resolver!Tick, SystemTick
<1>7. QED
  BY <1>2, <1>3, <1>4, <1>5, <1>6 DEF OtherRoles

\* Since it was last published, no more time has passed than since its withdrawal.
PublishedAge ==
  /\ published \in Nat
  /\ TokenKid \in serverKids => published = 0
  /\ withdrawn[TokenKid] =< KeyAge => published =< withdrawn[TokenKid]

LEMMA LinkedStep ==
  ASSUME SystemAssumption, Promises, Linked, [SystemNext]_sysvars
  PROVE  Linked'
<1>1. CASE Proceed
  BY <1>1 DEF Proceed, Arrive, Unauthorized, Deny, Pass, Forbid, Handle, Finish,
              Linked, keyVars, permVars
<1>2. CASE KeyByID
  <2>1. pc = "verifying" /\ kid'[Me] = TokenKid
    BY <1>2, OwnKeyStep
  <2>2. resolver[Me] = "idle" /\ resolver' = resolver
    BY <1>2, <2>1 DEF Linked, KeyByID, permVars
  <2>3. verifier'[Me] # "idle" => pc' = pc
    BY <1>2 DEF KeyByID, vars
  <2>4. QED
    BY <2>1, <2>2, <2>3 DEF Linked
<1>3. CASE OtherKeys \/ PublishKey
  <2>1. verifier'[Me] = verifier[Me] /\ kid'[Me] = kid[Me]
    BY <1>3, OtherKeyStep
  <2>2. UNCHANGED <<pc, token, resolver, key>>
    BY <1>3 DEF OtherKeys, PublishKey, Publish, permVars, vars
  <2>3. QED
    BY <2>1, <2>2 DEF Linked
<1>4. CASE ResolveRoles
  <2>1. /\ pc = "resolving"
        /\ token.roles => key'[Me] = RolesKey
        /\ resolver'[Me] # "idle" => token.roles
    BY <1>4, OwnRolesStep
  <2>2. verifier[Me] = "idle" /\ verifier' = verifier
    BY <1>4, <2>1 DEF Linked, ResolveRoles, keyVars
  <2>3. resolver'[Me] # "idle" => UNCHANGED <<pc, token>>
    BY <1>4 DEF ResolveRoles, Return, vars
  <2>4. QED
    BY <2>1, <2>2, <2>3 DEF Linked
<1>5. CASE OtherRoles
  <2>1. key'[Me] = key[Me] /\ resolver'[Me] \in {resolver[Me], "idle"}
    BY <1>5, OtherRolesStep
  <2>2. UNCHANGED <<verifier, kid>>
    BY <1>5 DEF OtherRoles, keyVars
  <2>3. resolver'[Me] # "idle" \/ resolver[Me] = "idle" => UNCHANGED <<pc, token>>
    BY <1>5, <2>1 DEF OtherRoles, Return, vars
  <2>4. resolver[Me] # "idle" => verifier[Me] = "idle"
    BY DEF Linked
  <2>5. QED
    BY <2>1, <2>2, <2>3, <2>4 DEF Linked
<1>6. CASE SystemTick
  <2>1. /\ verifier'[Me] = verifier[Me] /\ kid'[Me] = kid[Me]
        /\ key'[Me] = key[Me] /\ resolver' = resolver
    BY <1>6, OtherKeyStep, OtherRolesStep DEF SystemTick, Resolver!Tick
  <2>2. UNCHANGED <<pc, token>>
    BY <1>6 DEF SystemTick, Tick
  <2>3. QED
    BY <2>1, <2>2 DEF Linked
<1>7. CASE UNCHANGED sysvars
  BY <1>7 DEF sysvars, vars, keyVars, permVars, Linked
<1>8. QED
  BY <1>1, <1>2, <1>3, <1>4, <1>5, <1>6, <1>7 DEF SystemNext

LEMMA PublishedAgeStep ==
  ASSUME SystemAssumption, Promises, Linked, PublishedAge, [SystemNext]_sysvars
  PROVE  PublishedAge'
<1> USE DEF SystemAssumption
<1>1. /\ withdrawn \in [Kids -> 0 .. Cache!Horizon] /\ TokenKid \in Kids
      /\ Cache!Horizon = KeyAge + 1 /\ KeyAge \in Nat /\ KeyWindow \in Nat
  BY Numbers DEF Promises, Cache!TypeOK, Cache!Horizon
<1>2. ASSUME UNCHANGED <<serverKids, withdrawn, published>> PROVE PublishedAge'
  BY <1>2 DEF PublishedAge
<1>3. CASE Proceed
  BY <1>2, <1>3 DEF Proceed, Arrive, Unauthorized, Deny, Pass, Forbid, Handle,
                    Finish, keyVars, server
<1>4. CASE KeyByID
  <2>1. UNCHANGED <<serverKids, withdrawn>>
    BY <1>4, OwnKeyStep
  <2>2. UNCHANGED published
    BY <1>4 DEF KeyByID, Judge, Check, Deny, vars, server
  <2>3. QED
    BY <1>2, <2>1, <2>2
<1>5. CASE OtherKeys
  <2>1. UNCHANGED published
    BY <1>5 DEF OtherKeys, vars, server
  <2>2. CASE UNCHANGED <<serverKids, withdrawn>>
    BY <1>2, <2>1, <2>2
  <2>3. ASSUME NEW k \in Issuable, Cache!Withdraw(k) PROVE PublishedAge'
    BY <1>1, <2>1, <2>3 DEF Cache!Withdraw, PublishedAge
  <2>4. ASSUME NEW k \in Issuable \ {TokenKid}, Cache!Publish(k) PROVE PublishedAge'
    BY <1>1, <2>1, <2>4 DEF Cache!Publish, PublishedAge
  <2>5. QED
    BY <1>5, <2>2, <2>3, <2>4
       DEF OtherKeys, Cache!Begin, Cache!Refuse, Cache!ClaimRefresh, Cache!Recheck,
           Cache!Preload, Cache!Answer, Cache!FetchFails, Cache!Install,
           Cache!external
<1>6. CASE PublishKey
  <2>1. published' = 0 /\ withdrawn' = withdrawn
    BY <1>6 DEF PublishKey, Publish, Cache!Publish
  <2>2. QED
    BY <1>1, <2>1 DEF PublishedAge
<1>7. CASE ResolveRoles \/ OtherRoles
  <2>1. UNCHANGED published
    BY <1>7 DEF ResolveRoles, OtherRoles, Return, Deliver, Inject, Deny, vars, server
  <2>2. QED
    BY <1>2, <1>7, <2>1 DEF ResolveRoles, OtherRoles, keyVars
<1>8. CASE SystemTick
  <2>1. /\ serverKids' = serverKids
        /\ withdrawn'[TokenKid] = Cache!Older(withdrawn[TokenKid], Cache!Horizon)
        /\ published' = IF TokenKid \in serverKids THEN 0 ELSE Older(published, KeyWindow)
    BY <1>1, <1>8 DEF SystemTick, Cache!Tick
  <2>2. withdrawn[TokenKid] \in 0 .. KeyAge + 1 /\ published \in Nat
    BY <1>1 DEF PublishedAge
  <2>3. published' \in Nat /\ (TokenKid \in serverKids' => published' = 0)
    BY <1>1, <2>1, <2>2 DEF Older
  <2>4. published' =< published + 1
    BY <1>1, <2>1, <2>2 DEF Older
  <2>5. withdrawn'[TokenKid] = IF withdrawn[TokenKid] < KeyAge + 1
                                 THEN withdrawn[TokenKid] + 1 ELSE KeyAge + 1
    BY <1>1, <2>1 DEF Cache!Older
  <2>6. withdrawn'[TokenKid] =< KeyAge => published' =< withdrawn'[TokenKid]
    BY <1>1, <2>2, <2>3, <2>4, <2>5 DEF PublishedAge
  <2>7. QED
    BY <2>3, <2>6 DEF PublishedAge
<1>9. CASE UNCHANGED sysvars
  BY <1>2, <1>9 DEF sysvars, vars, server, keyVars
<1>10. QED
  BY <1>3, <1>4, <1>5, <1>6, <1>7, <1>8, <1>9 DEF SystemNext

SystemInv == Promises /\ Linked /\ PublishedAge

LEMMA SystemInvariant == ASSUME SystemAssumption PROVE SystemSpec => []SystemInv
<1> USE DEF SystemAssumption
<1>1. SystemInit => Linked /\ PublishedAge
  <2> SUFFICES ASSUME SystemInit PROVE Linked /\ PublishedAge
    OBVIOUS
  <2>1. verifier[Me] = "idle" /\ resolver[Me] = "idle"
    BY DEF SystemInit, Cache!Init, Resolver!Init, Cache!Threads
  <2>2. withdrawn[TokenKid] = KeyAge + 1
    BY DEF SystemInit, Cache!Init, Cache!Horizon
  <2>3. QED
    BY <2>1, <2>2, Numbers DEF SystemInit, Linked, PublishedAge
<1>2. Promises /\ Linked /\ PublishedAge /\ [SystemNext]_sysvars
      => (Linked /\ PublishedAge)'
  BY LinkedStep, PublishedAgeStep
<1>3. SystemInv <=> Promises /\ Linked /\ PublishedAge
  BY DEF SystemInv
<1>4. QED
  BY <1>1, <1>2, <1>3, PromisesKept, PTL DEF SystemSpec

-----------------------------------------------------------------------------
(* What a request sees of the caches *)

\* The key that KeyByID returns is one that AuthPipeline lets it find.
LEMMA KeyByIDRefines ==
  ASSUME SystemAssumption, SystemInv, KeyByID
  PROVE  Verify \/ Unauthorized \/ UNCHANGED vars
<1>1. /\ pc = "verifying"
      /\ found'[Me] = "key" /\ verifier'[Me] = "idle" => Cache!Lookup(TokenKid)
  BY OwnKeyStep DEF SystemInv
<1>2. Cache!Lookup(TokenKid) => KeyFound
  <2>1. KeyAge = Refresh + FetchTime /\ KeyAge \in Nat /\ TokenKid \in Kids
    BY Numbers DEF SystemAssumption
  <2>2. Cache!Lookup(TokenKid) =>
          TokenKid \in serverKids \/ withdrawn[TokenKid] =< KeyAge
    BY <2>1 DEF SystemInv, Promises, Cache!WithdrawnKeysExpire
  <2>3. withdrawn[TokenKid] \in Nat /\ published \in Nat
    BY <2>1 DEF SystemInv, Promises, PublishedAge, SystemAssumption, Cache!TypeOK,
                Cache!Horizon, Cache!ConstantsAssumption
  <2>4. QED
    BY <2>1, <2>2, <2>3 DEF SystemInv, PublishedAge, KeyFound
<1>3. verifier'[Me] # "idle" => UNCHANGED vars
  BY DEF KeyByID
<1>4. verifier'[Me] = "idle" => Judge
  BY DEF KeyByID
<1>5. QED
  BY <1>1, <1>2, <1>3, <1>4 DEF Judge, Verify, Unauthorized

\* The age of the mapping that Resolve returns.
LEMMA ReturnedAge ==
  ASSUME SystemAssumption, Promises'
  PROVE  resolved'[Me].outcome = "perms" => resolved'[Me].map.age \in 0 .. MappingAge
<1>1. resolved' \in [Callers -> [outcome : {"none", "perms", "empty", "error"},
                                 map : Resolver!Mapping]]
  BY DEF Promises, Resolver!TypeOK
<1>2. resolved'[Me].map \in Resolver!Mapping
  BY <1>1 DEF SystemAssumption
<1>3. resolved'[Me].map.age \in Nat
  BY <1>2 DEF Resolver!Mapping, Resolver!MaxAge
<1>4. resolved'[Me].outcome = "perms" => resolved'[Me].map.age =< MappingAge
  BY DEF Promises, Resolver!MappingIsRecent, Resolver!MaxAge, SystemAssumption
<1>5. QED
  BY <1>3, <1>4, Numbers

\* The permissions that Resolve returns are some that AuthPipeline lets it return.
LEMMA DeliverRefines ==
  ASSUME SystemAssumption, Promises', pc = "resolving", Outcome, Deliver
  PROVE  Resolve \/ Unresolved
<1>1. CASE resolved'[Me].outcome = "perms" /\ Inject(inForce[resolved'[Me].map.age])
  BY <1>1, ReturnedAge DEF Outcome, Resolve
<1>2. CASE /\ resolved'[Me].outcome = "empty"
           /\ Inject(IF token.roles THEN EmptyList ELSE {})
  BY <1>2 DEF Outcome, Resolve
<1>3. CASE resolved'[Me].outcome = "error" /\ Deny
  BY <1>3 DEF Outcome, Unresolved
<1>4. QED
  BY <1>1, <1>2, <1>3 DEF Deliver

\* A step that can end the request's Resolve ends it with an outcome.
LEMMA RolesSteps ==
  ASSUME SystemAssumption, SystemInv, ResolveRoles \/ OtherRoles
  PROVE  \/ UNCHANGED vars
         \/ pc = "resolving" /\ resolver'[Me] = "idle" /\ Outcome /\ Deliver
<1>1. CASE ResolveRoles
  BY <1>1, OwnRolesStep DEF SystemInv, ResolveRoles, Return
<1>2. CASE OtherRoles
  BY <1>2, OtherRolesStep DEF SystemInv, Linked, OtherRoles, Return
<1>3. QED
  BY <1>1, <1>2

LEMMA SystemStepRefines ==
  ASSUME SystemAssumption, SystemInv, SystemInv', [SystemNext]_sysvars
  PROVE  [Next]_vars
<1>1. CASE Proceed
  BY <1>1 DEF Proceed, Next
<1>2. CASE KeyByID
  BY <1>2, KeyByIDRefines DEF Next
<1>3. CASE OtherKeys
  BY <1>3 DEF OtherKeys
<1>4. CASE PublishKey
  BY <1>4 DEF PublishKey, Next
<1>5. CASE ResolveRoles \/ OtherRoles
  <2>1. Promises'
    BY DEF SystemInv
  <2>2. QED
    BY <1>5, <2>1, RolesSteps, DeliverRefines DEF Next
<1>6. CASE SystemTick
  BY <1>6 DEF SystemTick, Next
<1>7. CASE UNCHANGED sysvars
  BY <1>7 DEF sysvars
<1>8. QED
  BY <1>1, <1>2, <1>3, <1>4, <1>5, <1>6, <1>7 DEF SystemNext

\* A request that is served through JWKS and PermissionResolver, whatever the
\* other goroutines do to them, behaves as AuthPipeline says: the two ages that
\* AuthPipeline takes over are the bounds that the caches keep (the wiring of
\* sdk.go, jwt/jwks.go under jwt/verifier.go, authz/http_resolver.go under
\* middleware/auth.go).
THEOREM SystemImplements == ASSUME SystemAssumption PROVE SystemSpec => ImplementsPipeline
<1>1. SystemInit => Init
  BY DEF SystemInit
<1>2. SystemInv /\ SystemInv' /\ [SystemNext]_sysvars => [Next]_vars
  BY SystemStepRefines
<1>3. QED
  BY <1>1, <1>2, SystemInvariant, PTL DEF SystemSpec, ImplementsPipeline, Spec

\* Over the caches themselves too, a handler behind Auth runs only for a token
\* whose key was published recently enough and that has not expired.
THEOREM SystemSeesAuthenticTokens ==
  ASSUME SystemAssumption PROVE SystemSpec => []ServedIsAuthentic
BY SystemImplements, HandlersSeeAuthenticTokens, PTL DEF ImplementsPipeline

\* Over the caches themselves too, one recent enough mapping justifies all the
\* gates before a handler.
THEOREM SystemIsPermitted ==
  ASSUME SystemAssumption PROVE SystemSpec => []ServedIsPermitted
BY SystemImplements, HandlersArePermitted, PTL DEF ImplementsPipeline

-----------------------------------------------------------------------------
(* What reaches a handler *)

\* The permissions in the context are those of the last Resolve: the mapping
\* that was in force when the server answered it.
Delivered ==
  pc \in {"gates", "handled"} /\ user.perms # {} =>
    /\ key[Me] = RolesKey /\ resolved[Me].outcome = "perms"
    /\ resolved[Me].map.age \in 0 .. MappingAge
    /\ \E d \in 0 .. age : user.perms = inForce[resolved[Me].map.age + d]

LEMMA DeliveredByResolve ==
  ASSUME SystemAssumption, SystemInv, SystemInv', TypeOK,
         pc = "resolving", resolver'[Me] = "idle", Outcome, Deliver,
         token.roles => key'[Me] = RolesKey
  PROVE  Delivered'
<1>1. age \in Nat
  BY Numbers DEF TypeOK
<1>2. CASE resolved'[Me].outcome = "perms" /\ Inject(inForce[resolved'[Me].map.age])
  <2>1. key'[Me] = RolesKey
    BY <1>2 DEF Outcome
  <2>2. resolved'[Me].map.age \in 0 .. MappingAge
    BY <1>2, ReturnedAge DEF SystemInv
  <2>3. user'.perms = inForce'[resolved'[Me].map.age] /\ age' = age
    BY <1>2 DEF Inject, server
  <2>4. 0 \in 0 .. age' /\ resolved'[Me].map.age + 0 = resolved'[Me].map.age
    BY <1>1, <2>2, <2>3, Numbers
  <2>5. QED
    BY <1>2, <2>1, <2>2, <2>3, <2>4 DEF Delivered
<1>3. CASE /\ resolved'[Me].outcome = "empty"
           /\ Inject(IF token.roles THEN EmptyList ELSE {})
  BY <1>3 DEF Inject, EmptyList, Delivered
<1>4. CASE resolved'[Me].outcome = "error" /\ Deny
  BY <1>4 DEF Deny, Delivered
<1>5. QED
  BY <1>2, <1>3, <1>4 DEF Deliver

\* The same mapping one unit of time later.
LEMMA DeliveredTick ==
  ASSUME SystemAssumption, SystemInv, TypeOK, Delivered, SystemTick
  PROVE  Delivered'
<1> SUFFICES ASSUME pc' \in {"gates", "handled"}, user'.perms # {}
             PROVE  /\ key'[Me] = RolesKey /\ resolved'[Me].outcome = "perms"
                    /\ resolved'[Me].map.age \in 0 .. MappingAge
                    /\ \E d \in 0 .. age' :
                         user'.perms = inForce'[resolved'[Me].map.age + d]
  BY DEF Delivered
<1>1. PICK m \in Mappings : Tick(m)
  BY DEF SystemTick
<1>2. UNCHANGED <<key, resolved, pc, user>>
  BY <1>1 DEF SystemTick, Resolver!Tick, Tick
<1>3. age < MaxDuration /\ age' = age + 1 /\ age \in Nat
  BY <1>1, <1>2, Numbers DEF Tick, TypeOK
<1>4. /\ key[Me] = RolesKey /\ resolved[Me].outcome = "perms"
      /\ resolved[Me].map.age \in 0 .. MappingAge
      /\ \E d \in 0 .. age : user.perms = inForce[resolved[Me].map.age + d]
  BY <1>2 DEF Delivered
<1> DEFINE n == resolved[Me].map.age
<1>5. n \in 0 .. MappingAge /\ resolved'[Me].map.age = n
  BY <1>2, <1>4
<1>6. PICK d \in 0 .. age : user.perms = inForce[n + d]
  BY <1>4
<1> HIDE DEF n
<1> DEFINE j == n + (d + 1)
<1>7. j \in 0 .. Window /\ j # 0 /\ j - 1 = n + d
  BY <1>3, <1>5, <1>6, Numbers
<1>8. d + 1 \in 0 .. age'
  BY <1>3, <1>6
<1> HIDE DEF j
<1>9. user'.perms = inForce'[j]
  <2>1. \A i \in 0 .. Window : inForce'[i] = IF i = 0 THEN m ELSE inForce[i - 1]
    BY <1>1, Zenon DEF Tick
  <2>2. inForce'[j] = inForce[j - 1]
    BY <1>7, <2>1, Zenon
  <2>3. QED
    BY <1>2, <1>6, <1>7, <2>2, Zenon
<1>10. QED
  BY <1>2, <1>4, <1>5, <1>8, <1>9 DEF j

LEMMA DeliveredStep ==
  ASSUME SystemAssumption, SystemInv, SystemInv', TypeOK, Delivered,
         [SystemNext]_sysvars
  PROVE  Delivered'
<1>1. ASSUME UNCHANGED <<vars, key[Me], resolved[Me]>> PROVE Delivered'
  BY <1>1 DEF vars, server, Delivered
<1>2. CASE Proceed
  <2>1. UNCHANGED <<key, resolved>>
    BY <1>2 DEF Proceed, permVars
  <2>2. ASSUME NEW r \in Routes, NEW t \in Tokens, Arrive(r, t) PROVE Delivered'
    BY <2>2 DEF Arrive, NoUser, Delivered
  <2>3. CASE Unauthorized \/ Forbid
    BY <2>3 DEF Unauthorized, Forbid, Deny, Delivered
  <2>4. CASE Pass \/ Handle
    BY <2>1, <2>4 DEF Pass, Handle, server, Delivered
  <2>5. CASE Finish
    BY <2>5 DEF Finish, Delivered
  <2>6. QED
    BY <1>2, <2>2, <2>3, <2>4, <2>5 DEF Proceed
<1>3. CASE KeyByID
  <2>1. UNCHANGED <<key, resolved>>
    BY <1>3 DEF KeyByID, permVars
  <2>2. CASE Judge
    BY <2>2 DEF Judge, Check, Deny, Delivered
  <2>3. CASE UNCHANGED vars
    BY <1>1, <2>1, <2>3
  <2>4. QED
    BY <1>3, <2>2, <2>3 DEF KeyByID
<1>4. CASE OtherKeys
  BY <1>1, <1>4 DEF OtherKeys, permVars
<1>5. CASE PublishKey
  BY <1>5 DEF PublishKey, Publish, permVars, Delivered
<1>6. CASE ResolveRoles
  <2>1. token.roles => key'[Me] = RolesKey
    BY <1>6, OwnRolesStep DEF SystemInv
  <2>2. pc = "resolving"
    BY <1>6, OwnRolesStep DEF SystemInv
  <2>3. CASE UNCHANGED vars
    BY <2>2, <2>3 DEF vars, Delivered
  <2>4. CASE resolver'[Me] = "idle" /\ Outcome /\ Deliver
    BY <2>1, <2>2, <2>4, DeliveredByResolve
  <2>5. QED
    BY <1>6, <2>3, <2>4, RolesSteps
<1>7. CASE OtherRoles
  <2>1. /\ key'[Me] = key[Me]
        /\ resolver'[Me] = resolver[Me] => resolved'[Me] = resolved[Me]
        /\ resolver'[Me] \in {resolver[Me], "idle"}
    BY <1>7, OtherRolesStep DEF SystemInv
  <2>2. CASE resolver[Me] = "idle"
    BY <1>1, <1>7, <2>1, <2>2 DEF OtherRoles
  <2>3. CASE resolver[Me] # "idle"
    <3>1. pc = "resolving" /\ key'[Me] = RolesKey
      BY <2>1, <2>3 DEF SystemInv, Linked
    <3>2. CASE UNCHANGED vars
      BY <3>1, <3>2 DEF vars, Delivered
    <3>3. CASE resolver'[Me] = "idle" /\ Outcome /\ Deliver
      BY <3>1, <3>3, DeliveredByResolve
    <3>4. QED
      BY <1>7, <3>2, <3>3, RolesSteps
  <2>4. QED
    BY <2>2, <2>3
<1>8. CASE SystemTick
  BY <1>8, DeliveredTick
<1>9. CASE UNCHANGED sysvars
  BY <1>1, <1>9 DEF sysvars, permVars
<1>10. QED
  BY <1>2, <1>3, <1>4, <1>5, <1>6, <1>7, <1>8, <1>9 DEF SystemNext

\* A handler sees the permissions of the last Resolve of its request, and one of
\* before an invalidation only if that call, a fetch or a queued write of its
\* roles overlapped the invalidation (HttpResolver.Invalidate of
\* authz/http_resolver.go, seen through Auth of middleware/auth.go).
THEOREM InvalidationReaches ==
  ASSUME SystemAssumption PROVE SystemSpec => []InvalidationReachesHandlers
<1>1. SystemInit => Delivered
  BY DEF SystemInit, Init, Delivered
<1>2. SystemInv /\ SystemInv' /\ TypeOK /\ Delivered /\ [SystemNext]_sysvars
      => Delivered'
  BY DeliveredStep
<1>3. SystemSpec => []TypeOK
  BY SystemImplements, TypeCorrect, PTL DEF ImplementsPipeline
<1>4. SystemInv /\ Delivered => InvalidationReachesHandlers
  <2>1. SUFFICES ASSUME SystemInv, Delivered, pc = "handled", user.perms # {}
                 PROVE  /\ \E d \in 0 .. age :
                             user.perms = inForce[resolved[Me].map.age + d]
                        /\ resolved[Me].map.old => before[Me] \/ excused[RolesKey]
    BY DEF InvalidationReachesHandlers
  <2>2. /\ key[Me] = RolesKey /\ resolved[Me].outcome = "perms"
        /\ \E d \in 0 .. age : user.perms = inForce[resolved[Me].map.age + d]
    BY <2>1 DEF Delivered
  <2>3. resolved[Me].map.old => before[Me] \/ excused[key[Me]]
    BY <2>1, <2>2, Zenon
       DEF SystemInv, Promises, Resolver!InvalidateHolds, SystemAssumption
  <2>4. QED
    BY <2>2, <2>3
<1>5. QED
  BY <1>1, <1>2, <1>3, <1>4, SystemInvariant, PTL DEF SystemSpec
=============================================================================
