---------------------------- MODULE MC_AuthSystem ----------------------------
(* A small instance of AuthSystem: the request's own calls, the rotation of    *)
(* its key, invalidations and evictions of its mapping.                        *)
EXTENDS AuthSystem

CONSTANTS me, tokenKid, rolesKey

MCThreads == {me}
MCKids == {tokenKid}
MCCacheKeys == {rolesKey}
MCPreloaders == {}

OrdersRead == [resource |-> "orders", action |-> "read"]
Perm(k) == [kind |-> "all", keys |-> {k}, acr |-> ""]

MCRoutes == {[auth |-> TRUE, gates |-> <<Perm(OrdersRead)>>]}
MCTokens == {[signed |-> TRUE, claims |-> TRUE, roles |-> TRUE, acr |-> "",
              actor |-> "nobody"]}
MCConcrete == {"orders", "read"}
MCMappings == {{}, {<<"orders", "read">>}}
=============================================================================
