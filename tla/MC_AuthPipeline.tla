-------------------------- MODULE MC_AuthPipeline --------------------------
(* A small instance of AuthPipeline. *)
EXTENDS AuthPipeline

Key(resource, action) == [resource |-> resource, action |-> action]
OrdersRead == Key("orders", "read")
UsersRead == Key("users", "read")

Gate(kind, keys, acr) == [kind |-> kind, keys |-> keys, acr |-> acr]
Perm(k) == Gate("all", {k}, "")
Any(keys) == Gate("any", keys, "")
All(keys) == Gate("all", keys, "")
StepUp == Gate("stepup", {}, "high")
Human == Gate("human", {}, "")

Behind(gates) == [auth |-> TRUE, gates |-> gates]

MCRoutes == {
  Behind(<<>>), Behind(<<Perm(OrdersRead)>>), Behind(<<Perm(Key("orders", "*"))>>),
  Behind(<<Any({OrdersRead, UsersRead})>>), Behind(<<All({OrdersRead, UsersRead})>>),
  Behind(<<All({})>>), Behind(<<StepUp, Perm(UsersRead), Human>>),
  [auth |-> FALSE, gates |-> <<Human>>] }

Token(signed, claims, roles, acr, actor) ==
  [signed |-> signed, claims |-> claims, roles |-> roles, acr |-> acr,
   actor |-> actor]

MCTokens == {
  Token(TRUE, TRUE, TRUE, "high", "nobody"), Token(TRUE, TRUE, TRUE, "high", "admin"),
  Token(TRUE, TRUE, TRUE, "", "nobody"), Token(TRUE, TRUE, FALSE, "high", "nobody"),
  Token(TRUE, FALSE, TRUE, "high", "nobody"), Token(FALSE, TRUE, TRUE, "high", "nobody") }

MCConcrete == {"orders", "users", "read"}

MCMappings == {
  {}, {<<"*", "*">>}, {<<"orders", "*">>, <<"Orders", "read">>},
  {<<"*", "read">>, <<"orders">>, <<"users", "read">>, <<"orders", "">>} }
=============================================================================
