-------------------------------- MODULE Wiring --------------------------------
(***************************************************************************)
(* What a seller's options and environment come to before the first        *)
(* request: the intent a route of mppGated gets, the methods and the store *)
(* that createPaywrapMpp builds, and the challenge the route can answer.   *)
(***************************************************************************)

Deployments ==
  [adapter: {"hono", "fastify"},
   intent: {"unset", "session", "charge", "proof"},  \* MppGatedOptions.intent
   priced: BOOLEAN,                                  \* is `amount` given?
   preCheck: BOOLEAN,
   wallet: {"key", "address", "none"},
   store: {"redis", "memory", "kv", "default"},      \* "default": no `store` option
   redisUrl: BOOLEAN, ioredis: BOOLEAN,              \* the environment of the default
   app: {"fixed", "factory"},                        \* createHonoApp(ctx) or (c => ctx)
   calm: BOOLEAN]    \* calls come one by one, further apart than KV's consistency window

ResolveIntent(d) ==
  IF d.intent # "unset" THEN d.intent ELSE IF d.priced THEN "session" ELSE "proof"

IsPaid(d) == ResolveIntent(d) \in {"session", "charge"}

\* mppGated throws at registration when a paid route has no amount.
Registers(d) == IsPaid(d) => d.priced

\* The methods that createPaywrapMpp registers; without a wallet it throws.
Methods(d) ==
  CASE d.wallet = "key"     -> {"session", "charge"}
    [] d.wallet = "address" -> {"charge"}
    [] d.wallet = "none"    -> {}

Boots(d) == Registers(d) /\ Methods(d) # {}

ResolveDefaultStore(d) == IF d.redisUrl /\ d.ioredis THEN "redis" ELSE "memory"
StoreKind(d)           == IF d.store = "default" THEN ResolveDefaultStore(d) ELSE d.store

\* A mistake the properties must notice: only the fallback from a configured Redis
\* is announced.
WarnsOnFallback(d) == d.store = "default" /\ d.redisUrl /\ StoreKind(d) = "memory"

\* "State will be lost on restart" is printed.
Warns(d) == d.store = "default" /\ StoreKind(d) = "memory"

\* A proof is a charge of amount 0.  A challenge for a method that is not
\* registered cannot be built and becomes a 500.
Method(d)    == IF ResolveIntent(d) = "session" THEN "session" ELSE "charge"
Challenge(d) == IF Method(d) \in Methods(d) THEN "challenged" ELSE "errored"

\* Does every request get a memory store of its own?
PerRequest(d) == d.app = "factory" /\ StoreKind(d) = "memory"
===============================================================================
