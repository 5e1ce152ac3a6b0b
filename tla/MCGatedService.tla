---------------------------- MODULE MCGatedService ----------------------------
(***************************************************************************)
(* Deployments that between them take every branch of the wiring, each     *)
(* changing a few options of a plain one.                                  *)
(***************************************************************************)
EXTENDS GatedService

Plain == [adapter |-> "hono", intent |-> "unset", priced |-> TRUE, preCheck |-> FALSE,
          wallet |-> "key", store |-> "default", redisUrl |-> FALSE, ioredis |-> FALSE,
          app |-> "fixed", calm |-> FALSE]

MCDeploys ==
  {Plain,
   [Plain EXCEPT !.adapter = "fastify", !.redisUrl = TRUE],
   [Plain EXCEPT !.store = "redis", !.preCheck = TRUE],
   [Plain EXCEPT !.redisUrl = TRUE, !.ioredis = TRUE, !.adapter = "fastify"],
   [Plain EXCEPT !.store = "kv", !.app = "factory"],
   [Plain EXCEPT !.store = "kv", !.app = "factory", !.calm = TRUE],
   [Plain EXCEPT !.store = "memory", !.app = "factory"],
   [Plain EXCEPT !.intent = "charge", !.wallet = "address", !.preCheck = TRUE],
   [Plain EXCEPT !.intent = "charge", !.adapter = "fastify"],
   [Plain EXCEPT !.wallet = "address"],
   [Plain EXCEPT !.priced = FALSE],
   [Plain EXCEPT !.intent = "proof", !.adapter = "fastify", !.preCheck = TRUE],
   [Plain EXCEPT !.intent = "session", !.priced = FALSE],
   [Plain EXCEPT !.wallet = "none"]}
===============================================================================
