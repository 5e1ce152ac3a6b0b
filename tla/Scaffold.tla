------------------------------- MODULE Scaffold -------------------------------
(***************************************************************************)
(* What `paywrap create` generates: the answers its prompts can give, the  *)
(* configuration they are normalised to, and each generated file, as what  *)
(* it needs of the others.  A file is known by its path, its text by what  *)
(* the compiler and the environment check tell apart: the project files    *)
(* and the packages it imports, the environment variables it reads and the *)
(* fields of the application context it uses.  Packages go by the choice   *)
(* that brings them: "fastify" stands for fastify, its zod type provider   *)
(* and the paywrap adapter, "drizzle" also for pg, "bullmq" also for       *)
(* ioredis, "node" for zod and dotenv.                                     *)
(***************************************************************************)
EXTENDS Sequences

Configs ==
  [framework: {"fastify", "hono-workers", "none"},
   intent: {"session", "charge"},
   storage: {"postgres", "none"},
   queue: {"bullmq", "none"},
   walletMode: {"private-key", "address-only"},
   wallet: BOOLEAN]    \* is a wallet generated now?

\* The prompts skip what a Worker cannot run, and offer address-only for charge only.
Answers ==
  {a \in Configs :
     /\ a.framework = "hono-workers" => a.storage = "none" /\ a.queue = "none"
     /\ a.intent = "session" => a.walletMode = "private-key"}

Workers(c) == c.framework = "hono-workers"
Charge(c)  == c.intent = "charge"
Keyed(c)   == c.walletMode = "private-key"
UsePg(c)    == c.intent = "session" /\ c.storage = "postgres"
UseRedis(c) == c.queue = "bullmq"

\* A mistake the properties must notice: an intent coerced to charge also gets
\* charge's recommended wallet mode.
NormalizeToAddressOnly(a) ==
  IF Workers(a) THEN [a EXCEPT !.storage = "none", !.queue = "none", !.intent = "charge",
                               !.walletMode = IF a.intent = "session" THEN "address-only" ELSE @]
  ELSE [a EXCEPT !.walletMode = IF a.intent = "session" THEN "private-key" ELSE @]

Normalize(a) ==
  IF Workers(a) THEN [a EXCEPT !.storage = "none", !.queue = "none", !.intent = "charge"]
  ELSE [a EXCEPT !.walletMode = IF a.intent = "session" THEN "private-key" ELSE @]

-----------------------------------------------------------------------------
(* Which files are written, in the order of writing.                       *)

Secrets(c) == IF Workers(c) THEN ".dev.vars" ELSE ".env"

WorkersFiles ==
  <<"package.json", "tsconfig.json", "biome.json", "wrangler.toml", ".dev.vars.example",
    ".gitignore", "README.md", "src/worker.ts">>

BaseFiles ==
  <<"package.json", "tsconfig.json", "biome.json", "vitest.config.ts", ".env.example",
    ".gitignore", "Dockerfile", "README.md", "src/index.ts", "src/app/app-context.ts",
    "src/app/build-app.ts", "src/core/env.ts", "src/routes/things.ts",
    "src/routes/health.ts", "src/routes/wellknown.ts", "src/setup/index.ts">>

IntentFiles(c) ==
  IF Charge(c) THEN <<"src/services/thing-client.ts">>
  ELSE IF UsePg(c)
  THEN <<"src/db/client.ts", "src/db/migrate.ts", "src/models/thing.ts", "drizzle.config.ts">>
  ELSE <<>>

QueueFiles(c) ==
  IF UseRedis(c)
  THEN <<"src/worker/queue.ts", "src/worker/index.ts", "src/worker/start.ts",
         IF Charge(c) THEN "src/worker/jobs/reaper-job.ts"
                      ELSE "src/worker/jobs/session-settle-job.ts">>
  ELSE <<>>

NodeFiles(c) == BaseFiles \o IntentFiles(c) \o QueueFiles(c)

ElementsOf(s) == {s[i] : i \in DOMAIN s}

\* The wallet, if there is one, and the MPP secret beside it come last.
MainFiles(c) == IF Workers(c) THEN WorkersFiles ELSE NodeFiles(c)
FileOrder(c) == MainFiles(c) \o (IF c.wallet THEN <<Secrets(c)>> ELSE <<>>)
Files(c)     == ElementsOf(MainFiles(c)) \cup (IF c.wallet THEN {Secrets(c)} ELSE {})
Paths == UNION {Files(c) : c \in {Normalize(a) : a \in Answers}}

-----------------------------------------------------------------------------
(* The templates.                                                          *)

When(condition, S) == IF condition THEN S ELSE {}
Needs(imports, packages, env, ctx) ==
  [imports |-> imports, packages |-> packages, env |-> env, ctx |-> ctx]

\* What the zod schema of src/core/env.ts has, and what .env.example documents.
WalletVar(c) == IF Keyed(c) THEN "WALLET_PRIVATE_KEY" ELSE "WALLET_ADDRESS"
Always       == {"PUBLIC_BASE_URL", "MPP_SECRET_KEY", "TEMPO_RPC_URL"}
EnvSchema(c) ==
  Always \cup {WalletVar(c)} \cup When(UsePg(c), {"DATABASE_URL"})
         \cup When(UseRedis(c), {"REDIS_URL", "RUN_WORKER"})
EnvExample(c) ==
  Always \cup {WalletVar(c)} \cup When(UsePg(c), {"DATABASE_URL"})
         \cup When(UseRedis(c), {"REDIS_URL", "RUN_WORKER"})

\* The fields of AppContext, and those that src/index.ts fills in.
AppContext(c) ==
  {"env", "walletAddress", "mppx", "channelStore"}
    \cup When(Keyed(c), {"mppxClient", "mppxAccount"})
    \cup When(Charge(c), {"resourceClient"}) \cup When(UsePg(c), {"db"})
    \cup When(UseRedis(c), {"queues", "mppxRedis"})
ContextBuilt(c) ==
  {"env", "walletAddress", "mppx", "channelStore"}
    \cup When(Keyed(c), {"mppxClient", "mppxAccount"})
    \cup When(UsePg(c), {"db"}) \cup When(Charge(c), {"resourceClient"})
    \cup When(UseRedis(c), {"queues", "mppxRedis"})

HonoDependencies == {"hono"}
Dependencies(c) ==
  IF Workers(c) THEN HonoDependencies
  ELSE {"node"} \cup When(c.framework = "fastify", {"fastify"})
         \cup When(UsePg(c), {"drizzle"}) \cup When(UseRedis(c), {"bullmq"})

IndexEntry(c) ==
  Needs({"src/app/build-app.ts", "src/core/env.ts", "src/routes/health.ts",
         "src/routes/things.ts", "src/routes/wellknown.ts"}
          \cup When(UsePg(c), {"src/db/client.ts"})
          \cup When(Charge(c), {"src/services/thing-client.ts"})
          \cup When(UseRedis(c), {"src/worker/queue.ts", "src/worker/start.ts"}),
        {"node"} \cup When(UseRedis(c), {"bullmq"}),
        Always \cup {WalletVar(c)} \cup When(UsePg(c), {"DATABASE_URL"})
          \cup When(UseRedis(c), {"REDIS_URL", "RUN_WORKER"}),
        {})

AppContextFile(c) ==
  Needs({"src/core/env.ts"} \cup When(Charge(c), {"src/services/thing-client.ts"})
          \cup When(UsePg(c), {"src/db/client.ts"})
          \cup When(UseRedis(c), {"src/worker/queue.ts"}),
        When(UseRedis(c), {"bullmq"}), {}, {})

BuildApp == Needs({"src/app/app-context.ts"}, {"fastify"}, {}, {})
EnvFile  == Needs({}, {"node"}, {}, {})
Setup    == Needs({}, {"node"}, {}, {})

\* A paid route; the charge route is stateless, on an upstream client.
SessionRoutes == Needs({}, {"fastify", "node"}, {}, {"mppx", "channelStore"})
ChargeRoutes  == Needs({"src/services/thing-client.ts"}, {"fastify", "node"}, {"PUBLIC_BASE_URL"},
                       {"env", "mppx", "channelStore", "resourceClient"})

\* The probe of the database goes by the storage, whatever the intent.
RoutesHealth(c) ==
  Needs({}, {"fastify"}, {},
        {"walletAddress"} \cup When(c.storage = "postgres", {"db"})
          \cup When(UseRedis(c), {"mppxRedis"}))

RoutesWellKnown ==
  Needs({"src/app/app-context.ts"}, {"fastify"}, {"PUBLIC_BASE_URL"}, {"env", "walletAddress"})

ThingClient == Needs({"src/core/env.ts"}, {}, {}, {})
DbClient    == Needs({}, {"drizzle"}, {}, {})
ThingModel  == Needs({}, {"drizzle"}, {}, {})
DbMigrate   == Needs({"src/core/env.ts", "src/db/client.ts"}, {"drizzle", "node"}, {"DATABASE_URL"}, {})

WorkerQueue == Needs({}, {"bullmq"}, {}, {})
WorkerIndex(c) ==
  Needs({"src/core/env.ts", "src/worker/start.ts"}, {"bullmq", "node"},
        Always \cup {"REDIS_URL", WalletVar(c)}, {})
WorkerStart(c) ==
  Needs({"src/core/env.ts", "src/worker/queue.ts",
         IF Charge(c) THEN "src/worker/jobs/reaper-job.ts"
                      ELSE "src/worker/jobs/session-settle-job.ts"},
        {"bullmq"}, {"REDIS_URL"}, {})
ReaperJob   == Needs({"src/core/env.ts"}, {}, {}, {})
WorkerEntry == Needs({}, {"hono"}, {}, {})

\* The text of a file generated for configuration c.  Session settle jobs need
\* nothing but the kit, and the compiler reads src/ only.
Text(f, c) ==
  CASE f = "src/index.ts"                 -> IndexEntry(c)
    [] f = "src/app/app-context.ts"       -> AppContextFile(c)
    [] f = "src/app/build-app.ts"         -> BuildApp
    [] f = "src/core/env.ts"              -> EnvFile
    [] f = "src/routes/things.ts"         -> IF Charge(c) THEN ChargeRoutes ELSE SessionRoutes
    [] f = "src/routes/health.ts"         -> RoutesHealth(c)
    [] f = "src/routes/wellknown.ts"      -> RoutesWellKnown
    [] f = "src/setup/index.ts"           -> Setup
    [] f = "src/services/thing-client.ts" -> ThingClient
    [] f = "src/db/client.ts"             -> DbClient
    [] f = "src/db/migrate.ts"            -> DbMigrate
    [] f = "src/models/thing.ts"          -> ThingModel
    [] f = "src/worker/queue.ts"          -> WorkerQueue
    [] f = "src/worker/index.ts"          -> WorkerIndex(c)
    [] f = "src/worker/start.ts"          -> WorkerStart(c)
    [] f = "src/worker/jobs/reaper-job.ts" -> ReaperJob
    [] f = "src/worker.ts"                -> WorkerEntry
    [] OTHER                              -> Needs({}, {}, {}, {})

\* A mistake the properties must notice: both generators share one .gitignore.
GitIgnoreShared(c) == {".env"}

\* What git leaves alone.
GitIgnore(c) == {".env"} \cup When(Workers(c), {".dev.vars"})
=============================================================================
