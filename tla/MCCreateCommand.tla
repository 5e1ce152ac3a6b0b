---------------------------- MODULE MCCreateCommand ----------------------------
EXTENDS CreateCommand

\* Two runs into one directory: the first with any answers, the second with a wallet
\* or for sessions, and either both Postgres and the queue or neither.
SecondChoices ==
  {a \in Answers :
     /\ a.wallet \/ a.intent = "session"
     /\ a.queue = "none" <=> a.storage = "none"
     /\ a.framework # "hono-workers" => a.walletMode = "private-key"}
Reruns == {<<a, b, b>> : a \in Answers, b \in SecondChoices}

\* Three runs with what git depends on: a Worker or Fastify, with a key on disk or
\* without a wallet.
GitChoices ==
  {a \in Answers :
     /\ a.framework \in {"hono-workers", "fastify"}
     /\ a.walletMode = "private-key"
     /\ a.intent = "charge" /\ a.storage = "none" /\ a.queue = "none"}
MCHistories == Reruns \cup [Runs -> GitChoices]

MCEnough(h, n) == n = 2 /\ ~(\A m \in Runs : h[m] \in GitChoices)
================================================================================
