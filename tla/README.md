# Formal models of zero-paywrap

zero-paywrap lets a service charge for its HTTP API, with per-call vouchers of a
payment channel (MPP `session`), a metered variant of it (`metered`), single
charges (`charge`) or x402.  The code under `src/packages` is glue around external
parties: `mppx`, an escrow contract, a channel store, x402 facilitators, an upstream
provider.  It is short, and nearly everything that matters in it happens between
two `await`s: a value is read, the chain or a provider is asked, and the value is
written back or acted upon.  The modules here are about those gaps.

Contents: [Inventory](#inventory) - [Plan](#plan) - [Modules and code](#modules-and-code) -
[Runs](#runs) - [Bounds](#bounds) - [Fairness](#fairness) - [Proofs](#proofs) -
[Findings](#findings) - [What is abstracted](#what-is-abstracted) -
[What is not modelled](#what-is-not-modelled) - [Running it](#running-it)

## Inventory

Paths are relative to `src/packages` unless they say otherwise.

| component | code | state | operations | who it talks to |
|---|---|---|---|---|
| gate | `adapters/{hono,fastify}/src/{gated,challenges,app}.ts` | a context per app or per request | `mppGated`: intent, preCheck, verify, payer, handler, and (hono, session) the rollback | mppx, channel store, the app's hook and handler, money log |
| rollback | `kit/src/mpp/rollback.ts` | - | `rollbackSessionVoucher` | channel store |
| on-chain close | `kit/src/mpp/settle.ts` | - | `closeSessionOnChain` | channel store, escrow contract |
| metered intent | `adapters/hono/src/metered.ts`, `kit/src/mpp/metered.ts` | `spent`, `paywrapCloseVoucher` in the channel state | call and close branches of `mppMetered`, `persistMeteredCloseVoucher`, `closeMeteredChannelFromState`, `closeMeteredChannelOnChain` | mppx, channel store, escrow contract |
| channel stores | `kit/src/mpp/stores/{redis,workers-kv,memory}.ts` | the channel records | `get`, `set`, `del`, `update` | Redis, Workers KV |
| charge route | `cli/src/templates/{routes-things,thing-client}.ts` | none; the provider keeps the charge's fingerprint | `POST /`, `GET /:id`, `DELETE /:id` | mppx, upstream provider, error log |
| refunds | `kit/src/refund/index.ts` | none, deliberately | `refundCharge` | token contract, money log |
| x402 | `kit/src/x402/{factory,fallback-facilitator}.ts`, `adapters/hono/src/x402-gated.ts` | none | `getSupported`, `verify`, `settle` over several facilitators | facilitators |
| credentials | `kit/src/auth/index.ts`, `kit/src/mpp/verify.ts` | none | parsing, payer, challenges, fingerprint, scope | mppx, channel store |
| money log | `kit/src/logger/index.ts` | none | `composeLoggers`, `safeLog`, `logRefundOwed` | the app's sinks |
| client wiring | `kit/src/mpp/{mppx,chain,constants}.ts` | a flag: has the missing store been announced? | choice of store, accounts and intents | mppx, viem, the environment |
| request signing | `kit/src/signing/index.ts` | none | builders of signed credentials | - |
| glue | `kit/src/{crypto,proxy,health,manifest,setup,testing}` | none | - | - |
| scaffolder | `cli/src` | the generated directory and its secrets file | `create` | file system, chain, pnpm, git |

How they interact.  A request reaches a gate; the gate has mppx verify the
credential, which for a channel updates the channel record through the store; the
app's handler runs; a failed handler makes the gate roll the record back.  Beside
the requests, a settle job (`cli/src/templates/worker.ts:62-70`, hourly), a route or a
`waitUntil` hook closes channels: it reads the record, submits a transaction and
writes the record.  Nothing ties these together but the store's `update`, and several
replicas or Worker isolates share one store.

Which behaviours are hard, and what correct means there:

- *Session*: overlapping requests of one channel, each with a rollback target it read
  before its own verification; rollback against close; close against close; a
  process dying between transaction and record; a settle in mid-channel.  Correct:
  never an amount the buyer did not sign; a record that says finalized tells the
  truth; an open channel can always be closed; served calls are billed, rolled-back
  calls are not; a channel with a voucher is closed in the end.
- *Gate*: two adapters that are copies of each other, three intents, five kinds of
  store; a hook that may skip verification, a sink that throws, a store that forgets,
  a process that dies.  Correct: the handler runs only behind a verified credential, a
  charge is taken once, an accepted payment is let in and on record, and what a store
  may lose the seller has been told.
- *Redis store*: WATCH belongs to a connection, a process has one, and it comes back by
  itself; a command may be rejected before or after Redis carried it out.  Correct: an
  update is atomic; one that throws has left nothing behind, unless it was its write
  that was rejected; and it ends.
- *Metered*: calls that overwrite each other's `spent`; three ways to close; a posted
  close voucher that mppx refuses or that reapers submit twice.  Correct: the buyer
  pays a receipt it was given; what is kept for the reaper is settled; `spent`, which can
  bar a close, exceeds the last booked receipt only by calls that can be named.
- *Charge and refunds*: retries and duplicates of one credential; creation that fails
  before or after the resource exists; deletion in between; a refund whose answer is
  lost.  Correct: one charge and one resource per credential; every charge ends as a
  resource, a refund or a known loss.
- *x402*: facilitators that time out after settling, lie, or are down.  Correct: the
  chain of facilitators looks like one facilitator, and one sound client in it is enough
  to settle what was verified.

- *Scaffolder*: a command that makes a key, may send money to it, writes two dozen files
  and commits them, and can fail or be interrupted after each; and templates that have
  to agree with each other under every answer.  Correct: the key survives and stays
  out of git; the directory compiles, the second time too.

The full list of hazards, with the line where each one bites and the properties that
watch it, is in `PROJECT.json` under `hazards`.

## Plan

In the order of importance; all of it is done.

1. `PaymentChannel`, `ChannelOps`, `SessionChannel` - what both parties rely on, and the
   session gate, rollback and close; billing, money and signature invariants and the
   refinement proved.
2. `AtomicStore`, `RedisStore` - what `update` promises, and the WATCH loop as its
   implementation; refinement proved for unshared connections that stay up, and that these
   lose no update; for any, that failures leave no trace and retries have a cause.
3. `MeteredChannel` - the metered intent over the same channel operations, as another
   `PaymentChannel`; money and receipt invariants and the refinement proved.
4. `ChargeLedger`, `ChargeRoute`, `RefundQueue`, `ChargeService` - the charge intent
   end to end; `ChargeService` composes route and refunds and implements the ledger; all
   safety properties and the refinement proved.
5. `Facilitator`, `FallbackFacilitator` - the x402 chain implements one facilitator;
   all safety properties and the refinement proved.
6. `Wiring`, `MoneyLog`, `GatedService`, `Paywall` - both adapters with every intent,
   preCheck and store (memory and Workers KV among them), the wiring that selects them
   and the money log; all safety properties and the refinement proved.
7. `Scaffold`, `CreateCommand` - what `create` generates and in which order; its
   properties about keys and about the directory proved.

What could still be added: the session model over a store that loses updates (Workers KV
under `refundOnFailure`) and the handlers of the example services.

## Modules and code

`PROJECT.json` (`map`) names the lines of every definition.  Each handler is cut at
its awaits; `pc`, `postPc`, `closerPc`, `stage` say at which one a request stands.

**`PaymentChannel`** is a channel as its two parties rely on it: the buyer signs amounts,
the contract pays one that is signed and never takes it back, a close comes once, and
the seller's books show it at the amount paid, in the same step or later or never.

**`ChannelOps`** has the transformations handed to `channelStore.updateChannel` as
functions on the record `[exists, highest, settled, finalized]`, and the escrow
contract's rules.  `SessionChannel` and `MeteredChannel` extend it, and each implements
`PaymentChannel` with the amounts the buyer has sent as `signed`, the escrow as `settled`
and `closed`, and the finalized record as `booked`.

**`SessionChannel`** is one channel.  A request goes `Send` - `Capture`
(`priorVoucher`) - `VerifyAccepts`/`VerifyRejects` - `ResolvePayer`/`PayerMissing` -
`HandlerSucceeds`/`HandlerFails` - `Rollback`/`RollbackBreaks`, and may be `RequestLost`
at any await.  A closer goes `CloserReads` - `CloseLands`/`CloseReverts` -
`CloseRecorded`, with `CloserFails` before the transaction or after it.
`SettleOnChain` and `BuyerWithdraws` are the chain's own.  Three switches describe
the deployment and the buyer: `RefundOnFailure`, `Overlap` (may requests of the
channel overlap?), `BuyerReplays`.

**`AtomicStore`** is the promise of mppx's atomic store: one update at a time, each
seeing the value the one before it left.  A value is the set of updates it contains.
**`RedisStore`** is `wrapIoredisForMppx`: `Begin`, `Watch`, `Get` (and the callback,
which may set, delete, do nothing or throw), `Unwatch`, `ExecCommits`, `ExecAborts`,
and `Overwrite` for the plain `set` and `del`.  Each command may be rejected (`Rejected`,
`OverwriteRejected`), and EXEC and the plain writes also after Redis has carried them out
(`ExecAnswerLost`): such a call ends `unknown`, and its caller has an exception whatever
became of the write.  The server keeps watches and the "dirty" flag per connection;
`Reconnect` starts it anew, as ioredis does by itself.  Two switches: `Exclusive` says
whether a process waits for one update before it starts another on its connection, and
`Reconnects` whether connections break; the code does not wait and ioredis does reconnect.
`AtomicStore` has the same two endings: an update applies and is then answered or not.

**`MeteredChannel`** has the calls (`Call` ... `HandlerReturns` with what the handler
settled on, `OverrideSpent`), the buyer's close requests (`PostClose`, `PersistThrows`,
`CloseVerified`/`CloseRefused`) and the seller's ways to submit: `ReaperReads`
(`closeMeteredChannelFromState`), `SubmitInHand` (`closeMeteredChannelOnChain`) and
`ForceClose` (`closeSessionOnChain`, which takes the authorized maximum).
`PersistThrows` is what the adapter does as written (see Findings); `Persist` is a
service author's own call of the helper, with the right argument.

**`ChargeLedger`** is the promise to the buyer: a credential is charged once,
delivered at most once after that, repaid only if charged.  **`ChargeRoute`** is
`POST /` (pre-check by fingerprint, verify, payer, create) and `DELETE /:id`;
**`RefundQueue`** is `refundCharge` and its operators; **`ChargeService`** composes
them over the shared log of charges that need a refund (`owed`), and implements
`ChargeLedger`.  The operators search for the line that the route writes, where the guide has
them look for `paywrap_refund_owed`, which the route never writes: they may find a charge,
and nothing says that they ever do.

**`Facilitator`** is a single facilitator; **`FallbackFacilitator`** is
`FallbackFacilitatorClient` under the x402 gate: `SyncAnswers`/`SyncThrows` for
`getSupported`, `VerifyAnswers`/`VerifyThrows`, `SettleSucceeds`/`SettleFails`/
`SettleThrows`, over a list of clients of which some are sound.  The loop that merges the
responses has no await; each response is merged as it comes in, which no request can tell.

**`Wiring`** is everything that is decided before the first request, as functions of a
deployment: intent, methods, store, warning, challenge.  **`MoneyLog`** counts, per sink,
call and kind, the events that arrived.  **`GatedService`** extends both and is `mppGated`
of both adapters: `ArriveBare` (no credential) or `Arrive` - `PreCheckThrows`/`Refuses`/
`Knows`/`Passes` - `VerifyRejects`/`VerifyAccepts`, or `VerifyReads` and `VerifyPuts` where the
store is Workers KV; `PutRejects` and `UpdateAnswerLost` where the store rejects a write
that it may have kept - `PayerMissing`/`PayerFound` - `HandlerThrows`/`HandlerSucceeds` -
`Completed` (hono only), with `Boot`, `Crash` and KV's `Propagate` beside the calls.  The adapter, the
intent, the store and the wallet are fields of the constant record `deploy`.  It
implements **`Paywall`**, the promise of any gated route.  `refundOnFailure` is left to
`SessionChannel`, which is the same handler seen from one channel.

**`Scaffold`** has the answers `create` takes, `Normalize`, the files in the order of
writing, and each template as what it needs of the others (project files, packages,
environment variables, context fields).  **`CreateCommand`** runs the command again and
again into one directory: `Start` (the prompts) - `PrefundDeclined`/`Sent`/`Throws` -
`Write`/`WriteStops` - `Install` - `GitCommits`/`GitFails` - `Report`, `CutOff` at the awaits after
writing, and `CopyExample` for the user who follows the generated README.  `disk` says
which run's text each path holds, `staged` what git's index has of the secrets files: `Added` is
`git add -A`, which also takes a tracked file that `.gitignore` names.

The `MC*` modules only give the constants small values.  Operators introduced as "a
mistake the properties must notice" are variants of the definition after them, used
to see that a property can fail; no specification uses them.

## Runs

| run | question | distinct states |
|---|---|---|
| `SessionSafety` | With everything allowed - overlap, replays, two closers, settles, crashes, lost receipts - does the record stay truthful, signed and closable, final once final, and the whole a payment channel? | 2.0 M |
| `SessionSerial` | One request at a time: are served calls billed, rolled-back calls not, and is the channel closed in the end? | 2.8 M |
| `SessionLostPayment` (violated) | ... and when requests overlap? | |
| `SessionRollbackRace` (violated) | Is a rolled-back call ever paid, when a close is under way? | |
| `RedisStore` | Two processes, one update at a time each, commands rejected at every point: is the store atomic, is every update kept that was reported as done, does a failed one leave no trace, are retries earned, does every update end? | 625 k |
| `RedisLostUpdate` (violated) | Two updates of one process at once: is an update that succeeded kept? | |
| `Metered` | Two calls, a posted close, two closers: truthful records, billing by receipt, `spent` accounted for, a payment channel, kept vouchers settled. | 782 k |
| `MeteredLostClose` (violated) | Is a posted close persisted before it is submitted? | |
| `Charge` | Three requests over two credentials, a deletion, two operators: ledger kept, every charge accounted for, nobody served and owed but where a create failed late. | 515 k |
| `Gate` | Two calls, fourteen deployments of both adapters, crashes and a flaky sink: paid calls logged, let in, kept or their loss explained; a paywall; every call answered. | 286 k |
| `Create` | Any answers, then a second run over the first, or three runs for a Worker or Fastify, with an interrupt anywhere: keys kept and, with git's index in between, out of commits; the directory compiles. | 3.6 M |
| `X402` | Three facilitators, only the middle one sound; three requests over two payments: one facilitator to the caller, and what was verified is settled unless spent or void. | 148 k |

Properties by module, each with a comment in the module on what it says:
`SessionChannel`: `OnlySignedVouchers`, `FinalizedMatchesEscrow`, `NeverBricked`,
`FinalizedIsFinal`, `ActsAsChannel` (that is, `PaymentChannel`), `EventuallyClosed`, `ServedCallsStayBilled`,
`RolledBackCallsUnbilled`, `RolledBackCallsUnpaid`.  `RedisStore`:
`Linearizable` (that is, `AtomicStore`), `NoLostUpdate`, `NoTraceOfFailure`,
`RetriesAreEarned`, `EveryUpdateEnds`.  `MeteredChannel`: `FinalizedMatchesEscrow`,
`BilledByReceipt`, `SpentIsAccounted`, `ActsAsChannel`, `KeptVoucherSettles`, `PostedCloseIsKept`.
`ChargeService`: `ServedOwedIsLate`, `ChargesAccountedFor`, `RepaidOnce`,
`KeepsLedger` (that is, `ChargeLedger`).  `FallbackFacilitator`:
`RefusedIsSpent`, `FirstWriterWins`, `ActsAsOne` (that is, `Facilitator`),
`SettlesInTheEnd`.  `GatedService`: `MoneyIsLogged`, `LossIsExplained`, `PaidCallsAreLetIn`,
`ActsAsPaywall` (that is, `Paywall`), `EveryCallEnds`.  `CreateCommand`: `KeysAreKept`,
`KeysStayPrivate`, `RerunRepairs`.

The type invariants of `SessionChannel`, `ChargeService`, `GatedService` and `CreateCommand`
are proved and in no run.

`CHECK_DEADLOCK FALSE` is said where the system may stop: all requests handled and
the channel closed, every update done, a service that cannot boot, or the last run of
`create` over.

## Bounds

- *Requests*: three where an interleaving needs a victim, a culprit and a witness
  (session, charge, x402); two metered calls suffice to overwrite `spent`.  Each is
  sent at most once; a retry is another request with the same voucher, credential or
  payment.
- *`Deposit`*: 2 with everything allowed (two prices, and the third request has to
  replay or fail), 3 in the serial run, so that three calls can each advance; 4 for
  metered with `MaxAmount` 2, so that two calls fit.
- *`SettleArgs`* -1, 1, `MaxAmount` + 1: below, within and above the receipt's range.
- *Closers*: two, one of which is always the other's competitor; each loops forever.
- *Redis*: four updates, two connections, two keys, so that one connection carries
  updates of two keys (the watch that gets lost) against a writer on the other;
  `MaxRetries` 2 instead of 20, so that it can be used up.  The commands of one of the calls may
  be rejected (`Rejectable`), and two kinds of calls that do what others do (`look`,
  `remove`) are left out.  The run has `Exclusive` and no `Reconnects`, without which
  `Linearizable` is false; that `NoTraceOfFailure` and `RetriesAreEarned` need neither is proved.
- *Charge*: two credentials of one wallet, three requests, one deletion, two
  operators, `MaxLost` 1 lost answer per charge.
- *X402*: three clients with the sound one in the middle, so that it is neither the
  default nor the last resort; overlapping offers `{a} {a,b} {b,c}`.

- *Gate*: two calls, since the hazards are pairwise (two writers of one KV key, a replay
  and its original, a call and its retry after preCheck); three exceed two million states,
  and the theorems hold for any number.  Three credentials, one without a source, two
  sinks of which one is flaky, two crashes.  The fourteen deployments change one or two
  options of a plain one and between them take every branch of `Wiring`.
- *Create*: two runs.  The first takes every combination of answers, the second those
  that can disturb it (a wallet or sessions, Postgres and the queue both or neither);
  `KeysAreKept` and `RerunRepairs` are about what one run leaves for the next.  Beside these,
  three runs (a file is tracked by the second and its new content committed by the third)
  of the answers that git can tell apart; `Enough` ends the other histories after two.

Every bound but `MaxLost` is a finite set of actors or an amount; the theorems hold
for all of them.

## Fairness

- *Session closers*: the settle job fires every hour
  (`cli/src/templates/worker.ts:62-70`), reads again what failed and sends again: weak
  fairness of reading and recording, strong fairness of the transaction landing (a
  node may be down now and then, not forever).  This assumes that the author of the
  service has filled in the job: the template's list of channels is an empty TODO
  (`worker.ts:150`), and until then nothing is closed by itself.  Requests have no
  fairness: they may stop at any await.
- *Metered closers*: the same, for a job that calls `closeMeteredChannelFromState`.  Nothing in
  the repository schedules one; its docs leave that to the service author, and
  `KeptVoucherSettles` holds of services whose author does.
- *Redis*: every command that was sent is answered or rejected.
- *Charge*: none.  Whether an owed charge is ever repaid is up to people who read a log, and
  the guide has them look for a line that the route does not write.
- *Gate*: stores, hooks, sinks and handlers answer or throw, each call on its own.
  Arrivals, boots and crashes have no fairness.
- *Create*: none; it has no liveness property.
- *X402*: every call of a client comes back, if only by the HTTP timeout.

## Proofs

TLAPS checks all of these, for every value of the constants that meets the named
assumptions (`DepositAssumption`, `SwitchesAssumption`, `RedisAssumption`,
`MeteredAssumption`, `ChargeAssumption`, `RefundAssumption`, `ChainAssumption`,
`SinksAssumption`, `GateAssumption`, `CreateAssumption`).

**`SessionChannelProofs`.**  `TypeCorrect`.  `FinalizedIsPaid` and
`RollbackNeverBricks` rest on `MoneyInv`: the two properties are not inductive alone,
because a closer that stands before its record knows something the store does not;
`StoreTrailsEscrow` says what - the escrow is closed at exactly the amount in the
closer's hands, and the store never claims more than was paid.  `FinalizedForGood`
follows: whatever is still in flight finds the contract closed.  `NothingUnsigned`
needs `HeldAreSigned`, since rollback targets and closers' copies are what later steps
write back.  `SerialCallsStayBilled` and `SerialRollbacksUnbilled` hold under
`~Overlap`; `SerialInv` says what a rollback target is worth (`TargetIsSafe`): it covers
every 200 so far and belongs to another call that keeps its voucher.
`CallsStayBilledWithoutRefunds` allows any overlap but no `RefundOnFailure`: `NoTargets` says
that nothing is then ever kept to be written back, so what `SessionLostPayment` shows comes
from the rollback alone.  `SessionIsChannel`: the gate with its rollbacks and closers
implements `PaymentChannel`.  A mid-channel settle maps to `Settle`, the transaction to `Close`,
the record after it to `Book`, a closer that finds the channel closed to a stutter;
`ChannelInv` adds to the two invariants above that closers hold vouchers, never nothing.

**`PaymentChannelProofs`.**  `ChannelPaysAndBooks`, `ChannelTakesNothingBack`: what an abstract
channel promises, for amounts that are naturals.  The session and metered proofs
instantiate this module and carry its theorems over (`SessionKeepsPromises`,
`MeteredKeepsPromises`).

**`RedisStoreProofs`.**  `RedisTypeCorrect` (with the loop's bound) without any
condition.  `ExclusiveRedisIsAtomic`: under `Exclusive` and without `Reconnects`, `RedisStore` implements
`AtomicStore`.  The invariant is `WatchCovers`: between GET and EXEC the key is watched,
and unless the connection is flagged the value read is still the value there.  It
survives a step of another call only by `OwnConnection`; without it the refinement is
false, as `RedisLostUpdate` shows, and a reconnect in the middle makes it so too.  A
rejected EXEC that was carried out maps to an application whose answer is lost.  `ExclusiveLosesNothing` is the property that run refutes,
proved under the same two conditions from `WatchCovers`, and from `AppendsExec`: an append never
ends as a noop.  `FailuresLeaveNoTrace` and `RetriesAlwaysEarned` need no
condition, so they hold of the shared connection the code uses: `TraceInv` says that
neither the database nor what an update has read contains an update that failed otherwise
than by a rejected write, `RetryInv` that each lost round has a write to show for it, of a key
that the calls of the connection use: a watch left behind by a callback that threw may be
on a key other than the update's own.

**`MeteredChannelProofs`.**  `MeteredTypeCorrect` (a receipt always lies in
0..maxAmount), `MeteredFinalizedIsPaid` as above, and `BuyerPaysReceipts` from
`ClaimsBacked`: every amount on its way to the contract is an issued receipt.
`SpentAlwaysAccounted` is what holds of `spent`: mppx charges a call before its handler runs
and the override may come late, overwrite that of another call, or never come, so `spent`
is a booked receipt and at most one `maxAmount` for each call under way, failed, lost or
unbooked (`Unsettled`).  Such a call stays in `spent` until a later one books its
receipt, and mppx refuses a close below `spent`.
`MeteredIsChannel` follows `SessionIsChannel`; its `HeldAreSigned` also covers the persisted
voucher, and `SignaturesStay` says that no step unsigns an amount.

**`ChargeServiceProofs`.**  `ChargeTypeCorrect`, `NoChargeForgotten`, `ServedAndOwedIsLate`,
`RepaidOnlyOnce`, `LedgerKept`.  `ServedAndOwedIsLate`: a buyer who was told 202 and stands in the log
was served by a retry that found what a late-failing create had made.  `OneThrough`
says that mppx lets a single request per credential through; `MadeByOne` that only
that request can have made a resource or a log entry; `RefundInv` that operators hold
different charges, owed and not written down, and that transfers beyond the one
written down are those without an answer.

**`FallbackFacilitatorProofs`.**  `OneSoundClientSuffices` from `SoundDeclined` (a sound
client that was passed over was right to decline) and `GoneForGood` (what is spent or
void stays so), which is about verified payments: what an earlier client calls invalid never
comes that far; `ChainActsAsOne`: the chain implements `Facilitator`.
`PrimaryEntriesSurvive`: `SyncInv` says that what has been merged so far holds the first entry
of every kind, and `AddKindsKeepsFirst` that one more response keeps it so; the loop is in
the model's steps, so no induction over the list is needed.  `FallbackTypeCorrect` adds
`OnlyPayments`.

**`GatedServiceProofs`.**  `GateTypeCorrect`, `MoneyAlwaysLogged`, `PaidMeansLetIn`,
`LossAlwaysExplained`, `GateIsPaywall`.  `CallInv` ties where a call stands to what is known
of its credential, `LogInv` and `BooksInv` to what the sinks hold.  The stores need four
facts, in `StoreInv`: a reliable store holds every accepted voucher, a memory store that of a
call before its payer is looked up, a lost one was announced, and calm calls on KV never
read a stale value.

**`CreateCommandProofs`.**  `CreateTypeCorrect`, `KeysAlwaysKept`, `KeysAlwaysPrivate` and
`RerunAlwaysRepairs`, for any number of runs.  `WrittenInv` says that the key is on disk once all files are written,
`FundedInv` that only keyed wallets are funded: a wallet offered to be prefunded is keyed
and `Normalize` leaves it so.  `KeysAlwaysKept` is about runs that wrote their files: one that
was prefunded and then stopped has its key nowhere (`create.ts` sends at line 218 and
writes at 265), and a key is written over by a later run, funded or not.  `KeysAlwaysPrivate` rests on
`IndexInv`: `.env` is never in git's index, `.dev.vars` only once a run for another framework has
found there what a Worker's run left, and from then on every `add` takes it.  `RerunAlwaysRepairs` rests on `DirectoryInv` (a path holds the
text of a run that has such a file, and a complete run finds its own in all its files but
the secrets, which the user may copy over) and on `FilesByName`, which turns the ordered
list of files into sets of names; then `WorkersFit` and `NodeFits` go through the templates.

Every invariant, action property and refinement of the passing runs is stated by one of
these theorems.  Only model-checked: everything with fairness (`EventuallyClosed`,
`EveryUpdateEnds`, `KeptVoucherSettles`, `EveryCallEnds`, `SettlesInTheEnd`), which is beyond the prover.  `ServedCallsStayBilled` and `NoLostUpdate` are violated in general
and proved under the switches named above; `RolledBackCallsUnpaid` and `PostedCloseIsKept`
are violated and have no theorem.

## Findings

Four runs show that the code does something else than its docs and comments say; the
lines are in `PROJECT.json`.

- `SessionLostPayment`: a rollback writes back the voucher read before its own
  verification, whatever was accepted since.  A call that was served meanwhile is never
  billed, though "rollback affects the most recent voucher only".  For the same reason
  overlapping failures can revive a voucher that had been rolled back.
- `SessionRollbackRace`: the finalized flag is set after the close transaction, not
  when it is submitted; a call rolled back in between is paid.  The other direction
  exists too: a call served while a close is under way is not in it.
- `RedisLostUpdate`: two updates of one process on one key share its connection; the EXEC
  of the first drops the watch of the second, which then overwrites it.
- `MeteredLostClose`: `mppMetered` hands `persistMeteredCloseVoucher` the wrong object;
  it throws, the exception is only logged, and nothing is kept for the reaper.

Seen while modelling, with no run of their own:

- The guide says (`kit/docs/service-builder-guide.md:269`) that "the kit enforces monotonic
  advance via `assertVoucherAdvances`"; nothing in the repository calls it, and a voucher that
  was used before is accepted again by `mppGated` and runs the handler again.
- Money log: a preCheck that answers `ok: false` logs nothing, though
  `kit/src/logger/index.ts:60` lists "returned false" for the stage.  Only hono emits
  `request_completed` (fastify never, hono not after `already_done`), though
  `kit/src/mpp/mppx.ts:59-61` says that adapters do.
- `adapters/fastify/src/gated.ts:256-258` re-challenges a call without a payer because "client
  can retry"; for a charge the credential is spent by then, and the retry pays again.
- A proof or charge credential whose source is not a `did:pkh` address is verified, and for a
  charge settled, before it is found to have no payer (`PaidCallsAreLetIn` names it).
- Scaffolder: the health probe asks for `app.ctx.db` by the storage alone
  (`cli/src/templates/routes-health.ts:4`), so a charge service with Postgres does not compile
  and its `/healthz` would answer 503 (`kit/README.md:254` counts healthz as wired); its README also
  names `pnpm db:generate`, which it does not have.  Framework `none` imports fastify without
  depending on it.  `RerunRepairs` states both as exceptions.
- The seeded `.env` has the wallet and `MPP_SECRET_KEY` only; `parseEnv` also requires
  `PUBLIC_BASE_URL` and `TEMPO_RPC_URL`, so the scaffold does not run "out of the box"
  (`commands/create.ts:255`).  The generated README's first step copies `.env.example` over `.env`,
  which holds the only copy of the key, and its second says of an address-only wallet that
  the key is in `.env`.
- A Worker with an address-only wallet has its generated address in no file:
  `wrangler.toml` gets 0x0 (`templates/hono-workers.ts:50`).  Session on Workers is coerced to
  charge after prefunding was offered and perhaps done.
- Running `create` again overwrites an older key; a Worker's directory scaffolded again for
  Node commits `.dev.vars`, and a third run for a Worker then commits that key too, since git
  goes on tracking the file; files of other answers stay and may break `pnpm typecheck`.
- A close whose receipt was lost reverts as benign on each later try and never marks
  the record finalized; `FinalizedMatchesEscrow` is an implication for that reason.
- The guide says (`kit/docs/service-builder-guide.md:380`) that a handler that never
  calls `settle` is billed `maxAmount` with a `payment_failed` event of reason
  `metered_fallback`; the code emits `payment_metered_settled` with `fallback: true`.  Line 394 passes the store where `persistMeteredCloseVoucher` takes
  the bundle.  The comment at `adapters/hono/src/metered.ts:179` names
  `closeSessionOnChain` for the reaper, which the kit warns against.
- The charge route promises that a retry is not charged again (`routes-things.ts:230`);
  when the lookup fails, or two retries are concurrent, the retry is refused as spent
  and answered with a new challenge.  A missing payer after the charge is not logged.  A
  `create` that fails late leaves a resource and a refund.
- The route logs a failed create as `post_settle_create_failed_refund_needed`, with its
  chargeHash and reason.  Operators who search for `paywrap_refund_owed`, as
  `kit/docs/operations.md:62` and `:100` have them do and `kit/docs/list-on-zero.md:164`
  promises, never find it.
- ioredis reconnects by itself (`kit/src/mpp/mppx.ts:85` and the template `worker.ts:31`
  leave its default), and the new connection watches nothing: an update that is between
  GET and EXEC then overwrites what another process has written since.  `Reconnects` lets
  the model do it.
- `refundCharge`'s comment both forbids a second call (line 113) and asks for a retry
  when the node is unreachable (122); after a lost answer the retry pays twice, which is
  why `RepaidOnce` counts unanswered transfers.
- x402: a payment whose settle answer was lost is taken and answered 402.  A
  structured `success: false` runs neither of the factory's hooks.  `isValid: false`
  of an earlier facilitator is final; only exceptions move on to the next.

## What is abstracted

- A voucher is its cumulative amount: the signature covers channel and amount.
  Amounts are counted in the smallest price.  Channels are independent by key, so one
  is modelled.
- `highestVoucher = null` and amount 0 are one value; the kit always writes them
  together.
- The store's update is one step in the channel models, and one that is rejected has not
  been applied.  `RedisStore` says when the first is so, which with a shared or breaking
  connection it is not, and that the second need not be; `GatedService` has rejected
  writes that were kept.
- Redis: a rejected EXEC that was carried out took effect before the rejection reached its
  caller.  What ioredis resends after a reconnect is not modelled.
- `SettleOnChain` updates contract and record in one step, as the comment at
  `kit/src/mpp/rollback.ts:97-99` assumes; who records such a settle is outside the
  repository.
- mppx (external): verify accepts an equal or lower voucher without effect (comment at
  `kit/src/mpp/verify.ts:23-30`), charges `maxAmount` to `spent` for a metered call
  (`adapters/hono/src/metered.ts:185-188`), closes a channel in one step, and settles a
  charge once, or throws and has not charged.
- The buyer prices a call above those it had a 200 for or that are under way, and does
  not count a failed one, which is what `refundOnFailure` tells it.
- The charge route is offered charge credentials only.  `GET /:id` changes nothing.
  The fingerprint is the credential.  Operators (external) search for what the route writes.
- x402: a success a client reports is real; the handler's place before or after
  settlement changes nothing in the chain of clients.
- Logging is left out of the channel and charge models except the refund log, which the
  operators read; `MoneyLog` has the events of `mppGated`, as counts.
- Gate: the scope is part of the credential; claimed payers are only handed to the
  hook.  preCheck's `already_done` is told for credentials whose handler has succeeded,
  which is what its record is for.  `Propagate` stands for KV's consistency window.  What
  `onError` makes of a thrown error is the app's.
- Scaffolder: a file's text is the run that wrote it.  Packages are grouped by the choice
  that brings them; prices, names and scopes do not matter to any property.  A partial
  write leaves a prefix of the files and perhaps a torn one.  A torn secrets file counts as
  one without a key.  The user does not run git between the runs.

## What is not modelled

Request signing (`kit/src/signing`) builds signed credentials for tests, without state or
branches; what it produces are the credentials the calls carry.  Crypto and proxy are a
call each, health aggregation one `Promise.all`, manifest and OpenAPI formatting of what
the seller configured.  The CLI's `check`, `prefund`, `generate-wallet` and
`generate-secrets` do one thing and print it.  The test helpers and the example worker have no
state of their own.  `fingerprintCredential` and `encodeSessionReceipt` are a hash and an
encoding.  The session variant of the scaffolded routes is a TODO behind the same verify as
`mppGated`; only its imports are modelled.  Formats and encodings of headers, receipts and
events are left out everywhere.

## Running it

    tlc -workers 2 -config SessionSafety.cfg MCSessionChannel
    tlapm SessionChannelProofs.tla

and likewise for the others: `PROJECT.json` (`runs`) pairs each `.cfg` with its module.
The runs take between a second and two and a half minutes, the proofs a few minutes in all.
