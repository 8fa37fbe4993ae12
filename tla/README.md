# Formal verification of Chrima

Chrima sells access to Discord guilds for on-chain payments. A payment is a log of the
`ChrimaPayment` contract; a chain of workers turns the log into a row, an event, a Kafka
record, and finally a role or an invitation in Discord. This directory holds TLA+ models of
those workers and of the other concurrent parts, TLC instances that check them, and proofs
that TLAPS checks. Paths below are relative to `src/src/chrima/` unless they start with
`src/`.

Contents: [1 inventory](#1-inventory), [2 modules and the code](#2-modules-and-the-code),
[3 runs](#3-runs), [4 fairness](#4-fairness), [5 proofs](#5-proofs),
[6 disagreements found](#6-disagreements-found), [7 mutants](#7-mutants),
[8 limits](#8-limits), [9 plan](#9-plan).

To reproduce: `tlc -config <cfg> <MC module>` for each row of the tables in section 3, and
`tlapm <module>Proofs.tla` for section 5.

## 1 Inventory

### Components

| Component | State it keeps | Operations | Modelled in |
| --- | --- | --- | --- |
| `EthListener` (`transaction/service/listener.py`) | `eth_blocks`, `transactions`; in memory `from_block`, `on_chain` | scan a range, record its payments, recover the last range | `EthListener` |
| `OutboxEventPublisher`, `OutboxPoller` (`event_bus/`) | `event_outbox` | publish in a transaction; fetch, send, mark | `Outbox` |
| `TransactionOrchestrator` (`transaction/service/orchestrator.py`), with `DiscordMembershipService` and the token half of `DiscordService` | Kafka offset, `discord_access_tokens`, guild membership | fulfil a purchase, notify, commit the offset | `TransactionOrchestrator` |
| `PriceSyncService`, `ProductSyncService` (`price/service/sync.py`, `product/service/sync.py`) | Kafka offsets, the signer's nonces, the contract | copy prices and wallets to the contract | `ContractSync` |
| `SubscriptionExpiryChecker`, `SubscriptionBalanceService.cancel` (`subscription/`) | `subscription_balances` | warn, expire, cancel | `SubscriptionExpiry` |
| `NotificationPublisher`, `NotificationPoller` (`notification/`, `email/`) | `notifications`, `notification_channels` | store; fetch, send, mark, retry | `NotificationPoller`; the publisher also as a step of its callers |
| Billing: `BillingService`, the Stripe provider and listener (`billing/`) | `billings`, `billing_webhook_events`, `users.tier`, Stripe | checkout, webhooks, cancel | `Billing` |
| Catalog: `PriceService`, `ProductService`, `WalletService`, `WorkspaceService` | `prices`, `products`, `wallets`, `workspaces`, the events they write | create, update, delete, publish | `Catalog`; deletions also as environment of the workers |
| Auth, `UserService`, `JWTService`, the owner's half of `DiscordService` (`auth/`, `user/`, `jwt/`, `discord/router.py`) | `users` (one valid token each), `user_discord_access_tokens`, cookies | register, login, logout, select a workspace, change the profile; OAuth callback, Discord queries | `Account` |
| `TokenService`, `AnalyticsService` | - | read-only queries | no |
| Discord bot, REST frame, encryption, monitoring, CLI, seeder, migrations, infrastructure | - | glue and pure functions | no (what a session, a consumer or a foreign key does is in the callers' models) |

### Interactions

    ChrimaPayment --log--> EthListener --row + event--> event_outbox --OutboxPoller--> Kafka
    Kafka transaction-events --> TransactionOrchestrator --> Discord, notifications
    owner --> Price/Product/WalletService --tables + events--> event_outbox --> Kafka
    Kafka price-events, product-events --> PriceSync, ProductSync --> ChrimaPayment
    clock --> SubscriptionExpiryChecker --> subscription_balances, notifications <-- cancel requests
    notifications --> NotificationPoller --> Discord, email
    Stripe --webhooks--> BillingService --> billings, users.tier, event_outbox, notifications
    browsers --cookie--> auth, discord routers --> users, user_discord_access_tokens --> Discord

Every arrow crosses a process boundary; every worker is one container that is restarted when
it ends (`src/docker-compose.yaml`). The processes share the database, where they meet in
transactions and row locks; PriceSync and ProductSync share the key they sign with.

### What is hard here

- **Two records of progress that cannot be committed together**: rows and checkpoint, Kafka
  and outbox mark, Discord and Kafka offset, contract and Kafka offset, notification and
  balance. A failure between the two repeats work or loses it.
- **Failure as control flow**: the consumers and the listener catch nothing, so each exception
  is a restart. Something that always fails blocks what comes after it.
- **Stale reads**: the checker works on rows read once; the orchestrator uses a refreshed
  token that is not stored; the sync workers read a nonce another process may use.
- **Own transactions inside others**: publishers given no session commit by themselves.
- **Offsets**: a consumer without one starts at the end of its topic, and PriceSync never
  commits any.
- **Two systems of record**: Stripe and `billings`, Discord's grants and the stored tokens.
  Neither pair can be changed in one transaction, and the other side speaks by itself.
- **Overlapping requests**: a request checks, computes and commits in one transaction, but what it
  has read (a token, a row, that nothing uses a wallet) may be old by then.

`PROJECT.json` lists each hazard at its line with the properties that cover it.

### What makes each component correct

- Listener: no payment of a scanned block is lost; rows and events agree; duplicates are owed
  to crashes; every payment is eventually recorded.
- Outbox: no mark before the record, no record of a rolled-back transaction; duplicates owed to
  failures; every event that can be sent is sent.
- Orchestrator: the offset stays behind the work; confirmations are true; notifications are
  few; tokens are not wasted; records are passed unless one can only fail.
- Contract sync: receipts are the own ones; the offset stays behind the contract; no older
  value after a newer one; bounded resends; the contract ends current.
- Subscriptions: few notifications, a cooldown apart and true; a cancellation has its event;
  every active balance is told before it is forgotten.
- Notifications: copies are owed to failures; what is marked was delivered; a row is given up for a
  reason; rows that can only fail do not starve the others.
- Billing: a payment takes effect once; cancellations are announced when real; tier and row agree;
  the database comes to agree with Stripe.
- Catalog: no product without its wallet; the events name what is in force; every request ends.
- Accounts: the valid token tells the truth and is in a browser; a logout holds; a link to Discord
  is not lost and stays readable.

## 2 Modules and the code

`AtLeastOnce` is the abstract specification of one stage of the pipeline: items are accepted,
handed on, and settled only after they have been handed on. `EthListener`, `Outbox`,
`TransactionOrchestrator` and `NotificationPoller` each implement it (`IsAtLeastOnce`, an
`INSTANCE ... WITH` of it): a payment is handed on by its rows, an event by its Kafka records, a
purchase by the end of its Discord part, a notice by its messages.

**EthListener.** One action per await of `listen()`: `BootFresh`/`BootResume` (lines 55-77, the
latter with the recovery of the newest checkpoint), `Checkpoint` (79-102, a commit of its own),
`Fetch`, `ProcessEvent` (one log: skipped if product or price are gone, else row and event in
the open transaction), `CommitScanned`/`CommitRecovered`, `Crash` at every point. `staged` is the
open transaction. A log is a payment of which only the block matters. `Mine` and `Delist` are the
chain and the owner; `Delist` waits for a staged row, which holds a key-share lock on its parents.

**Outbox.** `Publish`, `CommitTx`, `RollbackTx` are a service's transaction; `Fetch` is the query
with its order and limit (the time stamps are whole seconds, so ties are a choice); each record of
a batch is then rejected, acknowledged or timed out on its own, as `asyncio.gather` runs them, and
a timed-out record may arrive later; `Update`, `UpdateFails` and `Crash` end the batch.

**TransactionOrchestrator.** `Start`, `TakeMessage`, `LookupFails`, the Discord part (`FindMember`,
`NoToken`, `ObtainToken`, `RefreshFails`, `Join`, `Grant`, `Refuse`), `Notify` and
`NotifyAgain` (each committed at once), `CommitSession` (stores a refreshed payload),
`CommitOffset`. `Die` is an exception: the session is rolled back and the process ends. Discord may
or may not invalidate a refresh token it has honoured; both are modelled. What makes an event fail
however often it is tried is its `obstacle`: the product or the price is deleted, or an id is no
number (`int()` of what the buyer or the owner gave, lines 88, 159, 160), for good; the bot is not in
the guild (`discord/service/membership.py:66-68`), Discord does not let the customer in (line 53), or
the guild lacks the role (line 91), until somebody sets it right (`Obstruct`). Where the code
would meet it, `LookupFails` or `Refuse` ends the process; `refused` remembers whose purchase it was,
because a token may have been refreshed before. As a stage the
orchestrator is responsible for what Kafka stores, and settles it with the committed offset.

**ContractSync.** The two workers are one set of actions with a parameter. `sent` is the signer's
account: transactions in nonce order, `mined` of them in a block. `Send` succeeds when the nonce
read is still the next; when another process has used it the node answers "nonce too low" if that
transaction is mined (`Retry`, three times in all) and otherwise something else (`GiveUp`).
`SendUnanswered` is a transaction accepted whose answer is lost. Only the product worker commits
offsets; the price worker's `ResumeAt` is always the end of the topic. The topic may repeat
events, as the outbox may.

**SubscriptionExpiry.** The checker's `Select` reads the rows and the clock; for each row `Look`
(product and workspace), `Notify` (committed at once), `Flush` (the update in the open
transaction, which takes the row lock); `CommitCheck` writes all rows. SQLAlchemy writes only
changed columns, so the status is not written when it was EXPIRED already (`wasExpired`). A row
deleted in between makes the update raise (`FlushFindsNothing`) and the check fail as a whole. A
cancel request is `Read`, `Update` (waits for the row lock), `PublishCancelled` (committed at
once), `CommitCancel`, or `Abort`. Requests wait for the checker and the checker for requests, but
a request holds one row only, so they do not wait for each other in a circle.

`create`, `increase_balance` and `process_cycle` of `SubscriptionBalanceService` have no caller
in the running system. They are not modelled: balances exist from the start.

**NotificationPoller.** A row is a notice and a channel. `Publish`, `CommitTx`, `RollbackTx` are the
caller's transaction; `Fetch` takes the oldest rows that are not COMPLETED and have retries left;
`Emit` is one send of the batch: `Reject` (a type the poller does not parse or the channel's templates
do not render, a recipient Brevo refuses), `Vanish` (a Discord channel the client does not know: no
error), `Deliver`, `TimeOut` (delivered or not). `Update` writes the batch in one statement and adds
one to `retries` of every row of it; `Abandon` is a crash or an update that fails. Three oddities
make variables unnecessary: `expires_at` is set by no caller (the query's comparison with it is the
wrong way round), `Notification.status` is never updated, and the EMAIL rows the orchestrator stores
carry a Discord user id as recipient, which is one reason why a notice is not `Mailable`. As a
stage the poller is responsible for the committed rows except those that `Vanish`, and settles a row
with the COMPLETED mark.

**Billing.** Stripe is environment: `Pay`, `End`, `StripeDeletes`, and webhooks that are delivered
until one delivery is answered, to several requests at once and in any order. `Deliver` is the
reads of a request, `Record` its commit, with the unique key on the event (`Duplicate`), and
`Activate`, `CancelByWebhook`, `IgnoreDeletion` what it does. A cancel request is `LoadBilling`,
`CancelAtStripe` (or refused, or unanswered), `CommitCancel`; it and every webhook can fail
anywhere. SQLAlchemy writes the columns that differ from what was read, so a commit on a stale row
changes less, or more, than intended: `overwrote` remembers that this happened. A deletion that
comes before its completed checkout, or for a subscription the row names no more because a second
checkout replaced it, has no effect (`ignored`).

**Catalog.** A request `Begin`s (its connection, its reads and checks), then commits or is refused
by a foreign key. Product and wallet events are part of the request's transaction; a price event is
published (`PublishPrice`) in a transaction of its own, on a second connection, before the price is
committed, so it may announce what is never committed. An update of a price without an amount
announces the amount it has read. `BaseEvent.timestamp` is taken in whole seconds when the event is
made, and is the order in which the poller takes wallet events. `PoolTimeout` ends a request that
waits too long for its second connection. Names, descriptions and platforms are data; a request that
changes nothing else, among them `WorkspaceService.update`, changes nothing the model holds.
`disturbed` remembers which products and prices have had requests that overlapped, or one that
failed after its event was out. The definitions carry a prefix where `ContractSync` has one of the
same name, so that `CatalogSyncProofs` can extend both.

**Account.** Requests of one user overlap, from several browsers. `Begin...` checks the token the
browser sent (`Authenticated`) and what the service looks up; `Commit` writes a new token and what the
request was for; `Receive` or `LoseAnswer` end it. A new token is made from the row for a change of
the profile, but from the token that was sent for a selected workspace. `ExchangeCode`,
`RefreshAccessToken`, `EndQuery`, `CommitLink`, `NotFound`, `Fail` are the owner's side of Discord:
Discord replaces the grant when it is refreshed, and the replacement is stored when the request
commits. A row of `user_discord_access_tokens` has the Discord account it names (`id`), the one its
payload was encrypted for (`aad`), the number of the grant, and whether it has expired. A callback reads
the row when it stores (`discord/service/discord.py:286`), a query before it asks Discord (line 118);
both then write the columns that differ from what they read (`Written`), so that a query writes the payload
and not the account. A callback that read no row inserts one, and fails if another has inserted
it by then (`DuplicateLink`). `crossed` remembers whose last callback overlapped another request of
the user. SQLAlchemy's identity map holds rows weakly, so that a handler reads the user again instead
of using what the dependency had read, but a service that keeps a row across an await works on that
object. Users are not deleted; tokens do not expire.

Data are abstracted to what the properties tell apart: amounts, addresses, guilds and texts are
model values; an event is its identity.

The modules whose name ends in `Proofs` hold the proofs, those that start with `MC` the instances.

## 3 Runs

All runs that must pass use the unmodified specification with its fairness (`Account` has none),
and check safety and liveness together. `CHECK_DEADLOCK FALSE` is set because the bounds end
the behaviour (no more blocks, records, time or failures).

| Run | Configuration | Bounds | Shows |
| --- | --- | --- | --- |
| `listener` | `MCEthListener.cfg` | 2 payments, window 2, 5 blocks, 2 crashes | `NoPaymentLost`, `RowsMatchEvents`, `DuplicatesBoundedByCrashes`, `IsAtLeastOnce`, `EventuallyRecorded` |
| `outbox` | `MCOutbox.cfg` | 3 events, one unparseable, batches of 2, 2 failures | `OnlyCommittedPublished`, `DuplicatesBoundedByFailures`, `IsAtLeastOnce`, `EventuallyCompleted` |
| `orchestrator` | `MCTransactionOrchestrator.cfg` | 1 customer, an invitation and a role, 3 records, 1 failure | `NotificationsBounded`, `ConfirmedHasAccess`, `TokenLostByFailureOnly`, `IsAtLeastOnce`, `EventuallyPassed` |
| `contract` | `MCContractSync.cfg` | 2 records per topic, 1 failure per worker, an unsendable price | `ReceiptIsOwn`, `SubmittedInOrder`, `CaughtUpMeansCurrent`, `ProductEventuallyPassed` |
| `expiry` | `MCSubscriptionExpiry.cfg` | 2 balances, 1 cancel request, 5 points in time, 1 failure of each kind | `NoticesBounded`, `CooldownKept`, `ExpiredWasTold`, `CancelledHasEvent`, `EventuallyTold` |
| `notification` | `MCNotificationPoller.cfg` | 3 notices with 5 rows, batches of 2, 2 retries, 2 failures | `CopiesBounded`, `CompletedUnlessUnknown`, `GivenUpForCause`, `IsAtLeastOnce`, `EventuallySettled` |
| `billing` | `MCBilling.cfg` | 2 subscriptions of one user, 2 deliveries at a time, 1 cancel request, 1 failure | `AnnouncedTruly`, `TierFollowsBilling`, `SettledAgrees`, `EventuallyAgrees` |
| `catalog` | `MCCatalog.cfg` | 2 wallets, 1 product with 1 price, 2 requests at a time on 2 connections, 4 requests, 2 seconds, 1 failure | `NothingDangles`, `WalletEventsCurrent`, `PriceEventsCurrent`, `EventuallyAnswered` |
| `account` | `MCAccount.cfg` | 2 users, 3 browsers, 2 emails, 2 Discord accounts, 2 requests at a time, 4 requests, 1 failure | `TokenIsCurrent`, `SessionHeld`, `LinkHonoured`, `LogoutHolds` |

Type correctness is proved (section 5) and therefore not part of the runs; nor are a few invariants
that a listed property contains, as the orchestrator's `IsAtLeastOnce` contains `OffsetBehindWork`,
which is proved. Three more runs state what a document or a test says and find it
violated (section 6).

Why the bounds suffice for the cases that matter:

- *Listener.* With a window of 2 (10 in the code) and five blocks a scan needs several ranges, a
  restart finds finished and unfinished ones, and two crashes reach a crash during the recovery
  from a crash. Two payments fall in one range, in neighbouring ones, or one on the block
  two ranges share.
- *Outbox.* Three rows and batches of two make the limit and the order matter; one event that can
  never be sent is one less than a batch, the most the liveness property allows. Two failures
  cover a timeout followed by a crash or a failed update.
- *Orchestrator.* Three records of two events contain a duplicate; both purchases share one
  token. Every obstacle may be there, come and go at any time, between any two steps of the
  handler. A failure at any await repeats whatever came before it; what any number of them does is
  proved (section 5).
- *Contract.* Each worker can lose the nonce to the other, retry, give up, and restart with its
  transaction still waiting. Two wallets of one product make "newest" mean something.
- *Subscriptions.* A cooldown of two intervals, and two attempts; one balance ends during the
  first checks and one later, so warning and expiry, in one check and in several, both occur.
  The request may fall on either balance, before, during and after a check. That two requests
  for one balance do no harm is part of what is proved. `expiry_last` uses the deployed
  proportions: a window of two cooldowns.

- *Notifications.* Of five rows two can be sent, two can only fail, and one names a channel the
  client does not know: more rows than a batch, and a batch that can only fail. Two failures may use up
  both retries of one row, or hit the same batch twice.
- *Billing.* Two subscriptions, so that a row can be replaced while the first is cancelled, deleted or
  still to be recorded; two deliveries, of one event or of two; one cancel request
  may meet each of them between its read and its commit. Several cancel requests at a time are
  part of what is proved.
- *Catalog.* Two requests fill the pool; a third and a fourth see what the first two left. Two
  wallets and amounts make "current" mean something; two seconds, that stamps may tie or not.
- *Accounts.* One user with two browsers gives overlapping requests, old cookies and answers that
  cross; the other user competes for an email. With two accounts at Discord a callback may name the
  account of the row it finds or another one. Four requests suffice for a registration, a
  request in each browser that overlaps the other, and one that follows.

Symmetry is used in `account` only, of one user's two browsers, of the accounts at Discord and of the
slots for requests, where no liveness is checked.

## 4 Fairness

Weak fairness only, of the steps of a worker: every container has `restart: unless-stopped`, a
worker waits for one thing at a time, and each await ends or raises (Kafka sends and Discord
sends have timeouts, receipts time out, the database driver raises). Failures themselves are
bounded in each model; without that, no worker that repeats its work after a failure would make
progress, in the code either. In particular:

- The listener needs no fairness of `Mine`: a payment already mined is found at the head known.
- The poller's `Fetch` is fair as a whole, not per row: rows starve when unsendable ones fill a
  batch, which `EventuallyCompleted` excludes by its constants.
- Orchestrator and product worker: one fairness condition for whatever the next record leads to.
  `EventuallyPassed` says that again and again the consumer has passed every record, or the next one to
  be passed can only fail as things are (`CanOnlyFail`: a lookup, the guild, the join, the role or a
  token used up). So an obstacle that is removed for good keeps no record waiting. One that stays blocks
  the consumer, and all later records, for ever; the model shows that and the code does nothing about it.
- `ContractSync` assumes fairness of `Mine`, the chain taking up the signer's transactions.
- `SubscriptionExpiry` assumes that time passes. Requests are fair once begun.
- `NotificationPoller`: every send ends or times out, and batches are fetched and written.
- `Billing`: Stripe redelivers a webhook until it is answered (`Deliver`, for each event), and a request
  that has begun goes on. Nobody has to pay, cancel or begin.
- `Catalog`: a request that has begun goes on, if only by the pool's timeout.
- `Account` has no fairness: what it promises is safety.

## 5 Proofs

TLAPS proves the following for every value of the constants, from the named assumption of each
module (`ListenerAssumption`, `OutboxAssumption`, `OrchestratorAssumption`,
`ContractSyncAssumption`, `ExpiryAssumption`, `PollerAssumption`, `BillingAssumption`,
`AccountAssumption`, `CatalogAssumption`), which say that bounds are numbers, that windows, batches,
intervals, retries and attempts are positive, that "none" is not a value, and that products, prices and
wallets are rows of different tables. TLC evaluates them in each run.

| Module | Theorem | States |
| --- | --- | --- |
| `EthListenerProofs` | `TypeCorrect`, `NoGap`, `CompletedMeansRecorded`, `RowAndEventTogether`, `NothingLost`, `DuplicatesBounded`, `ImplementsAtLeastOnce` | every safety property of the listener, and the refinement |
| `OutboxProofs` | `TypeCorrect`, `CompletedImpliesPublished`, `NothingUncommitted`, `DuplicatesBounded`, `ImplementsAtLeastOnce` | every safety property of the outbox, and the refinement |
| `TransactionOrchestratorProofs` | `TypeCorrect`, `NoRecordSkipped`, `ConfirmationsTrue`, `NotificationsFew`, `TokensNotWasted`, `ImplementsAtLeastOnce` | every safety property, and the refinement |
| `CatalogSyncProofs` | `TypeCorrect`, `OwnReceipt`, `InOrder`, `OffsetCoversContract`, `ResendsPaidFor`, `ContractIsCurrent` | every safety property of `ContractSync` |
| | `CatalogTypeCorrect`, `NoDangling`, `WalletEventsRight`, `PriceEventsRight` | every safety property of `Catalog` |
| | `PaidToItsWallet`, `PaidInStampOrder` | what follows for the two together: the contract pays a product's wallet |
| `SubscriptionExpiryProofs` | `TypeCorrect`, `FewNotices`, `CooldownHolds`, `ToldTheTruth`, `CancellationAnnounced` | every safety property |
| `NotificationPollerProofs` | `TypeCorrect`, `CopiesFew`, `CompletedMeansDelivered`, `NothingGivenUpLightly`, `ImplementsAtLeastOnce` | every safety property, and the refinement |
| `BillingProofs` | `TypeCorrect`, `AnnouncementsTrue`, `TierRight`, `AgreesAtRest` | every safety property |
| `AccountProofs` | `TypeCorrect`, `EmailsUnique`, `TokenRight`, `TokenInBrowser`, `LinkKept`, `LogoutRespected` | every property, `LogoutRespected` being one of actions |

The inductive invariants, and why the properties need them:

- **Listener.** `IndInv` adds `LocalState` (how `from_block`, `on_chain` and the newest checkpoint
  relate in each phase), `RangesOnChain`, `WaitingIsFinished` (the newest checkpoint is complete
  while the loop waits) and `NothingDropped` (every payment in the range in work is still to be
  processed or is staged). Gap-freedom alone is not inductive: that the next range starts where
  the last ended depends on `on_chain`. `NothingLost` follows from gap-freedom,
  `WaitingIsFinished` and `CompletedRangesRecorded`. The bound of duplicates is a second
  invariant, `DuplicateInv`: blocks beyond the frontier hold no recorded payment, and what a crash
  adds depends on the phase it hits. The refinement needs that payments are only recorded from a
  checkpointed range.
- **Outbox.** An event whose acknowledgement the poller holds, or has recorded (`Acknowledged`), is
  in Kafka; `BatchOpen` says that the rows of a batch are not marked yet; `RecordsPaidFor` counts
  stored and late copies together: as many as failures, and one more once acknowledged.
- **Orchestrator.** `AccessInv` relates positions, offset and phase (`Positions`, `DiscordDone`).
  `CountInv` compares notifications with the records *already told of*, a frontier that falls back
  to the resume point on a restart; each fall costs a crash, all others happen before `Notify`.
  `TokensNotWasted` needs in addition when the session holds a refreshed payload
  (`RenewedInHandler`), and that a handler which ends with one in it is counted: as a failure, or as a
  refusal of its customer's purchase. The refinement needs that the offset, once set, lies above `base`
  (`OffsetSet`), so that what it has passed stays passed.
- **ContractSync.** `Positions` bounds offset and position; `SentSoFar` bounds the records of a
  worker's transactions by its position; `OffsetEarned` says that the offset about to be committed
  is earned. `CountInv` counts a record's transactions against failures, with a frontier again.
  `ContractIsCurrent` takes the last mined transaction of a product (well-foundedness) and shows by
  `SubmittedInOrder` and `OffsetBehindContract` that it is the newest record's.
- **Subscriptions.** `SelectedInv` carries what the query established to the notification,
  `LastInv` relates the last notification to the columns (or to a failure since), `CountInv` counts
  notifications against attempts, failures and the one not yet committed, and `PublishedFirst`
  relates a request's phase to its event.
- **Notifications.** `CopiesPaidFor` counts the copies of a row against failures, with one more once
  the send has succeeded (written or not); `AttemptsPaidFor` counts the failed attempts of a row
  that can be sent, the one not yet written included. Both need `BatchOpen`: the rows of a batch are
  neither marked nor out of retries. The refinement needs it too: a batch writes the status of all its
  rows, and must take no COMPLETED mark back.
- **Billing.** `RaisedAgrees` ties Stripe's events to its state, `HooksRaised` what is under way to
  the events. Why a stale row does little harm: `RowsRecorded` (no row, read or stored, names a
  subscription whose activation is not recorded), `CancelledStays` (CANCELLED is final for a
  subscription) and `DeletionSettled` (a recorded deletion has ended the row, or was
  ignored). `CancellationsPaidFor` counts announcements against the deletion's webhook and the one
  request that Stripe obeyed (`CalledOnce`).
- **Accounts.** `SessionInv`: a request that has run alone so far is the user's only one
  (`AloneIsOnly`), and so what it has read is still true (`AloneIsCurrent`); an answer under way carries
  the valid token (`AnswerIsCurrent`), which is in a browser or under way (`TokenHeld`). `LinkInv`: each
  grant carries the number of the request that obtained it, so that no two are alike (`GrantsFresh`,
  `SeenFresh`), and one that is not stored yet is honoured (`ObtainedHonoured`). That the row can be
  decrypted rests on the row a request works on: rows do not vanish (`RowsKept`), and the one read names
  the same account as the one stored unless a callback has come between (`RowsAgree`).
  `EmailsUnique` is the part no instance needs to show: every commit of an email is checked by the
  unique key, whatever was read before.
- **Catalog.** `CatalogInd` has a part for requests, one for wallet events and one for price
  events. Requests: a row a request has read has been created, one it creates has not (`RowsRead`);
  a product stays while an uncommitted price refers to it (`LockHeld`); a request that has run alone
  is the only one for its object (`AloneIsOnly`). Wallet events: each product has a last event and it
  names the wallet (`WalletNamed`; that there is a last one is carried as a fact, since it cannot be
  had by induction), and a request that runs alone began after every earlier event of its product was
  committed (`AloneAfterAll`), so that its stamp is not older. Price events: a price at rest agrees with
  its last event (`QuietAgree`), and what a lone request has announced or read is still so
  (`AloneTold`, `AloneUnchanged`). That stamps may be compared (`NewestEventIsCurrent`) holds while
  requests are under way too; that they did not overlap is needed.
- **Catalog and ContractSync together.** `PaidToItsWallet` and `PaidInStampOrder` are about
  `CatalogSpec /\ Spec`: the owner's requests and the product worker at any speed, with any retries
  and failures of either. They say that a product that has a wallet is paid to it, when the worker
  has passed its whole topic, the wallets it did not find are deleted ones (`CaughtUp`), and the
  last record of the product in the topic, one the worker had to read, is its last event, by the
  order of the commits (`LastInOrder`) or, for a product that is not `disturbed`, by a stamp newer
  than all others (`LastByStamp`). These premises are what the outbox has to provide, and it
  guarantees neither order (section 8). The argument: the last event names the wallet in force
  (`WalletAnnounced`); that wallet exists (`NothingDangles`), so the worker did not pass the record
  as void; then the contract holds what it says (`CaughtUpMeansCurrent`).

Only model-checked: liveness, since fairness and ENABLED are out of this prover's reach. No
RECURSIVE operator is used. Facts about data by induction are avoided: counts are cardinalities, and
order is a quantifier.

## 6 Disagreements found

| Run | Property | What the repository says | What the code does |
| --- | --- | --- | --- |
| `contract_price` | `PriceEventuallyApplied` | `src/README.md:112`, offset only after success | the price worker never commits an offset and restarts at the end of its topic; losing a race for a nonce is enough to lose a price |
| `expiry_last` | `LastAttemptExpires` | `src/test/subscription/test_expiry_checker.py:242-244`, EXPIRED when the attempts are used up | with the deployed settings both attempts go into warnings, and the balance stays ACTIVE |
| `notification_delivery` | `CompletedWasDelivered` | `src/README.md:217`, the bot delivers notifications | the poller's own client is never started and knows no channel: the send ends without an error and the row is COMPLETED |

Four more, which the models contain and the properties make room for, but which have no run of their
own:

- `src/test/transaction/test_eth_listener.py:308` asserts one row per payment. A restart processes the
  newest range again, finished or not, and the first block of a range is the last one of the one before
  (`transaction/service/listener.py:75`); `DuplicatesBoundedByCrashes` bounds the rows.
- `src/README.md:112`, offset only after success: a purchase of a customer without a token is
  passed without access (`transaction/service/orchestrator.py:89`). `ConfirmedHasAccess` says that it
  is not confirmed; that it is fulfilled nothing promises, and `IsAtLeastOnce` counts it as handed on.
- `src/test/subscription/test_expiry_checker.py:317-331`, cancelled subscriptions are skipped: a
  cancellation after the query is overwritten with EXPIRED, and notified of
  (`subscription/service/expiry_checker.py:127`).
- `src/README.md:110`, the event in the transaction of the operation: `cancel` publishes in a
  transaction of the event's own (`subscription/service/subscription.py:198`), and so do the
  changes of prices (`price/service/price.py:116`).

Behaviour no document speaks of, and the properties say: a cancellation
may overwrite a newer activation, or an activation keep the CANCELLED it did not read
(`overwrote`); a user who pays for a second subscription keeps paying for the first, which no
request can cancel any more; a request that selects a workspace copies the email of
the token it was sent, and one that overlaps a logout undoes it; a Discord query that
refreshes the token and then finds no guild, channel or role loses the token with its rollback,
so that later queries fail until the owner links again; an owner who links another Discord account
while a query refreshes the token of the first is left with a row that names the new account and whose
payload was encrypted for the old one, which nothing can decrypt until the next link (`crossed`); of two
first links of one user that overlap one fails on the primary key; a purchase that Discord refuses for
good, or whose ids are no numbers, blocks the orchestrator until somebody moves its offset (`Blocked`).

## 7 Mutants

Each property of a passing run is violated by a plausible bug, a variant defined next to the
definition it replaces:

| Property | Replaced | Variant | The bug |
| --- | --- | --- | --- |
| `NoPaymentLost` | `BootResume` | `BootWithoutRecovery` | no recovery |
| `RowsMatchEvents` | `Crash` | `CrashKeepsEvents` | events in another transaction |
| `DuplicatesBoundedByCrashes` | `LastBlock` | `BeforeLastBlock` | a range repeated |
| Listener `IsAtLeastOnce` | `LogsIn` | `HalfOpenLogsIn` | last block excluded |
| `EventuallyRecorded` | `NewBlocks` | `SeveralNewBlocks` | wait for a full window |
| `OnlyCommittedPublished` | `Fetchable` | `VisibleTooEarly` | event outside the transaction |
| `DuplicatesBoundedByFailures` | `Fetchable` | `FetchedAgain` | status not filtered |
| Outbox `IsAtLeastOnce` | `Mark` | `MarkOptimistically` | mark whatever happened |
| `EventuallyCompleted` | `Fetchable` | `ForgetsFailed` | failed rows not retried |
| `NotificationsBounded` | `NextOffset` | `ThisOffset` | offset one too low |
| `ConfirmedHasAccess` | `NoToken` | `NotifyAnyway` | result ignored |
| `TokenLostByFailureOnly` | `CommitSession` | `CommitUnstored` | payload not stored |
| Orchestrator `IsAtLeastOnce` | `TakeMessage` | `TakeAndCommit` | auto-commit |
| `EventuallyPassed`, `ProductEventuallyPassed` | `ResumeAt` | `ResumeAtEnd` | offset ignored |
| `ReceiptIsOwn` | `Send` | `SendReplacing` | replace a pending transaction |
| `SubmittedInOrder` | `ResumeAt` | `RestartAtBeginning` | `earliest` without offsets |
| `CaughtUpMeansCurrent` | `Confirm` | `ConfirmUnmined` | no wait for the receipt |
| `NoticesBounded` | `Flush` | `FlushForgetting` | update forgotten |
| `CooldownKept` | `CommitCheck` | `CommitKeepingTime` | `last_notified_at` not written |
| `ExpiredWasTold` | `Expired` | `ExpiredAtEnd` | `<=` for `<` |
| `CancelledHasEvent` | `CommitCancel` | `CommitUnpublished` | event forgotten |
| `EventuallyTold` | `Selected` | `SelectedWhileActive` | past ends not selected |
| `CopiesBounded`, poller `IsAtLeastOnce` | `Fetchable` | `SentTwice` | COMPLETED rows fetched |
| `CompletedUnlessUnknown` | `Written` | `CompletedAnyway` | mark whatever happened |
| `GivenUpForCause` | `RetriesWritten` | `RetriesOfAll` | update without the batch's filter |
| `EventuallySettled` | `RetriesWritten` | `RetriesOfSuccess` | failures not counted |
| `AnnouncedTruly` | `Record` | `CommitAgain` | no unique key on the event |
| `TierFollowsBilling` | `TierAfterCancel` | `TierKept` | tier not reset |
| `SettledAgrees` | `Cancels` | `CancelsAny` | deletion of any subscription cancels the row |
| `EventuallyAgrees` | `Cancels` | `CancelsCancelled` | the status tested the wrong way round |
| `NothingDangles` | `Violates` | `NoWalletKey` | no foreign key to the wallet |
| `WalletEventsCurrent` | `Begun` | `BegunAtStart` | default time stamp evaluated once |
| `PriceEventsCurrent` | `Announced` | `AnnounceGiven` | event with the amount of the request, which may be missing |
| `EventuallyAnswered` | `PoolTimeout` | `WaitForEver` | pool without a timeout |
| `TokenIsCurrent` | `TokenOfChange` | `MadeFromCookie` | new token made from the old one |
| `SessionHeld` | `TokenWritten` | `CookieOnly` | new token not stored |
| `LinkHonoured` | `Stored` | `Unstored` | refreshed token not stored |
| `LogoutHolds` | `Authenticated` | `AnyToken` | token not compared with the stored one |

## 8 Limits

- The first range of a fresh start has 11 blocks, one more than the query limit of the RPC plan
  that a comment names (`transaction/service/listener.py:85`); the model has the range, and no
  property about the limit.
- The chain only grows; reorganisations are not modelled, although the head is scanned
  unconfirmed. Blocks before the very first checkpoint are outside every property.
- A contract transaction that is mined takes effect. The code ignores the receipt's status, but
  estimates gas first, which fails for a transaction that would revert; a price below 0.000001
  converts to zero and is such a one (`Unsendable`).
- Balances have one cycle; nothing in the running system renews them.
- Each model has one worker per container, as deployed; two pollers on one table are not modelled.
- Each topic is taken as given by its consumer's model. That the outbox sends the records of a batch
  concurrently, and rows of one second in any order, is visible in `Outbox`; `Catalog` says
  which wallet events can tie. Which order the contract needs to end right is a premise of
  `PaidToItsWallet` (section 5); what it does with a topic in another order is not modelled.
- Tokens do not expire, usernames and passwords are not told apart, users are not deleted; Stripe's
  and Discord's outages are failures of a request.
- The notification templates are modelled by the types they render; the texts are not.
- Where the code does harm of its own, a property excepts exactly that and says that nothing else does it:
  an email or a selection forgotten by overlapping requests and answers that are lost (`disturbed`), a
  billing row written over a newer one (`overwrote`), a cancellation overwritten with EXPIRED. The
  notes in `PROJECT.json` name these at their hazards.
- Crashes are bounded: a worker that fails for ever makes no progress.

### Not modelled

The API only reads through `TokenService` and `AnalyticsService`; `EncryptionService` is pure; the
Discord bot's one command that changes state calls `SubscriptionBalanceService.cancel`, which is
modelled; the REST frame, the clients and the command line construct objects and map exceptions. The
contract's transfers and access control are outside the Python system. The seeder and the migrations
are developer tools; the keys and cascades that the migrations create are part of `Catalog`.

## 9 Plan

Built, in this order: `AtLeastOnce`, `EthListener`, `Outbox`, `TransactionOrchestrator` (the way of
a payment), `ContractSync` (the way of a price), `SubscriptionExpiry` (the clock), `Billing`,
`NotificationPoller`, `Catalog`, `Account` (the services).

What would add most now:

| What | Why |
| --- | --- |
| an outbox that reorders, between `Catalog` and `ContractSync` | which of its orders break the premise of `PaidToItsWallet`, and that they come to agree again after the next update |
| `Pipeline`: listener, outbox, Kafka, orchestrator at the level of `AtLeastOnce` | a payment on sale ends in an outcome; the stages refine it |
| `AtLeastOnce` by the product worker | needs items that lapse while they are handed on: a wallet may be deleted after its record was taken, which `Withdraw` does not allow |
