# cheevonest: formal specifications

cheevonest is the backend of a ticketing platform (NestJS, PostgreSQL through
Prisma, Paystack as the payment provider). This directory holds TLA+ models of
its core, the TLC configurations that check them on small instances, and TLAPS
proofs of the properties that matter most, for every value of the constants.
Paths below are relative to the repository's `src/modules/` unless they say
otherwise.

## 1. Inventory

The application is one Node process (`deploy/ecosystem.config.js` starts a single
instance) against one PostgreSQL database. Concurrency comes from overlapping HTTP requests,
webhooks, cron jobs (`@nestjs/schedule`) and in-process event listeners
(`EventEmitter2`); they interleave at every `await`. What protects them is row
locks (`SELECT ... FOR UPDATE` through the `lock*.sql` TypedSQL queries),
transactions and unique keys. Events of the emitter are not persisted: a crash
loses them.

| Component | State it keeps | Operations | Interacts with | What makes it correct |
|---|---|---|---|---|
| **Orders and checkout** `orders/` | `orders`, `order_items`, `ticket_holds`; `ticket_types.sold_count`, `events.tickets_sold`, `events.revenue_minor`, `events.first_sale_notified_at` | `create`, `fulfill`, `cancel`, `reverseEventRevenue`, `verifyWithProvider`; crons `expireHolds`, `cancelStalePending` | payments (start, event), issued tickets, ledger, notifications | stock and per-user caps; fulfilled once; counters equal the rows they count; no order pending for ever |
| **Issued-tickets kernel** `tickets/issued/` | `issued_tickets` (`valid`, `scanned`, `revoked`) | `issueForOrder`, `scanByCode`, `revokeUnscannedForOrder`, `revoke`, `reissue`, `changeHolder` | orders, both moderations, transfers | a seat admits once; counters follow the tickets |
| **Order moderation** `admin/orders/` | writes orders, tickets, payments, ledger | `refund`, `cancel`, `markPaid` | payments, kernel, ledger | a refunded order admits nobody and nets to zero; status moves forward |
| **Issued-ticket moderation** `admin/issued-tickets/`, organizer tickets | writes `issued_tickets` | `revoke`, `reissue`, `transfer` | kernel | scanned tickets are spared by the admin |
| **Payments** `payments/services/payments.service.ts` | `payments` | `start`, `finalize`, `reconcile`, `markSucceeded`, `refundWithProvider` | provider, webhooks, orders through `payment.succeeded` | success is covered by money; settled is final; one event per success |
| **Webhooks** `payments/webhooks/` | `webhook_events` (unique key) | record, dispatch | payments, payouts | each provider event is applied exactly once |
| **Ledger** `ledger/` | `ledger_entries` | `recordSale`, `recordRefund`, payout and adjustment entries | orders, payouts | the balance is the sum of what happened |
| **Payouts** `payouts/` | `payouts` (`requested`, `pending_review`, `approved`, `processing`, `paid`, `failed`, `rejected`), `payout_accounts` | `request`, `approve`, `reject`, `retry`, `settleOffPlatform`, `initiate`, `finalize`, `reconcile`, `sweepStuck` | ledger, provider transfers and their webhooks | one payout in flight; never more than the balance; never paid twice |
| **Ticket transfers** `transfers/` | holder and code of a ticket | `transfer` | kernel, orders' per-user cap, blocks | the old code is dead, the cap holds, whoever was admitted stays its holder |
| **Payout accounts and banks** `payouts/services/payout-accounts.service.ts` | `payout_accounts` | `upsert`, `delete`, bank resolution, cooling-off and backoff rules | payouts, the provider's recipients | a payout goes to the account its row names; edits and failures keep their distance |
| **Event broadcasts** `broadcasts/`, `admin/broadcasts/` | `broadcasts`, suppressed addresses | `create`, `dispatch`, `retryStuck`, `cancel`, `suppress` | mail | each addressee once, cancelled is cancelled, every broadcast ends |
| **Admin announcements** `admin/announcements/` | `admin_broadcasts` | `schedule`, `cancel`, `send`, `runDue`, the fan-out by cursor | mail, push, inbox | sent once, to all of the audience, a cancelled one to nobody |
| **Step-up challenges** `step-up/` | `step_up_challenges`, `step_up_factors` | `create`, `verify`, `resend`, and the actions they guard | codes, users, sessions | all factors in order, guesses bounded, a new address is one that answered |
| **One-time codes and tokens** `auth/` | `otp_codes`, `access_tokens` | `send`, `verify`; `issue`, the guard, `revoke` | users, suspension | a code works once and few guesses are allowed; no session outlives a suspension unexplained |
| **Event life cycle** `events/`, `organizer/events/`, `admin/events/` | `events`, flyers, index entries | create, update, publish, unpublish, duplicate, delete, mark past | orders, search, storage | no deletion under sold tickets; counts, index and files agree with the rows |
| **Ticket types** `organizer/events/services/tickets.service.ts` | `ticket_types`, aggregates on the event | create, update, delete | orders | the event's aggregates are its types |
| **Event media** `organizer/events/services/event-media.service.ts` | `event_images`, `event_features`, files | add, update, delete, reorder | storage | a row's file exists, a file has its row, places are distinct |
| **Organisations and members** `organisations/`, `organizer/organisations/`, `admin/organisations/` | `organisations`, `organisation_members` | create, add, remove, change owner, suspend, delete | events, search, account deletion | exactly one owner; suspended organisations are not listed |
| **Comments** `comments/`, `attendee/` | `event_comments`, likes, flags, counters | post, delete, like, flag, dismiss | events, blocks, reports | counters equal rows; what is flagged is hidden |
| **Reports** `reports/`, `admin/reports/` | `reports` | create, review, dismiss, act | comments | the daily cap |
| **RSVPs, subscriptions, blocks, interests** `attendee/`, `users/` | rows and counters | toggle, replace | events, organisations, search | counters equal rows; interests are one choice |
| **Users and deletion** `users/`, `admin/users/` | `users`, `profiles` | sign-up, suspend, change of address, delete | everything with a `user_id` | deletions leave what depends on them explained |
| **Notifications** `notifications/` | `notifications`, preferences, mutes, push tokens, marks on events and organisations | one listener per event; crons starting-soon, digest | mail, push | sent, and sent once |
| **System config, feature flags** `platform/`, `admin/settings/` | rows and a per-process cache, clients' ETags | load, invalidate, `show` | everything that reads a rate or a switch | nothing stale after an invalidation, but what is explained |
| **Welcome page** `platform/welcome/` | one row, one image | show, update | storage | the image shown exists |
| **Search** `search/` | `search_index` | index, deindex, reindex; query, page, hydrate | events, organisations, users, blocks | shows what is public and not blocked, each row once |
| **Analytics, exports, listings** `admin/analytics/`, `organizer/analytics/`, `organizer/exports/`, `src/common/exports/`, `tickets/` | none: functions of the orders | dashboards, leaderboards, pages, CSV / XLSX / PDF | orders, tickets, comments | sums agree; lists miss and repeat no more than what changed |
| **Onboarding and profiles** `attendee/onboarding/`, `attendee/profile/`, `users/` | `profiles`, pictures in the storage, referrals | complete, update | storage, interests | a name is one person's, the picture shown exists, a referral is credited once |
| **Catalogs** `admin/catalogs/`, `attendee/interests/`, `reports/` | interests, categories, social platforms, report reasons | create, update, delete; the rows that name them | profiles, events, organisations, reports | who names an entry chose it; a reason in use stays |
| **Audit, content, ops** | single rows | administration | | no protocol |
| **Storage, mail, push, places, giphy** | external | I/O | | modelled where a caller's failure matters |

Behaviours that are hard here: handlers that check a row their controller
loaded earlier (order and payout moderation, revocation, deletion); reads in a
transaction that are not locked (`revokeUnscannedForOrder`, the payout balance);
events emitted after the commit; a webhook recorded before it is acted on;
answers of the provider that arrive late, twice or out of order; cron jobs that
act on a list read earlier; a transfer whose outcome is unknown. The list with
lines is in `PROJECT.json`, `hazards`.

## 2. Plan

Most important behaviour first; all of it is done.

1. `Tickets` (kernel) -> `Orders` (checkout, fulfilment, crons) ->
   `OrderModeration` (the desk beside it); abstract specification
   `OrderLifecycle`, implemented by all three. Proofs: `CommerceProofs`.
2. `Payments`: payment rows, webhooks, replay guard, verify, admin override,
   provider. Proofs: `AccountsProofs`, at its end.
3. `Commerce`: 1 and 2 composed; implements the desk's specification. Proofs:
   `CommerceProofs`.
4. `Payouts`, with the balance over the ledger and the provider's transfers
   (proofs: `PayoutsProofs`), and `PayoutAccounts`, where they go (`CommunityProofs`).
5. `Accounts`: codes, sessions, challenges, suspension. Proofs:
   `AccountsProofs`.
6. What organisers and admins keep: `Catalogue`, `Gallery`, `Profiles`, `Catalogs`
   (proofs: `StorefrontProofs`), `Organisations` (`CommunityProofs`).
7. What people attach to it: `Engagement`, `Comments`, `Transfers`. Proofs:
   `CommunityProofs`.
8. What goes out: `Broadcasts`, `Announcements`, `Notifications`. Proofs:
   `MailingsProofs`.
9. What is read: `Platform`, `Reports` (proofs: `StorefrontProofs`), `Listings`, `Search`
   (`ReadingProofs`).
10. The modules that share no state side by side, as the runs check them: `Community`
   (proofs: `CommunityProofs`), `Mailings` (`MailingsProofs`).

`SumLemmas` has what the proofs need of sums over finite sets.

What would add most beyond this: fees and quotes as functions checked against a
reference; an account of overselling at the desk, where a reissue brings a seat
back whose place may have been sold again; the locks of a reservation, one by one.

## 3. The modules

`Tickets` <- `Orders` <- `OrderModeration` <- `Commerce` (by `EXTENDS`);
`Commerce` instantiates `Payments`, one payment per order; `OrderLifecycle` is
instantiated by `Orders` and, for what overlapping refunds leave of it, by `OrderModeration`. The other modules stand alone: each has, as actions of its
own, the few things that other components do to its rows (in `Payouts`, earnings mature
and are taken back; in `Comments`, an account goes with its comments). `MC*` modules
give the constants their small values and the symmetry sets.

`Community`, `Mailings`, `MCStorefront` and `MCSettling` (`Orders` and `Payments` under
fairness) put several modules side by side for one run. These share no variable, so that an interleaving of two would
show nothing that neither shows alone: a variable `focus`, chosen at the start, says which
one a behaviour is about, and the others stay as they began.

All these modules are about the same thing, and are written alike: a request is a record in
`req`, `hand`, `office`, `thread`, ... with its program counter `pc` and what it has read;
one action is one statement or one transaction of the code; a request may stop
between any two (`Abandon`, `Halt`, `Break`, ...), which stands for a crash, a failed
query and a client that went away. Where the code promises less than one would wish,
a history variable names what happened (`late`, `contested`, `mixed`, ...), and the
property says that this is the only way.

### Tickets

The tables `order_items`, `issued_tickets` and the two sold counters. A *slot*
`[line, type, n]` is one ticket a line of a cart asks for, and a *seat* is an
order with a slot: the ticket that `issueForOrder` makes for it. The order's
cart is the set of its slots, so a quantity is a cardinality. `Decrement` is the
code's `updateMany` that decrements only when the counter is large enough.
`RevokeRead` takes the two sets that `revokeUnscannedForOrder` read earlier: the
module does not assume that they are still true.

### Orders

| Code | Model |
|---|---|
| `OrdersService.create` up to the transaction (window and presale rules) | `Admit` |
| its transaction: lock ticket types, `ensureBuyable` per line, order, items, holds | `Reserve` |
| `payments.start` (row), failure of `provider.initialize`, setting `payment_id` | `StartPayment`, `StartFails`, `LinkPayment` |
| the free order's direct `fulfill` | `FulfillFree` |
| `fulfill` (order locked; tickets, counters, holds, revenue, ledger, first sale) | `Fulfill` |
| `payment.succeeded` listener | `PaymentSucceeded` |
| `cancel` by the buyer or an admin | `Cancel` |
| crons `expireHolds`; `cancelStalePending`'s `findMany` and its loop | `ExpireHolds`; `ReadStale`, `CancelStale` |
| gate | `Scan` |
| crash | `CrashRequests` (loses `stage` and `sweep`) |

`status`, `buyer`, `hold`, `payRow`, `revenue`, `ledger`, `firstSale` are
columns; `stage` (where a checkout request stands) and `sweep` (the cron's list)
are volatile; `late` is history. Each database transaction that locks the rows
it decides on is one action; a boundary between transactions, or an `await` with
an unlocked read, is a boundary between actions. Time is a bounded clock
(`Horizon`); holds expire `HoldTtl` after they were taken. Carts may name a
ticket type on two lines, as the DTO allows.

### OrderModeration

Each session of `Staff` runs one request: `desk[w]` is its program counter with
what it has loaded. A refund is check (`StartRefund`), provider
(`ProviderRefunds` / `ProviderRefuses`), payment-row lock and unlocked ticket
read (`OpenRefund`), write (`CommitRefund`). Mark-paid is check, `Fulfill` or
nothing, then a second write for the payment. Admin revocation is check, then the
kernel's locked `Revoke`; the organizer's revocation and the reissue are one
locked step. A crash idles every session; nothing of an open transaction stays.
`DeskFollowsLifecycle` is `OrderLifecycle` with the refunds of an order counted once: two sessions
that both found it paid may book its refund twice.

### OrderLifecycle

What an order promises to everyone else: a status that only moves
`none -> pending -> paid -> refunded` or `pending -> cancelled`, seats exactly
while settled, one unit of earnings while paid. `Orders!ImplementsLifecycle`
instantiates it with the statuses, the set of orders that have tickets, and
`sale - refund` of the ledger.

### Payments

`payment` is the row's status; `charge` the transaction at the provider
(`short` stands for every amount or currency that does not cover the payment).
`sent`, `seen`, `accepted` are webhooks sent, recorded and recorded-but-not-yet
dispatched; `answers` are results of `verify` not yet applied. A webhook stays
in `sent`, so it is delivered in any order and any number of times. `emitting`
counts events between commit and delivery to the listeners. `accepted`,
`answers`, `marking`, `emitting` are volatile. The signature is taken as valid,
webhook bodies as produced by `ReportOf`, which is `parseWebhookEvent` with
`mapStatus`.

### Commerce

The composition: `CreatePayment`, `InitializePayment`, `AnswerCheckout` are the
three parts of the checkout's payment; `DeliverSucceeded` is the listener;
`DeskRefund`, `DeskProviderRefunds`, `DeskCommitRefund`, `DeskMarkPaid`,
`DeskSettlePayment` are the desk's actions with what they write on the payment
row. A refund's open transaction holds the payment row's lock, so `finalize` and
`markSucceeded` wait (`PaymentRowLocked`). `DeskAnswerLost` is the refund that the
provider carried out and whose answer did not come within the client's 15 seconds
(`paystack.client.ts`): it ends like one that was refused. `comped` remembers the orders that
the desk marked paid, `unbooked` those whose money went back while nobody could write it
down: the answer was lost, or the process crashed before the transaction.

### Payouts

One organisation. `status` and `ref` are the columns `status` and
`provider_reference`, `earned` the matured earnings of the ledger, `job[w]` the
request a session runs and what it has loaded, by its program counter:

| Code | Steps of a job |
|---|---|
| `PayoutsService.request` | `StartRequest` (rules and the paid sum), `FinishSummary` (earnings and in-flight sum), `CheckInFlight` (`lockInFlightPayouts`, which locks nothing when there is nothing), `Insert` |
| `approve`, `reject`, `settleOffPlatform`, `retry` | `Start...` (the controller loads and checks the row), `Approve`, `Reject`, `SettleOffPlatform`; an approval and a retry go on with `initiate` |
| `PayoutProcessingService.initiate` | `Initiate` (row read), `PersistReference`, `SendTaken` / `SendNotTaken` (provider), `MarkProcessing`; on an error `Park`, unless an admin is retrying |
| `finalize` (row locked) | `Finalize`, called by `DeliverWebhook` and `ApplyVerified` |
| `sweepStuck`, `reconcile` | `SweepInitiate`, `SweepReconcile`, then `VerifyTransfer`, `ApplyVerified` |
| crash | `Crash` (loses every job) |

Only `finalize` locks a row; everything else writes over what the row says by
then, and that is what the model is about. `transfer` is the provider's table, by
reference, `inbox` the webhooks under way. The provider is external: it may take
a transfer and its answer be lost, refuse it, or know the reference and say either
(`SendNotTaken`); a transfer it took succeeds or fails, a successful one may be
reversed, and the webhook may never come. One sweep ends before the next begins
(it awaits each row), so the sweep is one worker, `Cron`; a row is stale when no
job is at it (`Untouched`), which stands for a quarter of an hour without a write.

History variables say what a property excuses: `unchecked` holds payouts whose
money became committed without a comparison with the balance (`SetStatus` records
three ways: revived after it had been released, inserted beside another request's
check, paid between the two sums of a summary); `doubtful` those that were
retried, rejected outside review, or parked over a transfer the provider had
taken; `reviewed`, `approvals`, `manual`, `succeeded`, `credits` are what they
say.

### PayoutAccounts

The account of one organisation beside its payouts. `upsert` is `AskUpsert` (roles),
`AskEdit` (`ensureAccountEditable`), `ReadExisting`, `Resolve` (two calls to the bank),
`WriteAccount`; a request is `AskPayout` (cooling-off, backoff), `LockInFlight`,
`InsertPayout`; a transfer is `LoadDestination` (`initiate` reads the recipient) and
`SendTransfer`. `Waits` is the code's doubling backoff with its cap, `Consecutive` the
failures in a row. The clock counts hours (`LastHour`). `moved` remembers when the
details became others, `crossed`, `renewed`, `hurried` what the exceptions are about.

### Accounts

| Code | Model |
|---|---|
| `OtpService.send` (delete the old codes, create one) | `SendOtp`, `CreateOtp` |
| `OtpService.verify` (load, count the attempt and compare, consume) | `LoadOtp`, `CompareOtp`, `ConsumeOtp` |
| `AuthService.verifyOtp` | `FindUser`, `SignUp`, `MarkVerified`, `Issue` |
| `AuthGuard` | `Admit`: the handler keeps the user as loaded |
| `StepUpService.create`, `resend`, `sendCode` | `CreateChallenge`, `Resend`, `SendFactor` |
| `StepUpService.verify` | `LoadFactor`, `AnswerFactor`, `VerifyFactor`, `Reload`, the action, `Close` |
| actions `change_email`, `delete_account` | `ChangeEmail`, `DeleteAccount` |
| guest checkout's account | `GuestCheckout` |
| `UserModerationService` | `BeginSuspend` (the sessions seen), `CommitSuspend`, `Unsuspend`, `RevokeSessions` |

Codes are numbered as they are mailed; the answer typed in is right or wrong.
`guesses`, `proven`, `beside` are history: comparisons per code, addresses that answered,
tokens issued beside a suspension.

### Catalogue

Events of one organisation with their types. A request of the organiser works on
the event its controller loaded (`LoadForUpdate`, `DeleteEvent`, `Unpublish`, `BeginTypes`, ...) and
writes in a later step (`SaveEvent`, `DropEvent`, `SetDraft`, `CommitTypes`); flyer and
index are written outside (`StoreFlyer`, `DeleteOldFlyer`, `Index`, `Unlist`). Beside
them: checkout and fulfilment (`PlaceOrder`, `Fulfill`), the hourly `MarkPastEvents`, the admin
(`AdminLoads`, `AdminSets`, `AdminDelete`), the organisation's suspension
(`SuspendOrganisation`, `Gather`, `Sweep`, `Restore`) and a full reindex. History: `late` and
`overruled` (sales an earlier look did not see; the admin's word), `blurred`, `skewed`, `torn`
(index, aggregates, flyer touched by two at once or by one that died).

### Gallery

`EventMediaService` on images or features (`album`), rows and files apart: `PutPhoto` stores,
`ReadPlace` reads the last place, `CreatePicture` inserts; `AskRenew`, `UnlinkPhoto`,
`RenewPhoto` or `RefuseRenewal`, `ShowRenewed` replace a feature's image; `LoadRow`, `ErasePicture`
delete; `Reorder` writes the places it was given. An image of the wrong kind is refused
after the old one was deleted: `troubled` says which rows lost theirs.

### Profiles

`Complete` and `UpdateProfile` load the row (`Load`); `EnsureAvailable` reads the user name,
`ResolveReferral` the referrer; `DeleteAvatar` removes the picture that was loaded before
`StoreAvatar` puts the new one, and `SaveCompletion` or `SaveUpdate` writes the row. The
completion is stored before the interests (`SyncInterests`), so a request that ends between
the two leaves a complete profile without any (`halfway`). `doubled` holds the accounts with two
requests at once, `unshown` those whose row names a picture that was deleted, `strays`
the pictures of requests that did not get to the row.

### Catalogs

Interests of profiles and of events, categories, social platforms and reasons of reports are kept
alike; `catalogue` says which one a behaviour is about. An entry is created, changed, and
deleted (`CreateEntry`, `UpdateEntry`, `DeleteEntry`; a reason by `CountReports` and `DeleteReportReason`);
a list is checked (`CheckEntries`) and replaced in a later transaction (`BeginSave`, `DeleteLinked`,
`InsertLinked`, or `SetCategory`); a report names a reason it read before (`ResolveReason`,
`CreateReport`). `offered` holds the lists an owner was allowed, `jumbled` the owners whose list two
requests replaced at once. The scope that the admin's form offers is "comment" and the
reports' target type is "event_comment", so that a reason with a scope is never one for comments
(`CommentsUnscoped`).

### Organisations

Members and owner, listing, suspension and deletion of organisations: every action reads
a role in one step and writes in the next (`AddByEmail` / `InsertMember`,
`RemoveByUserId` / `DeleteMember`, `ChangeOwner` / `Demote` / `Promote`,
`SuspendOrganisation` / `UnlistOrganisation`, `ValidateDeletion` / `ExecuteDeletion` of an account).
`Demote` takes the owners it saw; a second change waits for the first and then adds its own.
`contested` holds the organisations whose ownership was written on stale news, `stray`
those listed on stale news.

### Engagement

`Rsvp` and `Unrsvp`, `LookForSubscription` / `Subscribe` / `Unsubscribe`, `BlockOrganisation`
(which ends the subscription, `EndSubscription`), `SyncFor` / `DeleteSeen` / `InsertChosen` for interests,
`SetEventOpen`, `AccountLeaves`. The unique key refuses the second of two inserts. The database's
cascade takes the rows of an account that leaves and not their counters: `lost` counts
them. `asked` holds the choices somebody made, `mixed` who made two at once.

### Comments

`Post`, `Delete` (on the row `LoadForDelete` found), `Like`, `Unlike`, `Flag`, `Unflag`,
`Dismiss` / `ZeroFlags`, `Block`, the reports (`File`, `Review`, `Action`,
`BulkDismiss`), `AccountGone` with its cascade, and what is shown (`TopLevel`,
`RepliesShown`). A thread's deletion lowers the event's counter by the `repliesCount` of the row
loaded earlier: `adrift` and `drifted` say when that was no longer true.

### Transfers

Tickets of one type: `Ensure` (recipient, blocks), `LockAndCheck` (the ticket's lock, the
cap), `Transfer` (holder and a new code); `Hold`, `Issue`, `Lapse` are checkout; `ScanByCode` the
gate; `OrganizerRevoke` and the admin's calls (`AdminRevoke`, `AdminTransfer`, `AdminReissue` load,
`CommitRevoke`, `CommitGive`, `CommitReissue` write). `swamped` and `overtaken` hold who got more than
the cap and which tickets were changed after a scan the request had not seen.

### Broadcasts

`Compose` / `Create` (quota, row), `Load` / `Claim` / `Chunk` / `CheckChunk` / `Mail` / `CountChunk` /
`MarkSent` for a dispatch, `AskCancel` / `Cancel`, `RetryStuck` / `Requeue` / `KickOff` for the sweep, `Suppress`
and `Restore` of addresses, `MailFails`, `DispatchFails`, `Crash`. A claim does not look at the
status again. `stale` stands for ten minutes without an update. `mailed` counts mails per
addressee (0, 1, more), `resent` what the sweep took up.

### Announcements

Every admin request in two steps (`CreateNotice`, then `Write` ... `CancelNotice`; `AskSend` or
`RunDue`, then `ClaimNotice`), the delivery by `LoadChunk` and `Fan` from a cursor; users
come, leave and opt out in between (`DeleteReader`, `SuspendReader`, `UnsubscribeMarketing`). `Page` is Prisma's
`cursor` with `skip: 1`: the rows from the cursor's on, less the first, so that a cursor row that no longer
matches costs one reader (`skipped`).

### Notifications

The table of types with their channels and preferences (`Allowed`, `Default`, `ChannelsFor`), the notifier
(`Reached`, `Send`), one action for each listener, `FindDue` / `NotifyAttendees` / `MarkReminded` and
`SendDigest` / `MarkDigested` for the cron jobs, `StartWindow` / `ClaimSlot` for the daily
limit of fan-outs, the inbox, mutes and push tokens.

### Platform

`Loading` / `Keep` fill a cache (a load that began before an invalidation stores its old
rows after it), `UpdateSettings` / `Invalidate` change and clear, `ShowPublic` / `ShowLoaded` /
`Reply` / `Tag` serve a client with an ETag, read apart from the payload. `Expire` ends the time to
live. The deployment file starts one process; the caches are per process, and the module takes
any number of them. `Welcome`, `MakeWelcome`, `StoreBackground`, `RemoveBackground`, `WriteWelcome` are the
welcome page.

### Reports

The dashboard (`CurrentFrom`, `PreviousFrom`, `PreviousTo`, `BucketTotals`, `TimeSeries`, `TopEvents`,
`Delta`), an event's summary (`CumulativeSeries`, `DailySeries`, `EventSales`) and the platform's (`Overview`,
`Revenue`, `Leaderboards`) as operators over the orders of the moment, while `Placed`, `Paid`, `Refunded` and time
make every history of them.

### Listings

A list read piece by piece (`listing` says which): `OrderBatch`, `TicketBatch` by cursor,
`RsvpBatch` by offset, pages with their count (`CountRows`, `ReadRows`), sums of two queries
(`CheckInSummary`, `EventsHeldBy`), the sheets `Csv`, `Xlsx`, `Pdf`, while rows come and go.
`steady` holds the rows that were there all the time, `gained`, `dwindled`, `squeezed` count the others.

### Search

One viewer's query: `MatchIds` (the best of a kind), `AskPage` with `CountByType`,
`AskBlocks`, `HydratePage`, in separate queries, while rows are indexed, dropped and blocked. Rows
that score alike come in any order, chosen anew by every query.

## 4. The runs

Configurations that may come to rest say so (`CHECK_DEADLOCK FALSE`): a shop
where every order is settled and the clock has reached its bound is at rest, and so is
a request that was answered once the bound on requests is reached.

| Run | Instance | What it shows |
|---|---|---|
| `orders_safety` | 2 orders, 2 types (priced and free), a free cart, carts with a type on two lines, stock 2, one crash | `StockExplained`, `FulfilledOnce`, `ImplementsLifecycle` |
| `settling` | the same with single-seat carts and one payment with every outcome, late charges, one crash; fairness | `PendingSettles`: no pending order is left behind; `SuccessIsCovered`, `EmittedOnce`; `ChargeSettles` without a crash |
| `moderation_serial` | 2 orders, 1 session | `BooksExact`: counters and revenue are exact when desk requests do not overlap |
| `moderation_concurrent` | 1 order of 2 seats, 2 sessions, gate, listener, crash | `NoValidSeatAfterRefund`, `DeskFollowsLifecycle`: what survives every overlap |
| `commerce_safety` | 1 order, 1 session, lost answers, 1 crash | `SeatsArePaidFor`, `SuccessReachesOrder`, `ReturnedIsBooked`, `ImplementsDesk` |
| `payouts` | 2 payouts (one above the automatic limit), 2 sessions, the sweep, 2 references each, 2 upsets | `BalanceExplained`, `PaidIsBacked`, `NullRefUnsent`, `OneReference`, `ReviewDecides` |
| `accounts` | 2 requests; 2 accounts, 2 addresses, 2 codes, 1 token, 1 challenge or suspension | `VerifiedIsProven`, `SuspendedSessionsExplained`, `GuessesBounded` |
| `storefront` | 2 requests at a time; 3 profiles and 1 user name; 2 entries of a catalogue; 2 events, 2 types; 3 pictures; 2 servers; 2 orders over 3 days | `ProfilesExplained`, `CatalogsExplained`, `CatalogueExplained`, `GalleryExplained`, `ServedExplained`, `ReportsAgree` |
| `community` | 2 requests at a time; 1 organisation, 3 people; 2 attendees, 2 interests; 3 comments; 3 tickets, cap 2; 3 payouts, 2 bank accounts; 5 rows in batches of 2; 3 hits, 2 to a page | `OrganisationsExplained`, `EngagementExplained`, `CommentsExplained`, `TransfersExplained`, `PayoutAccountsExplained`, `ReadsExplained` |
| `mailings` | 2 workers; 2 broadcasts, 2 addresses; 1 announcement to 3 readers in chunks of 1; 2 handlers; one fault, fairness | `BroadcastsExplained`, `AudienceReached`, `ToldOnce`; `BroadcastSettles` |
| `commerce_refund` | 1 order, 1 session | **violation**: a refund that does not return the money |
| `payouts_stranded` | 1 payout, 1 session, fairness | **violation**: an approved payout whose request died is never recovered |

`community` and `mailings` also check the type invariants of their modules; those of all
are proved (section 6).

Properties, by what they relate:

- `StockExplained` (seats sold and held against stock and the per-user cap, by type). The code can
  oversell: `fulfill` does not look at the stock again after a hold lapsed, and
  two lines of a cart are compared with committed holds only. The property says
  that these are the only ways, and by how much.
- `BooksExact` relates the cached counters and the revenue to the rows, and to reissued tickets.
- `FulfilledOnce` relates status, ledger, tickets and the first-sale mark.
- `NoValidSeatAfterRefund`, `DeskFollowsLifecycle` are what remains true when desk requests act
  on stale rows: who is refunded gets in nowhere, no order goes backwards, seats and earnings
  follow the status.
- `SuccessIsCovered`, `EmittedOnce` are about `finalize` under reordered and replayed reports.
- `SeatsArePaidFor`, `SuccessReachesOrder`, `ReturnedIsBooked` relate orders with payments
  and with the money at the provider.
- `BalanceExplained` relates what is in flight or paid with everything that was
  ever earned: the ways to commit more are the three that `unchecked` records.
- `NullRefUnsent`, `OneReference`, `PaidIsBacked` relate the row with the provider's table
  under retries, lost answers, late webhooks and crashes; `ReviewDecides` relates both with
  the admin's decisions.
- `VerifiedIsProven`, `SuspendedSessionsExplained`, `GuessesBounded` relate accounts with
  codes, sessions and requests that looked at them earlier.
- `ProfilesExplained`, `CatalogsExplained`, `CatalogueExplained`, `GalleryExplained`, `OrganisationsExplained`,
  `EngagementExplained`, `CommentsExplained`, `TransfersExplained`, `PayoutAccountsExplained` relate rows with their counters, files, index
  entries, caps and waiting times. Each is a conjunction of named parts, and each part names its exceptions.
- `BroadcastsExplained`, `AudienceReached`, `ToldOnce` count what somebody was sent.
- `ServedExplained`, `ReportsAgree` and `ReadsExplained` (`ListingsExplained` of the lists, `SearchExplained` of
  the search) relate what is served, summed, exported and found with the rows.
- `PendingSettles`, `ChargeSettles`, `BroadcastSettles` are liveness.

**Bounds.** Two orders suffice for competition on stock: the properties quantify
over one type and count, and a third order adds only another competitor with the
same steps. The clock needs `HoldTtl` + 1 ticks for a hold to lapse, one more
for the event to end. Two desk sessions are the least for an overlap, and three
steps of a refund meet every other request of the second one. In `orders_safety`
the free type has a cap of one per user, so that the buyer of two meets it. Two
payouts, of 1 and 2 around the automatic limit, are the least for one request to
run beside another payout; a payout gets a new reference only from a job that read
none, so as many references as sessions are enough (`MaxRefs`); `MaxUpsets` = 2
counts debits, admin calls and crashes together: two approvals of one row, a retry
after a crash, a debit before a rejection, each pair occurs. One payment
suffices because payments share nothing but the set of webhooks, whose records
name their payment. One crash reaches every program point.

In `accounts`, `storefront`, `community` and `mailings` two requests run at a time: the races are between what one read and
what another wrote, and a third would be a second writer. The bounds on requests (`MaxEdits`, `MaxMoves`,
`MaxVisits`, `MaxActs`, `MaxMotions`, `MaxErrands`, `MaxCurations`, `MaxPosts`, `MaxSubmits`, `MaxUpserts`) leave room to set a
scene with one or two requests and to have two overlap in it, mostly with one to spare. `MaxAttempts` = 1 is
the least at which one guess too many shows; with `MaxCodes` = 2 a code can be replaced while an
answer is compared. `MaxRow` = 5 with `Chunk` = 2 gives a full batch, a second one and a rest; three readers
in chunks of one give a cursor a predecessor and a successor; `LastHour` = 3 exceeds the
cooldown and lets the backoff double once, and `Recent` = 2 (ten in the code) is fewer than the payouts there are;
three profiles are two that claim one user name and a referrer; `RangeDays` = 1 with `LastDay` = 2 gives the dashboard a range, the
one before and a day beyond. `MaxFaults` = 1: one crash, one slow chunk or one lost mail at any point.
The proofs remove the bounds for the properties listed in section 6. Other bounds in guards and
types: `MaxCrashes`, `Horizon`, `MaxQty`, `MaxCredits`, `MaxSessions`, `MaxRulings`, `MaxFiles`, `MaxOrders`, `MaxChanges`,
`MaxPayouts`, `MaxUpdates`, `MaxHit`, `MaxScore`, `FirstBlocks`, `MaxTurns`.

**Symmetry.** Requests, ticket types, people and tickets that nothing tells apart are
symmetric; no run with a liveness property uses symmetry.

**Fairness.** `Orders` assumes weak fairness of the clock, of the quarter-hourly
cron (`orders-crons.service.ts`) and of its loop; no buyer, provider or admin
has to act. `Payments` assumes that the provider repeats a webhook until it is
acknowledged and that the process goes on with what it has begun; `Verify`, the
customer and the admin are not fair. `ChargeSettles` says
`\/ crashes > 0`, since a crash does lose what it promises (section 5).
`Payouts` assumes that requests run on, that the provider ends
what it took, and strong fairness of the sweep per row: a row is stale only while
no job is at it, and every sweep goes through its whole list. `Broadcasts` assumes that a running
dispatch goes on, that ten minutes pass, and the cron job every five minutes
(`broadcasts-crons.service.ts`); `MailingsSpec` asks for it where broadcasts are in focus.

## 5. Findings

Disagreements with what the repository says of itself, each the counterexample
of a violation run; quotes and lines are in `PROJECT.json`.

1. `commerce_refund`: an order marked paid whose buyer was charged after all is
   refunded in the books only.
2. `payouts_stranded`: the sweep selects `requested` and `processing` payouts, so
   one that was approved when its request died stays approved.

Other behaviour that the models contain and the properties name as exceptions, without a
run of its own:

- *Orders.* A cart with one type on two lines reserves more than the stock. At the desk with two
  sessions, two overlapping refunds book twice, and the sold counters drift, because
  `revokeUnscannedForOrder` decrements by what it read without a lock. When the provider's answer to a
  refund is lost, the money is back and the order stays paid; a second refund is refused, as there is
  nothing left to give back (`unbooked`). A webhook recorded but
  not dispatched when the process ends is taken for a replay when the provider repeats it. The
  admin's revocation looks at a ticket loaded before the lock, so a ticket scanned in between is revoked.
- *Payout accounts.* Details entered again after a deletion, or by two requests at once, evade
  the cooling-off; a payout requested while the account is being edited may be sent elsewhere than its row says.
- *Organisations.* Two changes of owner at once may leave two owners. A suspended organisation
  still sells: nothing calls `ensureActive` (`organisations/organisations.service.ts:58`).
- *Catalogue.* The admin's unpublication leaves the event in the index.
- *Counters.* The database's cascade takes the rsvps, subscriptions and comments of a deleted account and
  leaves the counters.
- *Profiles.* The old picture is deleted before the new one is stored and the row written: a request that ends in
  between leaves a row that names a deleted picture.
- *Catalogs.* A reason scoped to "comment" (`admin/catalogs/dto/catalog.dto.ts:80`) is offered for no comment, whose target
  type is "event_comment".
- *Reports.* An order paid in the second between the dashboard's two ranges is in neither.
- *Search.* Rows that score alike may be on two pages or on none; hidden rows take a place
  on the page.

## 6. What is proved

Assumptions are the named `ASSUME`s of the modules concerned, and TLC evaluates each on a run:
finite sets of orders, lines, types, sessions, payouts, events and addresses (rows of a database); natural
bounds, prices, amounts and waiting times; at least one address, and addresses of accounts that differ;
reserved values such as "none", "no one" and "deleted" that are no event, person or bank. Nothing is
assumed of a sum or of any other operator.

**`SumLemmas`.** The models sum with `MapThenSumSet` of the community modules, whose definition
recurses over subsets. The library's induction theorems take an operator and cannot be instantiated;
`SubsetInduction` states induction over finite sets for a *set* of sets, proved from
well-foundedness of the subset order, and everything else rests on it: the running sum over
the subsets exists and is the only one, so a sum is what it is for the empty set and for one element
more (`SumEmpty`, `SumAdd`, `SumRemove`), is natural, respects union, inclusion and pointwise sums, is the
sum of the sums of its parts (`SumOfParts`), and counts (`SumOfOnes`).

**`CommerceProofs`, the orders.** `OrderInv` strengthens the type invariant with what each
column says about the others: an order has items exactly when it exists
(`CartsOK`), a request that has not reserved has no order (`RequestsOK`), the
issued seats are exactly those of settled orders' items (`SeatsOK`), one sale
entry per settled order (`SalesOK`), holds only of pending orders (`HoldsOK`),
the first-sale mark (`FirstSaleOK`). None is inductive alone: `SeatsOK` needs
that `fulfill` finds a pending order without seats, `CartsOK` that a cart is
written before anything else. One lemma per action, then `OrdersInvariant`,
`OrdersTypeCorrect`, `FulfilledOnceHolds`, and `OrdersImplementLifecycle`: every
step maps to a life-cycle step or a stutter. `CheckoutBooksExact`: the cached counters and the revenue are what
the rows add up to, carried through each action as what one row more or less does to a
cardinality and to a sum (`SeatsAdd`, `RevenueAsSum`). `OnlyUncheckedOversell`: `StockExplained` is not
inductive, because a hold that lapses and is fulfilled later moves seats from one side to the other;
`StockOK` says that the seats which *were* compared with the stock fit, for each type and
for each buyer, and that only `Reserve` adds to them.

**`CommerceProofs`, the desk.** `DeskInv` adds what a session may rely on although
nobody looks again: a refund under way is about a settled order
(`RefundsSettled`, true because statuses never go back), and the tickets of its
order that it did *not* read let nobody in unless they were reissued
(`RevokingOK`). From it: `NoValidSeat`, `RefundsAreBooked`, `FulfilledOnceAtDesk`,
`DeskTypeCorrect` and the action property `StatusForward`, for any number of
sessions. `SerialBooksExact` holds of one session (`OneSession`) and of any number of orders: a refund that
is under way read exactly the tickets that are there (`ReadExact`), since nobody else can
touch them; with two sessions `RevokeRead` decrements by stale counts and the books drift (section 5).
The refinement: `DeskKeepsLifecycle`, every step of any number of sessions is a step of
`OrderLifecycle` or a stutter, under the mapping that counts the refunds of an order once (`OnceView`
says that seats and net earnings are functions of the statuses, which `DeskInv` implies; then only the
status steps are left to map). `SerialDeskImplementsLifecycle`: with one session the mapping of `Orders` itself
will do, since a refund finds its order paid and books it once.

**`CommerceProofs`, the composition.** `CommerceImplementsDesk`: every step of the composition is a
step of the orders or the desk, or leaves them alone; so what is proved of the
desk holds of the composition (`NoValidSeatInCommerce`; `CommerceKeepsLifecycle`, so that
`Commerce` implements `OrderModeration`, which implements `OrderLifecycle`; `SerialCommerceExact`, the exact books and
the life cycle to the letter when one session works at a time). `SeatsPaidFor`: by the
invariant `MoneyInv` -- an event under way belongs to a successful payment or to an
order refunded since (`EventsOK`), a session about to settle a payment has marked
its order paid (`SettlingOK`) -- with each step's effect on payments and on orders
stated apart (`PaymentEffect`, `OrderEffect`).
`SuccessAlwaysReachesOrder` strengthens it once more (`ReachInv`): an order that has
not checked out has no payment (`CheckedOut`), and a session that settles a payment
has seen its order leave "pending" before (`MarkingOK`). `ReturnedAlwaysBooked`: a charge is reversed only by a
desk session that then has its answer, or lost it (`unbooked`); such a session keeps its order until
its transaction (`RefundsHeld`) or a crash, and refunded orders stay so (`ReturnInv`, with the types).

**`PayoutsProofs`.** `PayoutInv` has two parts beside the types. `RowInv` says what
a job may rely on although it looked at the row only once: a row being created has
one job only (`JobsOK`), a job about to send has stored a reference (`SendingOK`), a
row under review that nobody approved is neither sent nor in the hands of a job that
could send it (`UnapprovedOK`, `UnderReviewOK`). `NullRefUnsent` alone is not
inductive: sending needs `SendingOK`, and this the fact that no step ever clears a
reference. `MoneyInv` follows a success from the provider over webhook or answer to
the row (`ReportsOK`). Two lemmas, `RowsKept` and `RowWritten`, state what a step may
do to one row; each action is an instance of one of them. From it:
`NullRefIsUnsent`, `ReviewIsDecided`, `PaidIsAlwaysBacked`, `PayoutsTypeCorrect`, for
any number of payouts, sessions, references, admin calls and crashes. `SentUnderOneReference`
(`ReferencesOK`): unless two admins approved it, who is about to send holds the row's reference, who is about
to store one found none there and is alone, and the provider knows no other. `BalanceIsExplained` needs in addition
what was sent to stay committed (`SuccessOK`): for a payout approved at most once and in no doubt, one job at most is
sending it, the provider has nothing of it before that job has an answer, bad news is
true news, and once the row says failed or rejected neither money nor a job is on its way. `BalanceOK` is then the
account itself: what was compared with the balance is covered by everything that ever matured, a
request that is still summing knows at least of what is paid, and one that has compared its amount may
still add it. `FullInv` is the conjunction.

**`AccountsProofs`, accounts.** Three invariants, each with the types, for any number of accounts, addresses,
codes, challenges and requests. `ProvenInv`: what a request may rely on although it does not look
again (`RequestOK`) -- the address it is about to sign in was typed in, the account it is about to mark
owns its address, the factors of a challenge it is about to execute are all verified -- and every
verified factor's address has answered (`FactorsOK`). `VerifiedIsProven` alone is not inductive: `MarkVerified` and
`ChangeEmail` look at no code. From it `VerifiedAlwaysProven`. `SessionsInv`: while a suspension is
open, the sessions it did not see are those issued since (`LeftOver`). From it
`SessionsAlwaysExplained`. `GuessInv`: the comparisons made with a code, and the requests that have
passed its check and not compared yet, are together at most `MaxAttempts` + the number of requests - 1
(`GuessesPending`). A new request passes the check only when fewer than `MaxAttempts` comparisons are
made, all of which are counted on the row (`AttemptsCounted`), which needs that a code is in one
row only and mailed once (`CodesApart`, `CodesMailed`): a resend overwrites a factor's code and sets its attempts to
zero while a request still holds the old code. From it `GuessesAlwaysBounded`.

**`AccountsProofs`, payments.** `PaymentsInv`: a report of a covered charge is true wherever
it is under way, stale answers included, since a charge that was taken in full
can only be reversed (`ReportsTrue`); nothing is announced before it settles
(`AnnouncedOK`). From it: `SuccessCovered`, `EventEmittedOnce`, `SettledIsFinal`,
`PaymentsTypeCorrect`.

**`StorefrontProofs`.** One invariant per module; each theorem also gives the type invariant.

- *Profiles* (`ProfilesInv` -> `ProfilesAlwaysExplained`): a picture is one profile's or one request's, never two
  (`PicturesApart`), so that what a request deletes is shown nowhere else; an account that never had two
  requests at once has one, and its row is what that one loaded (`Alone`, `RowAsLoaded`).
- *Catalogs* (`CatalogsInv` -> `CatalogsAlwaysExplained`): a list about to be stored was accepted
  (`ListsAccepted`), and its deletion saw every row there was, unless two requests replaced the list and one did
  not hold the owner's row (`RowsHeld`, `OneReplaces`, `SeenAll`).
- *Platform* (`PlatformInv` -> `ServedAlwaysExplained`): rows about to be kept in a cache are of now, or their
  server is known to be behind (`LoadsOnTime`); payload and version are read together
  unless something happened in between (`ReadsWhole`); one request at a time finds at most one welcome
  page, with the only image there is (`OnePage`).
- *Catalogue* (`CatalogueInv` -> `CatalogueAlwaysExplained`): who recounts an event's types brings the number
  they will have (`TypesCounted`); who takes an event down found no sales or they came late
  (`SalesSeen`); a file is one event's or one request's and stored before a row names it (`FlyersApart`,
  `FlyersFollow`); an indexed event that should not be shown has a request on its way to hide it
  (`IndexFollows`).
- *Gallery* (`GalleryInv` -> `GalleryAlwaysExplained`): the same for images (`FilesApart`, `PhotosHeld`, `NoneLost`), and
  one place at most is given at a time, behind all the others (`NextApart`).
- *Reports* (`ReportsInv` -> `ReportsAlwaysAgree`): an event's counters are the sums over its paid orders
  (`CountersExact`). The rest is arithmetic of sums, for prices and ranges of any size: a series, a list of
  events and a leaderboard are partitions of the orders (`SumOfParts`), a count is a sum of ones (`SumOfOnes`), the
  events listed are among those there are (`GreatestValues`).

**`ReadingProofs`.** For any rows, pages, scores, blocks and changes in between. Lists are sequences here, and the
prover cannot unfold the sorting and filtering operators of the community modules: the models say which row is at
which place instead (`Row`, `InOrder`: the row with n - 1 rows ahead of it), and that such a list has each row
once, in order, is proved from the cardinalities (`PlacesTaken`).

- *Listings* (`ListingsInv` -> `ListingsAreExplained`): by cursor, what has been there all the time is given or below
  the cursor, and the cursor's row goes only with all of them (`CursorInv`); by offset, the rows given that will
  come up again and the rows passed over are no more than what came, went or was squeezed in
  (`OffsetInv`: one row more or less shifts the ranks by one); of two sums, the kinds read agree with the
  counts unless the types changed in between (`SumsInv`).
- *Search* (`SearchInv` -> `SearchIsExplained`): whom the viewer had blocked is hidden or about to be read
  (`Avoided`); a page has its rows once (`Fits`); while nothing changes, an untied row is on the page its
  rank says, and by type the pages read so far cover the ranks up to them (`Undisturbed`).

**`CommunityProofs`.** One invariant per module, for any sets of people, tickets, comments, banks and requests.

- *Engagement* (`EngagementInv` -> `EngagementIsExplained`): finite rows (`RowsOK`), the counters, and for interests
  that whoever made no two choices at once has one request at it, which saw all there is to delete
  (`ChoiceOK`). A counter is proved through `CountsKept`, one row more or less with its insertion or deletion.
- *Transfers* (`TransfersInv` -> `TransfersAreExplained`): the cap is not inductive, because the cap is checked
  before the ticket moves: one ticket on its way to somebody is the only one, and leaves no
  room for a hold (`RoomForAll`); it stays valid, since its lock keeps gate and admin away (`MovingValid`).
- *Organisations* (`OrganisationsInv` -> `OrganisationsAreExplained`): exactly one owner, named
  (`OwnerNamed`); what a request loaded in order to list it existed then (`LoadedExisting`).
- *Comments* (`CommentsInv` -> `CommentsAreExplained`): a reply hangs on an id that was given and is not its own
  (`NotesKnown`); who dismisses flags saw all there are and is alone (`FlagsCounted`); who is about to
  report may still do so, and does it once (`ReportsCounted`).
- *Payout accounts* (`PayoutAccountsInv` -> `PayoutAccountsAreExplained`): a payout that waits is for the account as it
  is, and nobody edits that (`DestinationOK`), one clerk takes it (`SendersOK`); a request found the others
  settled and has waited long enough (`OrderOK`). `FailuresSpaced` is proved as `Spaced`, over the sum of the waits:
  a run of m failures has waited at least the sum of the first m waits, each twice the one before up to the cap.
- *Together* (`Community`): `CommunityKeepsParts`, every step is a step of one part and a stutter of the others,
  so each keeps its specification; `CommunityTypeCorrect`, `ReadsAreExplained` and `CommunityIsExplained` follow from
  the theorems about the parts.

**`MailingsProofs`.** For any chunk sizes, people, workers and crashes.

- *Broadcasts* (`BroadcastsInv` -> `BroadcastsAreExplained`): a broadcast that the sweep left alone is dispatched
  by one worker, and at every step of it what is counted and what is still to do is everybody, and who is still to
  do has not been mailed (`CastOK`, `JobOK`); who composes alone has room under the quota (`QuotaOK`).
- *Announcements* (`AnnouncementsInv` -> `AudienceIsReached`): whoever is owed the announcement and lies up to the
  cursor got it once, nobody beyond it got it, and the chunk at hand is made of the first rows after the
  cursor (`DeliveryOK`, from `FirstRows` and `PageRows`). A chunk that is not full therefore is the last.
- *Notifications* (`NotificationsInv` -> `ToldAtMostOnce`): a listener about to tell of a reply finds nothing unread
  and is alone (`RepliesOK`); who was reminded is on record or about to be (`RemindersOK`).
- *Together* (`Mailings`): `MailingsKeepParts`, hence `MailingsTypeCorrect` and `MailingsAreExplained`, from the safety
  part of each specification.

These inductive invariants were checked by TLC on the instances of the runs, or smaller ones, before
they were proved. Looking for them found one mistake in a model: `backoffUntil` looks at the ten latest payouts only
(`payouts/rules/payout.rules.ts:103-106`), which `PayoutAccounts` did not say; it now has `Recent`.

**Only model-checked.** The three liveness properties, `PendingSettles`, `ChargeSettles` and
`BroadcastSettles`: the provers handle neither fairness over parameters nor `ENABLED`. Everything else the passing runs
check is a theorem. `BooksExact` is one of checkout alone and of one desk session, as the run has it: with
two it is false (section 5).

## 7. What is not modelled

- *Audit, content, ops*: rows that one admin writes in one statement; there is no
  protocol to get wrong.
- *Storage, mail, push, places, giphy*: I/O. Where a caller's failure between two steps matters,
  the caller's module has it (`Catalogue`, `Gallery`, `Broadcasts`, `Announcements`, `Notifications`).
- *Feed*: one query. *Data export*: a file made of reads. *User growth, funnels, the index's health*: counts
  of one query each. *Opens and clicks* of announcements: counters nobody decides on.
- *Reports* about anything but comments: the same protocol on other targets. *Catalogs'* names, slugs and
  order; *profiles'* texts and place.

In the modelled components: the order of row locks inside the reservation
(the database detects and aborts a deadlock; the request is then as if not
made); promo pricing rules beyond an item's price, quotes and fee arithmetic; guest access tokens; partial refunds, which the code
does not have; the payout fee, other currencies and the list of banks; more than one
payment per order, which `create` never makes; cooldowns between two codes to one address; wording, layout and
file formats beyond the rows they hold. The provider is external and
modelled from how `paystack-charges.ts` and `paystack-transfers.ts` read it.
