# Neagold in TLA+

Neagold registers pieces of jewellery, sells them, lets the buyer claim them
with a code, passes them on between owners, and keeps incidents (theft, loss,
fraud) and service orders. The API (`api/src`, NestJS and Prisma on PostgreSQL)
serves requests concurrently from one or more Node processes; all shared state
is in the database. There are few explicit locks: correctness rests on
conditional updates, unique and partial unique indexes, one trigger, and the
order of the flows. That is what these modules check, together with the web
client (`web/src`) that keeps the session and draws the pages.

## Inventory

| Component | State | Operations | Interacts with |
|---|---|---|---|
| pieces | `jewelry_pieces.status`, `digital_identities`, `qr_codes` | register, updateStatus, retire, regenerateQr | its status is written by sales, incidents and services too |
| sales | `sales`, `piece_claim_codes` | create | reads pieces and transfers, issues the claim |
| claims | `piece_claim_codes`, `ownership_records` | redeem | reads sale, piece and transfers; adds the first ownership row past the trigger |
| transfers | `ownership_transfers`, `ownership_records` | request, accept, reject, cancel, lazy expiry | reads pieces and incidents; partial unique index on PENDING |
| incidents | `incidents`, `incident_reports` | report, addReport, review, recover, resolve | writes the piece's status; partial unique index on open incidents |
| services | `service_records` | create, start, complete, cancel | writes the piece's status |
| idempotency | `idempotency_keys` | reserve, poll, replay, store, release | wraps every mutation |
| events, notifications | in-process bus, `notifications` | emit, mark read | emitted after the commit of the services |
| webhooks | `webhooks`, `webhook_deliveries` | CRUD, enqueue, attempt, flush, cancel | fed by the bus, flushed by a worker, a cron endpoint and a list request |
| auth | `users`, `sessions`, `login_attempts`, tokens sent by mail | register, verify, login with lockout, refresh with reuse detection, logout, revocation, reset and change of password | mfa; the web client's cookies |
| mfa | `mfa` (secret, recovery codes), `mfa_challenges` | set up, disable, challenge, answer | completes a login |
| certificates | `certificates` | issue, revoke | pieces |
| serial counters | `serial_counters` | next number of a year | pieces, sales, incidents |
| roles and guards | `roles`, `role_permissions`, written by `prisma/seed.ts` | CsrfGuard, JwtAuthGuard, PermissionsGuard | in front of every route |
| web client | cookies, CSRF token, promise of a refresh, stores | `api()`, refresh after a 401, bootstrap, login, logout | auth |
| web views | what a page has loaded, its spinner, dialog and busy buttons | load, open, submit, press | every route of the API |
| products, users, verification, audit, email, health, logging, configuration | rows of their own | CRUD, read-only pages, output | none that feeds back |

### What is hard

* **Check, await, write.** Nearly every handler reads and checks, awaits, and
  writes. Some writes repeat the check in their `WHERE` (`accept`, `redeem`,
  `start`, `cancel`), some write by primary key whatever the row has become
  (`updateStatus`, `retire`, the sale's `SOLD`, `review`, `recover`, `resolve`).
* **The trigger.** `fn_enforce_single_active_owner` reads ownership rows
  without a lock; under READ COMMITTED two open transactions do not see each
  other's rows. Something else has to keep them apart.
* **Waiting.** Conditional updates and index entries make requests wait for
  open transactions of others, which may commit or roll back.
* **Time.** Claims (30 days) and transfers (7 days) lapse; a lapsed transfer
  stays `PENDING` until a handler touches it.
* **Crash.** A request can die between any two steps; its open transaction
  rolls back, what it already committed stays.
* **Retries.** Requests with one idempotency key race for its slot, whose holder
  may fail, die or be slow; webhook deliveries are attempted by their event,
  the worker, a cron and list requests at the same time.
* **Old answers.** A session is rotated, revoked or swept while a refresh of it
  is under way; a challenge is answered minutes after its login; an answer with
  cookies lands after the answer to a later call; a page shows what it loaded
  before somebody else changed it.
* **The turn of the year.** Numbers restart with the year, which the code reads
  before, with, or after the counter that it belongs to.

The complete list, line by line, is under `hazards` in `PROJECT.json`.

### What makes each component correct

* title (sales, claims, transfers): one open ownership row per piece; an
  unbroken chain from buyer to present owner; accept and redeem all or nothing;
  settled transfers final; history append-only.
* incidents: one open incident per piece; a piece reported stolen or lost has
  one; closing is final.
* services: an order settles once; a piece is IN_SERVICE while work is going on.
* idempotency: one execution per key while nobody gives up and no attempt fails
  while another request waits for it. webhooks: one sender at a time, every post counted,
  outcomes final, a failure tried again.
* sessions: a token that was rotated is spent, a family that has ended stays
  ended, an old password does not keep a session open. lockout: one address
  alone cannot lock an account. mfa: stage and factor agree, a challenge that is
  over stays over.
* numbers and codes: every number of a counter is accounted for and on one paper
  only; a registered piece has a code that can be scanned.
* web client: an act is carried out once at most, an expired cookie is recovered
  from, a rotated token is not shown again. web views: nothing hangs, and a
  refusal tells the user something the page could not know.

## Modules

| Module | Models | Notes |
|---|---|---|
| `Store` | schema, constraints, requests in flight | variables, row types, shared queries, `TypeOK` |
| `Pieces` | `pieces.service.ts` | `Register`, `UpdateStatusLoad`, `RetireLoad`, `SetStatus` |
| `Sales` | `sales.service.ts` | `SaleCheck`, `SaleCommit`, `SaleConflict` |
| `Claims` | `claims.service.ts`, the trigger | `RedeemCheck`, `RedeemExec`, `RedeemRefused`, `RedeemCommit`, `ClaimLapses` |
| `Transfers` | `transfers.service.ts` | `RequestCheck`, `RequestCreate`, `RequestConflict`, `AcceptExec`, `AcceptCommit`, `Reject`, `Cancel`, `Expire`, `TransferLapses` |
| `Incidents` | `incidents.service.ts` | `Report…`, `AddReport…`, `Review…`, `Close…` (recover and resolve) |
| `Services` | `services.service.ts` | `Create`, `Start`, `CompleteExec`, `CompleteCommit`, `CancelOrder` |
| `Platform` | the six together | `Abort`, `Next`, `Spec`, `FairSpec`, the properties, the inductive invariant |
| `TitleRegistry` | abstract: who bought, who held, which offer stands | implemented by `Platform` (`ImplementsRegistry`) |
| `MCPlatform` | | symmetry for the runs |
| `Idempotency` | `idempotency.interceptor.ts` | `ReadRow`, `Purge`, `Reserve`, `Poll`, `PollTimeout`, `Release`, `ReserveAgain`, `Bypass`, `Handle`, `Store`, `Die`, `Lapse` |
| `Webhooks` | `webhooks.service.ts`, `webhooks.worker.ts`, `cron.controller.ts` | `Publish`, `Create`, `Tick`, `List`, `Select`, `Claim`, `Load`, `Post`, `Succeed`, `CountFailure`, `MarkFailed`, `Update`, `Remove`, `Elapse`, `Crash` |
| `Outbox` | abstract: what becomes of a delivery, whoever attempts it | implemented by `Webhooks` (`ImplementsOutbox`) |
| `Accounts` | the tables of one account | variables, row types, `TypeOK` |
| `Credentials` | `auth.service.ts`: registration, tokens by mail, passwords | `Register…`, `VerifyEmail…`, `Forgot…`, `Reset…`, `Change…` |
| `Sessions` | `auth.service.ts`: refresh, reuse, logout; `users.service.ts`: revokeSession | `Refresh…`, `Reuse…`, `Revoke…` |
| `Logins` | `auth.service.ts`: login, completeLogin, recordFailedLogin | `Login…`, `Complete…`, `Failed…` |
| `Mfa` | `mfa.service.ts` | `Setup…`, `Disable…`, `ChallengeCreate`, `Answer…`, `Accept…`, `MissWrite` |
| `Access`, `MCAccess` | the four together, requests that die | `Next`, `Spec`, the properties |
| `Office` | numbers, QR codes and certificates | variables, row types, `TypeOK` |
| `Serials` | `serial_counters` in pieces, sales and incidents | `RegisterYear`, `…Draw`, `NumberCommit`, `NumberConflict`, `NewYear` |
| `Identity` | `regenerateQr`, `certificates.service.ts` | `Regenerate…`, `Issue…`, `Revoke…` |
| `Registry`, `MCRegistry` | the two together | `Next`, `Spec`, the properties |
| `Browser`, `MCBrowser` | `client.ts`, `stores/auth.ts`, the cookies and guards | user, fetches, answers, refresh of a tab |
| `Roles` | `prisma/seed.ts`, `permissions.guard.ts` | roles, permissions, `Holds` |
| `Api` | the controllers' permissions; which row a list shows and a handler takes | operators |
| `Client` | `web/src/api/index.ts` | the route of each function |
| `Views` | `router/index.ts`, `AppLayout.vue`, `views/*.vue` | who opens a page, what it loads, which buttons it draws |
| `Portal`, `MCPortal` | one user at the pages, the API and others behind them | `Open`, `Press`, `Submit`, `Serve`, `Lands…` |
| `…Proofs` | | theorems, see below |

### State and code

`status`, `sale`, `claim`, `rows`, `transfer`, `incident` and `service` are
committed tables keyed by piece or row identifier. `rows[p]` is the sequence of
`ownership_records` of piece `p` in order of insertion. `req[w]` is the request
that worker `w` is serving: `op` names the handler and the point it has reached,
the other fields are its local variables, or what its open transaction has
decided and not yet committed.

`Idempotency` follows the requests that carry one key; `row` is the key's row,
named by the request that inserted it, `pc` the point of `intercept` a request
has reached. `Webhooks` follows one webhook; deliveries are numbered by
`created_at`, `at` and `todo` say where each runner is and which deliveries its
loop still holds.

`Accounts` has the rows of one account: accounts share nothing but the uniqueness
of the email. Passwords are numbered in the order in which they are set; `history`
keeps what no table stores (the password in force when all sessions were last
revoked, the addresses whose failures counted). Times are Booleans: `overdue`,
`lock = "past"`, a window `"old"`.

`Office` keeps the numbers given as a set of papers; `drawn` says which year's
counter a number came from, `year` what is printed on it.

In `Browser` a fetch takes the cookies of `jar` when it leaves (`Sent`) and its
answer changes them when it lands, so answers overtake each other. `session` is the
server's table. A CSRF token is random: all a state knows of one is whether it is
the one in the jar.

`Portal` follows one row of one user: `row` in the database, `shown` on the page,
`seen` in an answer on its way, each with `fresh`, whether it is still so. Pages
are described by data (`Views`), their common handlers by actions.

### Granularity

* One action for each stretch of a handler between two points where another
  request's commit could make a difference. Consecutive reads are one stretch:
  `SaleCheck`, `RedeemCheck`, `RequestCheck` and `ReportCheck` each read
  their tables at one moment.
* `redeem` and `accept` are split into *Exec* (the statements, from the
  conditional update on, under the lock of the claim's or transfer's row) and
  *Commit*. Until the commit nobody sees the rows, and another conditional
  update of the same row waits: the guards `~ClaimLocked`, `~TransferLocked`,
  `~ServiceLocked`.
* `reject`, `cancel`, `start`, the cancellation of an order and the expiry are
  one action: the conditional update repeats the check made before, so the check
  adds no behaviour. `create` of a service order is one action too, since
  between its check and its insert only RETIRED could intervene, and nothing
  reads an order of a retired piece.
* A unique violation (`P2002`) rolls the transaction back: `SaleConflict`,
  `RequestConflict`, `ReportConflict`, `ReviewConflict`.
* Overdue is a Boolean: `ClaimLapses` and `TransferLapses` are the passing of
  time. A claim may be born overdue, because its 30 days count from the sale
  date the clerk enters.
* In `Idempotency` and `Webhooks` each query is an action, since other requests
  use the same rows. Two exceptions: a deletion and its result, and the read of
  `attempts` in `markFailed`, which is part of `CountFailure` because a claimed
  delivery is changed by its runner only (`OneSender`).
* Left out of the core because none of its handlers reads them back: serial
  numbers, audit rows, QR codes, notifications and webhook rows written next to
  the core's rows (numbers and codes are in `Registry`). Identities and users are ACTIVE throughout (nothing in the code
  changes them); the claim statuses EXPIRED and REVOKED are never written.
* Who may call is kept where it decides something: the owner or staff for a
  request of transfer and a report. `accept` and `reject` belong to the
  recipient, who always exists, so the caller is omitted.
* In `Access` and `Browser` the reads of a handler up to its first write are one
  step, each statement that commits alone is one, and a `$transaction([...])` is
  one. What a handler read and uses later is in `req[w]`.
* In `Registry` an open draw holds its counter's row until it commits, which
  delays the others (`CounterIsFree`); in `regenerateQr` the revocation sees the
  codes of its snapshot (`seen`) and not those committed since.
* In `Portal` a handler of the API is one step. How handlers interleave is the
  subject of the other modules; there the question is what a page makes of it.

## Runs

| Run | Question | Instance |
|---|---|---|
| `custody` | title under racing sales, redemptions, transfers, expiries and status changes; `Platform` implements `TitleRegistry`; the inductive invariant | 1 piece, 3 users, 1 clerk, 2 workers, 2 transfers |
| `incidents` | one open incident; a reported piece has one | 1 piece, 2 incidents, 2 workers |
| `orders` | an order settles once; every admitted request is answered | 1 piece, 1 user, 2 workers, 1 transfer, 1 order, no symmetry |
| `idempotency` | one key: who runs the handler, what is replayed, who is answered | 3 requests |
| `webhooks` | who sends a delivery, how often, and what becomes of it; what keeps one waiting; `Webhooks` implements `Outbox`; the inductive invariant | 3 deliveries, 1 ticker, 1 caller, limits of 3 failures and 2 attempts, batch of 2, 1 crash, 1 change by the owner |
| `sessions` | what ends a session and what does not | 2 workers, 3 sessions, 1 reset token, 2 passwords |
| `factors` | the second factor and its challenges, which failures lock an account, what activates one | 2 workers, 1 mail token, 1 challenge, 1 code, 2 setups, 2 attempts, 2 addresses, 2 failures, thresholds 2, 3, 4 |
| `registry` | numbers across the turn of a year, codes of a piece | 2 workers, 1 piece, 5 codes, 1 certificate, 2 years, 2 numbers |
| `browser` | when an act is carried out, refused, or costs the session | 2 tabs, 2 calls, 2 sessions |
| `portal` | what hangs, what is refused and why | 2 roles (a customer, a clerk), 6 kinds of row, 2 calls (1 about pieces) |
| `logout_ends_session` | what `auth.e2e-spec.ts:267` says of logout, refuted | 1 tab |
| `failed_is_retried` | what `webhooks.service.ts:185` says of a failed delivery, refuted | 2 deliveries, 1 ticker, 1 caller, limits of 2, batch of 2 |

In the core, two workers give every pair of handlers every interleaving, and the hazards are
races of two. One piece is enough because no handler touches two pieces; the
theorems below hold for any number. Two transfers allow a chain of two hops, a
second transfer after a rejected or expired one, and a stale `from`; three users
make buyer, recipient and next recipient differ. The identifier sets bound the
rows: when none is left, `RequestConflict` and `ReportConflict` turn the request
away (the second disjunct of each), and a new row is not added. Deadlock is not
checked (`CHECK_DEADLOCK FALSE`) because with all rows used up and no request in
flight the system may stop.

Three requests of one key are needed for a holder, a waiter and a newcomer.
Three deliveries give a flush a loop in which others step in; a ticker and a
caller are the two kinds of loop there are, and ticks do not wait for each other,
so a second ticker would only repeat them. `MaxFailures` and `MaxAttempts` are 5
in the code, the batch is 20; they are 3, 2 and 2 here. A batch smaller than the
number of deliveries is what lets due failures fill it while a later delivery
waits, the case that `OnlyFailuresStarve` is about; with three failures the webhook
is still on when two stand in the way, and goes off with the third. `MaxCrashes`,
`MaxUpdates` and `MaxDeliveries` bound the runs only.

Two workers race every two handlers of `Access` and `Registry`; three sessions are
a login, its rotation and a second login or rotation; two passwords are one before
and one after all sessions were revoked. The two runs of `Access` leave each other's
identifiers empty, so each has the interleavings that its properties are about;
`SurvivorsStraddle` over logins with a challenge rests on its theorem. The
thresholds are 5, 8 and 10 in the code and 2, 3 and 4 here, and two failures reach
the first: the higher ones make a longer lock by the same rule.
Two years are the one that ends and the one that begins. Two tabs and two calls
give the two ways in which refreshes meet (within a tab, across tabs); a session
and the one it is rotated into are enough to show a rotated token again. In `Portal` two calls
show an answer that overtakes another; beside a piece, whose row has the most
states, there is one at a time (`MaxPieceCalls`). Pages that neither show the row
nor pick it do the same whatever the row is, so they are visited beside two kinds
only (`PlainKind`).

Two runs refute what the repository says of itself.

* `logout_ends_session`: the refresh cookie's path is the refresh endpoint
  (`cookies.service.ts:38`), so a browser never sends it with a logout, and the
  session lives on; the test that says otherwise sets the header by hand.
* `failed_is_retried`: `flushDueDeliveries` says "Reintenta entregas
  PENDING o FAILED con backoff vencido" (`webhooks.service.ts:185`), and the service
  promises "reintentos de backoff exponencial" (`:51`). It selects due FAILED rows, but
  `attempt` claims PENDING ones only (`:217`), so a failure is selected over
  and over and never sent again; the limit of attempts is never reached. With
  FAILED rows claimed too, once due, `DueIsAttempted` holds, and `ImplementsOutbox`,
  `OnlyFailuresStarve` and `StaysQuiet` hold as before: `Outbox`, which states what
  becomes of a delivery, lets a failure be taken up again.

The same models show more that a comment or a message denies, and that is
listed under `hazards` with a note that begins "In the model": a transfer
accepted under an open incident, a sale that writes over a newer status, a
recovered piece whose claim can never be redeemed, an incident left open over a
piece that is free, two live sessions from one token, two active codes of one
piece, a recovery code that works twice. The properties of `runs` tolerate these,
and the notes say which and how. In
`Portal` the disagreements between client and API are enumerated in `AtOdds`;
`RefusalsExplained` says that there are no others.

## Fairness

`Platform!FairSpec` adds `SF_vars(Proceed(w))` for every worker: a request that was
admitted takes its next step. Node runs the continuation of every settled
promise. A request that waits for a row lock or an index entry queues for it in
PostgreSQL and is woken in order, so newcomers cannot keep overtaking it; that
is why strong and not weak fairness. Nothing forces clients to ask, clocks to
run out, or requests to die. Lock order is counter, claim, sale, piece in a
sale, incident, counter, piece in a report, order, piece in a completion: no two
handlers take the same locks in opposite orders.

`Idempotency!FairSpec` and `Webhooks!FairSpec` ask for weak fairness only: nobody
waits for a lock, a request that polls has a deadline, and a runner's next step
stays enabled until it is taken. The other specifications state none: their
properties are safety, and a user, a browser or a cookie need not do anything.
`Webhooks` adds weak fairness of `Tick` (the
timer, or the cron) and none of `Elapse`, the passing of a back-off:
`OnlyFailuresStarve` speaks of deliveries that are due at once.

## Proofs

`PlatformProofs` proves, for every set of pieces, users, staff, workers and
identifiers, from `StoreAssumption` (`None` is neither a user nor a transfer):

* `TitleInvariant`: `Spec => []TitleInv`, and from it `TypeCorrect`,
  `ChainOfTitle`, `OneOwner`, `AcceptIsAtomic`, `ClaimIsTitle`, `BuyerIsSafe`;
* `HistoryGrows` and `SettledStaysSettled`, the two action properties, from the
  same invariant.

`TitleInv` is inductive. None of its readable conjuncts is so alone. The chain of
title at an `AcceptCommit` needs to know what the transaction decided earlier:
that its transfer is still `PENDING`, that the row it closes is still the last,
and that the sender still owns it (`Sound`, in `InFlight`). `InFlight` survives
other commits because row locks are exclusive (`LocksExclusive`) and at most one
transfer of a piece is pending (`OnePending`): a second accept of the same piece
would need a second pending transfer. `RedeemCommit` is safe because until the
claim is spent there is no history and no transfer (`NoTitleYet`, from
`ClaimSpentIffOwned` and `NoTransferBeforeRedeem`). So it is the row lock of the
claim, the partial index on transfers and the order of the flows, and not the
trigger, that keep a piece from having two owners.

The proof has one lemma per service for types, `QuietStep` for the many steps
that leave title alone, one lemma for each way title changes, and the theorems.

`IdempotencyProofs` proves `SlotInvariant` from `RequestAssumption` and from it
`ReplaysAreReal`, `TwiceNeedsACause` and `StoredAnswersStay`, for every set of
requests. `SlotInv` names the row by the request that inserted it: until something
disturbs the key (`Disturbed`), whoever runs the handler, or has run it to effect,
is the one the row names (`SlotGuards`), so there is only one. That a purge never
takes a fresh row away needs `RowsAreNamed`: a request inserts one row in its life. The causes are
three: a waiter gave up, the key lapsed, or an attempt failed while somebody waited
for it. The last needs no slow request: of two that find the row gone, one reserves
again, and the other deletes that fresh row on its way to a reservation of its own
(`idempotency.interceptor.ts:95` deletes by key, whoever holds it).
`GoneIsDisturbed` is the conjunct that says so: where a slot was inserted and is
gone, one of the three has happened.

`WebhooksProofs` proves `DeliveryInvariant` from `WebhooksAssumption`, and from it
`ClaimsAreExclusive`, `EveryPostCounts` and `OutcomesAreFinal` (SUCCESS and
CANCELLED are never written over). `OneSender` is not
inductive: `ClaimGuards` adds that what somebody delivers is DELIVERING, which the
conditional update of the others refuses, and that it was not sent in this
attempt before `Post`. `OneRowStep` reduces every action of a runner to the one row it
touches.

`DisabledIsQuiet` (`StaysQuiet`) needs of it that a claimed delivery is DELIVERING:
once nobody is past the check of the switch, only the owner turns it on again.

It also proves `WebhooksAreAnOutbox`: `Spec => ImplementsOutbox`, for every number
of deliveries, runners, crashes and changes by the owner. `Log` reads the table and
`Held` says which deliveries a runner has claimed and how far each has come: taken,
answered, failing. Where a runner is, what it has yet to attempt, the switch and
the back-off are hidden. `EnterMaps` and `TakeMaps` are the steps that enter
a delivery and take it in hand, `AttemptMaps`, `StayMaps` and `DoneMaps` those of a
runner that has one in hand, `CancelMaps` and `QuietMaps` those of the ticks, the
owner and the clock; the rest stutter (`IdleMaps`). `Outbox` says that a delivery is
in one hand at a time, is answered before it counts as a success, leaves a hand only
with an outcome or with its runner, and is done with when sent or cancelled. It does
not say that a failure is retried, which is liveness; `failed_is_retried` is the run
for that.

`IncidentProofs` (over `PlatformProofs`) proves `OneIncident`, `MissingIsReported`
and `OrdersStaySettled`. `IncidentInv` adds to `TitleInv` what `ReportedHasOpenIncident`
needs: that a request about to write a status it was asked for writes none of
SOLD, STOLEN and LOST (`TargetsByHand`), so the last two are written by a report
alone, together with its incident. `OrderSettledOnce` needs that an open
transaction of `complete` holds an order still to be done
(`CompletingIsLive`) and holds it alone (`CompletingIsAlone`); start and cancel
wait for its lock. `NextSlots` says for every action what it may put in the slot
of a request.

It also proves `TitleIsRegistry`: `Spec => ImplementsRegistry`. The
mapping is that of `Platform`, named `Held` and `Offered`; `SellMaps`, `ClaimMaps`, `OfferMaps`,
`WithdrawMaps`, `LapseMaps` and `ConveyMaps` take each step that title shows, the
others stutter. Beyond `TitleInv` it needs only that a request for a transfer in
flight names somebody who holds, or has held, the piece (`AskedByHolder`).

`RegistryProofs` proves `RegistryInvariant` from `OfficeAssumption`, and from it
`NumbersAreAccountedFor`, `SerialsNeverRepeat` and `PieceKeepsACode`. `RegistryInv`
adds the ledger: each number up to the counter of its year is on one paper, lost,
or owed by one request that has drawn it and not yet printed it, and an open draw
is alone with its counter (the lock of the row). Neither a turn of the year nor a
number that meets another on an incident moves a number of a piece or a sale.
`OverlapBoundsCodes` proves `CodesBounded`, a count, without counting step by step:
`CodeOwners` says that the active codes of a piece can be given to workers, one
each, so that a worker in the middle of regenerating has read the code it was given
and will revoke it. When it commits it is therefore free to take the new code, and
the codes that it did not read stay with whom they were given to. An injection into a
finite set then bounds their number (`Worker` is finite in `OfficeAssumption`).

`AccessProofs` proves `AccessInvariant` from `AccountsAssumption` and
`MfaAssumption`, and from it the seven properties of the two runs of
`MCAccess`, for every number of requests, sessions, tokens, challenges and
addresses. The properties are not inductive without `Requests`, which says what
each handler has read and still relies on when it writes: its row exists, two
addresses had failed before it locks, the proof of who somebody is was made good
at the latest by the password typed (`ProofSound`), a refresh of a session that
carries an older password was under way when the sessions were revoked. A lemma
per table says what a step of another handler leaves of that (the frames), a
lemma per handler what its own steps do, and one lemma per property puts them
together.

`BrowserProofs` proves `BrowserInvariant` from `BrowserAssumption`, and from it
`ClickedOnce`, `SpentIsShownForACause` and `UndisturbedRecovers`, for every number
of tabs, calls and sessions. A token in an answer that has not landed is in no
other answer, not in the jar and shown by nobody (`Unlanded`), so it is not
rotated; until a refresh was lost or met another, one tab refreshes at a time and
the jar holds a rotated token only while its successor is on its way
(`Uncrossed`). `Recovering` says how far the recovery of a call has come.
`PlainStep` reduces the many steps that leave the refreshes alone to the row they
change; the steps that make, show or deliver a token have a lemma each.

`PortalProofs` proves `PortalInvariant` from `PortalAssumption`, and from it
`PortalTypeCorrect` and `NothingIsLeftHanging`, for every number of calls, every set
of kinds of row and all four roles; the run has a customer and staff.
`NothingHangs` is not inductive: an answer must not land on a page whose spinner
another call still waits for, so `PortalInv` adds whose each call is and what it may
call (`Origin`), that a live call belongs to the page that is open (`Bound`), that
only calls about the row, or lists of its kind, bring it back (`Shape`), and that a
page shows rows of its own kind alone (`Pages`). `OneCall` reduces most actions to
the one call they change.

`RefusalsAreExplained` proves `RefusalsExplained`, the agreement of the buttons of
`views/*.vue` with the guards and checks of the API, from a second invariant,
`Honesty` (`PagesAreHonest`): a fresh snapshot shows the row as it is, what a list
showed was in a list that the user may see, and every call that a live page makes is
one that its user may make (`Allowed`) on a row that the handler takes (`Taken`),
but for the routes and rows of `AtOdds` (`OddRoute`, `OddRow`). The tables of roles,
pages, buttons and routes enter through a lemma each: `LoadAllowed`, `ToolAllowed`,
`DialogAllowed` and `ButtonAllowed` go through the buttons of every page for every
role, `ButtonTaken`, `PickTaken` and `DetailTaken` through the rows on which they
are drawn. `OnlyRefused` says that no step but the refusal of the API makes a call
refused.

Two facts of title, `OneOwner` and `BuyerIsSafe`, and the `TypeOK` of `Store`,
`Office`, `Accounts` and `Browser` are proved and have no run of their
own; `SlotInv` and `DeliveryInv`, which runs check, contain those of their modules.
`OutcomeIsFinal` is proved and has no run: `Outbox` says it of the log.

Every invariant and action property of the runs has a theorem. Left to TLC is
liveness (`EveryRequestAnswered`, `RetryIsAnswered`, `OnlyFailuresStarve`), which
needs fairness and ENABLED.

## Not modelled

* Products and users' profiles: single-row writes without a state machine. Who may
  make them is in `Api`.
* Events between commit and handler: the bus is a call in the process that
  committed and leaves no trace when it is lost. `Webhooks` starts where an event
  arrives; notices are rows that are read or not (`Portal`).
* Verification pages and the scan log, audit, e-mail, logging, health: written and
  never read back, or read only.
* Configuration, start-up, the throttler (real time), the validation of webhook
  targets (addresses and DNS), the arithmetic of TOTP, hashes and canonical
  documents of certificates: parsing and cryptography without interleavings.
* In the web client: register, forgotten and reset password forms, pagination,
  formatting, toasts; the dialog of an incident, which cannot be drawn (see
  `IncidentsButtons`).
* Deployment and back-up scripts.

`components` in `PROJECT.json` has the reason of each.
