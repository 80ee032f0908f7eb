# Event booking platform: specification

TLA+ modules, TLC runs and TLAPS proofs for the back end in `src/src` (NestJS,
Prisma on PostgreSQL, BullMQ and a cache on Redis, socket.io). The modules are
written from the code; `PROJECT.json` maps every definition to the lines it
stands for. Every invariant and every action property of the passing runs is
also a theorem for all values of the constants; the four liveness properties are
model-checked only (section 6).

To repeat a run: `tlc -config <run>.cfg <module>` (the module of each run is in
`PROJECT.json`). To repeat a proof: `tlapm <module>.tla` with a module of proofs.

## 1. The system

A guest *holds* seats of a ticket type for some minutes (a reservation), turns
the hold into an order and pays it. The payment gateway is a mock: a delayed job
that reports success, and a webhook that may report anything. Holds that are not
paid expire. Organizers create events and ticket types, admins approve them, and
either may cancel an event, which a job then unwinds. Every request carries an
access token; pages of an event follow its remaining tickets over a socket.

| Component | State | Operations | Talks to |
|---|---|---|---|
| Reservations (`reservations.service.ts`) | `reservations`: HOLDING, CONFIRMED, EXPIRED, CANCELLED; `ticket_types.remainingQuantity`, `version` | create, cancel, releaseInternal, expireIfStillHolding | Redis lock, queue `reservation-expire`, gateway |
| Expiry worker, recovery cron (`Reservations.processor.ts`, `ReservationRecoveryService.ts`) | the delayed job of each hold; the ids of a scan | process; scan every 30 s | Reservations |
| Orders (`orders.service.ts`) | `orders`: PENDING, PAID, CANCELLED, REFUNDED | createFromReservation, cancel | Reservations |
| Payments and settlement (`payments.service.ts`, `payment-settlement.service.ts`, `payments.processor.ts`) | `payments`: PENDING, PAID, FAILED, REFUNDED; queue `mock-payment` | initiate, webhook, job, settleSuccess, settleFailure | Orders, Reservations, Notifications |
| Database transactions (all of the above) | row locks of open transactions | the statements of each interactive transaction | PostgreSQL |
| Ticket types (`ticket-type.service.ts`) | `ticket_types` | create, update (optimistic), delete | - |
| Redis lock (`redis-lock.service.ts`) | one key with a TTL per ticket type | withLock | Reservations call it |
| WebSocket gateway (`websocket.gateway.ts`) | event rooms, user rooms | join, leave, broadcastTicketAvailability, handleConnection | Reservations, Authentication |
| Event cancellation (`event-cancellation.service.ts`, `.processor.ts`) | the event's status; queue `event-cancellation`; transactions nobody awaits | cancelEvent, processEventCancellation | all tables above, cache, Notifications |
| Events and their list cache (`events.service.ts`, `event-lifecycle.service.ts`, `events-cache.service.ts`, `cache.service.ts`) | the event's status and details; cached lists under a version | submit, approve, reject, close, update, list | Redis |
| Notifications (`notifications.service.ts`, `.processor.ts`) | inbox rows; queue `notification-reminder` | confirmation, reminder, cancellation notice | mailer, gateway |
| Pagination (`cursor-paginated-response.dto.ts`, the `findMine` queries) | the client's cursor | next page | - |
| Authentication and users (`auth.service.ts`, `users.service.ts`) | `refresh_tokens`, `users.passwordHash`; the entries of revoked access tokens in Redis | register, login, refresh, logout, changePassword | gateway |
| Mail, request plumbing, bootstrap | none of their own, see section 7 | | |

What makes it hard: every handler is suspended at each `await`, and the other
handlers, the two kinds of workers and the cron run in between. Five parties end
the same hold and give its seats back. Three tables must agree on a sale, and
two more writers (cancellation of the order, cancellation of the event) touch
them outside the settlement. Queue calls follow the commit and may be lost;
`job.remove()` throws on a job that is running; jobs are retried; webhooks are
repeated or late; the process may die anywhere.

What makes each part correct, in one line each:

- seats: remaining seats plus held and sold seats is the total;
- sales: a payment is PAID exactly if the reservation is CONFIRMED, and the order
  says so too; ended rows stay ended; every hold ends;
- transactions: none is seen half done, and none waits for another in a circle;
- resizing: a concurrent booking is never forgotten;
- lock: nobody frees somebody else's key, and every call ends;
- viewers: each change of the remaining tickets is told by a message that is not
  older than the change;
- event cancellation: holds end and sales are refunded once;
- catalogue: the event keeps to its life cycle, and outdated lists go away;
- notifications: what is mailed is stored, only a retry repeats a message, and a
  cancelled event is not announced;
- paging: each row once, none skipped;
- sessions: a login has one usable refresh token; a logout and a change of
  password end what they are meant to end.

## 2. The modules

| Module | Models | Built on |
|---|---|---|
| `TicketLedger` | abstract: claims on seats and captured money | |
| `Booking` | reservations, expiry worker, cron, orders, payments, settlement, crashes | implements `TicketLedger` |
| `RowLocks` | the transactions of `Booking` and `EventCancellation`, statement by statement | INSTANCE `Booking`, whose steps it implements |
| `TicketTypeAdmin` | `TicketTypeService.update` against all of `Booking` | `Booking`; implements `TicketLedger` with `Resize` |
| `EventCancellation` | cancelEvent and its job against all of `Booking` | `Booking`; implements `TicketLedger` with `Refund` |
| `RedisLock` | `withLock` for one key | |
| `Availability` | create() around the lock, broadcasts, the event room | `RedisLock` |
| `EventCatalog` | life cycle, update and cached list of an event | |
| `Notifications` | confirmation, reminder and notice of one order | |
| `CursorPaging` | a client's walk through a list | |
| `Sessions` | one user's tokens, password and socket connections | |
| `BookingProofs`, `AvailabilityProofs`, `EventCatalogProofs`, `NotificationsProofs`, `CursorPagingProofs`, `SessionsProofs` | theorems about the module in their name | that module |
| `BookingExtensionsProofs` | theorems about `TicketTypeAdmin` and `EventCancellation` | those modules, `BookingProofs` |
| `RowLocksProofs` | theorems about `RowLocks` | that module, INSTANCE `BookingProofs` |
| `MCBooking`, `MCRowLocks`, `MCTicketTypeAdmin`, `MCEventCancellation`, `MCSessions` | constants and symmetry for TLC | |

Operators whose comment begins with `Mutant:` are the wrong variants of the
definition below them that `PROJECT.json` lists: with one of them in place, TLC
finds the property named there violated.

### Booking

An order is found by its unique `reservationId` and a payment by its unique
`orderId`, so `reservation`, `order` and `payment` are functions of the
reservation, with status "NONE" for a row that does not exist. `request[q]` is
what an in-flight HTTP request is waiting for, with the values it carries across
that await. `expireJob` and `paymentJob` are the two queues, `overdue` the ids
the running cron scans have still to handle, `lapsed` the reservations whose
`expiresAt` has passed.

A step is one awaited transaction or queue call with the code up to the next
await. `POST /reservations` is `BeginReserve` (the checks), `DecrementAndHold`
(the transaction) and `AddExpireJob`. `POST /orders` is `BeginOrder` and
`InsertOrder`: the insert relies on a hold read before, and only the unique key
is checked again. `PATCH /orders/:id/cancel` is `BeginCancelOrder`,
`WriteCancelled` (no condition) and `ReleaseInternal`. `POST /payments` is
`BeginPayment`, `InsertPayment` and `AddPaymentJob`. `WebhookPaid` and
`WebhookFailed` are the settlements reported by the gateway, at any time and any
number of times; `PaymentJobSettles` is the one by the queued job.
`RemoveExpireJob` and `PaymentJobRemovesExpireJob` are the removals after a
commit, disabled while a worker holds the job; `Fail` and `PaymentJobFails` cover
the exception. `ExpireJob*` is the delayed job with its retries, `Cron*` the
scan. `Fail` ends a request at any await, `Crash` loses everything in memory and
hands stalled jobs out again.

Transactions are single steps here; `RowLocks` takes them apart and shows that
this is sound.

The Redis lock is left out of `Booking`: a request may take `DecrementAndHold` at
any time, which is what happens when the key has expired. Everything shown here
holds without it.

### RowLocks

Each connection of the pool runs one interactive transaction at a time:
settleSuccess, settleFailure, expire, release, cancelHold and refund of the
cancellation job, and create. `Update` is a statement whose WHERE clause the
committed row satisfies: it waits for the row's lock and then holds it. `Miss` is
a count of 0, with what the code then does (settleFailure goes on, the others
return or roll back). `Commit` writes all rows it holds, `Rollback` is any
failure. This is READ COMMITTED, the level PostgreSQL gives a transaction for
which Prisma asks nothing else. Beside them are the single statements that insert
orders and payments, the unconditional `WriteCancelled`, and the update of *all*
pending orders by the cancellation job, which locks them one by one in an order
nobody chose (`LockOrder`, `SkipOrder`).

`TransactionsAreAtomic` says that each commit is one of the steps of `Booking`
or `EventCancellation` (taken from `Booking` by INSTANCE, with its queues empty
and no request in flight) in the state it finds. `TransactionsImplementLedger`
says the same of `TicketLedger`: statement by statement the transactions are
steps of the ledger, so seats and money do not depend on the atomic steps being
the right ones. `NoDeadlock` says that no set of connections waits in a circle. The resize of a
ticket type is one conditional statement on one row and is not repeated here.

### TicketTypeAdmin

`ReadForUpdate` reads the row in the transaction and checks the new total against
the seats taken, `WriteVersioned` writes on condition of the version,
`UpdateFails` is the conflict. `MaxVersion` bounds the version below which an
update is begun; bookings may raise it further.

### EventCancellation

`event`, the requests in `canceller`, the stage of the job in `cancelJob`, and
two sets of transactions that run in the background: `cancelHoldingReservations`
and `refundPaidOrders` do not return the promise of the transaction from their
`map` callback, so `Promise.allSettled` waits for nothing. `JobFails` retries the
job from its start while those transactions go on, until it has used up its
attempts; an unhandled rejection of one ends the process, which is `CrashAll`.
The model is one event; its ticket types are those of `Booking`.

### RedisLock and Availability

`RedisLock` leaves out time: the key may expire at any moment after it was set,
because nothing renews it and nothing bounds the critical section.

`Availability` puts `ReservationsService.create` around it. The commit is the
moment the call leaves its critical section with a hold (`LeaveWithHold`);
`broadcastAvailability` then is a query (`QueryCounter`) and a message (`Emit`)
of its own, after the lock was given back, so other writes and messages come in
between. The end of a hold broadcasts (`EndHold`: expiry, cancellation) or does
not (`EndHoldSilently`: failed payment, cancelled event). A viewer joins and
leaves the event's room and remembers the newest write it was told of and the
number it was told last.

### EventCatalog

One event and the list of one query, so that a list is empty or a revision of
the event, and the cache a function of the version in its key. A reader builds
the key (a Redis read), looks it up, queries the database, builds the key again
and stores, each a step. An editor is a lifecycle request (conditional update,
then `Invalidate`), an update (read, write, perhaps `Invalidate`) or a
cancellation (read, write, `ScanKeys`, `DeleteKeys`). The SCAN is one step; the
pipeline of deletions another.

### Notifications and CursorPaging

`Notifications` follows one order and counts the tasks in the background by kind
and stage, the inbox rows and the mails. An attempt of the reminder job is
`ReminderStarts`, `ReminderChecks`, `ReminderStores` and `ReminderMails`, and only
`ReminderCompletes` ends the job: `ReminderFails` may come between any two of
them, also after the mail is out, when the answer of the mail server is lost or
the worker dies. The retry begins again with the check. `CursorPaging` has rows `[id, createdAt]`,
several of the same instant; ids are random and `createdAt` is the start of the
inserting transaction, so a new row may appear anywhere in the list. A page is a
set of rows: `Newest` takes the rows with fewer than n before them in the order
of the query, and the cursor is the last of them; where a row stands on its page
makes no difference to the walk. `shown` counts the pages each row was on.

### Sessions

One user. An issue of tokens is one row of `refresh_tokens` and one access token,
with one identity; `login` is the token a chain of rotations began with. Requests
are cut at their awaits: a refresh reads the token, revokes it, inserts the next
one; a logout revokes and then writes the Redis entry that refuses the access
token; a change of password writes the hash and then revokes all tokens. `Fail`
ends a request between two of its writes. Hashes and signatures are library
calls: a password is its number in the order of changes. The clock counts ticks
and the tokens and Redis whole seconds, so rounding is visible.

A socket with a token is verified (`Connect`), then waits for the answer of Redis
(`LookUp`), then joins its user's room (`JoinUserRoom`); anything may happen in
between, a logout or the end of the token included, and a failure drops the
socket (`Disconnect`). A socket without a token stays outside, like one that is
`Away`. `WsJwtGuard` verifies and looks up in the same way, but guards an empty
handler.

## 3. The runs

| Run | Question | Bounds |
|---|---|---|
| `Booking` | types, seats, agreement and finality of the rows, refinement of the ledger, when two bookings compete | 1 type of 3 seats, holds of 2 seats, 2 reservations, 2 requests beside both workers and the cron |
| `RowLocks` | does each commit look like one step of `Booking`, and is it one of the ledger; does nobody wait in a circle | 3 transactions and the update of all orders, 2 reservations, 1 type of 1 seat |
| `TicketTypeAdmin` | resizing while selling | sizes 1 and 4 of initially 3 seats, holds of 2 seats, 2 reservations, 1 request, 1 editor |
| `EventCancellation` | seats, sales and the ledger under cancellation; every hold ends; sales made before the job is queued are refunded | 1 reservation of a type with 1 seat, 2 requests, 1 canceller, 2 attempts of the job, any number of crashes |
| `Availability` | ownership of the key, end of every call, what a viewer is told | 2 calls, 2 attempts at the lock, 1 seat, 1 viewer |
| `EventCatalog` | life cycle; an invalidation leads to an empty version; stale lists disappear | 2 editors, 1 reader, 2 revisions |
| `Notifications` | stored before mailed; messages are repeated by retries only; at most one late reminder | 5 attempts of the reminder, 3 of the job, as in the code |
| `CursorPaging` | each row once, none skipped, no cursor to an empty page | 5 rows, 2 instants, pages of 2 |
| `Sessions` | rotation, change of password, and logout against a socket on its way in | 3 tokens, 2 requests, 1 socket, 2 ticks a second, 2 seconds, tokens of 1 second, 1 change of password |

and three that find a sentence of the repository violated, see section 5:
`BookingLateCancel`, `TicketTypeAdminLostSeats`, `EventCancellationLateSale`.

Why these bounds. Rows of different reservations meet only in the stock of their
ticket type, so races on rows need one reservation and as many actors as take
part in one: two requests, the payment job, the delayed job, the cron and a
crash. Races on the stock need two reservations, once of a size that lets only
one of them hold seats (`Booking`) and once with room for both
(`TicketTypeAdmin` once it has been enlarged). One set of ids stands for all cron
scans, because overlapping scans only add ids. Three transactions and the update
of all orders are enough for a circle through every table; the reservation and
the order of a booking are one row each, so two bookings give the update two rows
to lock in either order. Two calls make one the holder whose key has expired and
the other the new one, and two create() with one seat put a sold-out answer, a
hold, its end and the next hold between a query and its message. Two attempts
tell "retry" from "give up", two revisions tell the current list from a stale
one. Three tokens are a login and two refreshes of it, or two logins; two ticks
put a logout into the middle of a second, and two seconds let a token end
between its verification and its lookup. A socket and the passing of seconds
concern one token and its entry at a time, so they are followed with two tokens
and the third only without them (`TimedTokensBound`, a CONSTRAINT). Five rows and pages of two give two
full pages and a remainder, and two instants put ties on a page boundary.
In `EventCancellation` `MaxCancelAttempts` is 2 where the code has 3: its
properties compare one attempt with the next.

What the bounds leave out (more requests, rows, seats, viewers, tokens, attempts)
is covered by the proofs of section 6 for the safety properties listed there.

The sets of rows, revisions, tokens and attempts are finite and rows are never
deleted, so the models stop when they are used up; the cfgs say
`CHECK_DEADLOCK FALSE`. That nothing waits for ever is stated as a property
(`HoldsEnd`, `EveryCallEnds`, `QueuedSalesAreRefunded`, `StaleListsDisappear`,
`NoDeadlock`) instead. Symmetry is used only in runs without liveness properties.

## 4. Fairness

- `EventCancellation` runs under `CancelFairSpec`. From `Booking`: time passes
  (`WF` of `HoldLapses`), `@Cron` keeps scanning (`WF` of `CronScan`), and the
  transaction of a scanned id is not cut short for ever (`SF` of `CronExpires`: a
  failed one is tried again by the next scan, every 30 seconds). Nothing is
  assumed of the delayed job: it may never have been queued. From
  `CancelFairness`: cancel requests go on, the worker takes the job, the database
  runs the transactions it was sent. Failing is always possible and never
  required: `QueuedSalesAreRefunded` names a crash and a job out of attempts as
  its two ways out, `HoldsEnd` needs none.
- `EventCancellationLateSale` uses `QuietFairSpec`, in which neither the
  cancellation fails nor the process dies, so what it finds is not the effect of a
  failure.
- `EventCatalog`: a listing request that has begun goes on or fails, and Redis
  removes an entry whose TTL is over. Nothing is assumed of invalidations.
- `Availability`: each create() makes progress (the critical section ends) and PX
  keys expire. `CallFails` is not fair, so no call ends only because it fails.

## 5. Where the code departs from what it says

Three runs check a sentence of the repository and find a behaviour that
contradicts it; `PROJECT.json` quotes the sentences.

- `BookingLateCancel`: the cancellation of an order overwrites PAID, because the
  write (`orders.service.ts:127`) has no condition on the status read before.
  The money stays captured and the reservation confirmed.
- `TicketTypeAdminLostSeats`: a failed payment returns seats without bumping
  `version` (`payment-settlement.service.ts:117`), and a concurrent resize
  overwrites them. Seats are lost, never oversold: `NoOversell` holds.
- `EventCancellationLateSale`: an order paid after the job has collected the paid
  orders (`event-cancellation.service.ts:135`) is never refunded, although
  nothing fails.

Others are visible in the models, and a property above marks how far they go:

- `orders.service.ts:106` says that the order of an expired hold is cancelled,
  but nothing calls `cancelInternal`: it stays PENDING. By `SaleIsAtomic` and
  `ImplementsLedger` it never becomes a sale.
- `README.md:93` says that the lock lets one request in at a time. After its TTL
  (`redis-lock.service.ts:70`) a second one enters; `HolderKeepsKey` holds up to
  that moment, and nothing in `Booking` relies on the lock.
- `reservations.service.ts:290` says that the latest value is broadcast. The value
  is the latest when it is queried; two broadcasts may overtake each other, and
  the page then shows the older number (`last < newest`) until the next change.
  A failed payment, the cancellation job and a resize change the counter and
  broadcast nothing (`unannounced`). `ViewersAreCurrent` is what remains.
- `auth.service.ts:77`: two requests that refresh the same token at once both
  succeed and leave two live tokens of one login (`forked`); the second is not
  taken for a reuse. `OneLiveTokenPerLogin` says it is the only way.
- `users.service.ts:80`: if the change of password fails between its two writes,
  the old sessions stay (`interrupted`), and a login or refresh that is in flight
  adds its token after the revocation (`late`).
- Logout writes the key `revoked-access-token:<jti>` (`auth.service.ts:103`), the
  sockets read the same key, and `jwt.strategy.ts:25` reads
  `revoked_access_token:<jti>`. `LogoutReachesGateway` is therefore stated for the
  sockets alone.
- `websocket.gateway.ts:36` verifies the token and line 40 then waits for Redis.
  The entry of a logout made on a whole second ends in the same moment as the
  token, so a socket verified just before that moment and looked up at it joins
  with a token that was logged out (`revoked`). `LogoutReachesGateway` says that
  this is the only way: whoever passes the lookup after the logout has a token
  that is over by then.
- `event-cancellation.service.ts:58` says "try again later", but CANCELLED was
  written before the job was queued, so trying again queues nothing
  (`CancelEventFails`, then `BeginCancelEvent` is disabled).
- `event-cancellation.service.ts:193`: the users to be told may be looked up
  (`JobNotifies`) before the background transaction has cancelled their holds.
- `cache.service.ts:56`: old versions are outdated for good only until an event
  is cancelled, because `delByPrefix('events:published:')` deletes the version
  key as well. `OldVersionsStayOutdated` is stated up to the cancellation; the
  model has one event, and in the code the cancellation of any event counts.
- `events.service.ts:61`: an update that read the event before its approval does
  not invalidate the list (`WriteUpdate`); the list is stale until its TTL
  (`StaleListsDisappear`).
- `notifications.service.ts:98`: one reminder may slip through after the
  cancellation (`AtMostOneLateReminder`), and a retried reminder is stored and
  mailed once more, whether or not the mail of the failed attempt went out.
  `RepeatsAreRetries` bounds how often.

## 6. The proofs

Each theorem holds for every value of the constants that the named assumptions
of its module allow; TLC evaluates those assumptions in the runs. Every proof
has the same plan: an inductive invariant, one lemma or step per action, and a
last step in temporal logic. What each invariant needs beyond the property:

`BookingProofs`, for all sets of ticket types, reservations and requests, all
capacities and positive quantities:

1. `TypeCorrect`: `TypeOK` is inductive only together with `WellFormed` of this
   module (rows and suspended handlers refer to rows that exist, which the foreign
   keys and the checks before each await guarantee): the decrement subtracts a
   quantity that an earlier step put into `request`.
2. `SaleAtomicity`, `FailureEndsBooking`: inductive over 1. `EveryStatusStep`
   first reduces every action, whoever takes it, to one of eight status changes
   of one booking, and the invariant is checked against those.
3. `StatusesFinal`: the action property `FinalStatuses`, from 2 and the same
   eight changes. `SaleIsAtomic` is needed because `CanSettle` alone does not
   exclude a confirmed reservation.
4. `ExpiryNotEarly`: the transaction does not look at `expiresAt`; that it is
   only reached with a lapsed reservation is the part of `WellFormed` about
   active jobs and cron scans.
5. `SeatConservation`: `SeatsConserved` is inductive over 1 once it is known
   that the set of claimed seats of a ticket type is finite. Seats are pairs of a
   reservation and a number, so the sum over the holds is the size of a disjoint
   union: `ClaimsOfHold`, `ClaimsOfEnd` and `ClaimsOfSale` say how that set
   changes, and `EverySeatStep` that nothing else changes it.
6. `LedgerImplemented`: `Spec => Ledger!Spec`. The guard of the ledger's `Hold`
   speaks of the claimed seats, that of the code of a counter; `NothingOversold`
   connects them. A settlement is `Sell`, the end of a hold `Release`, everything
   else stutters.

`RowLocksProofs`, for any number of connections and rows:

- `LocksProtectRows`: the invariant `LockInv`. A locked row still satisfies the
  WHERE clause that found it, and a row that settleFailure passed over never
  comes to satisfy it (`HeldRows`); which rows are locked follows from how far the
  transaction is (`Progress`); no row is locked twice (`Exclusive`).
- `NeverDeadlocked`: connections wait at a payment, an order, in the update of all
  orders, at a reservation or at a ticket type, in this order; who is waited for
  waits further down (`WaitsDown`). The refund seems to break the order, since it
  locks the order first: but it holds the order only of a sale, whose payment no
  settlement can hold (`RowsAgree`).
- `TransactionsLookAtomic`: at a commit the locked rows satisfy the guards of the
  one step that `Booking` takes, by `LockInv`.

- `RowTypesCorrect`: from `LockInv`; that a commit never makes the counter
  negative is the part of `HeldRows` about create, which compared the counter
  before it may have waited for the row.
- `TransactionsKeepBookings`, `TransactionsKeepLedger`: the committed rows are a
  state of `Booking` (`TablesFit`), so its lemmas about seats apply to them: the
  module takes `BookingProofs` by INSTANCE and cites `SeatsOfHold`, `SeatsOfEnd`,
  `SeatsOfSale` and the lemmas that map these steps to the ledger, once each step
  is known to be atomic (`StepIsAtomic`). `SameLedger` says that the two instances
  of the ledger, one under `RowLocks` and one under its proofs, are the same.
  `RowsOfAtomicStep` does the same for sales and failed payments, and
  `TransactionsKeepStatuses` for the statuses that are never left, which is
  `FinalStatuses` without the assumption that a transaction is one step.

`BookingExtensionsProofs`, built on the lemmas of `BookingProofs`. For
`TicketTypeAdmin`:

- `AdminTypeCorrect`, `NeverOversold`, `ResizableLedgerImplemented`. With
  resizes, `SeatsConserved` fails and its half `NothingOversold` remains. It
  needs `EditsFit`: an update whose version is still current has read the present
  total and at most the present counter, because every decrement bumps the
  version and what does not bump it only adds seats.
- `UpdatesKeepBookings`: the rest of what `Booking` promises (`SaleIsAtomic`,
  `FailedPaymentEndsBooking`, `NoEarlyExpiry`, `FinalStatuses`) does not notice
  the resizes.

and for `EventCancellation`:

- `CancelTypeCorrect`, `CancellationKeepsBookings`, `CancellationKeepsFailures`,
  `CancellationImplemented`. The invariants of `Booking` are kept by the four
  steps of the job and its background that write its tables (`JobCancelsOrders`,
  `CancelHold`, `Refund`, `CrashAll`); all other steps are steps of `Booking` or
  leave its variables alone (`BookingOrCancellation`).
- `CancellationKeepsStatuses`, `CancellationKeepsExpiry`: the same four steps
  against the action property and against `NoEarlyExpiry`. The refund leaves PAID
  only, by `SaleIsAtomic`, and the cancellation ends holds as CANCELLED.
- `RefundsFollowCancellation`: before the event is CANCELLED the job does not
  exist, nothing runs in the background and no row is REFUNDED (`Untouched`), and
  what is due for a refund was paid (`DueArePaid`). Nothing in the job looks at
  the event's status; it is the order of the two writes of `cancelEvent` alone.

`AvailabilityProofs`:

- `LockHeld`, `LockHeldByCreate`: `HolderKeepsKey` is inductive with the types,
  in `RedisLock` and with create() filled in.
- `CallsAreBounded`: a measure of the steps a call has left, which each step of
  the call lowers and no other step raises. It is the part of `EveryCallEnds` that
  needs no fairness: the retries cannot go on for ever.
- `ViewersStayCurrent`: needs that each create() and each end of a hold has a
  broadcast of its own (`OneBroadcastEach`), that what was read after a write is
  not older than it (`ReadAfterWrite`), and that nobody was told of a write that
  was not made (`NothingInvented`).
- `AvailabilityTypeCorrect`: the counter and the holds add up to the seats
  (`HoldsCounted`), and each caller has made as many writes as its hold has come
  far, two at most, so the number of writes is bounded by the number of callers
  (`NumbersBounded`). Only this theorem needs `CallersAssumption`, that finitely
  many calls are made, because the type counts them.

`EventCatalogProofs`:

- `CatalogTypeCorrect`: that the version stays within the keys of the model
  follows from `Counted`: every invalidation, done or pending, has an update or a
  change of status of its own behind it.
- `LifecycleInOrder`: the action property, from the types.
- `OldVersionsOutdated`: nothing is stored or about to be stored under a version
  the key has not reached (`Ahead`), until `DeleteKeys` resets it.

`NotificationsProofs`:

- `NotificationsTypeCorrect`, `MailsAreStored` (a task that has stored its row
  and not sent its mail is counted on the side of the mails, `RowsFirst`),
  `RepeatsHaveRetries` (what is about to be stored is counted with what is stored,
  against the settlements and attempts made, `Repeats`) and `OneLateReminder`
  (after a late reminder no attempt is past its check, `LastReminder`).

`CursorPagingProofs`, for any page size and any set of ids: all four
properties are parts of one invariant, `PagingInv`, together with what they need
of each other:

- `PagingTypeCorrect`, `RowsShownOnce`, `NoRowMissed`, `CursorHasNext`. Ids are
  unique (`Table`), the rows that follow the cursor have not been shown
  (`NoneAheadShown`), and the rows up to it that existed at the start have
  (`NoneBehindMissed`). An insert may break neither: a new row has not been
  shown, and it did not exist at the start. The lemmas about `Newest` say that it
  is closed towards the front, that it has n rows or all of them, and that the
  last row of a page exists and is the only one; they rest on the order being
  strict and total (`NewerOrders`) and on the table being finite: the newest and
  the oldest row exist because strict inclusion of finite sets is well-founded
  (`NewestExists`, `OldestExists`). No induction over data is needed, because a
  page is a set.

`SessionsProofs`:

- `SessionsTypeCorrect`.
- `LoggedOutStaysOut`: the entry of a logged-out token reaches to the token's last
  tick, or the token is over (`LogoutInv`), so a lookup that finds no entry finds
  the token over as well (`NoEntryLeft`), and it stays over while the socket goes
  on (`SocketInv`). The arithmetic of ticks and whole seconds is in
  `EntryOutlivesToken` and `ValidityInTicks`.
- `RotationIsExclusive`: of an unforked login either one token is live or one
  request is rotating it (`RotationInv`).
- `PasswordChangesEndSessions`: what a request carries must be excused like what
  it will insert (`PasswordInv`).

Only model-checked: liveness, which is out of the prover's reach like `ENABLED`.
`HoldsEnd`, `QueuedSalesAreRefunded`, `EveryCallEnds` and `StaleListsDisappear`
are checked on the instances of section 3. Theorems come near three of them:
`CallsAreBounded` is the progress measure of `EveryCallEnds`,
`RefundsFollowCancellation` that what is due for a refund was paid, and
`OldVersionsOutdated` that an outdated list does not come back.

## 7. Not modelled

- Mailer, templates, guards, filters, interceptors, DTO validation, bootstrap and
  configuration: input and output, or wiring. The modules see a mail as sent or
  failed, and a rejected request as one that did not begin.
- Without a caller in the repository: `ReservationsService.confirm` and
  `confirmWithTx`, `OrdersService.cancelInternal`,
  `EventsService.submitForApproval` and `approvalEvent` (the controllers use
  `EventLifecycleService`), `CursorPaginatedResponse`.
- Ticket types: their creation is the initial state; the deletion, which the
  database refuses once a reservation refers to the row, and the edits of name,
  price and sales window touch nothing the properties are about.
- Catalogue: the normalisation of a query into its key, `findOnePublished` and
  the admin listings, which are not cached.
- Notifications: `markAsRead`, one unconditional write, and the push over the
  socket, which is not retried or stored.
- Sessions: the expiry of refresh tokens (days, where access tokens live
  minutes), Redis losing an entry, and `updateProfile` and `updateRole` (one
  unconditional write each). A socket that has joined stays when its token is
  logged out, because `handleConnection` looks once; no property says otherwise.
- Hazards without a property. `event-cancellation.service.ts:40`: that a cancelled
  event is processed is not so when the queue fails, and no weaker promise is
  left. `events-cache.service.ts:41`: a Redis that fails between two commands
  fails the one request. `payment-settlement.service.ts:82`: that the
  confirmation of a sale is sent is promised neither after an exception nor after
  a restart; `Notifications` lets both happen.

## 8. Plan

Done, in this order: `Booking` with `TicketLedger`; `TicketTypeAdmin`;
`EventCancellation`; `EventCatalog`; `CursorPaging`; `Notifications`;
`RowLocks`; `RedisLock` with `Availability`; `Sessions`; and the proofs above.

What could still be proved:

1. from `TicketLedger` alone, that its claims never exceed a total that is not
   resized, so that every module that implements the ledger has it at once;
2. the progress measures behind `HoldsEnd` (a lapsed hold stays in reach of the
   next scan) and `StaleListsDisappear`, as `CallsAreBounded` is for the lock;
3. that what the cancellation job collects at one moment is all that is paid at
   that moment, and is only given up by a refund, a cancellation or a crash.

What could still be modelled:

1. the normalisation of a listing query into its cache key against the filters of
   the database query, as pure operators over a small set of queries;
2. ids of jobs that stay in the queue after they have failed, for as long as
   `queue-defaults.ts` keeps them, and a second cancellation of the event then;
3. two ticket types of one event in `Availability`, and a resize as one more
   writer that does not broadcast;
4. the expiry of refresh tokens in `Sessions`.
