# A TLA+ model of core-backend

`core-backend` is the NestJS backend of a multi-tenant shop and restaurant
catalog: products and variants, an internal warehouse, carts and hall tables,
checkout, order export to iiko and MoySklad, catalog synchronisation, media,
domains, authentication. State lives in PostgreSQL (through Prisma), in Redis
and in the memory of each server process; several processes may run at once, and
each runs its timers.

This directory models the parts in which the order of steps matters, checks them
with TLC on small instances and proves the central invariants with TLAPS for
instances of every size. Paths below are relative to `src/src/modules` unless
they begin with `shared/`.

1. [Inventory of the system](#1-inventory-of-the-system)
2. [Modules and how they correspond to the code](#2-modules-and-how-they-correspond-to-the-code)
3. [Runs](#3-runs)
4. [Fairness](#4-fairness)
5. [Proofs](#5-proofs)
6. [Findings](#6-findings)
7. [Not modelled](#7-not-modelled)
8. [Plan](#8-plan)

## 1. Inventory of the system

| Component | State | Operations | What is hard | What makes it correct |
|---|---|---|---|---|
| Inventory (`inventory/`) | balance rows (on hand, reserved, available), movements, reservations, warehouses, `ProductVariant.stock` | reserve, release, expire, sell, adjust, warehouse CRUD with resync | READ COMMITTED transactions of many requests and a job on the same rows; values read before a lock is held; deadlocks | no quantity below zero; available = on hand - reserved; the journal adds up; reserved = what ACTIVE reservations hold; the read model is the sum; due reservations end |
| Domain event outbox (`shared/domain-events/`) | outbox rows, the bus's `handled` and `handling` sets per process | appendTx, dispatchMany, drain, retry, cleanup | crashes between claim and mark, stale claims, two calls of one process on one event | delivered at least once before PROCESSED; PROCESSED is final; everything written is delivered or used up |
| Cart lifecycle and checkout (`cart/`) | cart rows, lines, table sessions, orders, what the cart holds of the stock | getOrCreate, lines, share, delete, join a table, submit, begin / heartbeat / release by a manager, complete, close, three sweeps | checks before a transaction and writes by id in it; two rows (cart, session) written by different operations | one order per cart; one active session per table; sessions and carts end alike; a cart that ended holds no stock; a table nobody uses becomes free |
| Cart line pricing, variants, modifiers (`cart/`) | none (computed) | price of a line, selection checks | rounding, combination of options | equals its definition |
| Cart events over SSE (`cart/cart-sse*`) | open connections, replay buffer, Redis channel | publish, subscribe, replay | reconnects, lost and repeated messages | a client that reconnects misses nothing that is still in the buffer |
| Order export (`integration/`, `providers/iiko`, `providers/moysklad`) | export rows, BullMQ jobs | enqueue, claim, send, mark, retry, reconcile | unreliable provider, stale claims, marks by id | SUCCESS is backed by a document and is final; no second document; every export settles |
| Catalog synchronisation (`integration/providers/*`) | sync runs, jobs, the lock in the integration row, stored webhooks, links of products | request, schedule, begin, finish, cancel; store and drain webhooks; hide what is missing | check then create, several triggers, crashes between lock and release; a snapshot read by offset while it changes | one synchronisation at a time, the lock released on every way out, runs end, stored events are applied, one bad snapshot hides nothing |
| Auth sessions and handoff (`auth/`) | sessions, indexes, failed-login counters and handoff tokens in Redis | login, reuse, logout, change of password, revocation, handoff, lockout | several commands without a transaction | a new password closes the older sessions; a counter of failed logins expires or locks |
| Media storage (`s3/`) | media rows, upload jobs, objects | presign, multipart, enqueue, render, drop the raw object, record | partial failure between database and object store, retries from the first item, two jobs for one key | an uploaded image is never lost; READY media has all its variants |
| Catalogs and custom domains (`catalog/`, `cron/`) | catalogs, domain rows | attach, verify, activate, disable, the cron job | a row is read, DNS is asked, the row is written by id | an active domain belongs to the holder of the zone; a domain with right records becomes active |
| Caches (`shared/cache`) | versioned keys in Redis | read through, bump version | a fill that races an invalidation; swallowed errors | a read returns what was announced before it began; stale answers end |
| Categories (`category/`, `product/`) | positions of products | CRUD, reading page by page | pages read while products move | paging neither skips nor repeats a product that stays |
| Products, price lists, modifiers, admin, SEO, audit, e-mail, ... | rows | CRUD | little of their own | rows keep their constraints |

How they interact. A cart that is shared or managed calls
`InventoryReservationService` inside its own transaction, after it has written
the cart row; checkout sells what was reserved (`consumeCompletedOrderStock`)
in the transaction that makes the order, and writes outbox events with
`appendTx`. After the commit, events are dispatched to in-process handlers
(cache invalidation, integrations) and, for hall tables, the order is exported
and the session closed. Timers in every process drain the outbox, expire
reservations, pause inactive managers, and expire abandoned carts and tables.
An order completed at a hall table enters `OrderExport` through the queue; a
webhook of MoySklad ends in a drain job, one of iiko in an update of the export
row; a synchronisation ends in an outbox event that bumps cache versions.
The list of what is hard to test, each at its line and with the properties that
are about it, is under `hazards` in `PROJECT.json`.

## 2. Modules and how they correspond to the code

| Module | Models |
|---|---|
| `Inventory` | `inventory/inventory.repository.ts`, `inventory.service.ts`: every operation that changes a balance, a reservation, a warehouse or the stock read model, one SQL statement a step |
| `DomainEventOutbox` | `shared/domain-events`: repository, dispatcher, in-process bus, drain and cleanup jobs, one statement or awaited handler a step |
| `CartLifecycle` | `cart/`: every operation that changes the status of a cart or of a table session, its lines or its reservations, one read or one transaction a step |
| `EventDelivery` | what the outbox promises: events are stored, their handlers run in order and perhaps again, an event is acknowledged once, after all of them. `DomainEventOutbox` implements it (`ImplementsDelivery`) |
| `OrderExport` | `integration/integration.repository.ts` (export rows), the order-export queues and services of iiko and MoySklad, reconciliation, manual retry, one await a step |
| `SyncRuns` | `integration/providers/*/*.queue.service.ts`, the sync services and the lock of `integration.repository.ts`: iiko, MoySklad and 1C, one await a step |
| `WebhookEvents` | the stored webhooks of iiko and MoySklad and the drain job |
| `MissingProducts` | snapshots of a provider's products and what becomes of a product they lack |
| `AuthSessions` | `auth/session`, `auth/handoff`, login, logout, change of password, one Redis command (or MULTI) a step |
| `LoginLockout` | `auth/auth.service.ts`: the failed-login counter and the lock |
| `VersionedCache` | `shared/cache/cache.service.ts` as its readers and writers use it |
| `CatalogDomains` | `catalog/catalog-domain.service.ts` and its cron job |
| `MediaUploads` | `s3/`: presigned and multipart uploads and the upload queue |
| `CategoryPages` | `category/` and `product/`: the loop that collects a page |
| `Backend` | the last ten in one specification, one of them at work in each behaviour |
| `MC...` | the instances for TLC: names of model values, the mapping of lines to carts or of workers to processes, symmetry |
| `...Proofs` | theorems and proofs: `InventoryProofs`, `DomainEventOutboxProofs`, `CartLifecycleProofs`, `OrderExportProofs` of the module of that name, `SyncProofs` of `SyncRuns` and `WebhookEvents`, `ServiceProofs` of `AuthSessions`, `LoginLockout`, `VersionedCache`, `CatalogDomains` and `MediaUploads`, `CatalogProofs` of `CategoryPages` and `MissingProducts`, `BackendProofs` of `Backend` |

`PROJECT.json` maps each definition to the lines it stands for. Definitions
whose comment begins with *Mutant* are not part of the model: each is a
plausible slip in the code (a dropped guard, a wrong comparison, a missing
reset) that makes a property fail, and so shows what the property looks at.

**Inventory.** PostgreSQL at READ COMMITTED is modelled by its effects: a row
has a latest version (`bal`, `res`, `stock`) and a committed one (`cbal`,
`cres`, `cstock`), and `held[p]` are the row locks of session `p`. A statement
reads the committed version, or its own transaction's; an `updateMany` waits
until the row is free and evaluates its `where` on the latest version; `Commit`
and `Rollback` publish or undo what the session has locked. A transaction is a
record `tx[p]` with a program counter and the values its earlier statements
read, so a value that is stale in the code is stale in the model.
`BeginReserve ... SaveReservation` is `reserveCartStock` / `reserveCartLine`,
`NextRelease, Claim, ReleaseReservedQuantity` is `releaseActiveReservation`,
`ReadHold, MarkConsumed, SellReserved, SellDirect` is
`consumeCompletedOrderLine`, `BeginAdjust, UpsertBalance` is `adjustStock`,
`SumAvailable, SetStock` is `syncVariantStockReadModel`. `DeadlockVictim` is
PostgreSQL's deadlock detector, `Throw` an operation whose update matched no row,
`Crash` a lost connection. Movements are kept as their sum per balance row;
`ProductVariant.stock` as its addends per warehouse, so that a stale sum can be
told from a fresh one.

**DomainEventOutbox.** `row[e]` is the outbox row, `stale` says that `lockedAt`
is older than the stale window. A worker is one call of `dispatchMany`,
`drainPending` or `retryByIds`, in a process whose bus it shares. `ran[e]` is a
history variable: the handlers that have returned for `e`. Faults are a constant:
handlers that throw, processes that die, statements the database refuses, and
workers slower than the stale window.

**CartLifecycle.** `cart[c]` and `session[c]` are the two rows, `held[c]` the
lines of `c` with an ACTIVE reservation, `orders[c]` counts the orders made from
`c`. A request first reads and checks (`Begin...`), then writes in one or more
later steps, so another request or a sweep can come between the check and the
write wherever it can in the code. A transaction whose first write is the cart
row holds its lock to the end and is one step; `complete` reads the lines before
it has the lock, and is two (`ReadCheckout`, `Claim`). The sweeps find carts in
one step and write in another. What reserving and selling do to the warehouse is
in `Inventory`; here they set `held`.

**EventDelivery.** The mapping is at the end of `DomainEventOutbox`: `stored` are
the events with a row, `run` is `ran`, `acknowledged` are the rows that are
PROCESSED or were cleaned up. Claims, the bus's memory, crashes, stale rows,
drains and retries are stuttering; only a handler that returns and the mark
PROCESSED are steps of the abstraction. The implementation holds while no worker
outlives the stale window; `outbox_slow` shows what happens otherwise.

**OrderExport.** One export row (rows of different orders share only the
integration's settings), the jobs of its three triggers and the documents the
provider holds. The ORDER_COMPLETED job has a fixed id and is kept a day, the others a
fresh one (`Copies` of each exist at once). A job goes `read` (the settings are
checked), `claim` (`markOrderExportRunning`, a conditional update), `order`,
`lookup` and `create` for MoySklad, `create` and `poll` for iiko (whose document
carries the order's id), and then writes by id: `success`, `error` or `refused`. The provider may create the document and
lose the answer, or the document of a call that timed out may appear later
(`onTheWay`, `Abandon`, `DocumentArrives`). `exportFaults` says what else happens in a behaviour: crashes,
provider errors, database errors, workers slower than the stale window, changes of
the settings, iiko's webhook that writes the row itself, whatever its status, and
reports success only of an order the provider has. The reconciliation goes by the
settings it read together with the rows (`readExports`).

**SyncRuns.** A run is a slot with the request that creates it (`asking`) and the
job that works on it (`working`). `RequestSync` is `assertNoActiveRun`, the
creation is a step of its own, so two requests can pass the check;
`BeginSync` takes the lock of the integration row in one conditional update, when
it is free or older than the timeout. The ways out follow the `try` blocks:
`ReleaseSync` is the update of `finish...Sync` or `fail...Sync`, by catalog,
whoever holds the lock; `TidyUp` is what the same `try` still does after it (the
row is read again, caches, progress). A statement that fails there reaches the
catch block, which releases the lock a second time (`ReleaseAgain`), also when
another run has taken it meanwhile; `droppedAgain` is a history variable that
says so. `Caught` and `Escapes` say for each place which catch block
takes over, or that none does. Only a product run of 1C stays active
when it is refused (its catch block reads the id of a run that is still null), the
variant, stock and price runs are written off. Removing an integration resets the
lock in iiko and MoySklad and not in 1C. What a synchronisation writes is left out
here.

**WebhookEvents.** `ReceiveWebhook` stores an event or finds its row.
MoySklad's events wait for the drain job (one id for each integration, so an
add while it exists does nothing); it takes `DrainLimit` PENDING events, marks
them, applies the stock report and marks them PROCESSED, or FAILED after its last
attempt. iiko's events are marked, acted on and settled in the request. `applied`
is a history variable; `left` are the events a drain has passed by.

**MissingProducts.** A full synchronisation of MoySklad reads pages by offset
(`GetAssortmentPage`) while items depart and arrive, iiko's comes in one answer.
An item that is there can be withheld: archived, out of stock when the
integration owns the stock, unfit for synchronisation in iiko. Its product is
hidden as soon as that is read (`DeactivateUnsyncable` in iiko, `StatusOnSync` in
MoySklad). Each item is written in two steps, the product (`SyncItem`) and the
link (`UpsertProductLink`), and may fail before, between or after them;
products the snapshot lacked are counted (`HideMissing`) and hidden or deleted
at `Confirmations`. `away` is a history variable: the items that were really gone or
withheld since they were last synchronised.

**AuthSessions, LoginLockout.** Each Redis command of a request is a step, a MULTI
is one. Passwords are numbered, so that a session remembers under which it began
(`begunWith`). `excused` are the sessions the code does not promise to close:
the one that changed the password, logins under way, sessions beyond the list of
logins, and what a change that died has left. An attempt to log in ends in a deleted
counter, an incremented one, or neither: a right password without access to the
catalog (`ForbiddenException`) does not touch the counter.

**VersionedCache.** A key is the vector of the versions of its scopes, read one
command at a time; an entry is a key and the value computed for it. Values are the
number of writes they contain. `due[p]` are the writes whose bump had been done
when read `p` began.

**CatalogDomains.** `domain[h]` is the row; a manual check and the cron job read
a row, resolve DNS and write by id, each in a step of its own, with the token they
read. A statement of a request may throw (`AskFails`), in the manual check and when
the row is written, too. `zone[h]` is the TXT record, written only by the owner of `HolderOf[h]`.
`created` and `checked` are the orders in which the cron job picks rows.

**MediaUploads.** A job has a list of items and works through download, each
variant, deletion of the raw object and the media record; a failure starts it
again at the first item. Two jobs may work on one key.

**CategoryPages.** `LoadItems` loads `limit + 1` rows after the loop's cursor,
`MapItems` drops the hidden ones and decides whether to load again, to end, or
to answer with a cursor. Administrators move, hide and remove products between
any two steps.

**Backend.** The ten modules keep their state in rows and keys of their own.
Where one triggers another, the modules list it as environment (an export can be
asked for at any time, a write is announced at any time), so a
behaviour of the whole is a shuffle of behaviours of the parts. `Backend`
therefore lets one component, `focus`, move in a behaviour, and the others rest in
an initial state; a single run explores the sum of their state spaces instead of
the product. No property speaks of two components' variables.

## 3. Runs

| Run | Configuration | Checks | Bounds |
|---|---|---|---|
| `inventory_serial` | `MCInventorySerial` | `BalanceEquation`, `JournalAccounts`, `ReservedBacked`, `StockFresh` | one session, two warehouses of which one exists at the start, one line, two units: every operation but the sweep of reservations, a line that moves between warehouses, a sale of which one unit was reserved in one warehouse and the other is sold from another, and the resync included |
| `inventory_reserved` | `MCInventoryReserved` | `TypeOK`, `ReservedBacked`, `StockFresh` | two sessions, two carts with a line each of one variant, quantity to 2 of 3 units, lost connections: enough for two lines that cannot both be filled, and for a reservation larger and smaller than the line sold |
| `inventory_expiry` | `MCInventoryExpiry` | `BalanceEquation`, `DueReservationsEnd` | two sessions, one line, the expiry job against renewals and releases: the two opposite lock orders meet, so deadlock victims occur |
| `inventory_adjust` | `MCInventoryAdjust` | `BalanceEquation` is violated | a reservation and an adjustment |
| `inventory_stale_sweep` | `MCInventoryStaleSweep` | `ReservedBacked` is violated | a reservation and the expiry job |
| `outbox` | `MCDomainEventOutbox` | `TypeOK`, `ProcessedMeansDelivered`, `HandlingExact`, `ProcessedIsFinal`, `EventuallyDelivered`, `ImplementsDelivery` | one event with two handlers, two processes, three calls (two share a bus), two attempts, one crash or refused statement, handlers that throw at will |
| `outbox_slow` | `MCDomainEventOutboxSlow` | `NothingLost` is violated | two calls of one process that may be slower than the stale window, handlers that throw |
| `cart_hall` | `MCCartHall` | `TypeOK`, `AtMostOneOrder`, `OneSessionPerTable`, `SessionCartAgree`, `StaleSessionsEnd` | one table, two carts (the table can be used again), two requests at a time: guests join, order and submit, the waiter confirms or closes, the sweep runs |
| `cart_desk` | `MCCartDesk` | `EndedHoldsNothing` | one cart, two lines, a manager and an administrator, two requests at a time, every operation of a cart without table, the sweeps, the reservation TTL, crashes |
| `cart_reopened` | `MCCartReopened` | `AtMostOneOrder` is violated | `begin` against `complete` |
| `cart_late_line` | `MCCartLateLine` | `ConvertedHoldsNothing` is violated | one request completes, a line is added |
| `backend` | `MCBackend` | the nineteen properties below | below; 453,000 distinct states |

| Component in `backend` | Properties | Bounds |
|---|---|---|
| all | `BackendTypeOK` | |
| `OrderExport` | `SuccessMeansExported`, `ExportedOnce`, `SuccessIsLast`, `ExportSettles` | one job of each trigger, two attempts; with crashes and lost answers two workers and either provider, with database errors, changed settings, webhooks or late documents one worker; one fault, one toggle |
| `SyncRuns` | `OneSyncAtATime`, `LockReleased`, `RunsEnd` | two runs, two attempts, three providers, one crash, refused statement, change of settings, removal or cancellation |
| `WebhookEvents` | `ProcessedMeansApplied`, `EventsSettle` | two events, a drain that takes one, two attempts, one crash or change of settings |
| `AuthSessions` | `OldSessionsClosed` | two requests, two sessions, a list of one login (so that it drops one), one change of password or revocation, one request that dies or read that fails |
| `LoginLockout` | `CounterGuarded` | two logins at once, a limit of two, one request that dies |
| `VersionedCache` | `ReadsFresh`, `StaleEnds` | two scopes, one write of each, one reader again and again, one failing command |
| `MissingProducts` | `HiddenOnlyWhenGone` | two items on pages of one, two confirmations, one disturbance (the property excuses a second), one error; items are withheld at will |
| `CatalogDomains` | `ActiveIsProven`, `DomainsActivate` | two catalogs, two hostnames with different holders of which one never resolves, two tokens, a cron job that takes one row, one database error |
| `MediaUploads` | `MediaKept` | two keys, two variants, two jobs, two attempts, one fault |
| `CategoryPages` | `PagesComplete` | three products at two positions (so that positions are equal), pages of one and two, one change while a list is read |

What they say:

* `SuccessMeansExported`, `ExportedOnce`, `SuccessIsLast`: the row's SUCCESS is
  backed by a document in every environment; in a quiet one (crashes, provider
  errors and lost answers, but no database errors, slow workers, changed
  settings, webhooks or late documents) there is at most one document, one job past the claim, and
  SUCCESS is final. `ExportSettles`: reconciliation leaves no row PENDING or RUNNING
  for ever.
* `OneSyncAtATime`, `LockReleased`, `RunsEnd`: two requests may both pass
  `assertNoActiveRun`, but one of them only gets the lock, crashes and refused
  statements included, until a second release has dropped the lock of another run
  (see [Findings](#6-findings)); without crashes and database errors whoever got it
  releases it, and runs of iiko and MoySklad end.
* `ProcessedMeansApplied`, `EventsSettle`: a drain that died half way marks
  nothing it did not apply, and an event that stays open is one the drain passed by.
* `OldSessionsClosed`: see `excused` above for the exact promise.
* `HiddenOnlyWhenGone`: a page boundary that moves hides no product that was there.
* `DomainsActivate`: rows that never pass do not starve a good one, because the cron
  job marks what it has checked.

The bounds are named in the modules: `MaxQty`, `MaxStock`, `MaxAttempts`,
`MaxCrashes`, `MaxOrders`. Every hazard the runs are about involves at most two
actors on one or two rows, so two sessions, two requests or two calls of a
process meet in every order; a third call in `outbox` runs in another process.
Events interact only through the order in which a call works through its rows:
two events with three calls do not finish in minutes, so `outbox` has one, and
what it checks as invariants is proved for any number of them. `MaxOrders = 2`
lets a second order be made and be seen. Symmetry is used for sessions and
requests, and only where no liveness is checked.

Deadlock is checked in the inventory runs: a state in which every session waits
would be one that the deadlock detector does not resolve. The outbox and cart
runs allow the system to come to rest: all events delivered, all carts ended. So
does `backend`, whose budgets of faults and writes are used up.

`inventory_serial` says nothing about two sessions and has neither the sweep of
reservations, which by itself breaks `ReservedBacked`
(`inventory_stale_sweep`), nor crashes, which lose a resync; `StockFresh` with two
sessions is checked with one warehouse only, and `cart_hall` has no crashes. The
hazards say what happens beyond that.

## 4. Fairness

* *Inventory*: the expiry job is started by its schedule again and again (weak
  fairness of `ReadExpired`). The connection pool and PostgreSQL's lock queues are
  first come, first served, so the job gets a session and a statement that waits
  for a row gets it although the row is taken and freed infinitely often: strong
  fairness of `BeginExpire` and of the steps that wait for a lock. An open
  transaction goes on (weak fairness of `Proceed`). No fairness is assumed of
  requests. `DueReservationsEnd` needs no more.
* *DomainEventOutbox*: the drain runs every 30 seconds, in whichever process has
  a worker free (strong, since workers are busy and free again); a process runs
  its calls on; time passes, so a PROCESSING row nobody works on becomes stale.
  Nothing makes a request come, and a handler may throw every time, which is why
  `EventuallyDelivered` ends in "or tried `MaxAttempts` times".
* *CartLifecycle*: a request ends, by success or error; the timers fire. The
  start of the table sweep is strong: a stale table may be written to and grow
  old again and again, and the property is about each time.
* *OrderExport*: BullMQ runs a job that waits and the process its steps (weak
  fairness of `JobStep`); the reconciliation timer fires; time passes, so a
  RUNNING row nobody works on becomes stale. Nobody has to retry by hand.
* *SyncRuns*: a request and a job that began go on; the lock's timeout passes.
  Nothing makes a request come.
* *WebhookEvents*: receivers and the drain job go on. No webhook has to come,
  which is why `EventsSettle` excepts the events a drain passed by.
* *VersionedCache*: keys have a TTL, so entries expire.
* *CatalogDomains*: the cron job fires, and its DNS queries end. Administrators
  do nothing they do not want to.

All of these are weak: each step stays enabled until it is taken.
`MissingProducts`, `MediaUploads`, `AuthSessions`, `LoginLockout` and
`CategoryPages` have safety properties only and no fairness.

## 5. Proofs

All theorems hold for every value of the constants that satisfies the ASSUMEs:
any number of sessions, warehouses, variants, lines, events, processes, carts,
tables, requests, jobs, runs, readers, hostnames, keys and variants, and any budget
of faults.

| Theorem | Assumes | Says |
|---|---|---|
| `InventoryTypeOK` | | no order of statements drives a quantity below zero, in any version of a row |
| `BalanceRowsStaySquare` | `"adjust" \notin Ops`, or one session | `BalanceEquation` |
| `MovementsAccountForStock` | `"adjust" \notin Ops`, or one session | `JournalAccounts` |
| `BusMemoryExact` | | `HandlingExact`, slow workers included |
| `DeliveredBeforeProcessed` | `"slow" \notin Faults` | `ProcessedMeansDelivered` |
| `DeliveredStaysDelivered` | `"slow" \notin Faults` | `ProcessedIsFinal` |
| `OutboxImplementsDelivery` | `"slow" \notin Faults` | `ImplementsDelivery`: the outbox refines `EventDelivery` |
| `OutboxTypeCorrect` | | `TypeOK` |
| `CartTypeOK` | | `TypeOK` |
| `EndedCartsHoldNothing` | | `EndedHoldsNothing`, for every set of operations |
| `TablesShareOneSession` | | `OneSessionPerTable`, for every set of operations |
| `OneOrderPerCart` | no `share`, `submitHall`, `begin`, `heartbeat`, `release` | `AtMostOneOrder` |
| `EndedSessionsAgree` | the same | `SessionCartAgree` |
| `SuccessBackedByDocument` | | `SuccessMeansExported` |
| `NoSecondDocument` | (`Quiet`, in the property) | `ExportedOnce` |
| `SuccessStays` | (`Quiet`, in the property) | `SuccessIsLast` |
| `OneSynchronisation` | (`Undisturbed`, no lock dropped by a second release, in the property) | `OneSyncAtATime`, with crashes and database errors |
| `HeldLockBelongs` | (`Undisturbed`, no crash or database error, in the property) | `LockReleased` |
| `ProcessedEventsApplied` | | `ProcessedMeansApplied` |
| `FailedLoginsGuarded` | (no request died, in the property) | `CounterGuarded` |
| `CachedReadsFresh` | (Redis answered, in the property) | `ReadsFresh` |
| `ActiveDomainsProven` | | `ActiveIsProven` |
| `ImagesKept` | | `MediaKept` |
| `ReservationsBackReserved` | no `expire`, `abandon` | `ReservedBacked` |
| `StockReadModelFresh` | no `expire`, `abandon`, `warehouse`; one warehouse or one session | `StockFresh` |
| `OldSessionsAreClosed` | (`excused`, in the property) | `OldSessionsClosed` |
| `PagesAreComplete` | | `PagesComplete` |
| `MissingAreGone` | (at most one disturbance, in the property) | `HiddenOnlyWhenGone` |
| `BackendStepsSafely` | | `SuccessIsLast` and `HiddenOnlyWhenGone`, of the steps of `Backend`, the specification the run checks |
| `BackendTypeCorrect` | | `BackendTypeOK` |

The assumptions on operations are needed: the runs `inventory_adjust`,
`inventory_stale_sweep`, `outbox_slow` and `cart_reopened` show the property fail
without them. So is the one on writers: `syncVariantStockReadModel` adds up what
it reads of all warehouses, and while another session has an uncommitted change in
a second warehouse of the variant it reads the committed value of that one; the
two syncs then write the same row one after the other, the later without the
earlier's change if it read first. The assumptions on `warehouse`, and on the sweeps for
`StockFresh`, are not known to be: with one session, TLC finds it true of these
operations as well.

*Inventory.* `TypeOK` is inductive as it stands, because each update carries its
own bound in its `where`: that is the content of the theorem. `BalanceEquation`
speaks of committed rows and is not inductive: a commit publishes the latest
ones. `SquareInv` states it, with the journal, of both versions. The three
conditional updates keep a row square (`StatementsSquare`); commit and rollback choose
between two square rows. The absolute write of `adjustStock` needs that what it
read and computed is still true of the row it writes (`Prepared`): the read sees
the committed version, which is the latest one when nobody else has the row locked
(`Settled`), and nothing comes between the two statements of the only session
(`Sole`). With two sessions this is what `inventory_adjust` breaks, so an adjustment
among several sessions is excluded from both theorems. `JournalAccounts` says more
than that a sale moves both sides at once: the movement of an adjustment is
the difference to a quantity read before, while the row gets the new quantity.

`ReservedBacked` compares two tables that disagree in the middle of a transaction:
the balance is updated in one statement and the reservation in another. `BackedInv`
therefore keeps a ledger `g`, the units that the balance of a warehouse counts for
each line: what the reservation holds, except for a line whose transaction is
between the two statements, for which it is the value the second one is going to
write (`Linked`, `Expected`). Every statement changes at most one entry of `g` and
the balance by the same number. That needs what the transaction read before to
be still true (`ReadsRight`, `ReleasesRight`), and it is because every
operation but the sweeps locks the cart's row before it reads a reservation
(`WorksOnOwn`, `RowsOwned`, `LocksApart`): this is the role of the lock, and the
reason why the sweeps, which read without it, are excluded. For `COMMIT` and
`ROLLBACK`, `Guarded` says that `g` differs from the committed reservations only
where the owner of the line has locked the balance too, so both become visible or
disappear together. Sums count units (`Total` is the cardinality of a set of pairs),
so the library's facts on cardinality do for the induction over the lines; hence
`IsFiniteSet(Line)` among the assumptions.

`FreshInv` adds to `BackedInv` that a variant of which a session has changed a
balance is either on its way to the sync (`Due`) or synced under the lock of the
stock row (`Synced`), and that what the sync has read still holds when it writes.
The committed rows agree (`FreshRows`) because a commit publishes balance and stock
row together. It needs the ledger because the update that releases does nothing
when `reserved` is too small: the ledger says that it never is, so a transaction
that comes to the sync has locked a balance of its variant.

*DomainEventOutbox.* `BusInv` adds to `HandlingExact` that no two calls of one
process deliver the same event, without which the `finally` of one call would
remove the entry of the other. `DeliverInv` adds that a call that works on a row
has it PROCESSING and not stale (`Owned`), alone (`Sole`), that the handlers
before its next one have run (`Progressed`), and that `handled` names events
that have run completely (`HandledRan`). `Sole` is where the bound on workers
enters: a stale row has no live worker, so a claim makes no second one, and
the early return of the bus is taken only for events handled before.

*CartLifecycle.* `CartInv` is the type invariant, `EndedHoldsNothing` per cart
(`HeldPart`), that the cart of a table has no token and is never deleted
(`TablePart`: so no customer's request ever shares or deletes it), what a request
goes by that no other step can take away (`CallGood`: its cart exists, a guest's
or a waiter's has a table, and one at `submit` or `export` stays converted),
`OneSessionPerTable`, and, when no request writes a status it checked
earlier (`Calm`), that a cart has one order exactly when it is CONVERTED and
that a session that is over agrees with it (`OrderPart`). One lemma per action
shows what it does to its cart; one lemma says that carts it does not touch keep
their parts.

*The refinement.* With `DeliverInv` each step of the outbox maps to a step of
`EventDelivery` or to none: a row that a call works on is not acknowledged
(`Owned`), so a handler that returns is a `RunHandler` whose predecessors have run
(`Progressed`), and the mark PROCESSED is an `Acknowledge` because all have.

*OrderExport.* `ExportInv`: a job about to write SUCCESS has its document
(`SuccessBacked`); in a quiet environment the job past the claim is alone and owns
a row that is RUNNING and not stale, so that neither a second job nor
reconciliation can claim it (`SenderOwns`); and MoySklad is asked to create only
after a lookup that found nothing, while a document a lost answer left is found
by the next lookup (`OneDocument`). `ExportedOnce` alone is not inductive: it says
nothing of the row.

*SyncRuns and WebhookEvents.* `SyncInv` is the shapes, `OneSyncAtATime` with the
fresh lock, and `LockReleased`; a run in the catch block after its own release is no longer at
work, so what it does to the lock shows in `droppedAgain`; that the lock is fresh while a run is at work is
what keeps `BeginSync` from a second one. `HookInv` adds that a batch about to be
settled was applied (`BatchApplied`).

*The services.* `CounterGuarded` is inductive with its types: the command a
counter waits for can only be taken by the request that owes it. `CacheInv` orders
the numbers: versions lag behind the database, entries are as new as their key, and
the versions a read has collected are at least what was announced when it began.
`DomainInv` carries the verdict: what says "pass" is about a hostname of its
holder (`Passes`), and every token is 1 or more (`Tokens`), so that no row matches an empty
zone. `MediaInv` says that a job past the last variant has put all of them
(`Sound`), and variants are never taken away, so the raw object can go and the job
start again at any moment. `AuthInv` follows a session of an old password to its end: the list of
logins names it (`LoginsListed`), so it is among those a closing request finds
(`ClosingsCover`), and as long as it is alive such a request is on its way
(`OldAwaitClosing`); `UpdatesCounted` bounds the number of passwords by that of the
changes begun.

*CategoryPages.* `PagesInv` cuts the list in three at the two cursors, for the products
that keep their place: up to the buyer's they have been received once, and none
after it (`SeenToCursor`); between the two they are on the page (`Collected`); the
rows loaded last follow the loop's without a gap (`Loaded`), so the cursor that
`MapItems` answers with passes nothing by. That the first `limit + 1` rows of a
finite set are a prefix of it in the order of position and id is a lemma.

*MissingProducts.* `MissingInv` counts. An item is threatened when the
synchronisation under way is going to find it missing (`Threatened`): in a read by
pages when it is not in the snapshot and its rank among the items offered is
already behind the offset. Only a departure lowers a rank, so one disturbance
threatens each item once, in one snapshot, and its counter stays
below two confirmations (`OnceDisturbed`); with none, nothing is counted at all
(`Unbroken`).

*Backend.* `BackendMoves`: a step of `Backend` is a step of the component in focus
and leaves the variables of the others alone, so it is `[Next]_vars` of each;
the step lemmas of the components then keep `BackendInv`, their conjunction. The
type invariants are kept by lemmas of their own. Most are inductive beside the
component's invariant; two need more than they say: a version and the bumps
under way never exceed the writes stored (`VersionsBounded`), and a hostname that
is about to be attached again has a row (`Readded`). The limit of a drain is a bound on a
cardinality, hence `IsFiniteSet(HookEvents)`.

Every invariant and every action property of the passing runs is stated by one of
these theorems. Only model-checked are

* liveness, which is beyond this prover: `DueReservationsEnd`,
  `EventuallyDelivered`, `StaleSessionsEnd`, `ExportSettles`, `RunsEnd`,
  `EventsSettle`, `StaleEnds`, `DomainsActivate`;
* what the assumptions of a theorem leave out and a run has, which is one session
  that does all but sweep (`inventory_serial`): `ReservedBacked` with abandoned
  carts, `StockFresh` with those and with warehouses that change their status; and
  `BalanceEquation` is proved and checked for the sweep too (`inventory_expiry`).

## 6. Findings

Each is a run that is expected to end in a violation; `PROJECT.json` quotes the
sentence the code departs from.

* `inventory_adjust`: `adjustStock` computes on-hand and available from a row it
  read without a lock and writes them as absolute values. A reservation that
  commits in between makes available differ from on hand - reserved.
* `inventory_stale_sweep`: `reserveCartLine` renews a reservation by its id. If the
  expiry job released it after it was read, it is ACTIVE again while the balance
  no longer counts it.
* `outbox_slow`: the bus returns normally for an event that another call of the
  process is still handling. If the handler takes longer than the stale window, a second
  call claims the row, is turned away by the bus and goes on to mark it PROCESSED. Often
  that does no harm: `markFailed` updates by id, whatever the status, so a handler that
  throws after that mark makes the row FAILED, and it is retried. But when the
  handler throws before it, FAILED is written first and PROCESSED over it: a handler
  never ran to its end and nothing retries the event. The same is left when the
  process dies after the mark. `NothingLost` allows the harmless cases: a call that
  is still delivering the event, or is about to mark it FAILED, keeps it from being
  lost.
* `cart_reopened`: `begin` checks the status before its transaction and then
  writes IN_PROGRESS by id. A cart completed in between is open again and can be
  ordered a second time.
* `cart_late_line`: `complete` reads the lines before its claim locks the cart. A
  line added in between is reserved but neither ordered nor sold.

Limits of the code that the models have and no property excludes:

* A second document. `ExportedOnce` is stated for a quiet environment because it
  fails otherwise: a job whose statement fails marks the row ERROR by id while
  another job is sending, a worker slower than the stale window loses its row, and
  a job that finds the feature off marks the row SKIPPED, from where a retry
  takes it. Then two jobs pass MoySklad's lookup before either creates (iiko's
  documents carry the order's id).
  `docs/product-variants-inventory-integrations-architecture.md:1131` says the row
  prevents duplicates on retry.
* A cancelled MoySklad synchronisation releases the lock while it still runs, and
  another can begin; so does removing an integration of iiko or MoySklad and setting it
  up again. Removing one of 1C keeps the lock, and the run cannot find it to
  release it: after setting it up again nothing can begin until the lock is stale.
* A synchronisation whose statement fails after it has released the lock releases it
  again, by catalog. If another run has taken it, the lock is free while that run is
  at work, and a third can begin. `OneSyncAtATime` holds until then.
* A request that dies after `createSyncRun`, and a refused product run of 1C, leave a
  PENDING run, which blocks manual synchronisations.
* PROCESSING webhook events of a drain that died are not taken up again.
* iiko's answer with an empty menu is not told from a menu without products; two in
  succession delete what is linked. A product of MoySklad that comes back stays hidden
  when the integration does not own the stock.
* A handoff token issued before a change of password works after it.
* A domain check that began before `disableCurrent` writes its verdict after it, and
  the domain is active again (for its holder: `ActiveIsProven` holds).

## 7. Not modelled

The models follow the code in which order matters: about a tenth of the
implementation's lines. The rest has no behaviour a state machine would show.

* *CRUD*: products and variants, categories, price lists, sale units, modifiers,
  users, types, attributes, brands, SEO, regions, payments, onboarding,
  administration. A request validates its input and writes rows in one transaction;
  what could go wrong is in the validation of data, not in an order of steps.
* *Mapping*: most of `integration/` (`integration.service.ts`, 1C import, the product
  sync services) and `product-read.service.ts` turn one representation of data into
  another. The models have its outcome (an item is written or fails).
* *Line prices and modifiers* of a cart: arithmetic on decimals.
* *Cart events over SSE*: a best-effort fan-out; neither the code nor a test promises
  delivery.
* *Infrastructure, scripts, migrations*: wiring, and programs an operator runs once.
  PostgreSQL, Redis, BullMQ, S3 and DNS are modelled by what the code relies on.

Of the modelled components: lists and diagnostics that only read; the limit of 100
rows of one expiry run; guests of a table session, comments, checkout data and
prices of a cart; what a domain event handler does; a crash between the change of a
warehouse and the start of its resync (one during the resync is in the model and loses
it just the same); database errors inside a webhook drain, and the marks of
the events of one batch, which are one step; images, metadata and import rows of a
synchronisation; uploads through the server, and queue items whose source is a file
on it; the HEAD requests of one enqueue, which are one step (they change nothing, and
what they find is used only afterwards); primary and `www` domain names, and a second
request for the same catalog while one is under way (the cron job and the other
catalog's requests are what it is interleaved with); the order of the login list's
primary session.

## 8. Plan

Done, in order of importance: `Inventory`, `DomainEventOutbox` and `CartLifecycle`
with their instances and proofs; then `OrderExport`, the synchronisation
(`SyncRuns`, `WebhookEvents`, `MissingProducts`), the services (`AuthSessions`,
`LoginLockout`, `VersionedCache`, `CatalogDomains`, `MediaUploads`,
`CategoryPages`), the refinement of `EventDelivery`, the composition `Backend`, and the
proofs of their safety: every invariant and action property that a passing run
checks is a theorem. Next, in this order:

1. Proofs for one session that does everything: `StockFresh` with abandoned carts and
   the changes of warehouses (the variants still to be resynced, `vs` and `resync`,
   have to enter `FreshInv`).
2. `StockLedger`, an abstract specification of the warehouse (units on hand,
   units promised, one atomic step per operation), refined by `Inventory` through
   its committed rows; `BackedInv` has what its proof needs.
3. The crash that leaves a hall table taken (`cart.service.ts:683`), the second
   release of a synchronisation's lock, and `StockFresh` with two sessions and two
   warehouses, each as a run of its own.
4. `CartLifecycle` composed with `Inventory` for one cart, so that `held` is the
   reservations of the warehouse.
5. Category positions and line pricing as operators checked against a reference.
