# A TLA+ model of the shop

PremShop sells subscriptions: a Django application on PostgreSQL, with Redis as
cache and task queue, one worker for scheduled tasks, and a Django admin panel
in which operators record payments and fulfil orders. This directory models the
parts of it in which something can go wrong between two steps. TLC checks the
models on small instances; TLAPS proves the most important properties for every
instance.

    tlc -workers 2 -config MCOrders_stock.cfg MCOrders     # one run
    tlapm OrdersProofs.tla                                  # one proof module

`PROJECT.json` lists the runs, the source lines each definition translates, the
hazards of the code with the properties that watch them, the theorems, and for
each property a *mutant*: a definition with a plausible mistake in it
(`UnpaidWhenSelected` for `Unpaid`, say) under which TLC must find the property
violated. Mutants are defined next to what they replace and used by nothing else.

## Inventory

| Component | State it keeps | Operations | What is hard |
|---|---|---|---|
| Orders, stock, discount codes (`orders/services.py`) | orders, items, item events, redemptions; stock and use counts | `place_order`, `cancel_unpaid_order/item`, `expire_unpaid_orders`, `mark_order_paid` | a payment, a cancellation, a sweep and the next checkout meet at one order; counts must balance |
| Expiry sweep (`orders/tasks.py`) | last attempt time of each overdue order | one batch a minute, one transaction per order | candidates are selected without locks; one bad order must not starve the others |
| Manual payments (`payments/services.py`) | payment rows | `record_manual_payment`, `confirm_payment` | repeated posts; races with expiry |
| Checkout (`payments/services.py`, `payments/views.py`) | signed quote, checkout id, the account's cart | `quote_checkout`, `checkout`, `replay_checkout` | the cart and the terms change under an open page; forms are posted again, late or changed |
| Carts and sign-in (`cart/services.py`, `cart/signals.py`, `core/sessions.py`, `accounts/views.py`) | carts, items, session rows and the dict each request loaded | add, set, remove, merge, purge; password and code login, logout | a login rotates the session another tab is writing its cart into; answers are lost |
| Prices and discounts (`catalog/pricing.py`, `orders/services.py`) | – (pure) | effective price, total, discount | promotion windows, rounding, caps, what a code covers |
| Input wait and delivery clock (`orders/services.py`, `orders/clock.py`) | status, input and pause times, deadline of an item | `request_input`, `receive_input`, `resume_input`, `delivery_deadline` | stale and repeated pages; pauses; window edges |
| Panel forms (`catalog/admin.py`, `orders/admin.py`) | signed copies of what the page showed | stock box, discount code edit | lost updates |
| Publication (`catalog/models.py`, `catalog/admin.py`) | status, facts, rows of a product's page | product form, plan form, publish, unpublish, copy sections | actions that read first and write later without a lock |
| Row locks (every transaction that takes several) | PostgreSQL's row locks | lock statements in the order of the code | circles of waiting transactions |
| One-time codes (`accounts/otp.py`) | Redis: pointer, record and counter per address | `issue`, `send_login_code`, `verify` | every cache call is a step of its own; keys expire and the cache can be lost |
| Rate limits (`core/ratelimit.py`) | Redis windows | `hit`, `remaining`, `reset` | a window that ends between two calls; overlapping hits |
| Mail quota (`core/email_log.py`) | `MailAttempt` rows | `reserve`, `finish` | concurrent counting without a lock; accounting failures |
| Confirmations (`notifications/services.py`) | outbox rows, shared quota wait | discover, send due | crash after the relay accepted; retry ladder; two workers |
| Deploy (`scripts/deploy.py`) | state file, running images, schema, backups, keys | deploy, rollback, backup, restore | a step fails and so does the way back; a restore under the wrong key |
| Encrypted fields (`core/fields.py`) | key list, ciphertexts | re-encrypt, verify | rotation interrupted half-way |
| Password recovery, order pages, support token, editorial content, templates, SEO, logging, scripts, seeds | – | – | not modelled, see the end |

How they meet: a visitor's cart survives sign-in and becomes a checkout page; a
checkout places an order under the buyer's account lock; the panel records its
payment, which starts the delivery clock or a wait for input; placement leaves a
confirmation to the outbox; the outbox and the one-time codes send through the
mail quota. Everything durable is in PostgreSQL and changes in row-locked
transactions. Only one-time codes and rate limits live in Redis, without locks;
sessions are rows that each request loads and saves as a whole.

## Modules

| Module | Models | Checked by | Proofs |
|---|---|---|---|
| `Orders` | the unpaid life of an order, its stock and its discount code | `orders_stock`, `orders_codes` | `OrdersProofs` |
| `Settlement` | what the order services promise, abstractly | `orders_stock` (`SettlesOnce`) | `OrdersImplementSettlement` |
| `Pricing` | what a purchase costs | `orders_codes` | `OrdersProofs` |
| `Purchases` (extends `Orders`) | the plans and codes that `Pricing` is asked about | `orders_codes` | `OrdersProofs` |
| `ExpirySweep` | which overdue orders a sweep visits, and that all get released | `expiry_sweep` | – |
| `Carts` | sessions, guest carts, sign-in and the merge | `shopping`, `cart_lost` | `ShoppingProofs` |
| `Shopping` (extends `Carts`) | the checkout of the account's cart | `shopping` | `ShoppingProofs` |
| `DeliveryClock` | `delivery_deadline` | `input_wait` | `InputWaitProofs` |
| `InputWait` (extends `DeliveryClock`) | one paid item waiting for input | `input_wait` | `InputWaitProofs` |
| `DeliveryPromise` | what a customer is promised of a paid item, abstractly | `input_wait` (`KeepsPromise`) | `WaitKeepsPromise` |
| `Publication` | a product's page and the panel's forms and actions | `input_wait` | `InputWaitProofs` |
| `PanelPages` | `InputWait` and `Publication`, side by side | `input_wait` | `InputWaitProofs` |
| `Locks` | row locks and waiting, for any programs | `lock_order`, `lock_bulk` | `LockOrderProofs` |
| `LockOrder` (extends `Locks`) | the lock statements of the shop's transactions | `lock_order`, `lock_bulk` | `LockOrderProofs` |
| `Otp` | the one-time codes of one address | `otp` | `OtpProofs` |
| `RateLimit` | one budget of one subject | `otp` | `OtpProofs` |
| `AccountCache` | `Otp` and `RateLimit` of one address, side by side | `otp` | `OtpProofs` |
| `MailQuota` | the mail allowance | `mail_quota` | `MailQuotaProofs` |
| `MailPromise` | what the outbox promises of each message, abstractly | `confirmations` (`KeepsMailPromise`) | `OutboxKeepsPromise` |
| `Confirmations` | the outbox of purchase confirmations and its workers | `confirmations` | `ConfirmationsProofs` |
| `Deploy` | the deploy script and the server it works on | `deploy` | `DeployProofs` |

`MCx` is the small instance of `x` for TLC; `MCOrders` is that of `Purchases`,
`MCOtp` that of `AccountCache` and `MCInputWait` that of `PanelPages`. `AccountCache`
and `PanelPages` each hold two machines that share no state, so that one run explores
both: each machine moves while the other stands at its initial state. As neither
reads a variable of the other, every state and step of each is still visited, and
combining their states would add nothing.

### Orders

Every handler of `orders/services.py` locks the buyer's account row first and keeps
it to commit, so for one buyer handlers are serial; the plan and code rows they
share are locked in a fixed order. A handler is therefore one action; `LockOrder`
looks inside. Three things the code does across several steps are several steps here
too: the discount code's id is read by name before its row is locked (`BeginPlace`,
`FinishPlace`); the sweep selects candidates without locks and visits each later in
a transaction of its own (`SweepBegin`, `SweepVisit`); and a panel page saves a
stock box it was loaded with earlier (`OpenStockForm`, `SaveStockForm`).

- One variable per column that matters: `status`, `debited`, `reason` and
  `events` per item; `owner`, `checkout`, `codeOf`, `cancelled`, `released`,
  `payment` per order; `stock`, `code`, `used` for the catalogue. `overdue` is
  the set of orders whose deadline has passed. An item is the triple order, plan,
  unit number.
- A repeated request that the code answers without writing (replayed checkout,
  second cancellation, payment already recorded) is a guard, not an action.
- Refusals that depend on data the model leaves out (prices changed, inputs
  missing), errors and a lost worker are all `RollbackPlace`. That such a refusal
  takes back the overdue orders released before it rests on `@transaction.atomic`:
  a placement is one step here, so no property could see a rollback go missing.
- `supply` is a history variable: the units operators have put on sale, which
  the panel form's meaning defines (`SupplyAfterEdit`).
- A release can be refused: an operator may type a count near the column's limit
  while orders hold units. Such an order stays overdue and the sweep retries it.
- Prices are in `Pricing`, the quote and its page in `Shopping`; phone numbers and
  an item's snapshot are not modelled. Three of the seven item
  statuses (delivered, replacement requested, refunded) are not written by any
  service yet.

Properties: `OneUnpaidOrder`, `StockLedger`, `CodeLedger`, `RowsComplete`,
`SettledOnce`, `HistoryExplainsStatus` (invariants), `ExpiryIsDeserved`,
`RedemptionWithinTerms` (what a step may never do) and `SettlesOnce`
(refinement of `Settlement`: an order is unpaid once and ends exactly once, and a
new order is placed only when the customer's earlier ones end).

### Pricing

`effective_price`, `_price` and `_discount` as operators on records of a plan and a
code. `Purchases` adds what they are asked about: some plans on sale, with any units
of each, any code and any moment. `PricesAreFair`: what a code does not cover is paid
in full, nothing sold is free or dearer than without a code, and one more unit never
makes a purchase cheaper, also where rounding half up, the cap by the covered amount
and the column's limit meet. It depends on no variable and is evaluated in the
initial states. Whether a code has uses left is in `Orders`.

### ExpirySweep

`Orders` lets a sweep take any batch. This module takes the one the code takes:
the first `Limit` overdue orders by last attempt (NULL first), deadline and id; a
refused order is stamped and falls behind. Attempt times matter by their order
only and are kept as ranks, which makes the state space finite. Orders become
blocked and unblocked at any time, customers sweep their own order, and the
database may fail `MaxAborts` times. `EveryOverdueReleased` is the sentence of
`docs/order-lifecycle.md:129`: one bad order cannot hold up the rest.

### Carts and Shopping

One browser and one account. A request (`Tabs`) loads its session once when it
begins, commits its transaction, and saves the *whole* dict it loaded when it
answers; that is Django's session middleware, which is external (`Load`,
`Respond`). So an answer can be lost, a worker can be stopped between commit and
answer, and a session can be saved that was loaded before another tab changed it.
Each edit, sign-in, merge and logout is one action, because it holds the session
or the account row from its first statement on; the account's cart is also edited
from elsewhere (`AccountEdit`), and time makes guest carts `old` and purges them.

Two history variables hold what can go wrong with a guest's cart. `cut` are the
carts lost to a stale save. `adrift` are the sessions whose cookie the browser does
not have: the answer with their first cookie was lost (two tabs without a session
may each get one, and a worker may die once the edit is committed), or another
session's answer replaced it. `GuestCartReachable` has two parts. The session of a
guest cart exists, is not signed in and names the cart, unless the cart is `cut`: an
edit stores its session in its own transaction (`_touch`), so that no lost answer and
no lost worker separates the two. And the browser presents that session, or an answer
with its cookie is on its way, unless the session is `adrift`. A cart left behind
under a session that is adrift is therefore not excluded; it is cleared in the
nightly purge. `OneCartEach` counts by session, so a visitor with two sessions may
have two guest carts. `SignInMergesCart` leaves `cut` out and is what
`docs/architecture.md:138` says of every sign-in; the run `cart_lost` refutes it (see
*Findings*).

`Shopping` adds the checkout page. Its signed digest covers the account cart's
`updated_at`, which every write moves, and the terms, so the model keeps the set of
pages whose digest no longer matches (`stale`) instead of a digest, and
the quote's age is `late`, or not. `quote_checkout` reads the cart row first and
its items later, without a lock; both reads are steps. `OrderedAsReviewed`: an
order holds what its page showed. `RetryAnswered`: a form posted again gets
its order and nothing else. Stock, codes and inputs that refuse an order are one
refusal here and decided in `Orders`.

### DeliveryClock and InputWait

Times are units of a scaled day (Tehran has no daylight saving time).
In `InputWait` each service is one action and what interleaves is the *pages*: a
page holds the id of the item's latest event when it was loaded and posts it at any
later time, any number of times. Event ids are positions in the item's history.
`KeepsPromise`: `InputWait` implements `DeliveryPromise`, which knows no events,
pages or timestamps. There a stopwatch starts once, at the first open moment no
sooner than the hours bought or at the cap, stands still while the customer is asked
again, and never otherwise. The mapping reads the stopwatch off `due_at`,
`sla_paused_at` and the time; the moment promised is a definition by search, the
code's is arithmetic on the hour of the day.

### Publication

A row of the product's page either holds an owner's placeholder or not; the other
facts publishing needs are complete or not. The product's and the plan's form check
and save under a lock, so each is one step after what its page showed earlier; the
list's actions publish, unpublish and copy sections read in one step and write in a
later one. `models.py:839` promises that a live product holds no placeholder.
`LiveIsFinished` says when that is true: unless a write was `overtaken` between its
read and its write, or a form took the product live without showing a section
added since it was opened (see *Observations*). Operators who may only look at the
rows are included, since their form asks for less. So the property is about the
forms and the order of their saves; the unlocked writes of `admin.py:733` are
modelled and excused, for nothing in the code prevents what they can do.

### Locks and LockOrder

`Locks` models PostgreSQL: three lock modes and their conflicts, a transaction that
keeps its locks to its end or rolls back wherever it is, and programs made of groups
of rows. A group written `order_by("pk")` may be taken row by row in that order
only; rows taken in any other order are groups of their own. Waiters are not queued:
a queue adds waits for transactions that wait for the same row, and they cannot
close a circle that is not there without it. `LockOrder` lists the lock statements
of every transaction that takes more than one row. A foreign key is checked at
commit with a `KeyShare` of the row it names, after everything else. Waits for a
unique index or for a table are not modelled. The purge of guest carts runs once a
night, and as no other transaction has more than one guest cart, one cart stands for
all it deletes. The panel's updates of many rows without an order are in `lock_bulk`
only, where they meet a checkout (see *Findings*).

`OneForEachAccount` is what the other modules take from this one: of several
transactions that serve one account, only one has come past the account's lock, so a
service of a customer's cart, orders or items may be one action there.

### Otp

One address and purpose; every cache call is an action. An issuance is the random
name of one code. Redis is external: a key goes after its code's deadline, each on
its own (`DropRecord`, `DropCounter`, `DropPointer`), or all go at once
(`LoseCache`). A rollback of Redis to an older snapshot is not modelled.
`GuessBudget` counts the guesses compared before the deadline: past it the counter
may be gone while a slow request still holds the record it read.

### RateLimit

One budget of one subject. `hit` is `cache.add`, the EXISTS and the INCR inside
Django's `incr`, `cache.set` for a key that EXISTS did not find and `touch` for one
that INCR made again without an expiry, each a step of an overlapping call; the
window ends, `reset` or a loss of the cache removes the key at any point.
`WindowBudget` counts what one window lets through. `EveryWindowEnds` says that a
key always has an expiry, or a hit is about to give it one, or that hit's worker
died before it could.

### MailQuota

`reserve` inserts its row, counts all rows, and goes ahead or blocks its row; each
statement commits by itself and may fail. The comment at `email_log.py:99` warns
that concurrent senders can overshoot. The model shows the order of the statements
rules that out: of any set of overlapping sends, the one that counts last has seen
every other row (`WithinCeiling`, `ReserveKept`). Only a failing accounting
overshoots, by the security mails it lets through. What concurrent senders *can*
do is refuse each other while one place is left. One recipient per send; the
starting usage of the first month is part of `MonthLimit`.

### Confirmations

A worker's run is discovery, one order at a time, and then one row at a time: claim
it, ask the relay, commit the result. The transaction keeps the only
`ConfirmationSweep` row locked while the relay is asked, so workers send in turn
although they overlap. Choosing a row (`Claim`), the relay's answer (`Answer`) and
the commit (`Record`, `Defer`) are steps, and the worker may be lost between any
two (`Crash`). Delays are the time left of them, so no clock is needed; rows that
are due are taken in any order, which includes the code's. `taken`, `excused` and
`since` are history: mails the relay took, those among them the row could not learn
of, and the time since the row's last attempt. `docs/architecture.md:214` accepts a
duplicate after an uncertain result; `ConfirmedOnce` says that nothing else makes
one. The quota decides here by an answer (`"quota"`); how it decides is `MailQuota`.

`KeepsMailPromise`: `Confirmations` implements `MailPromise`, which knows no workers,
locks, waits or crashes. A row is pending until it was sent or given up, which is
final; the relay takes its mails only while it is pending; and it is given up exactly
at its last try, so that no pause, crash or other row uses one up.

### Deploy

The commands of `scripts/deploy.py`, one action for each external program they run:
it succeeds, fails before it changed anything, or fails half-way where the program
can (`compose up` leaves each container as it was, replaced or down; a migration
applies some of its steps). Any command may be interrupted between two steps. A
lock file keeps commands apart, so one runs at a time. Releases are numbered in the
order of main and release `i` migrates to schema `i`; which older image a migration
stops from working is the constant `Breaks`. `StartDeploy`, `StartRollback`,
`TakeBackup` and `StartRestore` have the guards of the script. The rules of the
runbooks, which the script does not check, are apart in `DeployByTheBook`,
`RollbackByTheBook`, `BackupByTheBook` and `RestoreByTheBook`: a migration that the
previous image survives (`Survivable`), no other command between the removal of the
database and a restore that succeeded (`restoring`; `restore.md` implies it by the
order of its steps), the image a restore runs (`Restorable`). `ReturnWorks` and
`OpenOnlyReadable` hold under these rules only (see *Observations*); the other two
properties hold without the rule on `restoring`. Pruning of images and key rotation
are not modelled.
`/healthz` reports web's image only, so that the worker runs the same one is a
property (`ReportsAreTrue`), and no definition.

## Runs and bounds

| Run | Instance | Why it is enough |
|---|---|---|
| `orders_stock` | 2 accounts, one an operator; 2 orders; 1 plan of at most 2 units; no codes | contention needs two orders and one unit; an order of two units covers partial sums; the column limit of 2 is reached by panel edits |
| `orders_codes` | 2 accounts, 2 orders, 1 code with 2 names and limits 1 or none; telegram plan, no stock pages (`NoStockForms`). Prices: 2 products, one with a promotion, 1 or 2 units of each, percent (33, 150) and fixed (1, 400) codes, an amount limit of 450 | two redemptions compete for one use; a rename and back is possible between lookup and lock; halves round up, a fixed code exceeds what it covers, totals pass the limit |
| `expiry_sweep` | 3 orders, batch of 1, 2 deadlines, 1 database failure | a starving order needs a batch smaller than the blocked ones |
| `input_wait` | day of 4 units, 2 pages, 6 events, 4 time units; a product with 2 requests and 2 sections | a first wait and a pause after it, or two pauses, with posts from either page; payment and input at every hour of the day, every duration up to the cap; two operators, one section added and one copied |
| `otp` | 2 codes, 3 requests, budget of 2; 4 hits of a budget of 2 | one request more than the budget, and a code replaced under it; hits of two windows |
| `mail_quota` | 1 security send, 2 others; limits 2 and 1; day of 2 units, a month change, 3 time units | more sends than either limit; rows that count for the day only and for the month only |
| `confirmations` | 3 orders, the first of them cannot be rendered; 2 workers, one delay of 2, pause of 1, 1 fault | two orders that should be confirmed behind one that never will be; the pause ends before a row's own delay and after it |
| `shopping` | 2 tabs, 1 plan of at most 2 units, 2 session keys, 2 carts, 1 page, 2 prices | one tab signs in while the other works on the old session; the merge meets its limit; the page is ordered from, posted again and settled |
| `cart_lost` (violation) | the carts alone, with 3 session keys | one key more for the session the sign-in opens |
| `lock_order` | any 2 transactions at a time over 2 rows of each table; deadlock checking on | a circle of two needs two rows, and two transactions serve one account; more of both are covered by the proof |
| `lock_bulk` (violation) | the same, and the panel's updates of two rows | the rows come in the order of name, against the order of keys |
| `deploy` | 4 releases, each of which works with the migrations of the next but not of later ones; 2 keys | a release can be skipped, so that deploys the runbook forbids exist, and several deploys, rollbacks and restores of older databases follow each other |

Model values that are interchangeable are declared symmetric where no liveness is
checked. Deadlock checking is off except in the two runs about locks, because each
other system may rightly stop: all ids are used, all times have passed. Bounds on time and
histories (`MaxTime`, `MaxEvents`, `MaxAborts`, `MaxFaults`, `MaxKeys`, `MaxCarts`)
are constants used in guards.

**Fairness.** `ExpirySweep` assumes weak fairness of `SweepBegin`, since
the scheduler starts a sweep each minute, and of `SweepVisit`, since the worker
runs a started sweep to its end or to a failure. The database is assumed to fail
finitely often. Nothing is assumed of customers, operators or the blocking of
orders; the property asks that the order is not blocked for ever. `Confirmations` assumes
weak fairness of time and of each worker, which the scheduler starts every minute,
and strong fairness of an answer other than a refusal for the quota (`ReachRelay`):
the quota is renewed each month and does not refuse every send for
ever. Faults are finitely many; nothing is assumed of the relay, which may refuse
every mail. The other modules state no fairness and no liveness.

## Proofs

Every theorem holds for all values of the constants that meet the named assumptions
of its module: finite tables, natural sizes, NULL unlike any value. Where a
property is not inductive by itself, the proof module adds what makes it so.

`OrdersProofs` proves type correctness, `RowsComplete`, `SettledOnce`,
`OneUnpaidOrder`, `CodeLedger`, `StockLedger` and the refinement of `Settlement`,
for any accounts, orders, plans, quantities and codes. Invariants are proved in
layers, each using those below it: types; which rows exist together (no order
without items, no claim on absent items); how an order is settled; then the two
ledgers, where lemmas on cardinalities say what placing and releasing do to a count.
`OneUnpaidOrder` needs the observation that a placement cancels every unpaid order
it finds in the same step. The refinement maps an order to its phase: cancelled,
paid, unpaid or new. Three more follow from the same layers:
`HistoryExplainsStatus`, because every step that changes a status appends the event
that leads from the old status to the new one (`ChainGrows`);
`RedemptionWithinTerms`, because only a checkout takes a code and it asks the code's
row and the account's earlier orders first; and `ExpiryIsDeserved`, because a sweep
holds overdue orders only and a reason is written with its cancellation, once
(`ExpiryInv`).

The same module proves `PricesAreFair` for any plans with prices that are natural
numbers, any purchase of them and any valid code. The community modules' sum picks one
element after the other, so lemmas first show that such a sum exists for every finite
set and does not depend on the order (`SumsExist`, `SumSplit`, `SumParts`). There is no
induction theorem without an operator parameter; each of these lemmas takes a smallest
counterexample instead (`SmallestSet`). Prices then need that a discount, rounded and
capped, grows by no more than what it is taken off (`OffGrows`), also for a percentage
above 100, which the database allows.

`ShoppingProofs` proves `GuestCartReachable`, `OneCartEach`, `GuestUnitsKept`,
`OrderedAsReviewed` and `RetryAnswered`, for any tabs, sessions, carts, pages and
prices. Added are: carts and keys are numbered as they are made, so a new one
belongs to nobody (`Numbered`); whoever signs in carries no guest cart on
(`Sessions`); every session that exists is the browser's, on its way to it or adrift
(`Held`), which with `SessionNamesCart` makes `GuestCartReachable`; only guest carts
age (`OldAreGuests`); a page whose digest still
matches shows the cart as it is (`FreshPagesMatch`), because every action that
changes the account's cart makes all pages stale; and only a page that was read to
its end is ordered from (`OrdersHavePages`).

`InputWaitProofs` proves `TypeOK`, `ClockMatchesStatus` and `DecidedOnLatest` for
any window, cap, number of pages and history. They are inductive with one addition:
an item whose input is given at checkout has its receipt time. On top of them it
proves that `InputWait` implements `DeliveryPromise` (`WaitKeepsPromise`), in two
parts. Arithmetic on days shows that the deadline computed is the moment promised
(`FirstOpenMoment`, `DeadlineIsPromised`), for every start and any window, duration
and cap. And each action of `InputWait` is a step of the stopwatch or none, which
needs that nothing recorded lies in the future, that an unpaid item has received just
what its checkout gave, and that only an item which needs input waits without a
deadline (`ClockStarts`). The module also proves `LiveIsFinished` of `Publication`,
for any operators and sections: what a request that was not overtaken has read still
holds (`ReadsHold`), and an open form shows only rows of the page (`RowsOfThePage`).

`LockOrderProofs` proves `NoDeadlock` and `OneForEachAccount` for any number of
transactions and rows, in two parts. Programs that take their locks in one order
cannot deadlock: what a transaction has comes before what it still asks for
(`HeldBeforeMissing`), so in a circle the transaction that waits for the last row
would be blocked by one that waits for a later row. And every program of customers,
operators and the sweep is in the documented order (`PathsAreInOrder`). A foreign
key's lock of an account is outside that order, and harmless: no transaction locks
an account more strongly than it tolerates. `OneForEachAccount` needs two more facts: no two transactions have
conflicting locks (`Exclusive`), and a transaction has all that its earlier
statements ask for (`EarlierTaken`), so that whoever is past the account has it.

`OtpProofs` proves `TypeOK`, `SingleUse`, `GuessBudget` and `KeptUntilSpent` for any
number of codes and requests and any budget. Added are: only a stored code is ever
found (`OnlyStored`); what a request knows by where it is (`Placed`); after a loss
of the cache nothing can match the pointer again (`LostClosed`); until its deadline
a code's counter gives each number once (`CountedOnce`), so that compared requests
carry different numbers within the budget (`ComparedOnce`). `GuessBudget` follows by
counting an injection into `1..MaxAttempts`. The module also proves
`EveryWindowEnds` and `WindowBudget` of `RateLimit`, for any hits and any limit: a
window lets through no more hits than its counter has counted.

`MailQuotaProofs` proves `TypeOK`, `WithinCeiling` and `ReserveKept` for any sends,
limits and calendar. A send let through by its count had inserted its row and saw
those of all others let through before it (`RowsTell`), so each count that lets one
more through leaves the day's and the month's set within the limit (`DayKept`,
`MonthKept`); rows only leave those sets as time goes on.

`ConfirmationsProofs` proves `TypeOK`, `ConfirmedOnce`, `LadderKept`,
`QuotaPausesAll` and the refinement of `MailPromise` for any orders, workers, ladder, pause and number of faults. Three
facts are added to make them inductive: one worker sends at a time, and a row that
is due and waits (`Claimed`); mails taken and mails accounted for balance
(`Balanced`); the time since an attempt and the time left of the wait make up the
step of the ladder (`Waited`). With them each action is a step of `MailPromise` or
none: a claimed row is pending, so the relay takes only its mails; a success has a
mail the relay took behind it (`Balanced`); and a failure is the last one exactly when
the row is given up.

`DeployProofs` proves `RecordedPassed`, `ReturnWorks`, `ReportsAreTrue` and
`OpenOnlyReadable` for any number of releases, any incompatible migrations and any
keys. Added are: the kept backup's schema breaks no recorded image (`DumpServes`);
a database that is not missing is at least as new as that backup and readable
(`Whole`); and, for each step of a command, what it may rely on (`WayBack`,
`OwnSteps`, `Switched`, `ImageWorks`, `Restoring`).

Only model-checked: `EveryOverdueReleased` and `EveryOrderConfirmed` (liveness under
fairness, which is out of the prover's reach). `SignInMergesCart` and the bulk
updates are refuted.

## Findings

- **A guest cart can be lost at sign-in** (`cart_lost`). `login_code_request` loads the
  session before its mail is sent and writes to it after, so its answer saves the
  session as loaded (`accounts/views.py:137`). If another tab began a guest cart
  meanwhile, its reference is gone, and the sign-in merges nothing.
  `docs/architecture.md:138` says every sign-in merges the guest cart.
- **Some transactions are outside the lock order** (`lock_bulk`).
  `docs/order-lifecycle.md:134` says that one order for everything rules out
  deadlocks. Renaming a category saves its products in the order of their names
  (`catalog/models.py:332`), and two actions update many rows in no order
  (`catalog/admin.py:835`, `1061`). Either can make a checkout fail with a deadlock.

## Observations

Met while modelling; none contradicts a promise that is made for the case.

- A publish, a copy of sections or a plan's form that is overtaken between its read
  and its write (`catalog/admin.py:733`, `780`, `258`), and a form that takes a
  product live without showing a section added since its page was opened, can leave
  a placeholder on a live product. ADR-0028 assumes one operator; two tabs of one
  are enough.
- A restore that failed after it loaded the backup leaves the state file of before.
  The script would then accept a `rollback` or a `deploy` (`scripts/deploy.py:239`,
  `257`), which do not verify keys, and open a site whose restore was refused. Only
  the order of the steps in `docs/runbooks/restore.md` prevents it.
- A worker that dies between INCR and `touch` (`core/ratelimit.py:88-93`) leaves a
  budget without an expiry, which then stays spent until `reset`.
- `monthly_price` rounds the shown price of a month half up to 1,000 toman while the
  saving is taken from the unrounded figure (`catalog/pricing.py:49`), so a saving
  can be a little more than the two shown prices give: at 199,400 a month and
  149,500 in the longer plan the page shows 150,000 and 25 %, not 24.77 %.

## Not modelled

- The budgets of code requests (`accounts/services.py:127-161`) are looked at first
  and charged after the mail has gone; the code accepts the overshoot and states no
  bound to check.
- Prices for display only (a month's price, strike-through, offers), search text,
  slugs, images, listings and the preview: read-only, or one form at a time.
- Key rotation (`reencrypt_fields`): `docs/development.md:72` leaves the restart
  between setting a key and rotating to the operator, and no code enforces it.
  `Deploy` keeps which keys values are under and which the server has.
- Password recovery and password changes, the support token and the order pages:
  they touch one account's rows under its lock, or only read.
- Templates, search engine data, logging, static files, editorial text, development
  scripts and seeds keep no state another part relies on. Gateway payments are
  designed in the documents and not built.
- Django, PostgreSQL's isolation, Redis and the mail relay are taken to do what
  their documentation says. A rollback of Redis to an older snapshot and PostgreSQL's
  waits for indexes and tables are left out.
