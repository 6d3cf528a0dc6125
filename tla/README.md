# A formal model of the Pip Pip API

TLA+ modules, TLC configurations and TLAPS proofs about the delivery platform in
`src/`: orders and what they cost, the drivers who carry them, the Redis state that
follows the PostgreSQL tables, the files in external storage, the cities, stores and
catalogs all of it belongs to, and who is signed in to act on it. Paths below are
relative to the repository's source tree unless they start with `tla/`;
`docs/m4b-driver-offers.md` is `src/docs/m4b-driver-offers.md` here, and a bare file
name is one of `src/src/modules/`.

## 1. The system

A Bun/TypeScript HTTP service over PostgreSQL and Redis. Several processes serve
requests; every command is one PostgreSQL transaction that locks the rows it
decides on, and what must follow in Redis is done after the commit, backed by
rows of a job table (an outbox) that workers of every process poll.

| Component | State it keeps | Operations | What makes it correct |
|---|---|---|---|
| Order status graph (`orders/order-state-machine.ts`) | none | the two tables of transitions, the predicates | the commands write only what the tables allow |
| Placing and line edits (`orders/order.service.ts`) | `orders`, `order_items`, snapshots | create, add, remove, replace, change quantity | one order for one key; the subtotal is explained by the lines |
| Approval and cancellation (`orders/order.service.ts`) | `orders`, assignments, rounds | approve, cancel by customer or desk | a cancelled order leaves no offer, no handoff and no assignment behind, or a return |
| Offers (`driver-offers/offer.service.ts`) | `order_offer_rounds`, `order_driver_assignments` | open, stop, reopen a round; spin; claim; assign by the desk | one driver for an order, two orders for a driver, the fee that was locked |
| Delivery (`orders/order-lifecycle.service.ts`) | order and assignment status, custody, proofs | mark ready, arrive at the store, pick up, arrive, deliver | order, assignment and custody tell one story |
| Operations desk (`orders/order-ops.service.ts`) | handoffs, return workflows | remove the driver, re-offer, hand over, return to the store, reopen | the goods never change hands unannounced; a recalled order is not delivered |
| Idempotency (`driver-offers/offer-idempotency.ts`, `orders/order-command-idempotency.ts`) | `offer_idempotency_keys`, `order_idempotency_keys` | begin, complete, abort | a repeated command is answered, not repeated |
| City offer index (`driver-offers/redis-reconciliation.ts`, `driver-runtime.ts`) | a Redis sorted set and its revision, `city_open_offer_revisions`, `redis_reconciliation_jobs` | publish, remove, rebuild; claim, renew, complete, fail a job | the index comes to be the set of open rounds, whatever fails |
| Driver runtime (`driver-offers/driver-runtime.ts`) | a Redis key per driver and its revision, a degraded cache | write by compare-and-set, hydrate, invalidate | an older revision never overwrites a newer one; the load shown is the load of some commit |
| Media (`media/`, and every service whose rows use files) | `media_assets`, objects in storage | upload intent, confirm, attach, release, leased clean-up | a file in use is never deleted, one out of use always is in the end |
| Geography (`geography/`, and every service that writes in a city) | governorates, cities, zones, advisory locks | transitions, updates, moves to another governorate, zones | what is decided under the locks holds until the commit; who ceases to be operational loses its sessions |
| Accounts and sessions (`auth/`, `organization/`, `drivers/`) | profiles, password and code hashes, sessions, refresh tokens, one-time codes | log in, verify a code, refresh, log out; disable, reset, transfer, close a city | limits hold; a token is rotated once; whoever is disabled or has a new secret is out; tokens say the account's city |
| Delivery pricing (`delivery-pricing/`) | versions, activation revisions, a Redis copy, a map of loads per process | create, activate, estimate | one active version; the copy never goes back; a quote charges by a version it may charge by |
| Catalog (`catalog/`) | products, sizes, modifier groups, options, their configuration, store categories | create, edit, archive, restore | what no single row shows: exactly one default size, defaults a group can hold, a tree of two levels |
| Cart (`cart/`) | `carts`, `cart_items` with selections | add, replace, update, remove, clear, show | what is shown as orderable an order takes |
| Stores (`stores/`, `catalog/` sub- and main categories) | stores, their listing and hours, subcategories, main categories | create, update, archive; the schedule | nothing joins what is archived; the schedule shown is that of the hours |
| Addresses, dashboard lists and exports, HTTP wiring | their rows, none | list, export, validate | row-by-row validation |

How they meet. A claim, an assignment and a command of the desk write the same
rows (`orders`, `order_driver_assignments`, `order_offer_rounds`,
`order_driver_handoffs`, `order_return_workflows`); each re-reads them under the
order's row lock, and the ones that give a driver an order also hold the
driver's row, so the count of the driver's assignments cannot change underneath.
Each command that opens or closes a round bumps the city's revision and raises
the city's job in the same transaction; afterwards its request, the workers and
the drivers' spins all write the index in Redis, in any order. The same commands
change drivers' loads: they bump the driver's revision, raise his job, and three
kinds of writer bring his runtime key up to date.

Files meet the rest through one rule: whatever row starts to use a file claims
it in its own transaction (`claimAsset`), whatever row ceases to use it releases
it (`releaseAsset`), and clean-up workers delete what nobody claimed.

Whatever is written in a city (products, stores, zones, merchants) is written
under advisory locks of the city and of its governorate, which commands on cities
and governorates take too. The governorate must be looked up before it can be
locked, so a transaction looks again and starts over if the city moved. Only the
main categories are the whole platform's: their commands take no advisory lock and
meet the others at rows.

An order's line is validated three times by three pieces of code: when the cart
takes it, whenever the cart is shown, and when the order is placed or edited. A
quote for the delivery is asked before the placing transaction starts.

What puts an account out (disabling it, a new secret, a transfer, a city that
closes) revokes its sessions with one statement of the same transaction, while
logins read the account without a lock, check a password for as long as that takes,
and create the session afterwards. A request trusts the city signed into its token.

What is hard here: the number of commands that touch the same five tables, most
of them legal in states nobody listed (a handoff pending while the customer's
driver arrives, a cancellation during a return, a re-offer after pickup); the
three writers of the index and of the runtime key, with crashes, leases and
coalesced jobs between them; the storage, which is looked at between two looks at
a row and takes objects after the row was given up; a city that moves, changes or
loses its governorate while others wait for its locks; a login that a revocation
overtakes; a quote that joins a load begun before the activation it should know
of; catalog commands that each check their own part of a rule; and an answer that
is lost, whose command comes again. `PROJECT.json` lists the hazards with their
lines.

## 2. The modules

    OrderStateMachine     the status graph
      OrderTables         the rows, their types, the queries and updates shared
        OfferCommands     approve, open/stop a round, claim, assign
        DeliveryCommands  ready, at the store, picked up, at the door, delivered
        OpsCommands       cancel, remove, hand over, return, reopen
          OrderSystem     all commands together, the properties
            MCOrder       instances for TLC
            OrderSystem_proofs
    CustodyChain          abstract: where goods may go; OrderSystem implements it
    OrderItems            placing under a key, the lines and the subtotal
      OrderItems_proofs
    CityOfferIndex        the index of one city and everybody who writes it
    DriverRuntime         the runtime key of one driver and everybody who writes it
      Reconciliation_proofs   about both
    MediaAssets           the files, the rows that use them, the clean-up
      MediaAssets_proofs
    GeographyLocks        governorates, cities, zones, and requests lock by lock
    DriverLocks           commands that give orders to drivers, lock by lock
      Locks_proofs            about both
    Accounts              accounts, secrets, sessions and what revokes them
      Accounts_proofs
    DeliveryPricing       versions, the copy in Redis, quotes, and the fee
      DeliveryPricing_proofs
    Catalog               a store's catalog, the cart, and what an order takes
    Stores                stores and both levels of categories, row by row; hours
      Stores_proofs           about both

`MCOrder`, `MCOrderItems`, `MCCity`, `MCRuntime`, `MCMedia`, `MCGeography`,
`MCDriverLocks`, `MCAccounts`, `MCDeliveryPricing`, `MCCatalog` and `MCStores` hold the
instances for TLC.

**Orders.** One action is one command, that is one transaction: the order's row
is locked from before its first check to the commit, and so is the driver's before his
orders are counted. That this makes one step of what is many statements is what
`DriverLocks` shows. `orders[o]` has the columns
other commands decide on: `status`, `custody` (`custody_status`), `holder`
(`custody_driver_id`), `driver` (`driver_account_id`), `ready`
(`store_ready_marked_at` is set), `fee` (`locked_driver_fee`). An order has at
most one custody-bearing assignment, one `HANDOFF_PENDING` assignment, one OPEN
round, one PENDING handoff and one active return (partial unique indexes of the
schema), so `assignments`, `replacements`, `rounds`, `handoffs` and `returns` are
functions on orders; of closed rows only what the code still asks is kept (a
round was CLAIMED, a return COMPLETED). `outbox` is what the last commit left
for the reconciliation worker.

Left out because they only refuse a command and change no row a command reads:
ownership and roles, the driver's eligibility (a driver of `Drivers` is
eligible), payment and totals at approval, the proofs of arrival and pickup,
idempotency keys (`OrderItems` has them), the history and event tables.
`APPROVED_BY_STORE` and `ACCEPTED_BY_DRIVER` are in the graph but no path writes
them any more. A fee of 0 counts as unlocked in a claim; `Fees` stands for positive
fees. The commands that assert the status graph do not repeat the assertion here:
`StatusFollowsGraph` shows the other guards imply it.

**Order items.** `OrderService.create` in three steps, because it asks for a quote
outside of any transaction, then takes the lock of its key and looks the key up, and
answers last: `Quote`, `PlaceAgain`/`PlaceNew`/`PlaceRefused`, `Answer`. A request
whose answer was lost is begun again with the same key, and another may use that key
for something else. An edit is one action with its idempotency row, which is in the
same transaction; `commands` has the rows that are COMPLETED, because a reservation
is only seen by others once it is. Prices and what the stores and zones admit change
at any time, so a transaction finds any price and may be refused. `ActiveTotal` is
the `Sum` of the totals of the lines an order has. `Progress` stands for the lifecycle
that locks the items and a reopening that unlocks them. Modifiers are part of a line's
price; what a line may consist of is `Catalog`'s subject.

**City index.** One action is one statement or script: a commit, a Redis write,
the completion of a job, each step of a worker and of a spin. A commit stands for
the whole transaction of a command of the first model, by what it does to the
open rounds and what its request does afterwards (`Kinds`). A request may stop
after any step, a worker's step may throw or its process die, its lease may run
out while it works. The wait before a retry is not modelled: a PENDING job may be
claimed at any time. A lease runs out by itself only when its owner is no longer
at work; the other case is the fault `LeaseTooShort`.

**Driver runtime.** One driver's key in Redis, his revision and jobs in
PostgreSQL, requests after their commits, workers, spins. `loadAt[r]` is the load
(the driver's live assignments) as of revision `r`, which is what a writer that
hydrates from PostgreSQL reads. A commit stands for the transaction of a command
by what it does to the load and by how its request follows up (`CommitKinds`).
The hydration lock is left out, since it excludes nobody: it expires, and a
caller that cannot get it hydrates all the same. A batch of n jobs is n workers.
Redis may lose the key. Left out: the degraded cache of one process, used while
Redis cannot be reached; locations; and the reads of the candidates list, which write
no key. Commits that forget to bump the revision are the run `forgotten`'s business
and excluded here.

**Media.** A row of `media_assets` is the record of its columns that are decided on:
what the file is for, the status, whether `upload_expires_at` and `delete_lease_until`
are in the future, whether `ready_at` and `attached_at` are set. A row that may use
files is reduced to whether it exists, one image and the other files. One action is one
transaction, one statement or one call to the storage; a confirmation (`confirm`), which
looks at the row, at the storage and at the row again, is four, since between its last
look, with the row locked (`Locked`), and its commit the URL may expire (`late`
remembers it) and the count of the quota, which locks no file, still finds the row as it
was. `LIMIT` and `SKIP LOCKED` make a clean-up statement take some of the rows due: any
nonempty subset. Guards that only refuse are left out (roles, the city, a locked or
archived parent, at most ten images, what an image must look like). Assumed: the clocks
of processes, database and storage agree; a PUT ends before its URL does; a file that
nobody attached is queued only after its URL expired (the time to live is hours, the
URL's minutes, `config/env.ts`). The four purposes of proofs are one use. What an upload
will be for, and which account of the desk makes it, is given with the asset (`Plans`).

**Geography.** Here a command is not one action: what it does between its locks is
the question. `requests[r]` is one transaction: its job (a command with what it asks
for), how far it is, the governorate it looked up, the locks it wants and holds, what
it read. One action is one statement that may have to wait or that another
transaction's commit may precede; the statements after the last lock up to the
decision, and the writes with the commit, are one action each, since the locks
exclude whoever could matter in between (which `DecisionsStand` and the proofs
show). Waiting is `Needs`: a lock can be taken when no one else holds it. A
PostgreSQL row lock is modelled where two of these commands meet in it (`Row`): an
update takes it, and inserting a row that refers to the city or updating the city
waits for it. A deadlock is a set of requests each waiting for another of them;
PostgreSQL aborts one, and nothing retries that. A creation of a city takes no lock.
A write of a catalog, store or merchant service is the job `store`: it changes no
place, and asserts that the city is operational. `revoked` is the set of cities
whose staff's sessions the last commit revoked. Left out: names, coordinates, the
order of display, cities from before boundaries existed, the early checks before
the transaction.

**Driver locks.** The same commands as in Orders, statement by statement and with the
rows cut down to what they are judged by: `deliveries[o]` has the phase of an order
(which stands for its status and custody), its open round, the driver of its active
assignment and that of a pending handoff; `commands[c]` is one transaction, its job, how
far it is, the locks it wants and holds. A claim takes the driver's advisory lock for
claims, the driver's row, the order's row, and when it replaces a driver that one's lock
for assignments; a manual assignment takes the driver's lock for assignments, the row,
the order; every other command takes the order, then both locks of each driver
concerned, by the driver's id (`lockDriverIds`). `CountAssignments` and `JudgeOrder` are
the two reads, each under its locks; `CommitCommand` has the writes; a refusal, or the
end of a deadlock by PostgreSQL (`AbortCommand`), gives up all locks. Pickup and delivery
take no driver's lock (`OrderOnly`). A removal and a reopening without a driver put the
order up for offers again; a reopening that prepares the order anew goes back to the
approval and is in Orders only. Left out: the row of the idempotency key, taken first;
the rows locked under the order's lock; the revisions, taken last; proofs and files.

**Accounts.** `profiles`, `secrets`, `sessions` and `challenges` are the tables; a
session carries the claims that were signed for it. A login is the steps the code
takes between two reads: the secret is verified against a row read without a lock
(`Verify`), a hash of an older kind is replaced (`Rehash`), the session is created
under the application's limit, oldest out first (`LoginCreates`), and the claims are
read and signed last (`Sign`). An operation that changes an account is two actions:
`Begin…` revokes the sessions, which stay locked, and `Commit` makes the change
visible; what begins in between is marked `late`, and the properties are about
everything else. Closing a city (a transition of `GeographyLocks`) is one of them.
An admin who creates or enables an employee acts by a token that was checked before.
A reused refresh token ends its session and, for staff, every session of the account
that was open; reuse of a one-time code's challenge, wrong codes and its expiry are
there. Left out: the super admin's own account, permissions of employees, rate
limits, cryptography (a token is what it claims), profile fields that nothing here
decides on.

**Delivery pricing.** One city. `activations[r]` says which version the activation
with revision `r` made active; the copy in Redis is known by its revision. `Begin`,
`CheckRevision`, `Join` are the steps of `active`; a process has at most one load
under way, which everybody in that process who misses the copy joins. `ReadActive`
and `PublishLoad` are `loadActive`; publishing (`Attempt`) is the compare-and-set
script, tried twice. Redis goes away and comes back, its copy expires or cannot be
parsed, the check of the revision fails. `Fee` is `calculateDeliveryFee` in exact
integers, as the code has it in `bigint`.

**Catalog.** Every catalog command holds the city's lock and the store's row to the
end, every command of the cart and the validation of a line hold the row FOR SHARE:
one action each, all checks and all writes, with the counts of defaults, the
replacement of a default size, the cascades of an archive. `OrderAccepts` is the
validation of an order's line, `IsOrderable` and `ShownPrice` are what the cart
shows. `loosened` remembers the products that went through one of the two commands
that do not count defaults. Names, images, order of display, hours of availability
and a size's `is_available` are left out.

**Stores.** Transactions lock by lock, as in `GeographyLocks`, but at the rows of the
main categories, which stores and subcategories lock in the order of their ids, and at
the city's row, which an insert needs a share of for its foreign key. `Allowed` is what
a command checks once it has its locks, `StoresAfter`, `SubsAfter` and `MainsAfter` are
its writes, `ForeignKeysHold` what the database still refuses. `Evaluate` is the
schedule: the code's segments, intervals and merge. A DRAFT store is like one that is
INACTIVE. Where a command attaches files, it locks the row of each (`ClaimImage`), after
everything is checked and before its insert or update; two commands that name one file
meet there. Whether the file may be attached belongs to `MediaAssets`: here it may be
refused or not. Left out: the release of files, which comes last (a released file is
attached, so whoever else holds its row is about to be refused and waits for nothing);
commands of other modules, and of other cities, that name the same files (`claimAsset`
locks the row before it compares city and purpose, so only a request that names files
not meant for it collides there) or that take the same city (geography, whose locks
`GeographyLocks` has); the store's zones and location, its commission with its history.

## 3. What is checked

| Run | Instance | Shows |
|---|---|---|
| `one` | 1 order, 3 drivers, 2 fees | the consistency of the rows, the status graph, the locked fee, the chain of custody; the outbox has a job for every round that opened or closed and for every load that changed, but for the case of `forgotten` |
| `locks` | 3 orders, 2 drivers, 2 commands at a time of the 16 kinds | what a command read is still so when it commits; no driver gets a third order; a deadlock has commands of two families (claims, manual assignments, the rest), and one that waits for a driver with an order locked |
| `index` | 2 rounds, 2 commits, 2 workers, 1 spin, 2 faults, fair | what a worker completed is and stays right, no wake-up is lost, revisions advance, a spin's removals take only closed rounds, a job is brought to its end or given up as DEAD |
| `runtime` | 2 commits, 2 workers, 1 spin, 1 fault, fair | the key is never older than its revision says, its revision never goes back; the newest job is brought to its end: the key tells the driver's load or is gone |
| `files` | 2 files, one row of each kind, 1 confirmation, 2 workers, 1 fault, fair | rows and files agree on what is in use; the quota holds but for URLs that expire during the commit of READY; a READY file is in storage, a file given up leaves nothing there, what nobody uses is deleted in the end |
| `geography` | 2 requests at a time of the 8 kinds, 1 city, 2 governorates, 2 zones | what is decided stands until the commit; zones stay disjoint; who ceases to be operational loses its sessions; only moves deadlock |
| `accounts` | 4 casts: an admin with an employee, a merchant, a driver, a customer; 2 cities, 2 stores, 2 sessions, 1 request, 2 overlapping changes | limits hold; reuse of a token ends what it must; who is disabled or has a new secret is out; tokens and staff follow the account's city |
| `items` | 2 orders, 2 placing keys, 2 requests, 2 edit keys, 3 edits, 3 lines | one order for one key; an edit counts once; the lines account for the subtotal and for each other |
| `pricing` | 2 processes, 2 quotes, 2 versions, 2 activations, 1 fault, fair | no quote charges by a version retired before it, or before the load it waited for; every quote ends; the fee is the least multiple of the step that covers the cost |
| `catalog` | 1 product, 3 sizes, 3 categories, 2 groups of 2 options, three catalogs to begin with, 3 changes, a cart of 1 | pricing and tree hold; the defaults fit their group; what the cart shows as orderable an order takes, at that price |
| `stores` | 1 store, 2 subcategories, 2 main categories, 1 file, 2 transactions, 3 commands; and each of the 3249 valid hours of at most 2 periods in days of 4 instants | nothing joins what is archived meanwhile; only three collisions end in an internal error; the schedule is that of the hours |
| `forgotten` | 1 order, 2 drivers | a disagreement, below |

Every property has a mutant in `PROJECT.json`: a small change of one definition, of
the kind a bug in the code would be, with which the same run fails.

Why the bounds are enough.

- In `one`, a handoff needs two drivers and a third who must not become involved;
  rows of different orders meet only in the driver's load, which `locks` is about.
  There, two orders put a driver at the limit and the third is the one he must not get:
  it is only assigned by hand, to one driver. Everything may happen to the first order;
  the second is offered, claimed, assigned and removed in the store (`SomeJobs` of
  `MCDriverLocks`). Two commands are the one that has read and the one that commits
  before it does, and any number of others runs in between.
- In `index`, two commits are the one being processed and one that raises or creates
  the job meanwhile; two workers are a late one and its successor; two faults
  (`MaxFaults`, which spins count against too) let both fail once, one twice, which
  is `MaxAttempts`, or a spin meet a failing worker. `runtime` is alike, one driver
  being independent of the others, with one fault; it leaves out the commits of kind
  TAKE, which write as a DESK commit does that gives the driver an order.
- In `files`, two uploads are the file of a row and its replacement, the two files of
  one row, or files of rows of different kinds (`TwoUploads`); main and subcategories
  compete for an image; one confirmation is enough, since two of one file exclude each
  other at its row, and those of two files do not meet; two workers are the one whose
  lease ran out and the one that took the file over. A quota of one is reached, by two
  uploads of one creator; only a driver's photo and document (one, of the code's five)
  come from two, because he is created with both.
- In `geography` a request that waits and one that goes ahead are two, and any number
  of others may run in between, since a request that ends may begin again; two
  attempts are one retry and its failure.
- In `accounts`, accounts meet each other only as an employee meets his admin, so each
  cast has a behaviour of its own. Two sessions reach the limit of one (drivers), and
  a third, which is not created, would only repeat the second's eviction; the limits
  of the others are 2 instead of 3 (5 for customers). Two changes overlap with a
  login; each cast goes through two of them (staff) or three, secrets have one
  successor, codes take two attempts instead of five.
- In `items`, two placings are a request and its repetition, or two that race for a
  key; the second order shows that keys keep them apart. Three edits of two keys are
  two commands and a repetition; three lines let a line be replaced, and its
  replacement too.
- In `pricing`, two activations are the one a slow reader has seen and the one it has
  not; two processes are one whose map of loads knows nothing of the other's. Fees are
  compared with their definition for six distances around the boundaries of the terms.
- In `catalog`, three changes on top of a catalog that already has two sizes, or a
  group with two options, or two levels of categories (`StockSpec` of `MCCatalog`; each
  of the three is reached from the empty catalog of `CatalogInit`, from which the proofs
  begin), reach every pair of commands with a third that undoes or repeats; prices,
  quantities and counts are as small as the comparisons with `min`, `max` and 0 allow.
- In `stores`, main-category commands and geography commands exclude their own kind, so
  two transactions are all that can hold anything; the third command runs after one of
  them. One file is what two of them wait for each other about; a store's second file is
  claimed like its first. Two periods are a pair that overlaps, adjoins or leaves a gap.

Fairness. `FairSpec` assumes that a worker which can take a step takes one
(`RedisReconciliationWorker` polls on a timer for as long as the process lives) and that
leases run out (they are compared with the clock). Nothing is assumed of requests, of
spins or of new commits, so an upload may be forgotten and a command may die after its
commit. In `MediaAssets` the worker's statements, its runs, the expiry of URLs and of
leases are fair; confirmations and owners are not, but the transaction of a confirmation
that has locked its row commits or is rolled back (`EndOfConfirm`): no row stays locked
for ever. As nothing makes a request go on, `WorkerHeals` speaks of a job that none is
about to touch, and admits `DEAD`: `attempt_count` is incremented at every claim, so an unlucky job is given
up after `REDIS_RECON_MAX_ATTEMPTS` claims. `RuntimeHeals` admits it too, and a newer
commit. In `DeliveryPricing` each call of a process goes on, which Redis' and
PostgreSQL's time limits see to; it is not assumed that Redis comes back.

`CHECK_DEADLOCK FALSE` stands in every configuration but those of `geography` and
`locks`: all orders may be delivered, and elsewhere a bound (`MaxRevision`,
`MaxSessions`, `MaxEdits`, `MaxCommands`, ...) ends the behaviour. `geography` and
`locks` are unbounded and checked for deadlocks of the whole: some request can always go
on.

**Where code and documentation disagree.** The run `forgotten` ends with a
counterexample: a cancellation after pickup closes the replacement driver's
assignment and bumps only the other driver's revision (`order.service.ts:1382`),
against `docs/m4b-driver-offers.md:97-99`.

More behaviours are in the models as the code has them, without a run of their own.
Six are written down as definitions that no run lists, because they are false:

- `GeographyLocks!NoDeadlock`: an update that moves a city locks the city's row and
  then waits for the advisory locks (`city.service.ts:328`, `:341`); a transition
  holds them and waits for the row. `geography-locks.ts:12-14` asks for one order "so
  concurrent operations serialize without deadlock". PostgreSQL aborts one of the two;
  `OnlyReassignmentsDeadlock` says that nothing else deadlocks.
- `GeographyLocks!ZonesInside`: the same update compares a new boundary with the zones
  before it has the locks (`city.service.ts:336`), so a zone drawn meanwhile may be
  left outside, which `zone.service.ts:133` and `city.service.ts:337` refuse.
- `OrderItems!SubtotalAgrees`: a line that was removed can be replaced, and its total
  is then subtracted a second time (`order.service.ts:2143`), against "recalculate
  product subtotal" (`docs/m4a-orders-core.md:45`). `SubtotalExplained` says that this
  is all: the difference is exactly those lines.
- `OrderItems!RetryIsAnswered`: the delivery is quoted before the key is looked up, so
  a repetition is refused when the store has closed since, against "same payload
  replays the original order" (`docs/m4a-orders-core.md:68`).
- `DeliveryPricing!NextReadIsCurrent`: a quote joins a load its process began before
  an activation (`delivery-pricing.service.ts:334`), and charges by the version that
  was retired, against "the next read detects the revision mismatch and uses
  PostgreSQL" (`docs/delivery-pricing.md:13`). `QuoteIsCurrent` is what remains true.

- `MediaAssets!QuotaHolds`: a confirmation compares the URL's end with the clock
  (`media.service.ts:652`) some time before it commits READY (`:690`); if the URL
  expires in between, the count of the next upload (`:327-334`), which locks no row of
  `media_assets`, counts the file neither as an upload nor as READY, and the creator has
  one file more than `MEDIA_OPEN_ASSET_QUOTA_PER_CREATOR` (`:28`, checked at `:335`).
  `QuotaHoldsOnTime` says that only such files are in excess.

And others:

- "INACTIVE is terminal" (`docs/delivery-pricing.md:5`), but `activate` takes any
  version that is not ACTIVE.
- The desk's re-offer completes the city's job without having written the round to
  Redis (`order-ops.service.ts:401`), against `docs/m4b-driver-offers.md:102`.
- A spin stamps rows it read earlier with a revision it reads later
  (`offer.service.ts:690`), so it can put an old index over a newer one, against
  `docs/m4b-driver-offers.md:106`. `misstamped` remembers it, and `SyncedIsFresh` and
  `WorkerHeals` except it. After either, a spin that finds nothing open in Redis, or
  the job of a later commit, repairs the index; until then drivers may miss a round.
- A command of the desk writes AVAILABLE for a driver whose key is missing
  (`order-ops.service.ts:421`), against `docs/m4b-driver-offers.md:60` and `:70`.
- A request completes the PENDING job a newer commit raised
  (`redis-reconciliation.ts:197`); a publish rejected as stale counts as done
  (`driver-runtime.ts:531`); `assignment_sequence`, a count plus one, repeats
  (`offer.service.ts:1501`).
- A file that was confirmed may be deleted at once (`media.service.ts:724`) while its
  URL still takes objects, so that a put after the deletion leaves an object no row
  knows; `UnconfirmedLeavesNothing` speaks of uploads nobody confirmed.
- A login under way survives a revocation: its session is created after it, and a hash
  of the old password may be stored over the new one
  (`dashboard-auth.service.ts:100`, `merchant-auth.service.ts:113`). An admin whose
  token was checked before he was disabled may still create or enable an employee.
- A product with sizes can be put in a cart and shown as orderable, and no order takes
  it: the validation of a line refers to a table it does not join
  (`order.service.ts:425-434`). A line asks for neither the status of a group, nor its
  `min_select` and `max_select`, nor the availability of an option in the product
  (`:456-505`), all of which the cart does; `OrderAccepts` has it as it is.
- Restoring an option, and giving a product another group, do not count the defaults.
  A restored group or option does not get back its archived translations
  (`modifier.service.ts:751-811`, `:1083-1146`).
- Creating a store or a subcategory needs the row of the city for its insert
  (`store.service.ts:674`, `subcategory.service.ts:331`), which every command on main
  categories has locked (`main-category.service.ts:143`). The two deadlock where the
  latter wants what the former has: the row of the main category (an update or an
  archive), or of a file both name (`media.service.ts:849`: a create,
  `main-category.service.ts:232`, `:236`, or an update). Either may be the victim. And
  moving a subcategory that a store lists fails on a foreign key. All of them answer 500
  (`OnlyTheseFail`).
- Hours are compared within a weekday, so a period over midnight may overlap or adjoin
  the next day's first (`stores/schedule.ts`); the schedule is right all the same, but
  for `nextClosing`, which may lie inside another period.

## 4. What is proved

Each system is the subject of a module of proofs, `Reconciliation_proofs`,
`Stores_proofs` and `Locks_proofs` of two each, with the theorems that `PROJECT.json`
lists at the end. They are all of one form: an inductive invariant `IInv`, which `Init`
establishes and every action keeps, implies the property; a property of steps follows
from `IInv` before the step. Hardly any of the properties is inductive alone, and what
has to be added is what each paragraph below is about. The type invariants are proved
and therefore in no run; nor are `Capacity` of `OrderSystem`, which takes three orders
to break and which `locks` checks lock by lock as `AtMostTwo`, and `CacheAdvances`.

**Orders** (`OrderSystem_proofs`). For any finite set of orders and any sets of
drivers and fees, assuming only that `None`, `"STORE"` and `"CUSTOMER"` are not drivers
and `None` is not a fee (`TablesAssumption`, `ChainAssumption`):

- `TypeOK`, `GoodsAgree` (its parts `CustodyAgrees`, `HandoffAgrees`, `ReturnAgrees`),
  `StatusAgrees` (`PhaseAgrees`, `InitialRoundAgrees`), `FeeAgrees` and `Capacity` are
  invariants;
- `FeeStaysLocked`, `StatusFollowsGraph`, `RoundChangesAreEnqueued` and
  `OtherLoadChangesAreEnqueued` hold of every step;
- `OrderSystem` implements `CustodyChain`, and so keeps what that promises
  (`GoodsAreSafe`).

That the holder of the goods is the assignment's driver after a handoff needs that
the handoff and its reserved assignment name the same driver, that an assignment's
fee stays the order's needs that the fee was locked with the first assignment, and so
on. So `IInv == TypeOK /\ \A o \in Orders : Sound(o)`, where `Sound(o)` joins the
named parts of all the invariants for one order with two more: `WellFormed`, what a
row without an assignment, handoff or return looks like, and `PhaseIsExact`, which
custody, assignment status and order status go together. A command writes the rows of
one order only (`OfferWrites`, `DeliveryWrites`, `OpsWrites`), so the others stay
sound (`SoundByRows`, `OthersStaySound`), and one step per command shows that the
order it is about stays sound (`OfferKeeps`, `DeliveryKeeps`, `OpsKeeps`). Capacity is
about all orders at once: a command gives at most one driver at most one more order,
and only when the count it read left room (`GivesOne`, `GivesNothing`, `RoomWithout`).
What must be enqueued compares the outbox with the rows command by command. The
refinement uses `IInv` before each step and names the step of the chain each command
takes.

**Items** (`OrderItems_proofs`). For any orders, products, carts and keys, any prices
and quantities from 1 and any number of lines and edits (`OrderItemsAssumption`):
`TypeOK`, `LinesExplained` and `PlacedOnce` are invariants, `EditsOncePerKey` holds of
every step. `Sum` is a recursive function, so the first section is about it: what a
sum is for no amounts, for one amount more and for one that changed. Each is shown for
a least beginning of the sequence for which it fails, which must not be there (`WFMin`
of the library; its induction rules take an operator, which no backend here can
instantiate). From these follows what each command does to the total of the lines an
order has and to that of the lines removed and then replaced, and `Explained` is kept.
`PlacedOnce` needs that every order was placed under a key that is in the table
(`KeysAreUsed`) and that a request is quoted for what it asks (`QuotedAsks`).

**City index and driver runtime** (`Reconciliation_proofs`). For any rounds, workers
and spins and any bounds on commits and faults (`IndexAssumption`): of the index, `TypeOK`,
`SyncedIsFresh` and `ActiveJobIsCurrent` are invariants, and `WritesAreSafe` holds of
every step. An index that is right now may still be written by every late request, worker
and spin, so `IInv` says of each what it is about to write (`RequestSound`, `WorkerSound`,
`SpinSound`): under the newest revision it is the open rounds, or a change to them
that has been made in PostgreSQL; under an older one the script refuses it as soon as
the index has the newest. What a spin misstamped is excepted in the place where it
comes from.

The module extends `CityOfferIndex` and has `DriverRuntime` as an instance, with the same
workers and with commits of every kind, of which a specification with fewer kinds allows
fewer. `KeyIsSound`, which is an invariant and a property of steps, and the types hold of
every behaviour. `RuntimeInv` says of the key, and of what every request, worker and spin
is about to write there, that the load was so at the commit of the revision it carries or
at a later one (`KnownSince`); a commit only adds to what is known (`KnownStays`).

**Pricing** (`DeliveryPricing_proofs`). For any processes, quotes, versions and terms
(`DeliveryPricingAssumption`): `TypeOK`, `QuoteIsCurrent` and `FeeCoversCost` are
invariants, `CacheAdvances` holds of every step. A quote that waits is as good as the
load it waits for, so `IInv` follows the loads: nothing that is in the copy, published
or under way is of a revision to come (`CacheSound`, `ActivatorSound`), what a load
publishes was read after it began (`LoadSound`), and a quote waits for the load its
process has, or for none (`QuoteSound`). `FeeCoversCost` is arithmetic: `Fee` rounds up
to a multiple of the step of the terms, and rounding up is monotonic.

**Accounts** (`Accounts_proofs`). For any accounts, cities, sessions and requests,
assuming that the applications have disjoint accounts and every limit is positive
(`AccountsAssumption`): `TypeOK`, `LimitHolds`, `ReuseIsFatal`, `RevokedAreOut` and
`ScopesAgree` are invariants. A revocation is written when its transaction begins and
seen when it commits. `IInv` therefore says what a transaction under way is going to
write and that it has revoked already (`ChangeSound`), that two of them do not write
the same accounts (`Apart`), which secret and claims a request remembers and whether
it is still entitled to them (`RequestSound`), and what the profiles of an admin and
his staff agree on while no transaction overtook one of them (`ProfileSound`).
The limit needs that sessions are numbered in the order of their creation (`InTurn`),
so that the eviction of the oldest ones leaves room for one (`WithinLimit` speaks of
every account).

**Stores** (`Stores_proofs`). For any stores and transactions, main categories that are
ordered, and days of any length (`StoresAssumption`; what the tables begin with is of
the tables' type and keeps the foreign keys, `StockAssumption`): `TypeOK`,
`OnlyTheseFail` and `ScheduleAgrees` are invariants, `NothingJoinsTheArchived` holds of
every step. What a transaction found when it decided must still be so when it commits
(`DecidedStands`). There is one command of each kind at a time (`OneOfEachKind`), so
nobody else writes stores and subcategories, and what it found of main categories is in
rows it has locked (`LocksAreOf`). In a deadlock, the command on main categories waits
for the only row it locks, or for the only file it attaches (`ClaimsAreOf`), so it holds
nothing else but the city's row, and the other must wait for that. That a store lists
subcategories of its own main category (`ListedBelong`) makes the foreign keys hold but
in the known case. For the schedule, remainders of any integers are compared first
(`SameMod`); then an instant of the week is covered by the hours exactly when one of the
intervals expanded around the weekday has it (`OpenWithinIntervals`), and the first of
those that have begun, or are yet to begin, is what is shown (`ShownIsRight`).

**Catalog and cart** (the second half of `Stores_proofs`, which extends `Catalog` as
well). For any products, sizes, categories and groups, a finite set of options, and
any bounds (`CatalogAssumption`), from the catalog of a store just created
(`CatalogInit`): `CatalogTypeOK`, `CatalogHolds`, `DefaultsExplained` and
`CartAgreesWithOrder` are invariants. The run begins with catalogs that have something
in them, each of which is reached from the empty one. `ShopInv` adds to the three what
makes them inductive: that only a product that exists configures options, only options
that exist are configured, and a default costs nothing (`ConfiguredHolds`), so a new
group or option is nobody's default; and that no two items of the cart have the same
configuration (`CartHolds`), so an item merges with one other at most and its quantity
stays a number within the limit. Every command has its lemma. Those of sizes go through
one (`SizeStep`): they write one row, may move the default, and leave their product
priced (`Priced`). Defaults are compared by cardinality: they grow only where the
command counts them, or where the product is counted as loosened (`DefaultsFrame`). That
an order's price is the one shown where it fills in the defaults needs that options
which cost nothing add nothing (`NothingExtra`). `Extra` is a fold over a set, a
function CHOSEN by its equation: the function that is 0 everywhere satisfies it, and
any other that does would differ from it on a smallest set.

**Media** (`MediaAssets_proofs`). For any finite set of files and any sets of rows,
confirmations and workers, assuming only that a row is of one kind (`MediaAssumption`,
`KindsAssumption`): `TypeOK`, `ReferencesAgree`, `ReadyIsStored`,
`UnconfirmedLeavesNothing` (these two are `ObjectsAgree`) and `QuotaHoldsOnTime` are
invariants. `IInv` joins what the columns of a file have to do with each other and with
its object (`Sound`), that a file is attached exactly when one row uses it (`Linked`),
that what a confirmation saw in storage is still there while the row can be confirmed
(`SawObject`), and that a worker only deals with files nobody can bring back
(`DeletesGivenUp`). The last is why a lease may run out: `Claimable` waits for the URL
of an unconfirmed upload, and a given-up row never comes back. A step that writes files
is shown to make only moves (`Moves`) that leave the confirmations and workers at work
in peace, so each action is about one row. For the quota it takes who holds a row
(`OneHolder`): a file that is confirmed either counts already, its URL being open, or
its URL expired while its row was held, and then it is `late` (`OnTime`); so only
`CreateUploadIntent` makes a file count that is not (`CountsNoMore`). How far the quota
can be exceeded is bounded as well: what counts, together with what a confirmation is
about to make count (`Weighing`), grows by an upload only below the quota, and no more
files are being confirmed than there are confirmations, so a creator never has more than
`Quota` and one for each confirmation under way (`QuotaIsNearlyKept`).

**Geography** (`Locks_proofs`). For any sets of places, requests and jobs,
assuming only that ids have a greatest one and that `None` is none of them
(`GeographyAssumption`): `TypeOK`, `DecisionsStand`, `ZonesDisjoint` and
`OnlyReassignmentsDeadlock` are invariants; `LossIsRevoked` holds of every step. `IInv`
has two layers. `LockInv` is about locks alone: no lock has two holders (`Exclusive`), a
request holds and wants what its step and job say (`Orderly`), and wants nothing that
comes before what it holds (`Sorted`). The second layer is what a decision knows:
`Settled` says that all it read is still so, including, for a governorate, that a child
it did not see is a draft and so has no sessions to lose. Each commit writes only under
locks it holds (`WritesUnder`, `CommitsWriteUnderLocks`), and whoever holds none of
those locks keeps what it decided (`SettledStays`); exclusiveness does the rest. A
deadlock without a move is refuted by the last of all the locks its requests hold:
whoever holds it would wait for a later one (`WantsOnlyLater`, `SomeLockIsLast`).
Creating a city without a lock is harmless because a draft is neither operational nor
known to anyone.

**Driver locks** (`Locks_proofs`, which extends `DriverLocks` as well). For any drivers
whose ids have a greatest one, a finite set of orders, any jobs and any number of
concurrent commands (`DriverLocksAssumption`): `CommandsTypeOK`, `AtMostTwo` and
`DeadlocksCross` are invariants, `CommandsAreAtomic` holds of every step. `CommandsInv`
says that no lock has two holders (`Apart`); that an order on its way has a driver
(`Carried`); and of each command which locks it holds and wants at its step (`Shape`),
that it wants only locks that come later than those it holds (`InTurn`), and that what
it has counted or judged is still so (`StillSo`). The last is the point. Who has counted
a driver's orders holds his row, who has judged an order holds that order
(`CountedHoldRow`, `DecidedHoldOrder`); a commit changes one order, which its command
holds, and gives an order only to a driver whose row it holds (`OthersGetNothing`), so
the counts of the others can only shrink (`CommitKeepsOthers`). What is judged under the
order's lock and counted under the driver's can therefore not be overtaken, in whichever
order the two are taken. A deadlock within one family of commands is refuted as in
Geography, by the last of the locks its commands hold (`NoCircle`, for the order of the
family, `FamiliesCross`); and if none of its commands had an order and waited for a
driver, drivers would come before orders for all of them (`OrdersFirst`).

Only model-checked: the four liveness properties (`WorkerHeals`, `RuntimeHeals`,
`CleanUpEnds`, `QuotesEnd`), which rest on fairness and so on ENABLED, beyond the
prover.

## 5. What is not modelled

Not modelled:

- `PROJECT.json` marks as partly modelled: placing (its zones, addresses, payment and
  the snapshots of names), offers (the ranking of a spin, the fee a stage computes,
  read models), the runtime state (degraded cache, locations), accounts (the super
  admin, permissions, rate limits), stores (zones, locations, commission).
- Customer addresses: rows of one customer under one lock, which placing reads once.
- Dashboard lists and exports: read-only queries and spreadsheet layout.
- HTTP wiring, validation of input, configuration, localization, cryptography,
  migrations, shutdown: little behaviour over time.
