# The vinyl store, in TLA+

A verification project for zerohttp-example, a REST API of a record shop: Go
handlers over MongoDB (users, records, orders) and Redis (tokens, idempotency
records, rate limits). The modules are translated from the Go code; TLC checks
them on small instances, and TLAPS proves the safety properties they hold there
for every value of the constants.

## The system

| Part | State | Operations | Interacts with |
|---|---|---|---|
| Orders (`handlers/order.go`, `models/order.go`) | collection `orders` | CreateOrder, CancelOrder, ListOrders, GetOrder | reads and decrements `records`; caller from the JWT |
| Catalogue (`handlers/record.go`, `models/record.go`) | collection `records` | CreateRecord, UpdateRecord, ArchiveRecord, ListRecords, GetRecord | shares `records` with orders and inventory |
| Inventory (`handlers/inventory.go`) | `records.stock` | RestockRecord, ListInventory | shares `records` |
| Accounts and login (`handlers/user.go`, `handlers/auth.go`, `models/user.go`) | collection `users`, tokens in Redis | CreateUser, GetUser, UpdateUser, DeactivateUser, ListUsers, Login; refresh and logout by the library | unique index on email (`store/mongo.go`) |
| Access control (`handlers/middleware.go`, routes of `app/server.go`) | none (claims of the token) | RequireAdmin, RequireOwner, GetUserID, GetRole | in front of every protected handler |
| Document store (`store/mongo.go`) | the three collections and their indexes | one MongoDB command per method; SeedData, createIndexes | called by every handler |
| Lifecycle (`app/app.go`, `cmd/server/main.go`) | phase of the process | New, Start: seed, default admin, serve, drain within a timeout | store, key file, Redis |
| Signing key (`app/keys.go`) | a PEM file | loadOrCreateKey | read at start by every instance |
| Idempotency (`app/server.go`) | responses and locks in Redis | library middleware on POST /orders only | wraps CreateOrder |
| Rate limits (`app/server.go`) | token buckets in Redis | library middleware, three tiers | in front of the handlers |
| Configuration (`config/config.go`) | the settings of a start | Load: defaults, flags, environment, file | read once |
| Health, tracing, metrics, compression, media types, TLS, pprof | none of the shop's | library middleware | - |

Every request is a goroutine. Goroutines (and instances of the server) share
nothing in memory: all they share is the store, where one call is atomic on one
document and no two calls are atomic together. That is where the hard
behaviour is: a handler reads a document, decides, and writes the whole document
back later (`ReplaceOne`), while only `DecrementStock` is a conditional update.
No handler undoes what it did when a later call fails.

What makes each part correct:

- Orders: an order that was accepted is stored, is the caller's, holds exactly the
  requested items and never changes but to become cancelled; its units were taken
  from the shelf; units are neither invented nor sold twice; only the owner or an
  administrator cancels; a request always gets an answer.
- Catalogue and inventory: no negative stock, each handler changes its own fields
  only, an archived record stays archived.
- Accounts: one account per email, a deactivated account stays deactivated, an
  account's role and email never change, the shop always has its administrator.
- Lifecycle: a restart keeps what was sold; a server that starts can serve.
- Key file: all instances sign with the same key; a crash leaves no broken file.
- Idempotency: a retried order is placed once. Rate limits: a caller is limited by
  the rate of the tier of the route.

The hazards, each at its line with the properties that watch it, are listed in
`PROJECT.json`.

## Modules

| Module | Models |
|---|---|
| `Shop` | the six handlers that write records and orders, one action per store call |
| `ShopAccounting` | sums over stored orders and carts, and the properties that relate them to the stock |
| `ShopRaces` | `Shop` with a history of its races: which handler is overtaken, which records that has spoilt, which cancellation had a rival |
| `Purchase` | abstract: what customers are promised while only they write |
| `ShopPurchase` | the refinement mapping by which `Shop` implements `Purchase` |
| `Lifecycle` | instances of the program around the handlers: seeding, serving, draining, crashing (extends `ShopAccounting`) |
| `Listing` | clients that page through orders, records and the inventory while the handlers write (extends `Shop`) |
| `Idempotency` | the idempotency middleware in front of CreateOrder, on the instances of `Lifecycle`: keys, locks that expire, kept answers (extends `Lifecycle` and `ShopPurchase`) |
| `Gateway` | routes, rate limit tiers, the JWT check and the guards, in the order a request meets them |
| `Settings` | `Load`: defaults, flags, environment, file |
| `Accounts` | registration, login, profile update, deactivation and the default administrator, in instances that start and stop |
| `KeyFile` | `loadOrCreateKey`, system call by system call |
| `MCShop`, `MCLifecycle`, `MCIdempotency`, `MCListing`, `MCAccounts` | catalogues, populations, seeds and symmetry for TLC |
| `ShopProofs` | theorems about `Shop`: types, control state, stored orders |
| `ShopAccountingProofs` | the stock of `Shop`, and the sums of `ShopAccounting` |
| `ShopRacesProofs` | `ShopRaces`, and what cancellations bring back |
| `LifecycleProofs` | `Lifecycle`, and what of `Shop` survives its crashes and starts |
| `IdempotencyProofs` | that `Shop` implements `Purchase`, alone and behind the middleware, and `Idempotency` |
| `ListingProofs` | `Listing` |
| `AccountsProofs` | `Accounts` |
| `KeyFileProofs` | `KeyFile` |

`ShopProofs` extends `Shop` and `ShopAccountingProofs` extends it; the proofs about
`ShopRaces`, `Lifecycle` and `Listing` build on that one, those about
`Idempotency` on `LifecycleProofs`.

### Shop

| In the model | In the code |
|---|---|
| `records`, `orders` | the collections; `NoRecord`, `NoOrder` where no document has the id |
| `req[p]`, `resp[p]` | the request of goroutine p and its status code |
| `pc[p]` | the store call p makes next |
| `rec[p]`, `ord[p]`, `idx[p]` | the handler's variables `record`, `order` (or the items gathered so far) and the loop index |
| `supply`, `taken`, `returned`, `wrapped` | history only: units put on the shelf by CreateRecord, UpdateRecord, RestockRecord; units taken by DecrementStock; units put back by CancelOrder; whether an addition overflowed |

One action is one store call with the code up to the next: `CreateGetRecord`,
`CreateDecrementStock`, `CreateSaveOrder`; `CancelGetOrder`, `CancelGetRecord`,
`CancelSaveRecord`, `CancelSaveOrder`; `RestockGetRecord`, `RestockSaveRecord`;
`UpdateGetRecord`, `UpdateSaveRecord`; `ArchiveGetRecord`, `ArchiveSaveRecord`;
`AddSaveRecord`. `StoreError` is a call that fails without effect; `Written` and
the last disjuncts of `CreateDecrementStock` and `CancelSaveRecord` are calls that
took effect although the answer was lost (`Faults`). `SaveRecord` and `SaveOrder`
replace the whole document by the handler's copy (`Replace`), as `ReplaceOne`
does; `DecrementStock` is a conditional increment of the current document.

Abstractions: the descriptive fields of a record are one value (`Infos`), a
request that fails authentication or validation writes nothing and is left out,
and timestamps, addresses and totals are left out. A Go int is
`-MaxInt-1 .. MaxInt`, and `Wrap` is its addition. The states confirmed, shipped
and delivered of an order are never written by the code and are left out.
An order's id is fresh (xid), so the id of a CreateOrder's order is the request's
own name. `Shelves` holds the catalogues the shop opens with.

### ShopRaces

A handler that is about to SaveRecord is `overtaken` when the record has changed
since it read it. If its write goes through, it undoes what the other did, and the
record is `spoilt` (`Clobbers` is that step). `contested` says that two
cancellations of one order were ever at work together (`Restoring`: past every
check, not yet answered), or that one was answered 500 and so has restored its
lines in part, or all of them and left the order pending. These three are
history; the handlers are those of `Shop`, untouched.

They tell apart what the code guarantees from what its races break:

- `BooksBalance`: of a record that is not spoilt, `stock + taken = supply +
  returned` in every state, with any number of handlers half-way and any calls
  failing or losing their answers. So stock is lost or conjured by a stale
  SaveRecord alone (`inventory.go:144`, `record.go:258`, `order.go:278`): not by
  DecrementStock, by a refused order, a lost answer or a repeated cancellation.
  Records whose stock an UpdateRecord sets outright, and a Go int that overflowed,
  are excepted.
- `ReturnedByAttempts`: what came back (`returned`) is at least what the
  cancellations that answered 204 owe, and at most what all attempts at
  cancelling may bring, each once. It has no exception at all.
- `RefundedOnce`: without a contest, what came back are exactly the units of the
  cancelled orders.
- `FieldDiscipline`: every handler writes whole documents, yet changes only the
  fields that are its own, unless it is overtaken.

`BooksBalance` is about single units: it compares what was counted in with what
was counted out, and is no upper bound, so a unit that appears or vanishes in
any interleaving shows. Repeating a restoration puts units on the shelf that the
books count as returned; that those should not have come back is what
`ReturnedByAttempts` and `RefundedOnce` bound.

### Purchase and ShopPurchase

`Purchase` has no store calls, no copies and no instances: a cart takes units that
are on the shelf in one step, with the description the record has in that step
(`Take`; `Spill` if the attempt fails at that), a checkout makes the whole cart one
order, and a cart that is dropped leaves no order. `ShopPurchase` maps `Shop` to it
while only customers write (`CustomersOnly`): the shelf and the orders sold are the
collections, and the cart of a request is the order its CreateOrder builds in
memory (`CartOf`). GetRecord is a stutter, DecrementStock is `Take` or `Spill`,
SaveOrder is `Checkout` whatever its answer, and a refusal, an error or the end of
the instance is `Drop`.

### Idempotency

| In the model | In the code |
|---|---|
| `key[p]` | the header Idempotency-Key of request p; one key stands for one purchase |
| `lock[k]`, `kept[k]` | the lock and the kept answer of key k in Redis |
| `reply[p]` | the request whose answer the client of p is given |
| `loose` | history only: keys whose memory was lost while it was needed |

`Handled` is a request that finds nothing kept and gets the lock, and goes on to
CreateOrder; `Replayed` one that is given a kept answer; `Answer` the end of the
handler, when the answer is kept and the lock released. `Lapse` is the end of
LockTTL (30 s by default) with the holder still at work or dead, `Forget` the end
of the 24 hours. `Operate` is `Lifecycle`'s start and stop of an instance, which
waits for the middleware too.

The middleware is a library. What the model takes for granted of it: a request
without a key is refused (`Required`; the integration test says so); of the
requests of a key one holds the lock; a kept answer is given to later ones; a
success is kept unless Redis fails; the answer is looked for again once the lock
is held. Left open, so that both ways are explored: whether answers other than a
success are kept, and whether an unlock asks who holds the lock.

### Gateway

`route[p]`, `from[p]` and `subject[p]` are the request, `at[p]` the middleware it
meets next: the limiters of the public and the auth-endpoint tier, the JWT check
(in front of the protected group only), the limiter of the authenticated tier
(inside that group), the guard of the route, the handler. `tokens` are the token
buckets, full at the start; `Refill` is the passing of time. `Routes` is the table
of `setupRoutes`, paths that the tiers treat alike taken together. The media type
check in front of all this keeps no state and is left out.

### Settings

`at` is the step of Load, `flag`, `env` and `file` are the sources, `cfg` the
struct that all of them write. Viper is a library: Unmarshal writes the keys the
file has into the fields of its sections, and AutomaticEnv is asked only for keys
the file has.

### Lifecycle

| In the model | In the code |
|---|---|
| `phase[n]` | where run n of the program is: `SeedData`, serving, `Shutdown`, ended |
| `seeded[n]` | how many of the seed records `SeedData` has written |
| `host[p]` | the instance that serves request p |
| `unsown` | history only: a write of SeedData has failed |

`SeedRecord` is one SaveRecord of SeedData (errors are ignored, as in the code),
`Listen` the start of the server, `Signal` the arrival of one of the signals of
`App.Start`, `Drained` the return of Shutdown with all handlers done,
`DrainTimeout` its error, `Crash` the end of the process at any moment. The
handlers are those of `Shop`, each on an instance; the requests of an instance
that ends are dropped where they are. The default administrator, which belongs
to the same start, is in `Accounts`.

### Listing

A reader is a client that asks for page after page until a page is short.
`Begin` is its first request (what it may ask for as in ListOrders), `Count` the
CountDocuments and `Find` the Find of one listing in the store, `Look` a
GetOrder. `Listed` is the filter, `Answers` the orders in which the store may
give the documents: newest first, anything among those of one instant, and
anything at all for the inventory, whose find has no sort. The inventory is read
in one call and cut into pages in memory. `born` is `created_at`, taken when
NewRecord and NewOrder are called, which for an order is some calls before it is
stored. A reader keeps what was there when it began (`there`) and what it has
seen (`seen`).

Left out: the filters on fields that `Shop` keeps as one value, sorting by price
or year, records without a sort, ListUsers, GetUser and GetRecord (one call
each, on which nothing depends).

### Accounts

| In the model | In the code |
|---|---|
| `users`, `tokens` | collection `users`; the access tokens issued |
| `boot[n]` | the store call of `createDefaultAdmin` run n makes next, or how it ended |
| `pc[p]`, `req[p]`, `held[p]`, `resp[p]`, `host[p]` | as in `Shop`; `held[p]` is the handler's `user` |

`RegisterGetUserByEmail` and `RegisterSaveUser` are CreateUser,
`LoginGetUserByEmail` is Login, `UpdateGetUser`/`UpdateSaveUser` and
`DeactivateGetUser`/`DeactivateSaveUser` the two handlers that write users back,
`AdminGetUserByEmail` and `AdminSaveUser` the administrator of a start. The
unique index is `Conflicts`: a violating write fails and the handler returns the
error. RequireOwner (`MayActOn`) looks at the token alone. Tokens never expire
here and are never withdrawn, as nothing on the way to a handler reads `users`.
The database is new, or has accounts already (`Populations`), some of whose
tokens have not expired yet.

### KeyFile

`stage[n]` is the next system call of run n (Stat, ReadFile, OpenFile, the writes
of pem.Encode, Close), `file` the chunks of the file with the run that wrote
each, `key[n]` the key the run signs with. `env`, chosen at the start, says
whether runs may overlap, whether calls may fail and whether a key is there
already. Of a file mixed by two writers nothing is known: it may or may not
parse.

## Runs

| Run | Question | Result |
|---|---|---|
| `all_handlers` | All six handlers, three requests, faults, overflow at 3: what holds in every interleaving, and which races alone break the rest? | `TypeOK`, `StockNonNegative`, `OrderMatchesRequest`, `PromisesKept`, `CancelledByRight`, `SalesTaken`, `ReturnedByAttempts`, `OrderFrozen` hold; `BooksBalance` and `FieldDiscipline` but for a stale SaveRecord, `RefundedOnce` but for a rival or failed cancellation |
| `idempotent` | Three orders of up to two lines, retries of each other or not, for the last two units of a record, on two instances that drain and crash, while locks and kept answers expire: does a key buy once, does a unit appear twice, is anybody refused who could be served, does it all implement `Purchase`? | `IdempotencyTypeOK`, `OncePerKey`, `SameAnswer`, `StockConserved`, `RefusedOnlyWhenShort`, `BuysAsPromised` hold |
| `listing` | A client pages through a list while two requests create, cancel, archive and add: what has it seen, what do totals promise, is every request answered? | `ListingTypeOK`, `WalkComplete`, `TotalReached`, `SeenByRight`, `InventoryAgrees`, `EveryRequestAnswered` hold |
| `restarted` | Two instances seed two records, serve orders, cancellations and restocks, drain and crash, and calls fail: what survives? | `PromisesKept`, `GracefulAnswersAll`, `CatalogueReady`, `ShutdownEnds` hold |
| `accounts` | Two instances start and stop over a new database or one with accounts and tokens, two requests register, log in, update and deactivate, calls fail: what holds of accounts and tokens, does a repeated start come up, does every request end? | `TypeOK`, `EmailUnique`, `AdminReady`, `ScopeIsRole`, `RegistrationKept`, `IdentityFrozen`, `ChangedByRight`, `RestartServes`, `EveryRequestEnds` hold |
| `key_file` | Three starts, overlapping or not, killed or failing anywhere, with and without a key before them: one key, and a readable file? | `TypeOK`, `SameKey`, `UnreadableAfterCrash`, `StartEnds` hold |
| `oversell` | May a unit be sold twice? (`NoOversell`) | yes: a restock during an order writes the sold unit back |
| `double_cancel` | May an order be cancelled twice? (`CancelledOnce`) | yes: two overlapping cancellations both answer 204 |
| `reactivated` | May a deactivated account become active again? (`DeactivatedStays`) | yes: a profile update that overlaps writes its old copy back |
| `reseeded` | Does seeding only add records? (`SeedOnlyAdds`) | no: every start resets the seed records, stock included |
| `tiers` | Is a burst bounded by the limit of its tier? (`TierLimits`) | no: all limiters are made with the rate of the authenticated tier |
| `flags_first` | Does a flag win over the file? (`FlagsFirst`) | no: the file, or the environment for a key of the file, is written over it |

The last six are the disagreements with what the repository says of itself;
`PROJECT.json` quotes the lines.

Bounds. Two requests are enough for any single stale write; three allow an order,
a restock or cancellation of it, and a second buyer or canceller; `oversell`
has four (two buyers, the second read during a restock, all answered). Two
records and two lines give the partial failure of an order and an order that
names a record twice. `MaxInt = 3` lets two restocks overflow; where it is 7 it
is out of reach, and in `idempotent`, where nothing is ever added, 2 is enough.
Three requests are also an order and two cancellations of it, one after the other,
together, or one that fails and its retry; an order, its cancellation and a
handler that overtakes that; or two stale writers of one record. Two
descriptions and two records let a handler write another's field. In `idempotent`
three requests are a first attempt, a retry of it and a rival, or two retries, under two keys; two units are enough for
two orders of one line, so that a retry could buy again, and too few for two of
two lines, which may each take one and then be refused. Redis may fail there, the
store does not (`Faults`): its failures are in `all_handlers` and `restarted`. In
`accounts` the second population has the administrator and a customer, with or without their tokens, so
that two requests can be an update and a deactivation of one account, beside a
start. In `listing` a page is one item,
so two orders or two records make two pages, and a document can arrive or be
archived between count and find or between the pages; the low-stock threshold is
1 in place of 5, below the stock of 2 the shop opens with. Two starts are one
that crashes and one beside or after it; three in `key_file` are one that breaks the file, one that
trips over it, and a bystander. Two chunks are a write that is whole and one that
is missing; how many writes pem.Encode makes does not matter beyond that. Two
emails are the administrator's and another that two requests race for. Requests
are interchangeable, and so are starts, so their permutations are a symmetry in
the runs that check no liveness. Each system may come to rest
(`AllServed`, `AtRest`, `Finished`, `AllEnded` stutter), so deadlock stays
checked everywhere. In `tiers` the limits 1 and 2 stand for 30 and 100, in
`flags_first` a setting has two values.

Fairness.

- `listing` assumes weak fairness of `Serve(p)`, for each p: a runnable
  goroutine is scheduled, and a store call returns, with an answer or an error
  (the driver's socket timeout, 30 s in the default URI, makes it so). Nothing is
  assumed of clients, readers included.
- `accounts` assumes the same of the handlers (`Serve`) and of
  `createDefaultAdmin` (`Admin`), and nothing of launches, stops or clients.
- `restarted` assumes only that Shutdown returns (`Drain`), which its context
  with a timeout guarantees; handlers may hang forever.
- `key_file` assumes that system calls return.

### In the models, without a run of their own

Reading the code against its docs gave more than the six runs say. The models
do all of this too:

- A multi-line order refused at a later line keeps what its earlier lines took
  (`handlers/order.go:110`); `StockConserved` allows it, as only a loss.
- A restock that overlaps an archive unarchives the record
  (`handlers/inventory.go:144`); so does a stale update. `FieldDiscipline` excepts
  stale writes, and only those.
- `record.Stock += req.Quantity` wraps around (`handlers/inventory.go:142`);
  `wrapped` says so and `StockNonNegative` excepts it.
- A cancellation that failed half-way may be repeated, and restores the same
  stock again (`handlers/order.go:270`); `RefundedOnce` excepts it, and
  `ReturnedByAttempts` bounds it by one restoration for each attempt.
- Two overlapping registrations of one email: the second is answered with a
  server error, not with 409 (`handlers/user.go:87`).
- Administrators may cancel the orders of others and change other profiles,
  although the README's route table (lines 46, 47 and 64) speaks of owners.
- A token outlives the deactivation of its account.
- Orders of the same instant may change places between two pages, and a walk
  then misses one; `WalkComplete` excepts ties.

- POST /auth/logout is registered outside the group with the limiter that names
  its path (`app/server.go:73`), so nothing limits it, whatever README.md:129 says.
- `VINYL_BIND_ADDR` and its like (README.md:102) set nothing: no key of the file
  that has a field is asked for under that name, and a key at the top level of the
  file (README.md:106) has no field (`config/config.go:206`).
- A retry places a second order if its key's memory is lost at the wrong moment:
  the handler outlives LockTTL, or its instance dies with the lock, or 24 hours
  pass, or an error was answered although the order is stored. `loose` has these
  keys, and `OncePerKey` says that there is no other way.

## Proofs

Every safety property of the six passing runs is a theorem, so it holds for any
number of requests, records, users, instances, readers, chunks, lines per order
and faults. Each is proved from an inductive invariant that TLC finds to hold on
the instance of its run too. Below, module by module, what that invariant adds
and why.

### The handlers

`ShopProofs` proves `Spec => []Typed`, where `Typed` is `TypeOK` strengthened by
`ControlOK` (what each value of `pc` says of the request, the index and the held
copies) and `NoEmptyOrder` (stored orders have items, so the loop of CancelOrder
starts inside its bounds). `TypeOK` alone is not inductive: that
`req[p].items[idx[p]]` is an item needs the control state. From it follows
`OrdersOK`: a cart is a prefix of the request's lines, a copy held by a
cancellation equals the stored order up to its status, and what was answered is
true of the store. `OrderMatchesRequest`, `PromisesKept`, `CancelledByRight` and
`OrderFrozen` follow.

`ShopAccountingProofs` proves `StockBooks`: no copy of a record, stored or held by
a handler, has a negative stock (`wrapped` excepted). The copies in flight belong to
it because any of them may be written back. `StockNonNegative` follows.

It also proves what sums over finite sets need: adding up is unique and always
possible, the order of the terms does not matter, a sum changes by what one of
its terms changes. The induction theorems of the library take an operator as a
parameter, so these lemmas argue from a smallest counterexample (`Smallest`): the
strict subset order of a finite set is well-founded. With them `SalesTaken`
follows from `Backed`: the units of a record that stored orders and carts hold
(`Held`) are at most those `DecrementStock` took, and exactly those while no
CreateOrder has failed.

### The races

`ShopRacesProofs` proves three invariants.

`RacesOK`: who is not overtaken is about to write what the store holds now, changed
as its request asks (`Currents`), and a record that is not spoilt balances
(`Balances`). Neither is inductive alone: that a SaveRecord keeps the balance needs
`Currents`, and `Currents` needs that any other step either leaves the record
alone or overtakes the holder. `BooksBalance` and `FieldDiscipline` follow. That a
line of a cancellation finds its record, so that it returns its units, needs that a
record an order names is there to stay (`Existing`).

`AttemptsOK`: `returned` lies between the sum of what each cancellation has brought
back for certain (`Least`: all of the order after a 204, the lines before the index
while it is at work, nothing after a 500) and of what it may have (`Most`: all of
the order after a 500). With `LoopsEnd` (the loop ends behind the last line)
`ReturnedByAttempts` follows.

`RefundsOK`: uncontested, an order that is being cancelled is pending (`Halfway`),
and `returned` is the units of the cancelled orders and of the lines so far of those
that are being cancelled (`Settled`). `RefundedOnce` is the case that none is.

### Instances

`LifecycleProofs` proves `LifecycleOK`. `Hosting` ties each handler to its
instance: it works only where one is serving or draining, and who is neither at
work nor answered was on one that was killed; `GracefulAnswersAll` follows. `Sown`
counts the seed records an instance has gone through, all of them before it
listens; `CatalogueReady` follows. The invariants of `Shop` are carried along:
the end of an instance drops the copies and carts of its handlers, which the
books allow, and SeedData is one more writer, whose stock is not negative. So
`PromisesKept`, `OrderMatchesRequest`, `StockNonNegative`, `SalesTaken` and
`OrderFrozen` hold through crashes and repeated seeding too.

### Customers, and the middleware

`IdempotencyProofs` proves `Spec => BuysAsPromised` and that `RefusedOnlyWhenShort`
is an invariant, both under `CustomersOnly`. The opening maps to `Purchase`'s, and
every step of the handlers to a step of it or a stutter. It rests on the
invariants of `Shop` and on `Faithful`: the copy a CreateOrder holds describes the
record as it still is, since with customers as the only writers a record never
goes and changes only in its stock, which only falls (`RecordsKept`). The last is
why `RefusedOnlyWhenShort` is inductive as it stands: a line that was short when
an order was refused stays so.

Then the same for `IdempotencySpec`, with the middleware and with instances that
stop or die: the end of an instance is one `Drop` of all its carts. What the middleware adds is `Exclusive`, for each key
whose memory is not lost: its requests at work, and those cut off, hold its lock;
an order under it is that of the holder or of the kept answer; and there is never
both a holder and a kept answer. `OncePerKey` follows. `SameAnswer` takes `Told`
besides: whatever is kept or given is the answer of a request with that key that
has ended. `StockConserved` takes the sums again: each unit is on the shelf or
taken, and what was taken is in an order or a cart until a request fails.
`NoOversell`, which the run `oversell` breaks with a restock, is a theorem here:
customers alone do not oversell the shop.

### Listings

`ListingProofs`: readers are stutters of the shop, so its invariants hold while it is
read. `InventoryAgrees` needs only that no stock is negative. The other
three are parts of `WalksOK`. `SeenByRight` is inductive with what the filter of
a customer's listing is (`Rightful`). A listing that only grows needs a reason to grow
although handlers replace whole documents: whoever is about to save holds a
record that is nowhere yet, or a copy of one that is there and is archived exactly
when it is (`Copied`, with `Distinct` for two requests that would add one record).
Then a count is at most the listing found after it (`Covered`), which gives
`TotalReached`; and a document the walk has still to meet has at least as many
others ahead of it as the walk has skipped (`Unmissed`), which gives
`WalkComplete`: arrivals push it back, and a page turned without it was all ahead
of it. The rest is about pages: `Skip` and its division, and lists without
repetitions that are as long as their set is large.

### Accounts and the key file

`AccountsProofs` proves `Sound`: the types, unique emails and true scopes, with
`Custody` (a registration at SaveUser holds the document of an account that is
not there yet; an update or a deactivation holds a copy with the identity of one
that is), `StartsOK` (a start has created nothing before it is through) and
`TokensOK` (requests are served on behalf of tokens that were issued). Custody is
what makes it inductive: a stale copy may be old in the profile and the active
flag, never in email, password or role, so whichever copy is written back, emails
stay unique and scopes true. `EmailUnique`, `ScopeIsRole`, `IdentityFrozen` and
`ChangedByRight` follow. `AdminReady` needs one thing more (`AdminFirst`): no
request is even open before the administrator is there, so a registration that
looked for its email before cannot be under way. `RegistrationKept` is kept by
every step that keeps the identity of accounts, and a step that answers a
registration with 201 has just created its account.

`KeyFileProofs` proves `Typed` (no start writes more chunks than there are),
`Single` (without overlap at most one start is active), `OneKey` (in the
circumstances of `SameKey` a key is made only where there is none, and whoever is
up has the one in the file) and `Traces` (a file in parts is the work of a start
that still writes or was broken off); `SameKey` and `UnreadableAfterCrash` follow.

### Assumptions

They are those declared in the modules: quantities between 1 and `MaxInt`, no
negative stock in requests, seeds or the opening catalogue; administrators are
users; the accounts a database opens with have an email each, and the account
with the administrator's is an administrator's; the ids of requests and starts
differ, and those of orders and records; requests, and the documents that are
listed, are finitely many, however many (`FiniteAssumption`, `FiniteThings`),
since sums and counts are of finite sets; a page has at least one place, a key at
least one chunk; and the sentinels are no values. The refinement, and all of
`Idempotency`, take `CustomersOnly`, as `Purchase` is about customers.

### Only model-checked

- Liveness, which the prover cannot do under fairness: `EveryRequestAnswered`,
  `EveryRequestEnds`, `RestartServes`, `ShutdownEnds`, `StartEnds`.
- `Gateway` and `Settings` have the two runs that find a disagreement, and no
  property that holds to be proved.
- What the six runs find violated is, of course, no theorem.

## Not modelled

Health checks, tracing, metrics, compression, media types, TLS and pprof keep no
state of the shop. MongoDB, Redis, viper, and the idempotency, rate limit and JWT
middleware are external: a store call is one atomic step on one document, as
MongoDB promises, and a find is one step too, though a long cursor need not be a
snapshot; a limiter takes a token in one step. Refresh and logout are handlers of
the JWT library. What the router makes of the nil that setupAuthenticatedRateLimit
returns when its tier is off (`app/server.go:214`), and whether the limiters, made
without a prefix of their own, share buckets, cannot be told from the repository.

## Plan

1. `Shop` and its proofs, `Accounts`, `KeyFile` and theirs, `Lifecycle`,
   `Listing`, `Idempotency`, `Purchase` as the abstract specification with the
   refinement checked and proved, `Gateway`, `Settings` (done).
2. Theorems of `Lifecycle`, `Idempotency`, `ShopRaces`, the sums of `ShopAccounting`,
   `Listing`, and `RegistrationKept` (done).
3. Left: what a limiter that works as documented would guarantee (a bound on the
   requests served by the tokens and refills so far) is not stated of `Gateway`.
