# CPA Toolkit: specification and proofs

CPA Toolkit is a Go plugin (a shared library) that a CPA server loads. It issues
API keys, restricts each key to some of the server's accounts, meters and limits
what a key spends, and routes the requests of one conversation to one account.
This directory holds TLA+ models of its core, the TLC runs that check them and
TLAPS proofs of what holds for every size of the system.

    tlc -config Routing_safety.cfg MCRouting.tla      # one run
    tlapm RoutingGuardProofs.tla                      # one module of proofs

## 1. Inventory of the system

CPA calls the plugin through one C entry point (`src/cmd/cpa-toolkit/main.go`),
from many goroutines at once; `App.HandleMethod` (`internal/plugin/app.go`)
dispatches. All durable state is in one SQLite database (`internal/access`).

| component | state | operations | what makes it correct |
|---|---|---|---|
| routing sessions and cursors, `access/routing.go` | table `routing_sessions`; in memory `routingMu`, `routingCursor` | `ChooseProviderRouted`, `PickCandidateRouted` | an answer is authorized; a conversation stays on one account; no row outlives its key; the lock is never leaked; every call is answered |
| admission, quota and ledger, `access/store.go` 415-521, 1013-1043, `app.go` 184-357 | `keys`, `usage_ledger`, `price_rules` | `Authenticate`, `CheckQuota`, `handleUsage`, `RecordUsage` | spending passes a limit by no more than the requests in flight; metered requests are charged; no ledger row of a gone key |
| key store, `store.go` 266-394 | `keys`, `key_bindings` | create, rotate, update, delete | a token names one key; an update is one transaction; a deletion takes everything with it |
| scope resolution, `store.go` 540-615 | reads `key_bindings`, `group_members`, `inventory_items` | `ResolveScope`, `AllowsCandidate` | a key reaches exactly what it is bound to, through groups and aliases |
| inventory and groups, `store.go` 617-904, 1208-1370, `provider_inventory.go` | `inventory_items`, `groups`, `group_members` | `SyncAuthFiles`, `UpsertProviderCandidates`, group operations | a refresh leaves exactly the host's files; references follow a renamed file |
| prices and billing, `store.go` 906-1043, 1181-1206 | `price_rules`, `usage_ledger` | `PriceRule`, `RecordUsage`, `CalculateUSD`, replace and upsert | the formula of the README; a rule that applies is found; replacement is atomic |
| price synchronization, `price_sync.go` | none | `syncPriceRules`, `liteLLMPriceRules` | the rules are those of one document |
| plugin lifecycle, `app.go` 20-111 | `App.cfg`, `App.store`, `App.mu` | `configure`, `Shutdown` | no store is leaked or used after it is closed |
| session identity, `routing_session.go` | none | `routingSessionHash` | one conversation, one hash |
| management API, `management.go` | none of its own | handlers of keys, groups, inventory, prices, usage | each handler makes the store call its body asks for |
| usage statistics, `store.go` 1045-1165 | none | aggregations | windows and keys add up; agree with what was billed |
| CPA self-update, C glue, web UI | - | I/O | - |

The life of a request: `frontend_auth.authenticate` (token, quota, price) ->
`model.route` (a provider) -> `scheduler.pick` (an account) -> CPA runs the
request -> `usage.handle` (price again, INSERT). The callbacks share the key id
and the tables, nothing else: each reads the tables anew, and a management call
may change them between any two statements. Routing alone takes a lock, and
management does not take it.

What is hard here, and therefore what the properties are about: decisions made
from rows that have changed since; two callbacks that save the same row; a lock
held over several statements with early returns; expiry compared as text; a
quota checked long before the charge it guards; a restart that keeps the tables
and loses the memory. `PROJECT.json` lists every hazard at its line.

## 2. Modules

| module | models | |
|---|---|---|
| `Routing` | `routing.go` and what it reads; management; restart | core |
| `AccessGuard` | what routing promises | abstract specification of `Routing` |
| `RequestFlow` | the four callbacks of a request, management, the ledger | core |
| `Budget` | what the limits promise | abstract specification of `RequestFlow` |
| `Inventory` | what bindings lead to: groups, inventory rows, `SyncAuthFiles` and the scope a pick reads | |
| `PluginLifecycle` | `configure`, `Shutdown`, and the callbacks around them | |
| `KeyStore` | keys, their tokens and limits, and how each callback of a request finds its key | |
| `Billing` | price rules and their synchronization, usage records, statistics | |
| `MCRouting`, `MCRequestFlow`, `MCInventory`, `MCKeyStore`, `MCBilling` | values of the constants for TLC | |
| `RoutingProofs`, `RoutingGuardProofs`, `RequestFlowProofs`, `BudgetProofs`, `InventoryProofs`, `LifecycleProofs`, `KeyStoreProofs`, `BillingProofs` | theorems | |

### Routing

State and code: `sessions` is `routing_sessions` (`NoRow`: no such row),
`cursor` is `Store.routingCursor`, `mutex` is `Store.routingMu`, `call[c]` holds
the local variables of one call in flight, `keyState`, `limited`, `bindings` and
`priced` are the tables `keys`, `key_bindings` and `price_rules`. A call walks
through the program counters

    getKey -> resolve -> chooseTx -> done        ChooseProviderRouted
    pickLock -> pickTx -> done                   PickCandidateRouted

one action for each SQL statement or transaction whose order matters:
`ChooseGetKey` is `Store.GetKey`, `ChooseResolve` is `ResolveScope` with the loop
over the providers, `ChooseTx` is the critical section with its transaction,
`PickResolve` takes the lock and reads the scope, `PickTx` is the transaction and
the deferred unlock. The transactions end in one of the ways the code has: the
session sticks, a new target is saved, round robin without a session, or failure
(SQLite busy, I/O), which keeps a cursor that has moved. Management
(`CreateKey`, `UpdateKey`, `DeleteKey`, `ReplacePriceRules`), `Restart` and `Tick`
fall between any two of these steps.

Abstractions. A binding is the auth it resolves to, and an auth's provider does
not change (`AuthProvider`), so the `UpsertProviderCandidates` of a pick, which
refreshes inventory rows, changes nothing here. The several SELECTs of
`ResolveScope` are one step. `Sorted` is whatever order package sort gives. The
clock counts ticks, `TicksPerSecond` of them a second: `TextRank` is the place
of an instant among RFC3339Nano texts, which differs from the order of time as
soon as a second has more than one tick.

### RequestFlow

One record per request in flight walks through authenticate (three quota sums,
then the price check), route, pick, running, and usage (lookup, price, insert);
`ledger[k][t]` is the USD recorded at tick t. Which allowed target is taken is
any of them (that is what `Routing` decides). The callbacks do not hear of one
model but of three: `Validate` takes the one in the body or the query, `Route` the
one CPA makes of it, `UsagePrice` that of the usage record (with its provider, or
that of the account in the inventory); each may be missing (`None`), and nothing
makes them agree. `price` gives the rule that `PriceRule` finds for a provider and a
model, and none if either is missing. In the record of a request, `model` is the
one it was last told and `billed` what its usage was priced by. Deliveries of usage
may be lost (`UsageLost`). Ticks are whole seconds here.

`MeteredIsCharged` is about the part of this the plugin decides: a price found by
routing is found again by billing, when it is asked for the same provider and model.
That the quota cannot be bypassed, which README.md promises, takes more
(`QuotaNotBypassed`), and is false.

### Inventory

State and code: `bindings`, `groups`, `members` are the tables `key_bindings`,
`groups`, `group_members`; `files` and `instances` the two types of row in
`inventory_items`; `host` is the directory of auth files CPA reports. `sync[a]` is
one POST /inventory in flight and `pick` the `scheduler.pick` in flight (one,
because `routingMu` lets no second one in), at the program counters

    old -> upsert -> migrate -> dropAll -> prune -> credentials    refresh
    upsert                                                         auth_files
    bindings -> scope -> refresh (-> file | instance) -> answer    pick

with a step for every SQL statement, except that the transaction of
`migrateAuthFileReferences` is one step, as are those that save a key or a group.
A failure (`SyncFails`, `PickEnd`) may come after any of them. The pick goes on
to choose among its `Answers`; that choice is what `Routing` is about.

Abstractions. An auth file is known by its id and by one more name, which stands
for its file name, auth index and base name of its path. The targets `auth_id`
and `auth_file` of a binding mean the same to `applyTarget` and are one. A
provider instance without an auth id (`provider:idx:`, `provider:url:`) is not
modelled, and rows an admin posts are credentials with a base URL. Statuses,
labels and snapshots are left out. The order in which CPA lists files is
arbitrary: `Owners` are the outcomes for which file takes an alias that two of
them share. `alone`, `synced`, `granted` and `steady` are history variables:
`alone` holds the inventory calls beside which, so far, no other one and no pick
was in flight; `synced` is set when a refresh ends that saw today's `host` and was
alone; `granted` collects the candidates the picking key was allowed at each
instant of the call; `steady` says that no admin saved the key since the pick
began. That no auth file is named like a configured credential
(`CredentialAssumption`) is `stableAuthID`'s doing, whose ids end in a digest.

`Routing` takes a key's bindings as already resolved, all at one instant.
`AnswersAuthorized` therefore says that routing never mixes two sets of
*bindings*; that the resolution itself can mix a binding with later *members* of
its group is seen here (`steady`).

### PluginLifecycle

State and code: `cfg` and `store` are the fields of `App`; a store is a number,
`paths` its file, `open` the stores whose `sql.DB` is open. `conf[a]` is a
`configure` in flight (`init`: the database is open and being initialized;
`close`: swapped, the old one not yet closed), `call[c]` a callback that holds the
pair it got from `loaded`. Each critical section of `App.mu` is one step. Of what
a callback does with its store only the end matters: it commits, or finds the
database closed. `usage.handle` and the management API do not ask whether the
plugin is enabled; the three callbacks that enforce keys do.

### KeyStore

State and code: `rows` is the table `keys`, each row with its `key_bindings`;
`born` the ids and `used` the tokens ever given out. `adm[a]` is a management call
in flight (`exists`: the duplicate check of `CreateKeyWithPlain`; `insert`: its
transaction; `read`: the `GetKey` that ends a creation, rotation or update).
`req[r]` is a request: `key` is what `Authenticate` found, `name` what the later
callbacks get to see of it, the key id or the token in the headers, and `as` the
key the latest callback has found by that name. `routeModel` and `pickScheduler`
take an id as it is; `KeyByIDOrPresentedToken` of `usage.handle` looks the name up
as a token first and as an id second, in two statements.

Abstractions. A token and an id are strings a client may send and share one
namespace. A token and its SHA-256 are one, names and timestamps are left out,
bindings are opaque sets (what they lead to is `Inventory`), and `Bodies` are
request bodies after decoding, `NoField` for a field that is absent. `owned` and
`blurred` are history variables: the creations whose token was some key's during
the call, the requests whose name stopped naming their key alone.

### Billing

State and code: `rules` is `price_rules`, `known` the accounts with a row in
`inventory_items`, `ledger` is `usage_ledger` in the order of its ids. `call[c]` is
one `usage.handle` in `RecordUsage`, at

    infer -> own -> official -> insert

one step for each statement. `sync[s]` is a POST /prices/sync that holds the rules
of the document it fetched and has not installed them. `RulesIn(order)` is
`liteLLMPriceRules` for one order in which Go ranges over the JSON object, and
`SourceRules` all it may return for the documents there are.

Abstractions. Tokens and USD are counted in units (the code divides by a million,
in floating point); cache creation costs what input costs, as the code has it, and
so is no term of its own. The clock ticks in whole seconds. The names of the
official providers and the parts of model names are parameters (`OfficialOf`,
`SourceProvider`, `ShortName`), so that what is checked is how they are combined.
The key of a usage record is given (`KeyStore` finds it). `price` in a row of the
ledger is not stored by the code; it is history, like `synced`, `put` (rules
written by PUT since the last synchronization) and `gap` (calls during which, at
some instant, no rule applied). The statistics are operators over the ledger.

### The abstract specifications

`AccessGuard` knows only grants and answers: a request looks at the grants of its
key at one instant and is answered from what it saw. `Routing!Guard` maps
bindings to grants and a call to its phase, key, scope and answer. `Budget` knows
only spending and open requests: admit below the limit, charge later.
`RequestFlow!Total` maps the sums of the ledger and the requests between quota
check and record.

## 3. Runs

| run | question | instance |
|---|---|---|
| `routing_safety` | types; owned, consistent and sticky sessions, lock discipline | 2 calls, 1 key, 3 accounts of 2 providers, 2 sessions (symmetric), 2 ticks |
| `routing_guard` | implements `AccessGuard`; every call is answered | 2 calls, fairness, all bindings, limits, price tables, filters, priorities |
| `routing_sliding_hour` | a session lives for its hour | 2 ticks per second; **violated** |
| `requestflow` | types, owned ledger, metered requests are charged; overshoot in the rolling window; implements `Budget` for the total limit | 2 requests (symmetric), 1 key, 2 accounts of 2 providers, a model named or not, priced at one provider or none, every window limited, 3 ticks, window of 1 |
| `requestflow_quota_bypass` | a key with limits does not run for nothing | 2 requests, 2 models; **violated** |
| `requestflow_no_fallback` | a routed request is not left to CPA's own scheduling | 2 requests; **violated** |
| `budget_overshoot` | the overshoot bound of the abstraction | 3 requests, 2 keys |
| `inventory_sync` | a refresh that ran alone leaves exactly the host's files; no key becomes unrestricted; migration gives and takes nothing | 4 entries of 2 files: one may be renamed, the other has the same name or no provider; a configured credential, an inferred instance; bindings and members of every kind |
| `inventory_pick` | a pick answers with what its key was allowed; a row it writes back outlives no refresh that ran alone | 1 pick, 1 inventory call, 1 group |
| `plugin_lifecycle` | stores are owned, paired with their configuration and closed | 2 reconfigurations, 2 callbacks, 3 stores |
| `keystore` | one key per token, justified refusals, limits of one body, one key per request | 2 admins (symmetric), 1 request, 2 ids, 2 chosen tokens (one is also an id), 1 random token |
| `billing` | no rule missed, prices of one document, charge and statistics agree | 1 usage record in flight of 4, 2 synchronizations (symmetric), 3 documents, 2 PUT bodies, 2 rows, 2 ticks |

Bounds. Two calls are enough for every race of routing: a critical section
excludes all others, so a step of a call can only be disturbed by one step of
another between two of its own, and management is always possible. Three accounts
of two providers give ties at one provider and a choice between two. `TTL` is one
tick and the clock runs one tick, so sessions expire, are renewed and are cleaned
up; `routing_sliding_hour`, which is about instants within a second, has four. In
`routing_guard` the clock stands, for a grant has no date. `CursorModulus` stands
for 2^64: 2 makes the wrap happen.
`MaxSpent` stops new requests when a key has spent far more than its limit, after
which nothing new can happen. In `requestflow` every key has limits and is bound to
one account, which may change to one of the other provider, since `RollingOvershoot`
and `WithinBudget` are about limited keys; deleting the key is what unbinds it. The
runs expected to fail have unlimited and unbound keys as well, and the theorems
about `LedgerOwned` and `MeteredIsCharged` hold for any bindings and limits.

In `Inventory` one refresh beside one pick shows every interleaving of the two,
since each is a sequence of statements. Two files that share a name and an
identifier that two providers use are what the migration must tell apart. In
`PluginLifecycle` three stores let a reconfiguration start while the store of the one before is still to be
closed.

In `KeyStore` two admins are enough for two creations of one token and for a change
beside a request; the second id lets the name of the first become another key's
token. In `Billing` one usage record is in flight (records do not read each other)
beside all changes of the rules; `MaxRows` rows of two keys at two ticks give the
statistics something to add; a third document, with nothing supported, is refused.

Fairness. `plugin_lifecycle`: weak fairness of the steps of a `configure` that has
begun, because its goroutine is scheduled and nothing blocks it for good (it may
fail instead of going on); opening, shutdown and callbacks are not assumed to
happen. `routing_guard`: strong fairness of the next step of each call.
A goroutine that can run is scheduled, and a waiter on a `sync.Mutex` that keeps
losing the race gets the lock (its starvation mode). Management, failures,
restarts and new calls are not assumed to happen. Restarts drop calls; a dropped
call counts as answered, since nobody waits for it.

### Disagreements with the documentation

* `routing_sliding_hour`: `deleteExpiredRoutingSessions` compares timestamps as
  text, and RFC3339Nano text is not ordered like time within a second: a clean-up
  whose own time falls on a whole second deletes the sessions that expire later
  within that second. `routing.go` 21 promises a sliding hour. With ticks of a second
  (the other runs) the conversation stays.
* `requestflow_quota_bypass`: README.md 257 requires a price for the model of a key
  with limits, so that the quota is not bypassed. `ValidateBindingsAndPricing` does
  not ask for one when the key is unbound, and its requests are recorded for 0 USD:
  that is the run. With keys that are always bound (`BindingSets <- MCEither`) TLC
  finds the other ways: the price is required of the model that the request names
  (`store.go` 476, `routing.go` 48: of none, when it names none) and charged for the
  model of the usage record (`app.go` 310).
* `requestflow_no_fallback`: README.md 323 says that `scheduler.pick` fails the
  request and does not fall back to CPA's own scheduling. When a key loses its
  bindings or is deleted between `model.route` and `scheduler.pick`, the pick finds
  no bindings and answers "not handled" (`app.go` 281), and the request runs on
  whatever account CPA takes. `AnswersAuthorized` holds all the same, for it judges
  the pick by itself: "not handled" is what it answers a key without bindings.

"Slightly over the limit" (README.md, quota) is made precise rather than refuted:
`OvershootBounded` and `RollingOvershoot` say by how much.

### Seen while modelling, without a run

* `FreeOnlyWithoutRule` says that a rule is found, not that the price was in force
  for the provider. Own and official rule are two SELECTs: when one PUT between them
  writes both, usage is billed at the new official price, although from then on the
  provider has a rule of its own.
* `liteLLMPriceRules` keeps the first rule of an alias in the order in which Go
  ranges over the document (`price_sync.go` 98): one document may give two prices.
  `PricesFromOneDocument` therefore accepts any spec that lists the rule.
* Of two synchronizations that overlap, the last to install wins, which may be the
  one with the older document. A synchronization also deletes the rules PUT for
  providers no source covers, as `store_test.go` 753 wants.
* A usage record without a provider, of an account that has left the inventory, is
  free.
* The statistics show tokens that were written to the cache as read when
  `cached_tokens` is no more than `cache_creation_tokens`, though they are billed
  as input (the exception of `BilledAsShown`). Without `total_tokens`,
  `UsageTotalsByKey` adds cached and reasoning tokens to input and output and
  `UsageSummary` does not (`StatisticsAddUp` compares stated totals only).
* `created_at` is settled before the lookups, so a window that is over may still
  gain a row.
* A creation, rotation or update whose final `GetKey` fails has been made; its
  token is in no answer (`CallFails` in `KeyStore`).

### What the properties leave out

Some hazards of `PROJECT.json` are excluded by the premise of the property nearest
to them, and say so:

* `ConversationStays` starts from the expiry a row has; a call with an old clock may
  save an earlier one than there was, which it does not see.
* `RequestKeepsKey` is not about requests whose token was rotated away (`blurred`).
* `FreeOnlyWithoutRule` counts usage of an account that has left the inventory as
  usage without a rule (`gap`); `PricesFromOneDocument` accepts either price when
  two models of a document share an alias.
* `migrateAuthFileReferences` and `ReplacePriceRules` are one transaction and one
  step each: `NeverUnrestricted`, `MigrationKeepsAccess` and `PricesFromOneDocument`
  judge their outcome, not the order of the statements inside.
* `MeteredIsCharged` and `QuotaNotBypassed` except requests during which the price
  rules changed, and configurations with prices of zero.

### What the inventory does not promise

`SyncComplete` is stated of a sync that runs alone (what follows it need not be
alone), and `PickAuthorized` of a pick during which no admin saves the key. Both
conditions are needed, since `SyncAuthFiles` and `ResolveScope` are sequences of
statements without a common transaction:

* Two refreshes at once (two `Admins` in `Inventory_sync.cfg`): the last DELETE of
  the one with the older snapshot removes a file the newer one has inserted.
* A refresh beside a pick (`CandidateLists <- CandidatesPick` there):
  `UpsertProviderCandidates` writes back a row it read before the refresh deleted
  it, and a file that is gone is listed again.
* Without `steady` in `PickAuthorized`: `ResolveScope` reads the bindings first
  and the members of a group later. When the key is moved off the group and the
  group then gets a new member, a pick in between may answer with that member,
  which the key was allowed at no instant.

The first two last until the next refresh and change what admins see; the third
lasts for one pick.

`PickAuthorized` also takes that an account has one provider
(`OneProviderPerAuth`), which is CPA's business; `inventory_pick` keeps to it, and
the proof assumes it. Without it TLC finds a pick that reads a group with the target
"instance n of claude", after which the group loses that target and an admin posts
the row of this instance: the pick reads the row, takes "n" for an allowed auth id
and lets the key use the codex account "n", which it was allowed at no instant.

POST /inventory with `auth_files` deletes the instances inferred from the files
and does not migrate the bindings to them; until the next refresh those bindings
refer to rows that do not exist.

## 4. Proofs

All theorems hold for any finite sets of accounts and providers, any sets of keys,
sessions and calls, any clocks, candidate lists and price tables that satisfy the
named assumptions of the modules (`ConstantsAssumption`, `SortedAssumption`,
`FlowAssumption`, `FiniteAssumption`, `BudgetAssumption`, `InventoryAssumption`,
`CredentialAssumption`, `LifecycleAssumption`, `KeyStoreAssumption`,
`BillingAssumption`), which TLC evaluates on the runs of these modules. Every
invariant, action property and refinement that a passing run checks is proved; what
a theorem assumes beyond the named assumptions is said here and in its statement.

* `RoutingProofs`: `TypeOK`, `SessionsOwned`, `SessionsConsistent`,
  `LockDiscipline`. None of them is inductive alone. `IInv` adds what a call in
  flight knows (`CallsSound`: its targets come from the scope it has read, are
  not empty, and its cursor key exists), and that a key that is not live has no
  bindings. A sticky transaction needs `SessionsOwned` to know that the row it
  found belongs to a live key, and `SessionsConsistent` to keep the pair it
  copies; a new row needs `RoutingValueInSet`: the round robin, whatever its
  cursor, returns a member of a non-empty finite list. From `IInv` and `CallsPast`
  (a call carries a time that is over) follows what the code keeps of the sliding
  hour. `ConversationsStayBySecond`, for any resolution of the clock: a session
  whose row expires in a later second than the present one stays, however old the
  clock of the call that cleans up, because texts are ordered like time between
  seconds. `ConversationsStay` is the property itself under `TicksPerSecond = 1`,
  where every live session is such a one; with more ticks it is false
  (`routing_sliding_hour`).
* `RoutingGuardProofs`: `Spec => AnswersAuthorized`, step by step: a start asks,
  a resolve looks, a transaction rules, management regrants, a restart crashes.
* `RequestFlowProofs`: `TypeOK`, `LedgerOwned`, `MeteredIsCharged`. `Sound` says what
  a request carries from step to step: it is metered only once it is routed, and
  from then on its provider has a price for its model, if it names one, which the
  pick cannot change, unless the price rules changed; so what it is charged, when
  it is billed by that provider and model, is positive. Two more results are
  about sums over the ledger. `SumSince` is a recursive function; that it has a
  solution, and what a row more or a window that moves does to it, is shown by
  `BoundedInduction`, an induction stated of a set of numbers instead of a predicate.
  `RollingOvershootBounded` (property `RollingOvershoot`) has the invariant
  `RollingRoom`: spent in the window + MaxCost * (requests past the five-hour check)
  is below the highest limit + MaxCost * requests. A check that passes has seen a
  window that began no later than the present one (`RequestsBounded`), so that the
  room is there; a tick only takes rows out of the window. `FlowImplementsBudget`
  (`WithinBudget`): every step maps to one of `Budget` or to a stutter, the last
  quota sum to an admission, the insertion to a charge. It assumes that every choice
  of limits has a total limit, as the property's comment does: an unlimited key is
  admitted always and implements no budget. Both need the sets of limits, prices and
  requests finite (`FiniteAssumption`), as they are at any time, to name a highest one.
* `BudgetProofs`: `OvershootBounded`. Its strengthening `Headroom` charges every
  open request at once: spent + MaxCost * open stays below
  limit + MaxCost * requests. `BudgetTyped` is the type invariant.
* `InventoryProofs`: `TypeOK` (inductive as it stands, and the substance of it is
  that an upsert keeps one row per id and that groups have no groups among their
  members), and from it two action properties. `NeverUnrestricted`: only a
  migration changes bindings behind an admin's back, and it maps a non-empty set
  to a non-empty one and the empty set to itself. `MigrationKeepsAccess`: a target
  after the migration is an old one or the owner of an old one (no new file), an
  old one stays or is replaced by an owner that is the file itself unless the
  alias is shared (no file lost), and flattening groups commutes with migrating.
  `SyncLeavesHostFiles` (`SyncComplete`) has two parts in its invariant. `Progress`
  says how far a sync that is alone has come: what is listed and not yet upserted is
  there, what is there and not listed goes by an alias the sync has noted, and after
  the last deletion nothing inferred is left. `Settled` says that after its end no
  call in flight writes what it read before: no other call was in flight then, a
  configured credential is no file (`CredentialAssumption`), and a pick that began
  later has read what the sync left.
  `PickIsAuthorized` (`PickAuthorized`) assumes `OneProviderPerAuth`. Its invariant
  `ScopeGranted` speaks of the scope while it grows: what it lends so far was
  granted, and so is whatever a target still to be resolved can lend; a group still
  to be resolved is still bound to the key. Grants only accumulate (`GrantedGrows`),
  so only the reads of the pick itself can break this: the rows it finds are those of
  known accounts (`RowsKnown`), and the members it reads are allowed at that instant
  (`LentNow`).
* `LifecycleProofs`: `TypeOK`, `StoresOwned`, `PairsConsistent`. They are inductive
  together with `HandsKnown`: what a configure in each of its steps holds, that it
  was opened with the configuration it will install, and that a callback's store
  is one that was opened.
* `KeyStoreProofs`: all five properties of `KeyStore`. The strengthening says that a
  token in the table has been used, what a call carries from the duplicate check to
  its transaction, that the history variables know of every overlap of the moment,
  and that only a request that goes by the id of its key gets to the second lookup
  of `usage.handle` (or its name is blurred). `TableChanges` reduces every step to
  the five things it may do to the table.
* `BillingProofs`: `TypeOK`, `FreeOnlyWithoutRule`, `PricesFromOneDocument`,
  `BilledAsShown`. The strengthening `OnTrack` says of a call for which a rule has
  applied all the time that it knows the provider of its usage and, while it waits
  for the official rule, that there is one. The step that matters is a
  synchronization that takes the official rule away: by `SourceRulesOfficial` a
  source lists official providers only, so it leaves no rule at all for that usage
  and that is an instant without one. `SummariesAddUp` (`StatisticsAddUp`) is about
  a ledger of any length and any finite set of keys. `SumFunctionOnSet` of the
  community modules is a recursive function over subsets; `SubsetInduction` (again
  of a set, not of a predicate) shows that it has a solution (`SumSolved`), that the
  order of taking does not matter (`SumsTake`), that sums over disjoint sets add up
  (`SumDisjoint`) and that a sum over rows is the sum of those of each key
  (`SumByKey`). Adjoining windows and keys are such partitions of the rows.

Left to TLC: liveness (`CallsAnswered`, `RetiredStoresClose`), which needs fairness
and ENABLED, out of the prover's reach. The three disagreements of section 3 are
counterexamples of TLC.

## 5. Not modelled

* `cpa_update.go`, the C glue of `main.go` and the web pages: I/O around the state.
* `routing_session.go`: which header or body field the session hash is taken from
  is a choice among strings; the hash is a model value of `Routing`.
* `provider_inventory.go`: the conversion of CPA's configuration entries to rows;
  the rows are the inputs of `Inventory`.
* Of `price_sync.go`: the HTTP fetch, URL validation, proxies and number formats.
* Negative prices: `PUT /prices` takes them (`management.go` 363), and a charge would
  then be negative; `Billing` and `RequestFlow` have natural numbers for prices, and
  `TypeOK` (no negative charge) is proved under that assumption.
* The metadata name `api_key` (`app.go` 392), whose value `routeModel` and
  `pickScheduler` would take for a key id. The ids that `authenticate` hands over
  come first, so it counts only where CPA drops those and sets this one.
* Times within a second, other than in `Routing`: `created_at` too is compared as
  text, so sums over windows are exact for whole seconds only.
* Of `management.go`: routes, decoding of requests and status codes, and the lists
  (`ListKeys`, `ListUsageFiltered` with its filters by resource, latencies), which
  change no state.

## 6. Plan

1. Done: `Routing` with `AccessGuard`, `RequestFlow` with `Budget`, their runs,
   the proofs of section 4.
2. Done: `PluginLifecycle` and its proofs.
3. Done: `Inventory` and the proofs of its types and of the migration.
4. Done: `KeyStore` and `Billing` with the synchronization and the statistics, and
   their proofs.
5. Done: `RequestFlowProofs`.
6. Done: proofs of `ConversationStays`, `RollingOvershoot`, `WithinBudget`,
   `SyncComplete`, `PickAuthorized` and `StatisticsAddUp`. They changed the models in
   three places: `synced` asks for a sync that was alone (`alone`), `PickAuthorized`
   for one provider per account, and the sums are recursive functions.
7. Done: each callback of `RequestFlow` is told the model anew; `NoFallback` and
   `QuotaNotBypassed`.
8. Next: lemmas for the parts that are now only assumed of each other, above all that
   a call of `Routing`, whose scope is one step, is what a pick of `Inventory` is
   when nothing changes during it; and hazards that have no property yet.
