----------------------------- MODULE RequestFlow -----------------------------
(***************************************************************************)
(* A client request on its way through the plugin: the callbacks of        *)
(* src/internal/plugin/app.go, in the order CPA makes them,                *)
(*                                                                         *)
(*   frontend_auth.authenticate -> model.route -> scheduler.pick           *)
(*       -> (CPA runs the request) -> usage.handle                         *)
(*                                                                         *)
(* over the tables of src/internal/access/store.go.  The callbacks of one  *)
(* request share nothing but the key id and the tables, and management     *)
(* changes the tables between any two of them.  Which of several allowed   *)
(* targets is chosen is the subject of Routing; here it is any of them.    *)
(* Each callback is told the model, and usage.handle the provider, by CPA  *)
(* anew, and may be told none.  Ticks are whole seconds, where the order   *)
(* of timestamps as text is that of time.                                  *)
(***************************************************************************)
EXTENDS Integers, FiniteSets, FiniteSetsExt

CONSTANTS
    Keys,           \* key ids
    Auths,          \* CPA's accounts
    Providers,
    AuthProvider,   \* the provider of each account
    Models,         \* model names
    Requests,       \* requests that may be in flight together
    BindingSets,    \* the sets of accounts management binds
    LimitChoices,   \* the limits management sets: records of USD, 0 is none
    PriceLists,     \* price_rules tables: USD per unit that PriceRule finds for a
                    \* provider and a model, or NoRule
    Units,          \* token counts a request may end with
    AllowUnpriced,  \* config allow_unpriced
    FiveHours,      \* length of the short window, in ticks
    Week,           \* length of the long window, in ticks
    MaxTick,        \* bound: the clock stops here
    MaxSpent,       \* bound: no request of a key that has spent this much
    None,
    NoRule

ASSUME FlowAssumption ==
    /\ AuthProvider \in [Auths -> Providers]
    /\ BindingSets \subseteq SUBSET Auths
    /\ LimitChoices \subseteq [five : Nat, week : Nat, total : Nat]
    /\ PriceLists \subseteq [Providers \X Models -> Nat \cup {NoRule}]
    /\ NoRule \notin Nat
    /\ None \notin Providers \cup Models \cup Auths \cup Keys
    /\ Units \subseteq Nat
    /\ AllowUnpriced \in BOOLEAN
    /\ FiveHours \in Nat /\ Week \in Nat /\ FiveHours <= Week
    /\ MaxTick \in Nat /\ MaxSpent \in Nat

\* There are a highest limit, a highest price and a longest answer.
ASSUME FiniteAssumption ==
    /\ IsFiniteSet(Requests) /\ IsFiniteSet(Providers) /\ IsFiniteSet(Models)
    /\ IsFiniteSet(LimitChoices) /\ IsFiniteSet(PriceLists) /\ IsFiniteSet(Units)
    /\ LimitChoices # {} /\ Units # {}

NoLimits == [five |-> 0, week |-> 0, total |-> 0]
Limited(lim) == lim # NoLimits

Idle == [pc |-> "idle", key |-> None, now |-> 0, limits |-> NoLimits,
         metered |-> FALSE, provider |-> None, model |-> None, auth |-> None,
         billed |-> <<None, None>>, usd |-> 0]

VARIABLES
    keyState,   \* keys: "unborn", "live" or "deleted"
    enabled,    \* keys.enabled
    limits,     \* keys.five_hour_limit_usd, weekly_limit_usd, total_limit_usd
    bindings,   \* key_bindings
    price,      \* price_rules
    ledger,     \* usage_ledger: USD recorded per key and tick of created_at
    req,        \* the requests in flight
    clock,
    repriced    \* history: requests during which the price rules changed

vars == <<keyState, enabled, limits, bindings, price, ledger, req, clock, repriced>>
keyRows == <<keyState, enabled, limits, bindings>>

Init ==
    /\ keyState = [k \in Keys |-> "unborn"]
    /\ enabled = [k \in Keys |-> FALSE]
    /\ limits = [k \in Keys |-> NoLimits]
    /\ bindings = [k \in Keys |-> {}]
    /\ price \in PriceLists
    /\ ledger = [k \in Keys |-> [t \in 0 .. MaxTick |-> 0]]
    /\ req = [r \in Requests |-> Idle]
    /\ clock = 0
    /\ repriced = {}

-----------------------------------------------------------------------------
(* Helpers.                                                                *)

\* UsageSums: SUM(usd) of the rows with created_at >= from.
SumSince(row, from) ==
    LET upTo[t \in 0 .. MaxTick + 1] ==
          IF t = 0 THEN 0
          ELSE upTo[t - 1] + (IF t > from THEN row[t - 1] ELSE 0)
    IN  upTo[MaxTick + 1]
SpentSince(k, from) == SumSince(ledger[k], from)

\* Mutant: the limit itself may still be spent.
LimitPassed(limit, used) == limit > 0 /\ used > limit
\* limitReached
LimitReached(limit, used) == limit > 0 /\ used >= limit

Step(r, rec) ==
    /\ req' = [req EXCEPT ![r] = rec]
    /\ repriced' = IF rec.pc = "idle" THEN repriced \ {r} ELSE repriced
Goto(r, pc) == Step(r, [req[r] EXCEPT !.pc = pc])
End(r) == Step(r, Idle)

At(r, pc) == req[r].pc = pc

ScopeProviders(k) == {AuthProvider[a] : a \in bindings[k]}
\* PriceRule: there is no rule for an empty provider or an empty model.
HasPrice(p, m) == p \in Providers /\ m \in Models /\ price[<<p, m>>] # NoRule

-----------------------------------------------------------------------------
(* frontend_auth.authenticate.                                             *)

\* KeyByPresentedToken: the row of the key is read once; an unknown token or a
\* disabled key ends the request.
Present(r, k) ==
    /\ At(r, "idle")
    /\ keyState[k] = "live" /\ enabled[k]
    /\ SpentSince(k, 0) < MaxSpent                    \* bound
    /\ Step(r, [Idle EXCEPT !.pc = "five", !.key = k, !.now = clock,
                            !.limits = limits[k]])
    /\ UNCHANGED <<keyRows, price, ledger, clock>>

\* CheckQuota: three SELECTs, one per window, against the limits read before.
CheckSum(r, pc, from, limit, next) ==
    /\ At(r, pc)
    /\ IF LimitReached(limit, SpentSince(req[r].key, from))
       THEN End(r)                                    \* ErrQuotaExceeded
       ELSE Goto(r, next)
    /\ UNCHANGED <<keyRows, price, ledger, clock>>

CheckFiveHours(r) ==
    CheckSum(r, "five", req[r].now - FiveHours, req[r].limits.five, "week")
CheckWeek(r) ==
    CheckSum(r, "week", req[r].now - Week, req[r].limits.week, "total")
CheckTotal(r) ==
    CheckSum(r, "total", 0, req[r].limits.total, "validate")

\* ValidateBindingsAndPricing, for the model that the body or the query names, if
\* any: no price is asked for without bindings or without a model.
Validate(r, asked) ==
    /\ At(r, "validate")
    /\ LET k == req[r].key
       IN IF \/ bindings[k] = {}
             \/ asked = None
             \/ ~Limited(req[r].limits)
             \/ AllowUnpriced
             \/ \E p \in ScopeProviders(k) : HasPrice(p, asked)
          THEN Step(r, [req[r] EXCEPT !.pc = "route", !.model = asked])
          ELSE End(r)                                 \* ErrMissingPriceRule
    /\ UNCHANGED <<keyRows, price, ledger, clock>>

-----------------------------------------------------------------------------
(* model.route and scheduler.pick.                                         *)

\* Mutant: the price filter is left out.
RoutableUnpriced(k, m) == ScopeProviders(k)
\* The providers ChooseProviderRouted allows for a model.
Routable(k, m) ==
    {p \in ScopeProviders(k) :
        Limited(limits[k]) /\ ~AllowUnpriced /\ m # None => HasPrice(p, m)}

\* RequestedModel is what CPA makes of the request, not what authenticate saw.
Route(r, requested) ==
    /\ At(r, "route")
    /\ LET k == req[r].key
       IN IF keyState[k] # "live" THEN End(r)         \* ErrKeyNotFound
          ELSE IF bindings[k] = {} THEN Goto(r, "pick")      \* not handled
          ELSE IF Routable(k, requested) = {} THEN End(r)    \* ErrNoAllowedTarget
          ELSE \E p \in Routable(k, requested) :
                 Step(r, [req[r] EXCEPT !.pc = "pick", !.provider = p,
                                        !.model = requested,
                                        !.metered = Limited(limits[k])])
    /\ UNCHANGED <<keyRows, price, ledger, clock>>

\* CPA offers the accounts of the routed provider that are up; without
\* bindings the plugin does not handle the pick and CPA takes any of them.
Offered(r) == {a \in Auths : req[r].provider \in {None, AuthProvider[a]}}

Pick(r) ==
    /\ At(r, "pick")
    /\ LET k == req[r].key
           allowed == IF bindings[k] = {} THEN Offered(r)
                      ELSE Offered(r) \cap bindings[k]
       IN \/ \E a \in allowed :
                Step(r, [req[r] EXCEPT !.pc = "running", !.auth = a,
                                       !.provider = AuthProvider[a]])
          \/ End(r)            \* none of the allowed ones is up, or none is
    /\ UNCHANGED <<keyRows, price, ledger, clock>>

\* A query of one of the callbacks above fails: CPA gets an error.
QueryFails(r) ==
    /\ req[r].pc \in {"five", "week", "total", "validate", "route", "pick"}
    /\ End(r)
    /\ UNCHANGED <<keyRows, price, ledger, clock>>

-----------------------------------------------------------------------------
(* usage.handle.                                                           *)

\* KeyByIDOrPresentedToken: the key id of the principal must still exist.
UsageLookup(r) ==
    /\ At(r, "running")
    /\ IF keyState[req[r].key] = "live" THEN Goto(r, "usage") ELSE End(r)
    /\ UNCHANGED <<keyRows, price, ledger, clock>>

\* Mutant: cached tokens are subtracted without the floor at zero.
CostNoFloor(p, m, units) ==
    IF HasPrice(p, m) THEN price[<<p, m>>] * (units - 2) ELSE 0
\* CalculateUSD; a missing price rule makes the request free.
Cost(p, m, units) == IF HasPrice(p, m) THEN price[<<p, m>>] * units ELSE 0

\* RecordUsage up to the price: created_at is fixed and the price of now, not
\* of the admission, is read.  It is the price of what the usage record says: its
\* model (or else its alias) and its provider or, when it names none, the one of
\* the account's inventory row, if there is one.
UsagePrice(r, units, p, m) ==
    /\ At(r, "usage")
    /\ Step(r, [req[r] EXCEPT !.pc = "insert", !.now = clock,
                              !.billed = <<p, m>>, !.usd = Cost(p, m, units)])
    /\ UNCHANGED <<keyRows, price, ledger, clock>>

\* Mutant: no foreign key on usage_ledger.key_id.
UsageInsertUnchecked(r) ==
    /\ At(r, "insert")
    /\ ledger' = [ledger EXCEPT ![req[r].key][req[r].now] = @ + req[r].usd]
    /\ End(r)
    /\ UNCHANGED <<keyRows, price, clock>>
\* RecordUsage, the INSERT: the foreign key refuses the row of a deleted key,
\* and handleUsage drops the error.
UsageInsert(r) ==
    /\ At(r, "insert")
    /\ ledger' = IF keyState[req[r].key] = "live"
                 THEN [ledger EXCEPT ![req[r].key][req[r].now] = @ + req[r].usd]
                 ELSE ledger
    /\ End(r)
    /\ UNCHANGED <<keyRows, price, clock>>

\* CPA never reports the usage, or the plugin fails to record it.
UsageLost(r) ==
    /\ req[r].pc \in {"running", "usage", "insert"}
    /\ End(r)
    /\ UNCHANGED <<keyRows, price, ledger, clock>>

-----------------------------------------------------------------------------
(* Management, restarts and time.                                          *)

CreateKey(k, S, lim) ==
    /\ keyState[k] = "unborn"
    /\ keyState' = [keyState EXCEPT ![k] = "live"]
    /\ enabled' = [enabled EXCEPT ![k] = TRUE]
    /\ limits' = [limits EXCEPT ![k] = lim]
    /\ bindings' = [bindings EXCEPT ![k] = S]
    /\ UNCHANGED <<price, ledger, req, clock, repriced>>

UpdateKey(k, on, S, lim) ==
    /\ keyState[k] = "live"
    /\ enabled' = [enabled EXCEPT ![k] = on]
    /\ limits' = [limits EXCEPT ![k] = lim]
    /\ bindings' = [bindings EXCEPT ![k] = S]
    /\ UNCHANGED <<keyState, price, ledger, req, clock, repriced>>

\* The bindings and the ledger rows of the key are deleted with it.
DeleteKey(k) ==
    /\ keyState[k] = "live"
    /\ keyState' = [keyState EXCEPT ![k] = "deleted"]
    /\ enabled' = [enabled EXCEPT ![k] = FALSE]
    /\ limits' = [limits EXCEPT ![k] = NoLimits]
    /\ bindings' = [bindings EXCEPT ![k] = {}]
    /\ ledger' = [ledger EXCEPT ![k] = [t \in 0 .. MaxTick |-> 0]]
    /\ UNCHANGED <<price, req, clock, repriced>>

\* UpsertPriceRules and ReplacePriceRules: one transaction each.
SetPrices(list) ==
    /\ price' = list
    /\ repriced' = {r \in Requests : req[r].pc # "idle"}
    /\ UNCHANGED <<keyRows, ledger, req, clock>>

\* The process ends and starts again; requests in flight fail.
Restart ==
    /\ req' = [r \in Requests |-> Idle]
    /\ repriced' = {}
    /\ UNCHANGED <<keyRows, price, ledger, clock>>

Tick ==
    /\ clock < MaxTick
    /\ clock' = clock + 1
    /\ UNCHANGED <<keyRows, price, ledger, req, repriced>>

Handle(r) ==
    \/ CheckFiveHours(r) \/ CheckWeek(r) \/ CheckTotal(r)
    \/ \E m \in Models \cup {None} : Validate(r, m) \/ Route(r, m)
    \/ Pick(r) \/ QueryFails(r)
    \/ UsageLookup(r) \/ UsageInsert(r) \/ UsageLost(r)
    \/ \E units \in Units, p \in Providers \cup {None}, m \in Models \cup {None} :
          UsagePrice(r, units, p, m)

Next ==
    \/ \E r \in Requests : Handle(r) \/ (\E k \in Keys : Present(r, k))
    \/ \E k \in Keys, S \in BindingSets, lim \in LimitChoices :
          \/ CreateKey(k, S, lim)
          \/ \E on \in BOOLEAN : UpdateKey(k, on, S, lim)
    \/ \E k \in Keys : DeleteKey(k)
    \/ \E list \in PriceLists : SetPrices(list)
    \/ Restart
    \/ Tick

Spec == Init /\ [][Next]_vars

-----------------------------------------------------------------------------
(* Properties.                                                             *)

PCs == {"idle", "five", "week", "total", "validate", "route", "pick",
        "running", "usage", "insert"}

\* Type invariant of the tables and the requests.
TypeOK ==
    /\ keyState \in [Keys -> {"unborn", "live", "deleted"}]
    /\ enabled \in [Keys -> BOOLEAN]
    /\ limits \in [Keys -> LimitChoices \cup {NoLimits}]
    /\ bindings \in [Keys -> SUBSET Auths]
    /\ price \in PriceLists
    /\ ledger \in [Keys -> [0 .. MaxTick -> Nat]]
    /\ req \in [Requests ->
         [pc : PCs, key : Keys \cup {None}, now : 0 .. MaxTick,
          limits : LimitChoices \cup {NoLimits}, metered : BOOLEAN,
          provider : Providers \cup {None}, model : Models \cup {None},
          auth : Auths \cup {None},
          billed : (Providers \cup {None}) \X (Models \cup {None}),
          usd : Nat]]
    /\ clock \in 0 .. MaxTick
    /\ repriced \in SUBSET Requests

\* No usage is recorded for a key that does not exist, also when the key is
\* deleted between the lookup and the INSERT of usage.handle.
LedgerOwned ==
    \A k \in Keys, t \in 0 .. MaxTick : keyState[k] # "live" => ledger[k][t] = 0

HighestPrice ==
    Max({0} \cup ({l[x] : l \in PriceLists, x \in Providers \X Models} \ {NoRule}))
MaxCost == HighestPrice * Max(Units)
HighestLimit(window) == Max({lim[window] : lim \in LimitChoices})

\* The rolling window: when every key has a five-hour limit, what a key has
\* spent in the last five hours exceeds it by less than one full charge for
\* each request that can be in flight, although the window, the check and the
\* record each use a time of their own.
RollingOvershoot ==
    (\A lim \in LimitChoices : lim.five > 0) =>
        \A k \in Keys :
            SpentSince(k, clock - FiveHours)
                < HighestLimit("five") + MaxCost * Cardinality(Requests)

\* No price is nothing, and no request uses nothing: what makes a charge positive.
Chargeable ==
    /\ ~AllowUnpriced /\ 0 \notin Units
    /\ \A l \in PriceLists, x \in Providers \X Models : l[x] # 0

\* Routing and billing agree on the price, also when management limits the key
\* after authentication: a request that model.route sent to a provider for a key with
\* limits is not free when it is recorded under that provider and the model it was
\* routed with, unless a price rule has changed since it came in.
MeteredIsCharged ==
    Chargeable =>
        \A r \in Requests :
            /\ At(r, "insert") /\ req[r].metered /\ r \notin repriced
            /\ req[r].model # None
            /\ req[r].billed = <<req[r].provider, req[r].model>>
            => req[r].usd > 0

\* The price required of a key with limits before its requests start keeps the quota
\* from being bypassed (README.md, "Billing"): such a request is not free when it is
\* recorded under the provider it ran on and the model it used, unless a price rule
\* has changed since it came in.
QuotaNotBypassed ==
    Chargeable =>
        \A r \in Requests :
            /\ At(r, "insert") /\ Limited(req[r].limits) /\ r \notin repriced
            /\ req[r].billed[1] = req[r].provider /\ req[r].billed[2] # None
            => req[r].usd > 0

\* scheduler.pick does not fall back to CPA's own scheduling (README.md, "notes
\* for production"): a request that model.route confined to the accounts of its
\* key runs on one that the key may use when the pick is made.
NoFallback ==
    [][\A r \in Requests :
          At(r, "pick") /\ req[r].provider # None /\ req'[r].pc = "running"
              => req'[r].auth \in bindings[req[r].key]]_vars

-----------------------------------------------------------------------------
(* RequestFlow implements Budget with the highest total limit, when every   *)
(* key has one.  A request is open from the check of the total sum until it *)
(* is recorded or ends.                                                     *)

OpenPCs == {"validate", "route", "pick", "running", "usage", "insert"}

Total == INSTANCE Budget WITH
    Limit <- HighestLimit("total"),
    spent <- [k \in Keys |-> SpentSince(k, 0)],
    open <- [k \in Keys |->
                {r \in Requests : req[r].key = k /\ req[r].pc \in OpenPCs}]

\* The total limit is respected up to the requests in flight.
WithinBudget == Total!Spec

=============================================================================
