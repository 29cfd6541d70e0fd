------------------------------- MODULE Billing -------------------------------
(***************************************************************************)
(* What a request costs: the price rules and the usage ledger of           *)
(* internal/access/store.go, the price synchronization of                  *)
(* internal/plugin/price_sync.go, and the statistics over the ledger.      *)
(*                                                                         *)
(* usage.handle prices a request with up to three SELECTs and then inserts *)
(* the row; PUT /prices and POST /prices/sync change the rules between any *)
(* two of these.  A transaction is one step.  Tokens and USD are counted   *)
(* in units; created_at is a tick of whole seconds.  The keys themselves   *)
(* are the subject of KeyStore, quotas of RequestFlow.                     *)
(***************************************************************************)
EXTENDS Integers, Sequences, FiniteSets, FiniteSetsExt, SequencesExt

CONSTANTS
    Keys,
    Providers,      \* provider names
    OfficialOf,     \* officialPriceProvider: provider -> provider
    Models,         \* model names
    ShortName,      \* the part of a model name after "/", the name itself without one
    Auths,          \* accounts
    AuthProvider,   \* the provider of each account
    Documents,      \* what a price source may hold: sets of specs
    SourceProvider, \* provider name in a source -> official provider, or None (the
                    \* name "vertex_ai" on a model that is not Gemini's is one of its own)
    PutBodies,      \* bodies of PUT /prices: <<provider, model>> -> price
    Usages,         \* usage records CPA may report
    Callers,        \* usage.handle calls that may be in flight together
    Syncs,          \* price synchronizations that may be in flight together
    MaxTick,        \* bound: the clock stops here
    MaxRows,        \* bound: no usage is reported when the ledger is this long
    None

\* (PUT /prices does not refuse a negative price; the models take none.)
Prices == [input : Nat, output : Nat, read : Nat]
Details == [input : Nat, output : Nat, cached : Nat, read : Nat, created : Nat,
            reasoning : Nat, total : Nat]
RuleKeys == Providers \X Models

ASSUME BillingAssumption ==
    /\ OfficialOf \in [Providers -> Providers]
    /\ \A p \in Providers : OfficialOf[OfficialOf[p]] = OfficialOf[p]
    /\ None \notin Providers \cup Auths /\ None \notin Prices
    /\ ShortName \in [Models -> Models]
    /\ AuthProvider \in [Auths -> Providers]
    /\ \A p \in DOMAIN SourceProvider :
          SourceProvider[p] = None \/ SourceProvider[p] \in {OfficialOf[q] : q \in Providers}
    /\ \A doc \in Documents :
          /\ IsFiniteSet(doc)
          /\ \A spec \in doc : /\ spec.name \in Models
                               /\ spec.provider \in DOMAIN SourceProvider
                               /\ spec.price \in Prices
    /\ \A body \in PutBodies : \E D \in SUBSET RuleKeys : body \in [D -> Prices]
    /\ \A u \in Usages : /\ u.key \in Keys /\ u.model \in Models
                         /\ u.provider \in Providers \cup {None}
                         /\ u.auth \in Auths \cup {None}
                         /\ u.detail \in Details
    /\ IsFiniteSet(Keys)
    /\ MaxTick \in Nat /\ MaxRows \in Nat

NoRules == [key \in {} |-> None]
NoCall == [pc |-> "idle"]

VARIABLES
    rules,      \* price_rules: <<provider, model>> -> price, of the rows there are
    known,      \* inventory_items: the accounts that have a row
    ledger,     \* usage_ledger, by id
    call,       \* the usage.handle calls in flight
    sync,       \* per synchronization in flight: the rules it will install
    clock,
    synced,     \* history: a synchronization has succeeded
    put,        \* history: rules written by PUT since then
    gap         \* history: calls during which, at some instant, no rule applied

vars == <<rules, known, ledger, call, sync, clock, synced, put, gap>>
table == <<rules, synced, put>>

Init ==
    /\ rules = NoRules
    /\ known \in SUBSET Auths
    /\ ledger = <<>>
    /\ call = [c \in Callers |-> NoCall]
    /\ sync = [s \in Syncs |-> NoRules]
    /\ clock = 0
    /\ synced = FALSE
    /\ put = {}
    /\ gap = {}

-----------------------------------------------------------------------------
(* Arithmetic of a usage record.                                           *)

AtLeast0(n) == IF n < 0 THEN 0 ELSE n

\* normalizedCacheReadTokens: what is reported as cached is read from the cache
\* but for what was written to it.
NormalizedCacheRead(d) ==
    IF d.read > 0 THEN d.read ELSE AtLeast0(d.cached - d.created)

\* Mutant: cached input is charged as input as well.
CalculateUSDTwice(price, d) ==
    LET read == NormalizedCacheRead(d)
    IN d.input * price.input + d.output * price.output + read * price.read
\* Mutant: no floor under the uncached input.
CalculateUSDUnfloored(price, d) ==
    LET read == NormalizedCacheRead(d)
    IN (d.input - read) * price.input + d.output * price.output + read * price.read
CalculateUSD(price, d) ==
    LET read == NormalizedCacheRead(d)
    IN AtLeast0(d.input - read) * price.input + d.output * price.output
        + read * price.read

-----------------------------------------------------------------------------
(* The rules of a price source.                                            *)

\* Mutant: a rule is listed under the provider name that the source uses.
SourceNames(p) == IF SourceProvider[p] = None THEN {} ELSE {p}
\* officialPriceProviderAliases: none for a provider that is not supported.
OfficialAliases(p) == {SourceProvider[p]} \ {None}

\* priceModelAliases
ModelAliases(name) == {name, ShortName[name]}

\* The rules a spec stands for, none without a price.
Listed(spec) ==
    IF spec.price = [input |-> 0, output |-> 0, read |-> 0]
    THEN {}
    ELSE OfficialAliases(spec.provider) \X ModelAliases(spec.name)

\* liteLLMPriceRules, for one order in which Go may range over the document: of
\* several specs that stand for the same rule the first one counts.
RulesIn(order) ==
    LET Listing(key) == {i \in DOMAIN order : key \in Listed(order[i])}
    IN [key \in UNION {Listed(order[i]) : i \in DOMAIN order} |->
            order[Min(Listing(key))].price]
\* syncPriceRules and handlePriceSync: what a synchronization may come to install.
\* A document without a supported price is refused.
SourceRules ==
    {listed \in UNION {{RulesIn(order) : order \in SetToSeqs(doc)} : doc \in Documents} :
        DOMAIN listed # {}}

-----------------------------------------------------------------------------
(* Changes of the rules.                                                   *)

\* upsertPriceRulesTx over a table.
Upserted(old, new) ==
    [key \in DOMAIN old \cup DOMAIN new |->
        IF key \in DOMAIN new THEN new[key] ELSE old[key]]

\* handlePrices, PUT: UpsertPriceRules in one transaction.
PutPrices(body) ==
    /\ rules' = Upserted(rules, body)
    /\ put' = put \cup DOMAIN body
    /\ UNCHANGED <<known, ledger, call, sync, clock, synced>>

\* handlePriceSync: syncPriceRules fetches a document.  (When none arrives, or one
\* that is refused, nothing changes.)
SyncFetch(s) ==
    /\ sync[s] = NoRules
    /\ \E fetched \in SourceRules : sync' = [sync EXCEPT ![s] = fetched]
    /\ UNCHANGED <<table, known, ledger, call, clock>>

\* Mutant: rules the source no longer lists are left in the table.
SyncUpsert(s) ==
    /\ sync[s] # NoRules
    /\ rules' = Upserted(rules, sync[s])
    /\ sync' = [sync EXCEPT ![s] = NoRules]
    /\ synced' = TRUE
    /\ put' = {}
    /\ UNCHANGED <<known, ledger, call, clock>>
\* ReplacePriceRules in one transaction.
SyncReplace(s) ==
    /\ sync[s] # NoRules
    /\ rules' = sync[s]
    /\ sync' = [sync EXCEPT ![s] = NoRules]
    /\ synced' = TRUE
    /\ put' = {}
    /\ UNCHANGED <<known, ledger, call, clock>>

\* A statement of the transaction fails: all of it is rolled back.
SyncFails(s) ==
    /\ sync[s] # NoRules
    /\ sync' = [sync EXCEPT ![s] = NoRules]
    /\ UNCHANGED <<table, known, ledger, call, clock>>

-----------------------------------------------------------------------------
(* usage.handle, RecordUsage.                                              *)

At(c, pc) == call[c].pc = pc
Goto(c, rec) ==
    /\ call' = [call EXCEPT ![c] = rec]
    /\ UNCHANGED <<table, known, sync, clock>>

\* created_at and the cache-read tokens are settled first.
Report(c, u) ==
    /\ At(c, "idle")
    /\ Len(ledger) < MaxRows                          \* bound
    /\ Goto(c, [pc |-> IF u.provider = None /\ u.auth # None THEN "infer" ELSE "own",
                usage |-> u,
                provider |-> u.provider,
                at |-> clock,
                detail |-> [u.detail EXCEPT !.read = NormalizedCacheRead(u.detail)],
                price |-> None])
    /\ UNCHANGED ledger

\* A record without a provider gets that of its account's inventory row.
InferProvider(c) ==
    /\ At(c, "infer")
    /\ LET a == call[c].usage.auth
       IN Goto(c, [call[c] EXCEPT !.pc = "own",
                                  !.provider = IF a \in known THEN AuthProvider[a] ELSE None])
    /\ UNCHANGED ledger

RuleFor(c, p) == <<p, call[c].usage.model>>

\* PriceRule: the rule of the provider ...
OwnRule(c) ==
    /\ At(c, "own")
    /\ LET p == call[c].provider
       IN \/ /\ RuleFor(c, p) \in DOMAIN rules
             /\ Goto(c, [call[c] EXCEPT !.pc = "insert", !.price = rules[RuleFor(c, p)]])
          \/ /\ RuleFor(c, p) \notin DOMAIN rules
             /\ p # None /\ OfficialOf[p] # p
             /\ Goto(c, [call[c] EXCEPT !.pc = "official"])
          \/ /\ RuleFor(c, p) \notin DOMAIN rules
             /\ p # None => OfficialOf[p] = p
             /\ Goto(c, [call[c] EXCEPT !.pc = "insert"])
    /\ UNCHANGED ledger

\* ... and, in another statement, that of its official provider.
OfficialRule(c) ==
    /\ At(c, "official")
    /\ LET key == RuleFor(c, OfficialOf[call[c].provider])
       IN Goto(c, [call[c] EXCEPT !.pc = "insert",
                                  !.price = IF key \in DOMAIN rules THEN rules[key] ELSE None])
    /\ UNCHANGED ledger

\* The row of a call; "price" is not stored.
RowOf(rec) ==
    [key |-> rec.usage.key, at |-> rec.at, detail |-> rec.detail, price |-> rec.price,
     usd |-> IF rec.price = None THEN 0 ELSE CalculateUSD(rec.price, rec.detail)]

\* Without a rule the row is written all the same.
Insert(c) ==
    /\ At(c, "insert")
    /\ ledger' = Append(ledger, RowOf(call[c]))
    /\ Goto(c, NoCall)

\* A statement fails and handleUsage drops the error.
CallFails(c) ==
    /\ ~At(c, "idle")
    /\ Goto(c, NoCall)
    /\ UNCHANGED ledger
-----------------------------------------------------------------------------
\* A refresh of the inventory: rows of accounts come and go.
RefreshInventory ==
    /\ known' \in SUBSET Auths
    /\ UNCHANGED <<table, ledger, call, sync, clock>>

Tick ==
    /\ clock < MaxTick
    /\ clock' = clock + 1
    /\ UNCHANGED <<table, known, ledger, call, sync>>

\* The process ends and starts again.
Restart ==
    /\ call' = [c \in Callers |-> NoCall]
    /\ sync' = [s \in Syncs |-> NoRules]
    /\ UNCHANGED <<table, known, ledger, clock>>

Record(c) ==
    \/ \E u \in Usages : Report(c, u)
    \/ InferProvider(c) \/ OwnRule(c) \/ OfficialRule(c)
    \/ Insert(c) \/ CallFails(c)

ChangePrices ==
    \/ \E body \in PutBodies : PutPrices(body)
    \/ \E s \in Syncs : SyncFetch(s) \/ SyncReplace(s) \/ SyncFails(s)

\* A rule applies to usage of a model through a provider.
Applies(p, model) ==
    p # None /\ {<<p, model>>, <<OfficialOf[p], model>>} \cap DOMAIN rules # {}

\* The provider of a usage record, as the inventory has it now.
ProviderOf(u) ==
    IF u.provider # None THEN u.provider
    ELSE IF u.auth \in known THEN AuthProvider[u.auth] ELSE None
Unpriced(c) ==
    ~At(c, "idle") /\ ~Applies(ProviderOf(call[c].usage), call[c].usage.model)

Next ==
    /\ \/ \E c \in Callers : Record(c)
       \/ ChangePrices
       \/ RefreshInventory \/ Tick \/ Restart
    /\ gap' = {c \in Callers : call'[c].pc # "idle" /\ (c \in gap \/ Unpriced(c)')}

Spec == Init /\ [][Next]_vars

-----------------------------------------------------------------------------
(* Statistics: GET /usage?aggregate=...                                    *)

\* Mutant: the end of the window belongs to it.
InWindowClosed(row, since, before) == since <= row.at /\ row.at <= before
InWindow(row, since, before) == since <= row.at /\ row.at < before

RowsOf(keys, since, before) ==
    {i \in DOMAIN ledger : ledger[i].key \in keys /\ InWindow(ledger[i], since, before)}

\* The cached and uncached input the summary shows of a row.
ShownRead(d) == IF d.read > 0 THEN d.read ELSE d.cached
ShownInput(d) == AtLeast0(d.input - ShownRead(d))
ShownTotal(d) ==
    IF d.total > 0 THEN d.total ELSE ShownInput(d) + ShownRead(d) + d.output

Total(ids, F(_)) == SumFunctionOnSet([i \in DOMAIN ledger |-> F(ledger[i])], ids)

UsageSummary(keys, since, before) ==
    LET ids == RowsOf(keys, since, before)
        Usd(row) == row.usd
        Read(row) == ShownRead(row.detail)
        Tokens(row) == ShownTotal(row.detail)
    IN [requests |-> Cardinality(ids), cost |-> Total(ids, Usd),
        read |-> Total(ids, Read), tokens |-> Total(ids, Tokens)]

UsageTotal(k, since, before) ==
    LET ids == RowsOf({k}, since, before)
        Usd(row) == row.usd
        Tokens(row) ==
            LET d == row.detail
            IN IF d.total > 0 THEN d.total ELSE d.input + d.output + d.reasoning + d.cached
    IN [requests |-> Cardinality(ids), cost |-> Total(ids, Usd),
        tokens |-> Total(ids, Tokens)]

-----------------------------------------------------------------------------
(* Properties.                                                             *)

Row == [key : Keys, at : 0 .. MaxTick, detail : Details, price : Prices \cup {None},
        usd : Nat]
CallRecords ==
    [pc : {"infer", "own", "official", "insert"}, usage : Usages,
     provider : Providers \cup {None}, at : 0 .. MaxTick, detail : Details,
     price : Prices \cup {None}]
IsRuleTable(f) == DOMAIN f \subseteq RuleKeys /\ \A key \in DOMAIN f : f[key] \in Prices

\* Type invariant; no row is charged a negative amount.
TypeOK ==
    /\ IsRuleTable(rules) /\ \A s \in Syncs : IsRuleTable(sync[s])
    /\ known \subseteq Auths
    /\ ledger \in Seq(Row)
    /\ \A c \in Callers : call[c] = NoCall \/ call[c] \in CallRecords
    /\ clock \in 0 .. MaxTick
    /\ put \subseteq RuleKeys /\ gap \subseteq Callers

\* A request is free only if no rule applied to it, at some instant between its
\* report and its row: although its provider, the provider's own rule and the
\* official one are looked up one after the other, and prices are put and
\* replaced in between, a rule that applies all the time is not missed.
FreeOnlyWithoutRule ==
    \A c \in Callers :
        At(c, "insert") /\ call[c].price = None => c \in gap

\* Prices come from one document: the rules not put since the last price sync
\* are all that one supported document lists, each with the price of a spec that
\* lists it, however syncs overlap with each other, with PUTs and with failures.
PricesFromOneDocument ==
    synced =>
        \E listed \in SourceRules :
            /\ DOMAIN rules \ put = DOMAIN listed \ put
            /\ \A key \in DOMAIN listed \ put : rules[key] = listed[key]

\* What a row is charged is the README's formula over the tokens the statistics
\* show of it, so that cached input is paid once.  (Unless all that is cached was
\* written to the cache: the statistics show it as read, the charge does not.)
BilledAsShown ==
    \A i \in DOMAIN ledger :
        LET d == ledger[i].detail
            price == ledger[i].price
        IN \/ price = None
           \/ d.read = 0 /\ d.cached > 0
           \/ ledger[i].usd = ShownInput(d) * price.input + d.output * price.output
                                + ShownRead(d) * price.read

\* Statistics of adjoining windows add up to those of both together, and the
\* totals of the keys to the summary of all; tokens too, when every record states
\* its total.
StatisticsAddUp ==
    \A since, before \in 0 .. MaxTick + 1 : since < before =>
        LET all == UsageSummary(Keys, since, before)
            totals == [k \in Keys |-> UsageTotal(k, since, before)]
            stated == \A i \in DOMAIN ledger : ledger[i].detail.total > 0
        IN /\ all.requests = SumFunction([k \in Keys |-> totals[k].requests])
           /\ all.cost = SumFunction([k \in Keys |-> totals[k].cost])
           /\ stated => all.tokens = SumFunction([k \in Keys |-> totals[k].tokens])
           /\ \A mid \in since + 1 .. before - 1 :
                LET first == UsageSummary(Keys, since, mid)
                    second == UsageSummary(Keys, mid, before)
                IN \A n \in DOMAIN all : all[n] = first[n] + second[n]
=============================================================================
