---------------------------- MODULE BillingProofs ----------------------------
(***************************************************************************)
(* Proofs about Billing, for any providers, documents, usage records and   *)
(* numbers of callbacks and synchronizations: no rule is missed, the rules *)
(* are those of one document, what is charged is what is shown, and the    *)
(* statistics add up.                                                      *)
(***************************************************************************)
EXTENDS Billing, FiniteSetTheorems, WellFoundedInduction, TLAPS

\* What a synchronization holds comes from a document.
RulesOK ==
    /\ IsRuleTable(rules)
    /\ sync \in [Syncs -> SourceRules \cup {NoRules}]
    /\ put \subseteq RuleKeys

\* What a usage.handle holds at each of its steps.
CallsOK ==
    /\ call \in [Callers -> CallRecords \cup {NoCall}]
    /\ \A c \in Callers : At(c, "infer") => call[c].usage.provider = None

\* The clock and the inventory, and the history of instants without a rule.
WorldOK ==
    /\ known \subseteq Auths /\ clock \in 0 .. MaxTick
    /\ gap \subseteq Callers
    /\ \A c \in Callers : Unpriced(c) => c \in gap

\* As long as a rule has applied all the time, a call knows the provider of its
\* usage, finds a rule, and waits for the official one only while there is one.
OnTrack(c) ==
    /\ call[c].pc \in {"own", "official", "insert"}
          => call[c].provider = ProviderOf(call[c].usage)
    /\ At(c, "official") =>
          /\ call[c].provider # None
          /\ OfficialOf[call[c].provider] # call[c].provider
          /\ RuleFor(c, OfficialOf[call[c].provider]) \in DOMAIN rules
    /\ At(c, "insert") => call[c].price # None

AllOnTrack == \A c \in Callers : c \notin gap => OnTrack(c)

LedgerOK == ledger \in Seq(Row) /\ BilledAsShown

IInv == RulesOK /\ CallsOK /\ WorldOK /\ AllOnTrack /\ LedgerOK /\ PricesFromOneDocument

-----------------------------------------------------------------------------
\* A non-empty set of natural numbers has a least element.
LEMMA MinIsMember ==
  ASSUME NEW S, S \subseteq Nat, S # {}
  PROVE  Min(S) \in S
<1> DEFINE Less == OpToRel(<, Nat)
<1>1. PICK x \in S : \A y \in S : ~(<<y, x>> \in Less)
  <2>1. IsWellFoundedOn(Less, Nat)
    BY NatLessThanWellFounded
  <2> HIDE DEF Less
  <2> QED
    BY <2>1, WFMin
<1>2. \A y \in S : x =< y
  <2> SUFFICES ASSUME NEW y \in S PROVE x =< y
    OBVIOUS
  <2>1. ~(y < x)
    BY <1>1 DEF OpToRel
  <2> QED
    BY <2>1
<1> QED
  BY <1>2 DEF Min

\* The rules of a document are for official providers, which have no other.
LEMMA SourceRulesOfficial ==
  ASSUME NEW listed \in SourceRules
  PROVE  /\ IsRuleTable(listed)
         /\ \A p \in Providers, m \in Models :
               <<p, m>> \in DOMAIN listed => OfficialOf[p] = p
<1>0. PICK doc \in Documents : \E order \in SetToSeqs(doc) : listed = RulesIn(order)
  BY DEF SourceRules
<1>1. PICK order \in SetToSeqs(doc) : listed = RulesIn(order)
  BY <1>0
<1>2. DOMAIN order \subseteq Nat /\ \A i \in DOMAIN order : order[i] \in doc
  <2>1. order \in [1 .. Cardinality(doc) -> doc]
    BY DEF SetToSeqs
  <2> QED
    BY <2>1
<1>3. \A spec \in doc :
         /\ Listed(spec) \subseteq RuleKeys
         /\ \A p \in Providers, m \in Models : <<p, m>> \in Listed(spec) => OfficialOf[p] = p
         /\ spec.price \in Prices
  <2> SUFFICES ASSUME NEW spec \in doc
               PROVE  /\ Listed(spec) \subseteq RuleKeys
                      /\ \A p \in Providers, m \in Models :
                            <<p, m>> \in Listed(spec) => OfficialOf[p] = p
                      /\ spec.price \in Prices
    OBVIOUS
  <2>1. /\ spec.name \in Models /\ spec.provider \in DOMAIN SourceProvider
        /\ spec.price \in Prices
    BY BillingAssumption
  <2>2. \A q \in OfficialAliases(spec.provider) : q \in Providers /\ OfficialOf[q] = q
    BY <2>1, BillingAssumption DEF OfficialAliases
  <2>3. ModelAliases(spec.name) \subseteq Models
    BY <2>1, BillingAssumption DEF ModelAliases
  <2> QED
    BY <2>1, <2>2, <2>3 DEF Listed, RuleKeys
<1> DEFINE Keyed == UNION {Listed(order[i]) : i \in DOMAIN order}
           Listing(key) == {i \in DOMAIN order : key \in Listed(order[i])}
<1>4. listed = [key \in Keyed |-> order[Min(Listing(key))].price]
  BY <1>1 DEF RulesIn
<1>5. \A key \in Keyed : Min(Listing(key)) \in DOMAIN order
  <2> SUFFICES ASSUME NEW key \in Keyed PROVE Min(Listing(key)) \in DOMAIN order
    OBVIOUS
  <2>1. Listing(key) # {} /\ Listing(key) \subseteq Nat
    BY <1>2
  <2>2. Min(Listing(key)) \in Listing(key)
    <3> HIDE DEF Listing
    <3> QED
      BY <2>1, MinIsMember
  <2> QED
    BY <2>2
<1>6. DOMAIN listed = Keyed /\ \A key \in Keyed : \E i \in DOMAIN order : listed[key] = order[i].price
  BY <1>4, <1>5
<1>7. Keyed \subseteq RuleKeys
  BY <1>2, <1>3
<1> QED
  BY <1>2, <1>3, <1>6, <1>7 DEF IsRuleTable

\* The tokens of a record are natural numbers, and so is its charge.
LEMMA ReadTyped ==
  ASSUME NEW d \in Details
  PROVE  NormalizedCacheRead(d) \in Nat
  BY DEF Details, NormalizedCacheRead, AtLeast0

LEMMA TimesNat ==
  ASSUME NEW a \in Nat, NEW b \in Nat
  PROVE  a * b \in Nat
  OBVIOUS

LEMMA ChargeTyped ==
  ASSUME NEW price \in Prices, NEW d \in Details
  PROVE  CalculateUSD(price, d) \in Nat
<1> DEFINE read == NormalizedCacheRead(d)
           rest == AtLeast0(d.input - read)
<1>1. read \in Nat
  BY ReadTyped
<1>2. /\ price.input \in Nat /\ price.output \in Nat /\ price.read \in Nat
      /\ d.output \in Nat /\ d.input \in Nat
  BY DEF Prices, Details
<1>3. rest \in Nat
  <2> HIDE DEF read
  <2> QED
    BY <1>1, <1>2 DEF AtLeast0
<1> HIDE DEF read, rest
<1>4. /\ rest * price.input \in Nat /\ d.output * price.output \in Nat
      /\ read * price.read \in Nat
  BY <1>1, <1>2, <1>3, TimesNat
<1>5. rest * price.input + d.output * price.output + read * price.read \in Nat
  BY <1>4
<1> QED
  BY <1>5 DEF CalculateUSD, read, rest

\* The charge is the formula over the tokens shown, unless all that is cached was
\* written to the cache.
LEMMA ChargeAsShown ==
  ASSUME NEW price \in Prices, NEW d \in Details, ~(d.read = 0 /\ d.cached > 0)
  PROVE  CalculateUSD(price, d) = ShownInput(d) * price.input + d.output * price.output
                                    + ShownRead(d) * price.read
<1>1. NormalizedCacheRead(d) = ShownRead(d)
  BY DEF Details, NormalizedCacheRead, AtLeast0, ShownRead
<1> QED
  BY <1>1 DEF CalculateUSD, ShownInput

-----------------------------------------------------------------------------
\* The ledger starts empty and nothing is synchronized.
LEMMA InitInv == Init => IInv
<1> SUFFICES ASSUME Init PROVE IInv
  OBVIOUS
<1>1. RulesOK
  BY DEF Init, RulesOK, IsRuleTable, NoRules
<1>2. CallsOK /\ WorldOK /\ AllOnTrack
  BY BillingAssumption
     DEF Init, CallsOK, WorldOK, AllOnTrack, OnTrack, At, NoCall, Unpriced
<1>3. LedgerOK /\ PricesFromOneDocument
  BY DEF Init, LedgerOK, BilledAsShown, PricesFromOneDocument
<1> QED
  BY <1>1, <1>2, <1>3 DEF IInv

\* PUT writes rules of the body over those there are.
LEMMA UpsertedTyped ==
  ASSUME NEW old, IsRuleTable(old), NEW new, IsRuleTable(new)
  PROVE  /\ IsRuleTable(Upserted(old, new))
         /\ DOMAIN Upserted(old, new) = DOMAIN old \cup DOMAIN new
         /\ \A key \in DOMAIN old \ DOMAIN new : Upserted(old, new)[key] = old[key]
  BY DEF IsRuleTable, Upserted

LEMMA BodyTyped ==
  ASSUME NEW body \in PutBodies
  PROVE  IsRuleTable(body)
<1>1. PICK D \in SUBSET RuleKeys : body \in [D -> Prices]
  BY BillingAssumption
<1> QED
  BY <1>1 DEF IsRuleTable

\* The rules and what is about to replace them.
LEMMA RulesStep == IInv /\ [Next]_vars => RulesOK' /\ PricesFromOneDocument'
<1> SUFFICES ASSUME IInv, [Next]_vars PROVE RulesOK' /\ PricesFromOneDocument'
  OBVIOUS
<1> USE DEF IInv, RulesOK, PricesFromOneDocument
<1>1. ASSUME NEW body \in PutBodies, PutPrices(body)
      PROVE  RulesOK' /\ PricesFromOneDocument'
  <2>1. IsRuleTable(body)
    BY BodyTyped
  <2>2. /\ rules' = Upserted(rules, body) /\ put' = put \cup DOMAIN body
        /\ UNCHANGED <<sync, synced>>
    BY <1>1 DEF PutPrices
  <2>3. /\ IsRuleTable(rules') /\ DOMAIN rules' = DOMAIN rules \cup DOMAIN body
        /\ \A key \in DOMAIN rules \ DOMAIN body : rules'[key] = rules[key]
    BY <2>1, <2>2, UpsertedTyped
  <2>4. RulesOK'
    BY <2>1, <2>2, <2>3 DEF IsRuleTable
  <2>5. ASSUME synced' PROVE PricesFromOneDocument'
    <3>1. PICK listed \in SourceRules :
             /\ DOMAIN rules \ put = DOMAIN listed \ put
             /\ \A key \in DOMAIN listed \ put : rules[key] = listed[key]
      BY <2>2, <2>5
    <3>2. DOMAIN rules' \ put' = DOMAIN listed \ put'
      BY <2>2, <2>3, <3>1
    <3>3. \A key \in DOMAIN listed \ put' : rules'[key] = listed[key]
      BY <2>2, <2>3, <3>1
    <3> QED
      BY <3>2, <3>3
  <2> QED
    BY <2>4, <2>5
<1>2. ASSUME NEW s \in Syncs, SyncFetch(s)
      PROVE  RulesOK' /\ PricesFromOneDocument'
  BY <1>2 DEF SyncFetch, table
<1>3. ASSUME NEW s \in Syncs, SyncReplace(s)
      PROVE  RulesOK' /\ PricesFromOneDocument'
  <2>1. sync[s] \in SourceRules /\ rules' = sync[s] /\ put' = {}
    BY <1>3 DEF SyncReplace
  <2>2. IsRuleTable(rules')
    BY <2>1, SourceRulesOfficial
  <2> QED
    BY <1>3, <2>1, <2>2 DEF SyncReplace
<1>4. ASSUME NEW s \in Syncs, SyncFails(s)
      PROVE  RulesOK' /\ PricesFromOneDocument'
  BY <1>4 DEF SyncFails, table
<1>5. CASE Restart
  BY <1>5 DEF Restart, table
<1>6. ASSUME UNCHANGED <<table, sync>>
      PROVE  RulesOK' /\ PricesFromOneDocument'
  BY <1>6 DEF table
<1>7. ASSUME NEW c \in Callers, Record(c) PROVE UNCHANGED <<table, sync>>
  BY <1>7 DEF Record, Report, InferProvider, OwnRule, OfficialRule, Insert, CallFails,
              Goto
<1>8. RefreshInventory \/ Tick \/ UNCHANGED vars => UNCHANGED <<table, sync>>
  BY DEF RefreshInventory, Tick, vars, table
<1> QED
  BY <1>1, <1>2, <1>3, <1>4, <1>5, <1>6, <1>7, <1>8 DEF Next, ChangePrices

\* The price of a rule there is.
LEMMA RulePrice ==
  ASSUME RulesOK, NEW key \in DOMAIN rules
  PROVE  rules[key] \in Prices /\ rules[key] # None
  BY BillingAssumption DEF RulesOK, IsRuleTable

\* The record a report starts with.
LEMMA ReportTyped ==
  ASSUME NEW u \in Usages, clock \in 0 .. MaxTick, NEW pc \in {"infer", "own"}
  PROVE  [pc |-> pc, usage |-> u, provider |-> u.provider, at |-> clock,
          detail |-> [u.detail EXCEPT !.read = NormalizedCacheRead(u.detail)],
          price |-> None] \in CallRecords
<1>1. u.detail \in Details /\ u.provider \in Providers \cup {None}
  BY BillingAssumption
<1>2. NormalizedCacheRead(u.detail) \in Nat
  BY <1>1, ReadTyped
<1>3. [u.detail EXCEPT !.read = NormalizedCacheRead(u.detail)] \in Details
  BY <1>1, <1>2 DEF Details
<1> QED
  BY <1>1, <1>3 DEF CallRecords

\* A call at work is a record of its own kind.
LEMMA AtWork ==
  ASSUME CallsOK, NEW c \in Callers
  PROVE  /\ ~At(c, "idle") => call[c] \in CallRecords
         /\ At(c, "idle") <=> call[c] = NoCall
  BY DEF CallsOK, At, NoCall, CallRecords

\* Calls and the history of instants without a rule.
LEMMA CallsStep == IInv /\ [Next]_vars => CallsOK' /\ WorldOK'
<1> SUFFICES ASSUME IInv, [Next]_vars PROVE CallsOK' /\ WorldOK'
  OBVIOUS
<1> USE DEF IInv
<1>1. WorldOK'
  <2>1. CASE Next
    <3>1. gap' = {c \in Callers : call'[c].pc # "idle" /\ (c \in gap \/ Unpriced(c)')}
      BY <2>1 DEF Next
    <3>2. \A c \in Callers : Unpriced(c)' => call'[c].pc # "idle"
      BY DEF Unpriced, At
    <3>3. known' \subseteq Auths /\ clock' \in 0 .. MaxTick
      <4>1. \/ UNCHANGED <<known, clock>>
            \/ known' \in SUBSET Auths /\ clock' = clock
            \/ clock < MaxTick /\ clock' = clock + 1 /\ known' = known
        BY <2>1
           DEF Next, Record, Report, InferProvider, OwnRule, OfficialRule, Insert, table,
               CallFails, Goto, ChangePrices, PutPrices, SyncFetch, SyncReplace, SyncFails,
               RefreshInventory, Tick, Restart
      <4> QED
        BY <4>1, BillingAssumption DEF WorldOK
    <3> QED
      BY <3>1, <3>2, <3>3 DEF WorldOK
  <2>2. CASE UNCHANGED vars
    BY <2>2 DEF vars, WorldOK, Unpriced, Applies, ProviderOf, At
  <2> QED
    BY <2>1, <2>2
<1>2. CallsOK'
  <2> DEFINE Good(rec) ==
               /\ rec \in CallRecords \cup {NoCall}
               /\ rec.pc = "infer" => rec.usage.provider = None
  <2>a. call \in [Callers -> CallRecords \cup {NoCall}] /\ \A c \in Callers : Good(call[c])
    BY DEF CallsOK, At
  <2>b. ASSUME NEW c \in Callers, NEW rec, Good(rec), Goto(c, rec) PROVE CallsOK'
    BY <2>a, <2>b DEF Goto, CallsOK, At
  <2>c. Good(NoCall)
    BY DEF NoCall
  <2>d. ASSUME NEW c \in Callers, ~At(c, "idle")
        PROVE  call[c] \in CallRecords
    BY <2>d, AtWork
  <2>1. ASSUME NEW c \in Callers, NEW u \in Usages, Report(c, u) PROVE CallsOK'
    <3> DEFINE pc == IF u.provider = None /\ u.auth # None THEN "infer" ELSE "own"
               rec == [pc |-> pc, usage |-> u, provider |-> u.provider, at |-> clock,
                       detail |-> [u.detail EXCEPT !.read = NormalizedCacheRead(u.detail)],
                       price |-> None]
    <3>1. rec \in CallRecords
      <4>1. pc \in {"infer", "own"}
        OBVIOUS
      <4> HIDE DEF pc
      <4> QED
        BY <4>1, ReportTyped DEF WorldOK
    <3>2. rec.pc = "infer" => rec.usage.provider = None
      OBVIOUS
    <3>3. Goto(c, rec)
      BY <2>1 DEF Report
    <3> HIDE DEF rec
    <3>4. Good(rec)
      BY <3>1, <3>2
    <3> HIDE DEF Good
    <3> QED
      BY <3>3, <3>4, <2>b
  <2>e. ASSUME NEW c \in Callers, ~At(c, "idle"), NEW pc \in {"own", "official", "insert"},
               NEW p \in Providers \cup {None}, NEW price \in Prices \cup {None},
               Goto(c, [call[c] EXCEPT !.pc = pc, !.provider = p, !.price = price])
        PROVE  CallsOK'
    <3> DEFINE rec == [call[c] EXCEPT !.pc = pc, !.provider = p, !.price = price]
    <3>1. rec \in CallRecords /\ rec.pc = pc
      BY <2>d, <2>e DEF CallRecords
    <3>2. Goto(c, rec)
      BY <2>e
    <3> HIDE DEF rec
    <3>3. Good(rec)
      BY <3>1
    <3> HIDE DEF Good
    <3> QED
      BY <3>2, <3>3, <2>b
  <2>2. ASSUME NEW c \in Callers, InferProvider(c) PROVE CallsOK'
    <3> DEFINE p == IF call[c].usage.auth \in known THEN AuthProvider[call[c].usage.auth] ELSE None
    <3>1. ~At(c, "idle") /\ call[c] \in CallRecords
      BY <2>2, <2>d DEF InferProvider, At
    <3>2. p \in Providers \cup {None}
      BY BillingAssumption DEF WorldOK
    <3>3. Goto(c, [call[c] EXCEPT !.pc = "own", !.provider = p])
      BY <2>2 DEF InferProvider
    <3> HIDE DEF p
    <3>4. [call[c] EXCEPT !.pc = "own", !.provider = p]
            = [call[c] EXCEPT !.pc = "own", !.provider = p, !.price = call[c].price]
      BY <3>1 DEF CallRecords
    <3>5. call[c].price \in Prices \cup {None}
      BY <3>1 DEF CallRecords
    <3> HIDE DEF Good
    <3> QED
      BY <3>1, <3>2, <3>3, <3>4, <3>5, <2>e
  <2>f. ASSUME NEW c \in Callers, ~At(c, "idle"), NEW pc \in {"official", "insert"},
               NEW price \in Prices \cup {None},
               \/ Goto(c, [call[c] EXCEPT !.pc = pc, !.price = price])
               \/ Goto(c, [call[c] EXCEPT !.pc = pc])
        PROVE  CallsOK'
    <3>1. call[c] \in CallRecords
      BY <2>d, <2>f
    <3>2. /\ call[c].provider \in Providers \cup {None}
          /\ call[c].price \in Prices \cup {None}
      BY <3>1 DEF CallRecords
    <3>3. /\ [call[c] EXCEPT !.pc = pc, !.price = price]
                = [call[c] EXCEPT !.pc = pc, !.provider = call[c].provider, !.price = price]
          /\ [call[c] EXCEPT !.pc = pc]
                = [call[c] EXCEPT !.pc = pc, !.provider = call[c].provider,
                                  !.price = call[c].price]
      BY <3>1 DEF CallRecords
    <3> HIDE DEF Good
    <3>4. CASE Goto(c, [call[c] EXCEPT !.pc = pc, !.price = price])
      <4>1. Goto(c, [call[c] EXCEPT !.pc = pc, !.provider = call[c].provider,
                                    !.price = price])
        BY <3>3, <3>4
      <4> QED
        BY <2>f, <3>2, <4>1, <2>e
    <3>5. CASE Goto(c, [call[c] EXCEPT !.pc = pc])
      <4>1. Goto(c, [call[c] EXCEPT !.pc = pc, !.provider = call[c].provider,
                                    !.price = call[c].price])
        BY <3>3, <3>5
      <4> QED
        BY <2>f, <3>2, <4>1, <2>e
    <3> QED
      BY <2>f, <3>4, <3>5
  <2>3. ASSUME NEW c \in Callers, OwnRule(c) PROVE CallsOK'
    <3>1. ~At(c, "idle")
      BY <2>3 DEF OwnRule, At
    <3>2. \A key \in DOMAIN rules : rules[key] \in Prices
      BY RulePrice
    <3> HIDE DEF Good
    <3> QED
      BY <2>3, <3>1, <3>2, <2>f DEF OwnRule
  <2>4. ASSUME NEW c \in Callers, OfficialRule(c) PROVE CallsOK'
    <3> DEFINE key == RuleFor(c, OfficialOf[call[c].provider])
               price == IF key \in DOMAIN rules THEN rules[key] ELSE None
    <3>1. ~At(c, "idle")
      BY <2>4 DEF OfficialRule, At
    <3>2. price \in Prices \cup {None}
      BY RulePrice
    <3>3. Goto(c, [call[c] EXCEPT !.pc = "insert", !.price = price])
      BY <2>4 DEF OfficialRule
    <3> HIDE DEF price, Good
    <3> QED
      BY <3>1, <3>2, <3>3, <2>f
  <2>5. ASSUME NEW c \in Callers, Insert(c) \/ CallFails(c) PROVE CallsOK'
    <3> HIDE DEF Good
    <3> QED
      BY <2>5, <2>b, <2>c DEF Insert, CallFails
  <2>6. CASE Restart
    BY <2>6 DEF Restart, CallsOK, At, NoCall
  <2>7. ASSUME UNCHANGED call PROVE CallsOK'
    BY <2>7 DEF CallsOK, At
  <2>8. ChangePrices \/ RefreshInventory \/ Tick \/ UNCHANGED vars => UNCHANGED call
    BY DEF ChangePrices, PutPrices, SyncFetch, SyncReplace, SyncFails, RefreshInventory,
           Tick, vars
  <2> HIDE DEF Good
  <2> QED
    BY <2>1, <2>2, <2>3, <2>4, <2>5, <2>6, <2>7, <2>8 DEF Next, Record
<1> QED
  BY <1>1, <1>2

\* A call for which a rule has applied all the time stays on track, whatever is done
\* to the rules: PUT takes no rule away, and a synchronization that takes the
\* official one away leaves none, since it lists official providers only.
LEMMA TrackStep == IInv /\ [Next]_vars => AllOnTrack'
<1> SUFFICES ASSUME IInv, [Next]_vars PROVE AllOnTrack'
  OBVIOUS
<1>k. \A c \in Callers : c \notin gap => ~Unpriced(c)
  BY DEF IInv, WorldOK
<1>l. \A c \in Callers : c \notin gap' => ~Unpriced(c)'
  BY CallsStep DEF WorldOK
<1>m. \A c \in Callers : c \notin gap' /\ call'[c].pc # "idle" => c \notin gap
  <2>1. CASE Next
    BY <2>1 DEF Next
  <2>2. CASE UNCHANGED vars
    BY <2>2 DEF vars
  <2> QED
    BY <2>1, <2>2
<1>t. \A c \in Callers : c \notin gap => OnTrack(c)
  BY DEF IInv, AllOnTrack
<1>c. call \in [Callers -> CallRecords \cup {NoCall}]
  BY DEF IInv, CallsOK
<1>u. \A c \in Callers : ~At(c, "idle") =>
         /\ call[c].usage.auth \in Auths \cup {None}
         /\ call[c].usage.provider \in Providers \cup {None}
         /\ call[c].usage.model \in Models
         /\ call[c].provider \in Providers \cup {None}
         /\ call[c].pc \in {"infer", "own", "official", "insert"}
  BY AtWork, BillingAssumption DEF IInv, CallRecords
\* The steps of one call.
<1>a. ASSUME NEW c \in Callers, NEW rec, Goto(c, rec), OnTrack(c)' \/ c \in gap'
      PROVE  AllOnTrack'
  <2> SUFFICES ASSUME NEW d \in Callers, d \notin gap', d # c PROVE OnTrack(d)'
    BY <1>a DEF AllOnTrack
  <2>1. call'[d] = call[d] /\ UNCHANGED <<rules, known>>
    BY <1>a, <1>c DEF Goto, table
  <2>2. CASE At(d, "idle")
    BY <2>1, <2>2 DEF OnTrack, At
  <2>3. CASE ~At(d, "idle")
    <3>1. OnTrack(d)
      BY <2>1, <2>3, <1>m, <1>t DEF At
    <3> QED
      BY <2>1, <3>1 DEF OnTrack, At, ProviderOf, RuleFor
  <2> QED
    BY <2>2, <2>3
<1>1. ASSUME NEW c \in Callers, NEW u \in Usages, Report(c, u) PROVE AllOnTrack'
  <2>1. PICK rec : /\ Goto(c, rec) /\ rec.usage = u /\ rec.provider = u.provider
                   /\ rec.pc = IF u.provider = None /\ u.auth # None THEN "infer" ELSE "own"
    BY <1>1 DEF Report
  <2>2. call'[c] = rec /\ UNCHANGED <<rules, known>>
    BY <2>1, <1>c DEF Goto, table
  <2>3. known \subseteq Auths
    BY DEF IInv, WorldOK
  <2>4. OnTrack(c)'
    BY <2>1, <2>2, <2>3, BillingAssumption DEF OnTrack, At, ProviderOf
  <2> QED
    BY <2>1, <2>4, <1>a
<1>2. ASSUME NEW c \in Callers, InferProvider(c) PROVE AllOnTrack'
  <2> DEFINE p == IF call[c].usage.auth \in known THEN AuthProvider[call[c].usage.auth] ELSE None
             rec == [call[c] EXCEPT !.pc = "own", !.provider = p]
  <2>1. Goto(c, rec) /\ At(c, "infer") /\ ~At(c, "idle")
    BY <1>2 DEF InferProvider, At
  <2>2. rec.usage = call[c].usage /\ rec.provider = p /\ rec.pc = "own"
    BY <2>1, AtWork DEF IInv, CallRecords
  <2>3. call[c].usage.provider = None
    BY <2>1 DEF IInv, CallsOK
  <2>4. call'[c] = rec /\ UNCHANGED <<rules, known>>
    BY <2>1, <1>c DEF Goto, table
  <2>5. OnTrack(c)'
    BY <2>2, <2>3, <2>4 DEF OnTrack, At, ProviderOf
  <2> QED
    BY <2>1, <2>5, <1>a
<1>3. ASSUME NEW c \in Callers, OwnRule(c) PROVE AllOnTrack'
  <2> DEFINE p == call[c].provider
  <2>0. At(c, "own") /\ ~At(c, "idle") /\ call[c] \in CallRecords
    BY <1>3, AtWork DEF OwnRule, At, IInv
  <2>1. ASSUME RuleFor(c, p) \in DOMAIN rules,
               Goto(c, [call[c] EXCEPT !.pc = "insert", !.price = rules[RuleFor(c, p)]])
        PROVE  AllOnTrack'
    <3> DEFINE rec == [call[c] EXCEPT !.pc = "insert", !.price = rules[RuleFor(c, p)]]
    <3>1. rec.pc = "insert" /\ rec.price # None /\ rec.provider = p /\ rec.usage = call[c].usage
      BY <2>0, <2>1, RulePrice DEF CallRecords, IInv
    <3>2. call'[c] = rec /\ UNCHANGED <<rules, known>>
      BY <2>1, <1>c DEF Goto, table
    <3>3. c \notin gap' => OnTrack(c)
      BY <3>1, <3>2, <1>m, <1>t
    <3>4. c \notin gap' => OnTrack(c)'
      BY <2>0, <3>1, <3>2, <3>3 DEF OnTrack, At, ProviderOf
    <3> HIDE DEF rec
    <3> QED
      BY <2>1, <3>4, <1>a
  <2>2. ASSUME RuleFor(c, p) \notin DOMAIN rules, p # None, OfficialOf[p] # p,
               Goto(c, [call[c] EXCEPT !.pc = "official"])
        PROVE  AllOnTrack'
    <3> DEFINE rec == [call[c] EXCEPT !.pc = "official"]
    <3>1. rec.pc = "official" /\ rec.provider = p /\ rec.usage = call[c].usage
      BY <2>0 DEF CallRecords
    <3>2. call'[c] = rec /\ UNCHANGED <<rules, known>>
      BY <2>2, <1>c DEF Goto, table
    <3>3. c \notin gap' => OnTrack(c) /\ ~Unpriced(c)
      BY <3>1, <3>2, <1>m, <1>t, <1>k
    <3>4. c \notin gap' => /\ p = ProviderOf(call[c].usage)
                           /\ RuleFor(c, OfficialOf[p]) \in DOMAIN rules
      BY <2>0, <2>2, <3>3 DEF OnTrack, Unpriced, Applies, RuleFor, At
    <3>5. c \notin gap' => OnTrack(c)'
      BY <2>2, <3>1, <3>2, <3>4 DEF OnTrack, At, ProviderOf, RuleFor
    <3> QED
      BY <2>2, <3>5, <1>a
  <2>3. ASSUME RuleFor(c, p) \notin DOMAIN rules, p # None => OfficialOf[p] = p,
               Goto(c, [call[c] EXCEPT !.pc = "insert"])
        PROVE  AllOnTrack'
    <3>1. call'[c].pc # "idle"
      BY <2>0, <2>3, <1>c DEF Goto, CallRecords
    <3>2. c \in gap'
      <4> SUFFICES ASSUME c \notin gap' PROVE FALSE
        OBVIOUS
      <4>1. OnTrack(c) /\ ~Unpriced(c)
        BY <3>1, <1>m, <1>t, <1>k
      <4>2. p = ProviderOf(call[c].usage)
        BY <4>1, <2>0 DEF OnTrack, At
      <4> QED
        BY <4>1, <4>2, <2>0, <2>3 DEF Unpriced, Applies, RuleFor
    <3> QED
      BY <2>3, <3>2, <1>a
  <2> QED
    BY <1>3, <2>1, <2>2, <2>3 DEF OwnRule
<1>4. ASSUME NEW c \in Callers, OfficialRule(c) PROVE AllOnTrack'
  <2> DEFINE key == RuleFor(c, OfficialOf[call[c].provider])
             price == IF key \in DOMAIN rules THEN rules[key] ELSE None
             rec == [call[c] EXCEPT !.pc = "insert", !.price = price]
  <2>1. /\ Goto(c, rec) /\ At(c, "official") /\ call[c] \in CallRecords
    BY <1>4, AtWork DEF OfficialRule, At, IInv
  <2>2. /\ rec.pc = "insert" /\ rec.price = price /\ rec.usage = call[c].usage
        /\ rec.provider = call[c].provider
    BY <2>1 DEF CallRecords
  <2>3. call'[c] = rec /\ UNCHANGED <<rules, known>>
    BY <2>1, <1>c DEF Goto, table
  <2>4. c \notin gap' => OnTrack(c)
    BY <2>2, <2>3, <1>m, <1>t
  <2>5. c \notin gap' => price # None
    BY <2>1, <2>4, RulePrice DEF OnTrack, IInv
  <2>6. c \notin gap' => OnTrack(c)'
    BY <2>1, <2>2, <2>3, <2>4, <2>5 DEF OnTrack, At, ProviderOf
  <2> HIDE DEF rec
  <2> QED
    BY <2>1, <2>6, <1>a
<1>5. ASSUME NEW c \in Callers, Insert(c) \/ CallFails(c) PROVE AllOnTrack'
  <2>1. Goto(c, NoCall)
    BY <1>5 DEF Insert, CallFails
  <2>2. call'[c] = NoCall
    BY <2>1, <1>c DEF Goto
  <2>3. OnTrack(c)'
    BY <2>2 DEF OnTrack, At, NoCall
  <2> QED
    BY <2>1, <2>3, <1>a
\* The steps beside the calls.
<1>b. ASSUME NEW c \in Callers, c \notin gap', ~At(c, "idle"), call'[c] = call[c]
      PROVE  OnTrack(c) /\ ~Unpriced(c) /\ ~Unpriced(c)'
  BY <1>b, <1>k, <1>l, <1>m, <1>t DEF At
<1>6. ASSUME UNCHANGED <<call, known>>, DOMAIN rules \subseteq DOMAIN rules' PROVE AllOnTrack'
  <2> SUFFICES ASSUME NEW c \in Callers, c \notin gap' PROVE OnTrack(c)'
    BY DEF AllOnTrack
  <2>1. CASE At(c, "idle")
    BY <1>6, <2>1 DEF OnTrack, At
  <2>2. CASE ~At(c, "idle")
    BY <1>6, <1>b, <2>2 DEF OnTrack, At, ProviderOf, RuleFor
  <2> QED
    BY <2>1, <2>2
<1>7. ASSUME NEW s \in Syncs, SyncReplace(s) PROVE AllOnTrack'
  <2> SUFFICES ASSUME NEW c \in Callers, c \notin gap' PROVE OnTrack(c)'
    BY DEF AllOnTrack
  <2>1. UNCHANGED <<call, known>> /\ rules' = sync[s] /\ sync[s] \in SourceRules
    BY <1>7 DEF SyncReplace, IInv, RulesOK
  <2>2. CASE ~At(c, "official")
    <3>1. CASE At(c, "idle")
      BY <2>1, <3>1 DEF OnTrack, At
    <3>2. CASE ~At(c, "idle")
      BY <2>1, <2>2, <3>2, <1>b DEF OnTrack, At, ProviderOf
    <3> QED
      BY <3>1, <3>2
  <2>3. CASE At(c, "official")
    <3> DEFINE p == call[c].provider
               m == call[c].usage.model
    <3>1. /\ OnTrack(c) /\ ~Unpriced(c)' /\ p \in Providers \cup {None} /\ m \in Models
      BY <2>1, <2>3, <1>b, <1>u DEF At
    <3>2. p = ProviderOf(call[c].usage) /\ p # None /\ OfficialOf[p] # p
      BY <2>3, <3>1 DEF OnTrack, At
    <3>3. {<<p, m>>, <<OfficialOf[p], m>>} \cap DOMAIN rules' # {}
      BY <2>1, <2>3, <3>1, <3>2 DEF Unpriced, Applies, At, ProviderOf
    <3>4. <<p, m>> \notin DOMAIN rules'
      BY <2>1, <3>1, <3>2, SourceRulesOfficial
    <3> QED
      BY <2>1, <2>3, <3>1, <3>2, <3>3, <3>4 DEF OnTrack, At, ProviderOf, RuleFor
  <2> QED
    BY <2>2, <2>3
<1>8. ASSUME NEW body \in PutBodies, PutPrices(body) PROVE AllOnTrack'
  <2>1. DOMAIN rules \subseteq DOMAIN rules' /\ UNCHANGED <<call, known>>
    BY <1>8 DEF PutPrices, Upserted
  <2> QED
    BY <2>1, <1>6
<1>9. CASE RefreshInventory
  <2> SUFFICES ASSUME NEW c \in Callers, c \notin gap' PROVE OnTrack(c)'
    BY DEF AllOnTrack
  <2>1. UNCHANGED <<call, rules>>
    BY <1>9 DEF RefreshInventory, table
  <2>2. CASE At(c, "idle")
    BY <2>1, <2>2 DEF OnTrack, At
  <2>3. CASE ~At(c, "idle")
    <3>1. OnTrack(c) /\ ~Unpriced(c) /\ ~Unpriced(c)'
      BY <2>1, <2>3, <1>b
    <3>2. ProviderOf(call[c].usage) # None
      BY <2>3, <3>1 DEF Unpriced, Applies
    <3>3. ProviderOf(call[c].usage)' # None
      BY <2>1, <2>3, <3>1 DEF Unpriced, Applies, At
    <3>4. ProviderOf(call[c].usage)' = ProviderOf(call[c].usage)
      BY <2>1, <3>2, <3>3 DEF ProviderOf
    <3> QED
      BY <2>1, <3>1, <3>4 DEF OnTrack, At, RuleFor
  <2> QED
    BY <2>2, <2>3
<1>10. CASE Restart
  BY <1>10 DEF Restart, AllOnTrack, OnTrack, At, NoCall
<1>11. ASSUME UNCHANGED <<call, known, rules>> PROVE AllOnTrack'
  BY <1>11, <1>6
<1>12. ASSUME NEW s \in Syncs, SyncFetch(s) \/ SyncFails(s) PROVE AllOnTrack'
  BY <1>11, <1>12 DEF SyncFetch, SyncFails, table
<1>13. CASE Tick \/ UNCHANGED vars
  BY <1>11, <1>13 DEF Tick, vars, table
<1> QED
  BY <1>1, <1>2, <1>3, <1>4, <1>5, <1>7, <1>8, <1>9, <1>10, <1>12, <1>13
     DEF Next, Record, ChangePrices

\* A row is charged by the formula over the tokens it keeps.
LEMMA LedgerStep == IInv /\ [Next]_vars => LedgerOK'
<1> SUFFICES ASSUME IInv, [Next]_vars PROVE LedgerOK'
  OBVIOUS
<1> USE DEF IInv, LedgerOK
<1>1. ASSUME NEW c \in Callers, Insert(c) PROVE LedgerOK'
  <2> DEFINE row == RowOf(call[c])
             d == call[c].detail
             price == call[c].price
  <2>1. /\ call[c].usage \in Usages /\ call[c].at \in 0 .. MaxTick
        /\ d \in Details /\ price \in Prices \cup {None}
    BY <1>1, AtWork DEF Insert, At, CallRecords
  <2>2. call[c].usage.key \in Keys
    BY <2>1, BillingAssumption
  <2>3. /\ row.key = call[c].usage.key /\ row.at = call[c].at /\ row.detail = d
        /\ row.price = price
        /\ row.usd = IF price = None THEN 0 ELSE CalculateUSD(price, d)
    BY DEF RowOf
  <2>4. price # None => CalculateUSD(price, d) \in Nat
    BY <2>1, ChargeTyped
  <2>5. row \in Row
    BY <2>1, <2>2, <2>4 DEF RowOf, Row
  <2>6. \/ price = None
        \/ d.read = 0 /\ d.cached > 0
        \/ row.usd = ShownInput(d) * price.input + d.output * price.output
                       + ShownRead(d) * price.read
    BY <2>1, <2>3, ChargeAsShown
  <2>7. ledger' = Append(ledger, row)
    BY <1>1 DEF Insert
  <2> HIDE DEF row, d, price
  <2>8. /\ ledger' \in Seq(Row) /\ DOMAIN ledger' = 1 .. Len(ledger) + 1
        /\ DOMAIN ledger = 1 .. Len(ledger) /\ Len(ledger) \in Nat
        /\ \A i \in DOMAIN ledger : ledger'[i] = ledger[i]
        /\ ledger'[Len(ledger) + 1] = row
    BY <2>5, <2>7
  <2>9. BilledAsShown'
    BY <2>3, <2>6, <2>8 DEF BilledAsShown
  <2> QED
    BY <2>8, <2>9
<1>2. ASSUME UNCHANGED ledger PROVE LedgerOK'
  BY <1>2 DEF BilledAsShown
<1>3. ASSUME NEW c \in Callers, Record(c), ~Insert(c) PROVE UNCHANGED ledger
  BY <1>3 DEF Record, Report, InferProvider, OwnRule, OfficialRule, CallFails
<1>4. ChangePrices \/ RefreshInventory \/ Tick \/ Restart \/ UNCHANGED vars
        => UNCHANGED ledger
  BY DEF ChangePrices, PutPrices, SyncFetch, SyncReplace, SyncFails, RefreshInventory,
         Tick, Restart, vars
<1> QED
  BY <1>1, <1>2, <1>3, <1>4 DEF Next

-----------------------------------------------------------------------------
\* The invariant is inductive.
LEMMA Inductive == Spec => []IInv
<1>1. IInv /\ [Next]_vars => IInv'
  BY RulesStep, CallsStep, TrackStep, LedgerStep DEF IInv
<1> QED
  BY InitInv, <1>1, PTL DEF Spec

\* No row is charged a negative amount, and no rule has a price that is none.
THEOREM Typed == Spec => []TypeOK
<1>1. IInv => TypeOK
  <2> SUFFICES ASSUME IInv PROVE TypeOK
    OBVIOUS
  <2>1. \A s \in Syncs : IsRuleTable(sync[s])
    BY SourceRulesOfficial DEF IInv, RulesOK, IsRuleTable, NoRules
  <2> QED
    BY <2>1 DEF IInv, RulesOK, CallsOK, WorldOK, LedgerOK, TypeOK
<1> QED
  BY Inductive, <1>1, PTL

\* A request to which a rule applies all the time is charged by a rule, whatever is
\* put and synchronized between the lookups of its price.
THEOREM NoRuleMissed == Spec => []FreeOnlyWithoutRule
<1>1. IInv => FreeOnlyWithoutRule
  BY DEF IInv, AllOnTrack, OnTrack, FreeOnlyWithoutRule
<1> QED
  BY Inductive, <1>1, PTL

\* The rules not put since the last synchronization are those of one document.
THEOREM OneDocument == Spec => []PricesFromOneDocument
<1>1. IInv => PricesFromOneDocument
  BY DEF IInv
<1> QED
  BY Inductive, <1>1, PTL

\* What a request is charged is the README's formula over the tokens that the
\* statistics show of it.
THEOREM ChargeShown == Spec => []BilledAsShown
<1>1. IInv => BilledAsShown
  BY DEF IInv, LedgerOK
<1> QED
  BY Inductive, <1>1, PTL

-----------------------------------------------------------------------------
(* Sums over finite sets.                                                  *)

\* Induction over the subsets of a finite set, as a fact about sets of subsets.
LEMMA SubsetInduction ==
  ASSUME NEW S, IsFiniteSet(S), NEW P, {} \in P,
         \A T \in SUBSET S : T # {} /\ (\A x \in T : T \ {x} \in P) => T \in P
  PROVE  \A T \in SUBSET S : T \in P
<1> SUFFICES ASSUME (SUBSET S) \ P # {} PROVE FALSE
  OBVIOUS
<1> DEFINE Less == StrictSubsetOrdering(S)
           Bad == (SUBSET S) \ P
<1>1. PICK T \in Bad : \A U \in Bad : ~(<<U, T>> \in Less)
  <2>1. IsWellFoundedOn(Less, SUBSET S)
    BY FS_StrictSubsetOrderingWellFounded, FS_FiniteSubsetsOfFinite
  <2>2. Bad \subseteq SUBSET S /\ Bad # {}
    OBVIOUS
  <2> HIDE DEF Less, Bad
  <2> QED
    BY <2>1, <2>2, WFMin
<1>2. T # {} /\ T \in SUBSET S
  BY <1>1
<1>3. \A x \in T : T \ {x} \in SUBSET S /\ <<T \ {x}, T>> \in Less
  BY <1>2 DEF StrictSubsetOrdering
<1> QED
  BY <1>1, <1>2, <1>3

\* The members of a set in the order in which a sum takes them.
First(T) == CHOOSE x \in T : TRUE

\* g holds the sums of f over the subsets of S that belong to D.
SumsOn(g, f, D) ==
  /\ g \in [D -> Nat]
  /\ \A T \in D : g[T] = IF T = {} THEN 0 ELSE f[First(T)] + g[T \ {First(T)}]


\* There is a way to sum over the subsets of a finite set.
LEMMA SumsExist ==
  ASSUME NEW S, IsFiniteSet(S), NEW f, \A x \in S : f[x] \in Nat
  PROVE  \E g : SumsOn(g, f, SUBSET S)
<1> DEFINE UpTo(n) == {T \in SUBSET S : Cardinality(T) =< n}
           Bad == {n \in Nat : ~\E g : SumsOn(g, f, UpTo(n))}
           Body(g, n) == [T \in UpTo(n) |-> IF T = {} THEN 0 ELSE f[First(T)] + g[T \ {First(T)}]]
<1>1. \A T \in SUBSET S : Cardinality(T) \in Nat /\ IsFiniteSet(T) /\ (T # {} => First(T) \in T)
  BY FS_Subset, FS_CardinalityType DEF First
<1>2. 0 \notin Bad
  <2>1. \A T \in UpTo(0) : T = {}
    BY <1>1, FS_EmptySet
  <2> DEFINE g == [T \in UpTo(0) |-> 0]
  <2>2. SumsOn(g, f, UpTo(0))
    BY <2>1 DEF SumsOn
  <2> HIDE DEF g, UpTo
  <2> QED
    BY <2>2
<1>3. ASSUME NEW n \in Nat, n \notin Bad PROVE n + 1 \notin Bad
  <2>1. PICK g : SumsOn(g, f, UpTo(n))
    BY <1>3
  <2>2. \A T \in UpTo(n + 1) : T # {} =>
           /\ First(T) \in T /\ f[First(T)] \in Nat
           /\ T \ {First(T)} \in UpTo(n) /\ T \ {First(T)} \in UpTo(n + 1)
    <3> SUFFICES ASSUME NEW T \in UpTo(n + 1), T # {}
                 PROVE  /\ First(T) \in T /\ f[First(T)] \in Nat
                        /\ T \ {First(T)} \in UpTo(n) /\ T \ {First(T)} \in UpTo(n + 1)
      OBVIOUS
    <3>1. First(T) \in T /\ IsFiniteSet(T) /\ Cardinality(T) \in Nat
      BY <1>1
    <3>2. Cardinality(T \ {First(T)}) = Cardinality(T) - 1
      BY <3>1, FS_RemoveElement
    <3> QED
      BY <3>1, <3>2
  <2> DEFINE h == Body(g, n + 1)
  <2>3. \A T \in UpTo(n) : T \in UpTo(n + 1) /\ h[T] = g[T]
    BY <1>1, <2>1 DEF SumsOn
  <2>4. h \in [UpTo(n + 1) -> Nat]
    <3> SUFFICES ASSUME NEW T \in UpTo(n + 1), T # {}
                 PROVE  f[First(T)] + g[T \ {First(T)}] \in Nat
      OBVIOUS
    <3> HIDE DEF UpTo
    <3> QED
      BY <2>1, <2>2 DEF SumsOn
  <2>5. \A T \in UpTo(n + 1) : h[T] = IF T = {} THEN 0 ELSE f[First(T)] + h[T \ {First(T)}]
    <3> SUFFICES ASSUME NEW T \in UpTo(n + 1), T # {}
                 PROVE  h[T] = f[First(T)] + h[T \ {First(T)}]
      <4>1. \A T \in UpTo(n + 1) : h[T] = IF T = {} THEN 0 ELSE f[First(T)] + g[T \ {First(T)}]
        BY Zenon
      <4> QED
        BY <4>1
    <3>1. h[T] = f[First(T)] + g[T \ {First(T)}]
      OBVIOUS
    <3>2. h[T \ {First(T)}] = g[T \ {First(T)}]
      BY <2>2, <2>3
    <3> QED
      BY <3>1, <3>2
  <2>6. SumsOn(h, f, UpTo(n + 1))
    <3> HIDE DEF h, UpTo
    <3> QED
      BY <2>4, <2>5 DEF SumsOn
  <2> HIDE DEF h, UpTo
  <2> QED
    BY <2>6
<1>4. Bad = {}
  <2> SUFFICES ASSUME Bad # {} PROVE FALSE
    OBVIOUS
  <2> DEFINE Less == OpToRel(<, Nat)
  <2>1. PICK n \in Bad : \A m \in Bad : ~(<<m, n>> \in Less)
    <3>1. IsWellFoundedOn(Less, Nat)
      BY NatLessThanWellFounded
    <3>2. Bad \subseteq Nat
      OBVIOUS
    <3> HIDE DEF Less, Bad
    <3> QED
      BY <3>1, <3>2, WFMin
  <2>2. n \in Nat /\ n # 0
    BY <1>2, <2>1
  <2>3. n - 1 \in Nat /\ n - 1 < n /\ (n - 1) + 1 = n
    BY <2>2
  <2>4. n - 1 \in Bad
    <3> HIDE DEF Bad
    <3> QED
      BY <1>3, <2>1, <2>3
  <2>5. ~(n - 1 < n)
    <3> HIDE DEF Bad
    <3> QED
      BY <2>1, <2>2, <2>3, <2>4 DEF OpToRel
  <2> QED
    BY <2>3, <2>5
<1>5. UpTo(Cardinality(S)) = SUBSET S
  BY FS_Subset
<1> QED
  <2>1. Cardinality(S) \notin Bad /\ Cardinality(S) \in Nat
    BY <1>4, FS_CardinalityType
  <2>2. \E g : SumsOn(g, f, UpTo(Cardinality(S)))
    BY <2>1
  <2> HIDE DEF UpTo
  <2> QED
    BY <2>2, <1>5

\* The recursive definition of a sum has a solution.
LEMMA SumSolved ==
  ASSUME NEW S, IsFiniteSet(S), NEW f, \A x \in S : f[x] \in Nat
  PROVE  \E g : SumsOn(g, f, SUBSET S) /\ SumFunctionOnSet(f, S) = g[S]
<1> DEFINE Body(h) == [T \in SUBSET S |-> IF T = {} THEN 0 ELSE f[First(T)] + h[T \ {First(T)}]]
           h == CHOOSE g : g = Body(g)
<1>1. SumFunctionOnSet(f, S) = h[S]
  BY DEF SumFunctionOnSet, FoldFunctionOnSet, MapThenFoldSet, First
<1>2. PICK g : SumsOn(g, f, SUBSET S)
  BY SumsExist
<1>3. g = Body(g)
  <2>1. \A T \in SUBSET S : g[T] = Body(g)[T]
    BY <1>2 DEF SumsOn
  <2>2. g = [T \in SUBSET S |-> g[T]]
    BY <1>2 DEF SumsOn
  <2>3. Body(g) = [T \in SUBSET S |-> Body(g)[T]]
    OBVIOUS
  <2> HIDE DEF Body
  <2> QED
    BY <2>1, <2>2, <2>3
<1>4. h = Body(h)
  <2> HIDE DEF Body
  <2> QED
    BY <1>3
<1> HIDE DEF h
<1>5. \A T \in SUBSET S : h[T] \in Nat
  <2> DEFINE P == {T \in SUBSET S : h[T] \in Nat}
  <2>1. {} \in P
    BY <1>4
  <2>2. ASSUME NEW T \in SUBSET S, T # {}, \A y \in T : T \ {y} \in P
        PROVE  T \in P
    <3>1. First(T) \in T
      BY <2>2 DEF First
    <3>2. h[T] = f[First(T)] + h[T \ {First(T)}]
      BY <1>4, <2>2
    <3> QED
      BY <2>2, <3>1, <3>2
  <2> HIDE DEF P
  <2>3. \A T \in SUBSET S : T \in P
    BY <2>1, <2>2, SubsetInduction
  <2> QED
    BY <2>3 DEF P
<1>6. SumsOn(h, f, SUBSET S)
  <2>1. h \in [SUBSET S -> Nat]
    BY <1>4, <1>5
  <2>2. \A T \in SUBSET S : h[T] = IF T = {} THEN 0 ELSE f[First(T)] + h[T \ {First(T)}]
    BY <1>4
  <2> QED
    BY <2>1, <2>2 DEF SumsOn
<1> QED
  BY <1>1, <1>6

\* The order in which a sum takes the members does not matter.
LEMMA SumsTake ==
  ASSUME NEW S, IsFiniteSet(S), NEW f, \A x \in S : f[x] \in Nat,
         NEW g, SumsOn(g, f, SUBSET S)
  PROVE  \A T \in SUBSET S : \A x \in T : g[T] = f[x] + g[T \ {x}]
<1> DEFINE P == {T \in SUBSET S : \A x \in T : g[T] = f[x] + g[T \ {x}]}
<1>1. {} \in P
  OBVIOUS
<1>2. ASSUME NEW T \in SUBSET S, T # {}, \A y \in T : T \ {y} \in P
      PROVE  T \in P
  <2> SUFFICES ASSUME NEW x \in T PROVE g[T] = f[x] + g[T \ {x}]
    BY DEF P
  <2> DEFINE c == First(T)
  <2>1. c \in T
    BY <1>2 DEF First
  <2> HIDE DEF c
  <2>2. g[T] = f[c] + g[T \ {c}]
    BY <1>2 DEF SumsOn, c
  <2>3. CASE x = c
    BY <2>2, <2>3
  <2>4. CASE x # c
    <3> DEFINE rest == T \ {c, x}
    <3>1. (T \ {c}) \ {x} = rest /\ (T \ {x}) \ {c} = rest /\ rest \in SUBSET S
      OBVIOUS
    <3> HIDE DEF rest
    <3>2. g[T \ {c}] = f[x] + g[rest]
      BY <1>2, <2>1, <2>4, <3>1
    <3>3. g[T \ {x}] = f[c] + g[rest]
      BY <1>2, <2>1, <2>4, <3>1
    <3>4. f[x] \in Nat /\ f[c] \in Nat /\ g[rest] \in Nat
      BY <2>1, <3>1 DEF SumsOn
    <3>5. \A m, n, r \in Nat : m + (n + r) = n + (m + r)
      OBVIOUS
    <3> QED
      BY <2>2, <3>2, <3>3, <3>4, <3>5
  <2> QED
    BY <2>3, <2>4
<1> HIDE DEF P
<1>3. \A T \in SUBSET S : T \in P
  BY <1>1, <1>2, SubsetInduction
<1> QED
  BY <1>3 DEF P

\* What a sum over a finite set is, member by member.
LEMMA SumFacts ==
  ASSUME NEW S, IsFiniteSet(S), NEW f, \A x \in S : f[x] \in Nat
  PROVE  /\ SumFunctionOnSet(f, S) \in Nat
         /\ SumFunctionOnSet(f, {}) = 0
         /\ \A x \in S : SumFunctionOnSet(f, S) = f[x] + SumFunctionOnSet(f, S \ {x})
<1>1. PICK g : SumsOn(g, f, SUBSET S) /\ SumFunctionOnSet(f, S) = g[S]
  BY SumSolved
<1>2. ASSUME NEW T \in SUBSET S
      PROVE  SumFunctionOnSet(f, T) = g[T]
  <2>1. IsFiniteSet(T) /\ \A x \in T : f[x] \in Nat
    BY FS_Subset
  <2>2. PICK h : SumsOn(h, f, SUBSET T) /\ SumFunctionOnSet(f, T) = h[T]
    BY <2>1, SumSolved
  <2> DEFINE P == {U \in SUBSET T : h[U] = g[U]}
  <2>3. {} \in P
    BY <1>1, <2>2 DEF SumsOn
  <2>4. ASSUME NEW U \in SUBSET T, U # {}, \A y \in U : U \ {y} \in P
        PROVE  U \in P
    <3>1. First(U) \in U
      BY <2>4 DEF First
    <3>2. /\ h[U] = f[First(U)] + h[U \ {First(U)}]
          /\ g[U] = f[First(U)] + g[U \ {First(U)}]
      BY <1>1, <2>2, <2>4 DEF SumsOn
    <3> QED
      BY <2>4, <3>1, <3>2
  <2> HIDE DEF P
  <2>5. T \in P
    BY <2>1, <2>3, <2>4, SubsetInduction
  <2> QED
    BY <2>2, <2>5 DEF P
<1>3. \A x \in S : g[S] = f[x] + g[S \ {x}]
  BY <1>1, SumsTake
<1>4. g[S] \in Nat /\ g[{}] = 0
  BY <1>1 DEF SumsOn
<1> QED
  BY <1>1, <1>2, <1>3, <1>4

\* A sum over two disjoint sets is the sum over both.
LEMMA SumDisjoint ==
  ASSUME NEW A, IsFiniteSet(A), NEW B, IsFiniteSet(B), A \cap B = {},
         NEW f, \A x \in A \cup B : f[x] \in Nat
  PROVE  SumFunctionOnSet(f, A \cup B) = SumFunctionOnSet(f, A) + SumFunctionOnSet(f, B)
<1> DEFINE Sum(T) == SumFunctionOnSet(f, T)
           P == {T \in SUBSET A : Sum(T \cup B) = Sum(T) + Sum(B)}
<1> HIDE DEF Sum
<1>1. \A T \in SUBSET A : IsFiniteSet(T) /\ IsFiniteSet(T \cup B)
  BY FS_Subset, FS_Union
<1>2. \A T \in SUBSET A :
         /\ Sum(T) \in Nat /\ Sum({}) = 0 /\ Sum(B) \in Nat
         /\ \A x \in T : Sum(T) = f[x] + Sum(T \ {x})
         /\ \A x \in T : Sum(T \cup B) = f[x] + Sum((T \cup B) \ {x})
  <2> SUFFICES ASSUME NEW T \in SUBSET A
               PROVE  /\ Sum(T) \in Nat /\ Sum({}) = 0 /\ Sum(B) \in Nat
                      /\ \A x \in T : Sum(T) = f[x] + Sum(T \ {x})
                      /\ \A x \in T : Sum(T \cup B) = f[x] + Sum((T \cup B) \ {x})
    OBVIOUS
  <2>1. IsFiniteSet(T) /\ IsFiniteSet(T \cup B)
    BY <1>1
  <2> QED
    BY <2>1, SumFacts DEF Sum
<1>3. {} \in P
  <2>1. {} \cup B = B
    OBVIOUS
  <2> QED
    BY <1>2, <2>1
<1>4. ASSUME NEW T \in SUBSET A, T # {}, \A y \in T : T \ {y} \in P
      PROVE  T \in P
  <2>1. PICK x \in T : TRUE
    BY <1>4
  <2> DEFINE both == (T \ {x}) \cup B
  <2>2. (T \cup B) \ {x} = both
    BY <2>1
  <2>3. Sum(both) = Sum(T \ {x}) + Sum(B)
    BY <1>4, <2>1
  <2> HIDE DEF both
  <2>4. Sum(T \cup B) = f[x] + Sum(both) /\ Sum(T) = f[x] + Sum(T \ {x})
    BY <1>2, <2>1, <2>2
  <2>5. Sum(T \ {x}) \in Nat /\ Sum(B) \in Nat /\ f[x] \in Nat
    BY <1>2, <2>1
  <2>6. \A l, m, n \in Nat : l + (m + n) = (l + m) + n
    OBVIOUS
  <2>7. Sum(T \cup B) = Sum(T) + Sum(B)
    BY <2>3, <2>4, <2>5, <2>6
  <2> QED
    BY <2>7
<1> HIDE DEF P
<1>5. A \in P
  BY <1>3, <1>4, SubsetInduction
<1> QED
  BY <1>5 DEF P, Sum

\* The rows of one key.
Fibre(R, key, k) == {i \in R : key[i] = k}

\* A sum over rows is the sum over the keys of the sums over the rows of each key.
LEMMA SumByKey ==
  ASSUME NEW K, IsFiniteSet(K), NEW R, IsFiniteSet(R), NEW f, \A i \in R : f[i] \in Nat,
         NEW key, \A i \in R : key[i] \in K,
         NEW t, \A k \in K : t[k] = SumFunctionOnSet(f, Fibre(R, key, k))
  PROVE  SumFunctionOnSet(f, R) = SumFunctionOnSet(t, K)
<1> DEFINE Rows(L) == {i \in R : key[i] \in L}
           P == {L \in SUBSET K : SumFunctionOnSet(f, Rows(L)) = SumFunctionOnSet(t, L)}
<1>1. \A L : IsFiniteSet(Rows(L)) /\ \A i \in Rows(L) : f[i] \in Nat
  BY FS_Subset
<1>2. \A k \in K : IsFiniteSet(Fibre(R, key, k)) /\ t[k] \in Nat
  <2> SUFFICES ASSUME NEW k \in K
               PROVE  IsFiniteSet(Fibre(R, key, k)) /\ t[k] \in Nat
    OBVIOUS
  <2>1. IsFiniteSet(Fibre(R, key, k)) /\ \A i \in Fibre(R, key, k) : f[i] \in Nat
    BY FS_Subset DEF Fibre
  <2>2. SumFunctionOnSet(f, Fibre(R, key, k)) \in Nat
    BY <2>1, SumFacts
  <2> QED
    BY <2>1, <2>2
<1>3. {} \in P
  <2>1. Rows({}) = {}
    OBVIOUS
  <2>2. SumFunctionOnSet(f, {}) = 0 /\ SumFunctionOnSet(t, {}) = 0
    BY SumFacts, <1>2
  <2> QED
    BY <2>1, <2>2
<1>4. ASSUME NEW L \in SUBSET K, L # {}, \A y \in L : L \ {y} \in P
      PROVE  L \in P
  <2>1. PICK k \in L : TRUE
    BY <1>4
  <2> DEFINE own == Fibre(R, key, k)
             rest == Rows(L \ {k})
  <2>2. Rows(L) = own \cup rest /\ own \cap rest = {}
    BY <2>1 DEF Fibre
  <2>3. /\ IsFiniteSet(own) /\ IsFiniteSet(rest)
        /\ \A i \in own \cup rest : f[i] \in Nat
    BY <1>1, <1>2, <2>1 DEF Fibre
  <2>4. SumFunctionOnSet(f, rest) = SumFunctionOnSet(t, L \ {k})
    BY <1>4, <2>1
  <2>5. SumFunctionOnSet(f, own) = t[k]
    BY <2>1
  <2>6. SumFunctionOnSet(t, L) = t[k] + SumFunctionOnSet(t, L \ {k})
    <3>1. IsFiniteSet(L) /\ \A x \in L : t[x] \in Nat
      BY <1>2, FS_Subset
    <3> QED
      BY <2>1, <3>1, SumFacts
  <2> HIDE DEF own, rest
  <2>7. SumFunctionOnSet(f, own \cup rest) = SumFunctionOnSet(f, own) + SumFunctionOnSet(f, rest)
    BY <2>2, <2>3, SumDisjoint
  <2>8. SumFunctionOnSet(f, Rows(L)) = SumFunctionOnSet(t, L)
    BY <2>2, <2>4, <2>5, <2>6, <2>7
  <2> QED
    BY <2>8
<1> HIDE DEF P
<1>5. K \in P
  <2>1. \A L \in SUBSET K : L # {} /\ (\A k \in L : L \ {k} \in P) => L \in P
    BY <1>4
  <2>2. \A L \in SUBSET K : L \in P
    BY <1>3, <2>1, SubsetInduction
  <2> QED
    BY <2>2
<1>6. Rows(K) = R
  OBVIOUS
<1> QED
  BY <1>5, <1>6 DEF P

\* The number of elements is the sum of ones.
LEMMA SumOfOnes ==
  ASSUME NEW R, IsFiniteSet(R), NEW f, \A i \in R : f[i] = 1
  PROVE  Cardinality(R) = SumFunctionOnSet(f, R)
<1> DEFINE P == {T \in SUBSET R : Cardinality(T) = SumFunctionOnSet(f, T)}
<1>1. {} \in P
  BY SumFacts, FS_EmptySet
<1>2. ASSUME NEW T \in SUBSET R, T # {}, \A y \in T : T \ {y} \in P
      PROVE  T \in P
  <2>1. PICK x \in T : TRUE
    BY <1>2
  <2>2. IsFiniteSet(T) /\ (\A y \in T : f[y] \in Nat) /\ f[x] = 1
    BY FS_Subset, <2>1
  <2>3. SumFunctionOnSet(f, T) = f[x] + SumFunctionOnSet(f, T \ {x})
    BY <2>1, <2>2, SumFacts
  <2>4. Cardinality(T) \in Nat /\ Cardinality(T \ {x}) = Cardinality(T) - 1
    BY <2>1, <2>2, FS_CardinalityType, FS_RemoveElement
  <2>5. Cardinality(T \ {x}) = SumFunctionOnSet(f, T \ {x})
    BY <1>2, <2>1
  <2> QED
    BY <2>2, <2>3, <2>4, <2>5
<1> HIDE DEF P
<1>3. R \in P
  BY <1>1, <1>2, SubsetInduction
<1> QED
  BY <1>3 DEF P

-----------------------------------------------------------------------------
(* The statistics.                                                         *)

\* What the statistics add up of each row.
Ones == [i \in DOMAIN ledger |-> 1]
Costs == [i \in DOMAIN ledger |-> ledger[i].usd]
Reads == [i \in DOMAIN ledger |-> ShownRead(ledger[i].detail)]
Tokens == [i \in DOMAIN ledger |-> ShownTotal(ledger[i].detail)]
KeyTokens ==
  [i \in DOMAIN ledger |->
     LET d == ledger[i].detail
     IN IF d.total > 0 THEN d.total ELSE d.input + d.output + d.reasoning + d.cached]

\* All of them are natural numbers.
LEMMA RowsTyped ==
  ASSUME ledger \in Seq(Row)
  PROVE  /\ IsFiniteSet(DOMAIN ledger)
         /\ \A i \in DOMAIN ledger :
              /\ ledger[i].key \in Keys /\ ledger[i].at \in Nat
              /\ Ones[i] = 1 /\ Costs[i] \in Nat /\ Reads[i] \in Nat /\ Tokens[i] \in Nat
              /\ KeyTokens[i] \in Nat
<1>1. DOMAIN ledger = 1 .. Len(ledger) /\ Len(ledger) \in Nat
  OBVIOUS
<1>2. IsFiniteSet(DOMAIN ledger)
  BY <1>1, FS_Interval
<1>3. ASSUME NEW i \in DOMAIN ledger
      PROVE  /\ ledger[i].key \in Keys /\ ledger[i].at \in Nat
             /\ Ones[i] = 1 /\ Costs[i] \in Nat /\ Reads[i] \in Nat /\ Tokens[i] \in Nat
             /\ KeyTokens[i] \in Nat
  <2> DEFINE d == ledger[i].detail
  <2>1. ledger[i] \in Row
    BY <1>1
  <2>2. d \in Details /\ ledger[i].usd \in Nat /\ ledger[i].key \in Keys /\ ledger[i].at \in Nat
    BY <2>1, BillingAssumption DEF Row
  <2> HIDE DEF d
  <2>3. /\ d.input \in Nat /\ d.output \in Nat /\ d.cached \in Nat /\ d.read \in Nat
        /\ d.reasoning \in Nat /\ d.total \in Nat
    BY <2>2 DEF Details
  <2>4. ShownRead(d) \in Nat
    BY <2>3 DEF ShownRead
  <2>5. ShownInput(d) \in Nat
    BY <2>3, <2>4 DEF ShownInput, AtLeast0
  <2>6. ShownTotal(d) \in Nat
    BY <2>3, <2>4, <2>5 DEF ShownTotal
  <2>7. KeyTokens[i] = IF d.total > 0 THEN d.total ELSE d.input + d.output + d.reasoning + d.cached
    BY DEF KeyTokens, d
  <2>8. KeyTokens[i] \in Nat
    BY <2>3, <2>7
  <2>9. Ones[i] = 1 /\ Costs[i] = ledger[i].usd /\ Reads[i] = ShownRead(d) /\ Tokens[i] = ShownTotal(d)
    BY DEF Ones, Costs, Reads, Tokens, d
  <2> QED
    BY <2>2, <2>4, <2>6, <2>8, <2>9
<1> QED
  BY <1>2, <1>3

\* The summary and the totals are sums over rows.
LEMMA SummaryIs ==
  ASSUME NEW keys, NEW since, NEW before
  PROVE  UsageSummary(keys, since, before) =
           LET ids == RowsOf(keys, since, before)
           IN [requests |-> Cardinality(ids), cost |-> SumFunctionOnSet(Costs, ids),
               read |-> SumFunctionOnSet(Reads, ids),
               tokens |-> SumFunctionOnSet(Tokens, ids)]
  BY DEF UsageSummary, Total, Costs, Reads, Tokens

LEMMA TotalIs ==
  ASSUME NEW k, NEW since, NEW before
  PROVE  UsageTotal(k, since, before) =
           LET ids == RowsOf({k}, since, before)
           IN [requests |-> Cardinality(ids), cost |-> SumFunctionOnSet(Costs, ids),
               tokens |-> SumFunctionOnSet(KeyTokens, ids)]
  BY DEF UsageTotal, Total, Costs, KeyTokens

\* Every row of a window belongs to one key.
LEMMA TotalsByKey ==
  ASSUME ledger \in Seq(Row), NEW since, NEW before,
         NEW f, \A i \in DOMAIN ledger : f[i] \in Nat
  PROVE  SumFunctionOnSet(f, RowsOf(Keys, since, before)) =
           SumFunction([k \in Keys |-> SumFunctionOnSet(f, RowsOf({k}, since, before))])
<1> DEFINE R == RowsOf(Keys, since, before)
           key == [i \in DOMAIN ledger |-> ledger[i].key]
           t == [k \in Keys |-> SumFunctionOnSet(f, RowsOf({k}, since, before))]
<1>1. IsFiniteSet(R) /\ R \subseteq DOMAIN ledger
  BY RowsTyped, FS_Subset DEF RowsOf
<1>2. \A i \in R : key[i] \in Keys /\ f[i] \in Nat
  BY <1>1, RowsTyped
<1>3. \A k \in Keys : RowsOf({k}, since, before) = Fibre(R, key, k)
  BY DEF RowsOf, Fibre
<1>4. \A k \in Keys : t[k] = SumFunctionOnSet(f, Fibre(R, key, k))
  BY <1>3
<1>5. SumFunction(t) = SumFunctionOnSet(t, Keys)
  BY DEF SumFunction
<1> HIDE DEF R, key, t
<1>6. SumFunctionOnSet(f, R) = SumFunctionOnSet(t, Keys)
  <2>1. IsFiniteSet(Keys)
    BY BillingAssumption
  <2>2. (\A i \in R : f[i] \in Nat) /\ (\A i \in R : key[i] \in Keys)
    BY <1>2
  <2> QED
    BY <1>1, <1>4, <2>1, <2>2, SumByKey
<1> QED
  BY <1>5, <1>6 DEF R, t

\* A row belongs to one of two adjoining windows.
LEMMA WindowsAdjoin ==
  ASSUME ledger \in Seq(Row), NEW since \in Int, NEW mid \in Int, NEW before \in Int,
         since =< mid, mid =< before,
         NEW f, \A i \in DOMAIN ledger : f[i] \in Nat
  PROVE  SumFunctionOnSet(f, RowsOf(Keys, since, before)) =
           SumFunctionOnSet(f, RowsOf(Keys, since, mid))
             + SumFunctionOnSet(f, RowsOf(Keys, mid, before))
<1> DEFINE A == RowsOf(Keys, since, mid)
           B == RowsOf(Keys, mid, before)
<1>1. /\ IsFiniteSet(A) /\ A \subseteq DOMAIN ledger
      /\ IsFiniteSet(B) /\ B \subseteq DOMAIN ledger
  BY RowsTyped, FS_Subset DEF RowsOf
<1>2. A \cap B = {}
  BY RowsTyped DEF RowsOf, InWindow
<1>3. A \cup B = RowsOf(Keys, since, before)
  BY RowsTyped DEF RowsOf, InWindow
<1> HIDE DEF A, B
<1>4. SumFunctionOnSet(f, A \cup B) = SumFunctionOnSet(f, A) + SumFunctionOnSet(f, B)
  BY <1>1, <1>2, SumDisjoint
<1> QED
  BY <1>3, <1>4 DEF A, B

\* Whatever is in the ledger, windows and keys add up.
LEMMA AddUp == ledger \in Seq(Row) => StatisticsAddUp
<1> SUFFICES ASSUME ledger \in Seq(Row),
                    NEW since \in 0 .. MaxTick + 1, NEW before \in 0 .. MaxTick + 1,
                    since < before
             PROVE  LET all == UsageSummary(Keys, since, before)
                        totals == [k \in Keys |-> UsageTotal(k, since, before)]
                        stated == \A i \in DOMAIN ledger : ledger[i].detail.total > 0
                    IN /\ all.requests = SumFunction([k \in Keys |-> totals[k].requests])
                       /\ all.cost = SumFunction([k \in Keys |-> totals[k].cost])
                       /\ stated => all.tokens = SumFunction([k \in Keys |-> totals[k].tokens])
                       /\ \A mid \in since + 1 .. before - 1 :
                            LET first == UsageSummary(Keys, since, mid)
                                second == UsageSummary(Keys, mid, before)
                            IN \A n \in DOMAIN all : all[n] = first[n] + second[n]
  BY DEF StatisticsAddUp
<1> DEFINE all == UsageSummary(Keys, since, before)
           totals == [k \in Keys |-> UsageTotal(k, since, before)]
           stated == \A i \in DOMAIN ledger : ledger[i].detail.total > 0
           rows == RowsOf(Keys, since, before)
           rowsOf(k) == RowsOf({k}, since, before)
<1>1. \A i \in DOMAIN ledger :
         Ones[i] \in Nat /\ Costs[i] \in Nat /\ Reads[i] \in Nat /\ Tokens[i] \in Nat
         /\ KeyTokens[i] \in Nat
  BY RowsTyped
<1>2. \A keys, from, to : Cardinality(RowsOf(keys, from, to)) = SumFunctionOnSet(Ones, RowsOf(keys, from, to))
  <2> SUFFICES ASSUME NEW keys, NEW from, NEW to
               PROVE  Cardinality(RowsOf(keys, from, to)) = SumFunctionOnSet(Ones, RowsOf(keys, from, to))
    OBVIOUS
  <2>1. IsFiniteSet(RowsOf(keys, from, to)) /\ \A i \in RowsOf(keys, from, to) : Ones[i] = 1
    BY RowsTyped, FS_Subset DEF RowsOf
  <2> QED
    BY <2>1, SumOfOnes
<1>3. /\ all.requests = SumFunctionOnSet(Ones, rows)
      /\ all.cost = SumFunctionOnSet(Costs, rows)
      /\ all.read = SumFunctionOnSet(Reads, rows)
      /\ all.tokens = SumFunctionOnSet(Tokens, rows)
      /\ DOMAIN all = {"requests", "cost", "read", "tokens"}
  BY <1>2, SummaryIs
<1>4. \A k \in Keys : /\ totals[k].requests = SumFunctionOnSet(Ones, rowsOf(k))
                      /\ totals[k].cost = SumFunctionOnSet(Costs, rowsOf(k))
                      /\ totals[k].tokens = SumFunctionOnSet(KeyTokens, rowsOf(k))
  BY <1>2, TotalIs
<1> HIDE DEF all, totals
<1>5. all.requests = SumFunction([k \in Keys |-> totals[k].requests])
  <2>1. [k \in Keys |-> totals[k].requests] = [k \in Keys |-> SumFunctionOnSet(Ones, rowsOf(k))]
    BY <1>4
  <2>2. SumFunctionOnSet(Ones, rows) = SumFunction([k \in Keys |-> SumFunctionOnSet(Ones, rowsOf(k))])
    <3>1. \A i \in DOMAIN ledger : Ones[i] \in Nat
      BY <1>1
    <3> QED
      BY <3>1, TotalsByKey
  <2> QED
    BY <1>3, <2>1, <2>2
<1>6. all.cost = SumFunction([k \in Keys |-> totals[k].cost])
  <2>1. [k \in Keys |-> totals[k].cost] = [k \in Keys |-> SumFunctionOnSet(Costs, rowsOf(k))]
    BY <1>4
  <2>2. SumFunctionOnSet(Costs, rows) = SumFunction([k \in Keys |-> SumFunctionOnSet(Costs, rowsOf(k))])
    <3>1. \A i \in DOMAIN ledger : Costs[i] \in Nat
      BY <1>1
    <3> QED
      BY <3>1, TotalsByKey
  <2> QED
    BY <1>3, <2>1, <2>2
<1>7. ASSUME stated PROVE all.tokens = SumFunction([k \in Keys |-> totals[k].tokens])
  <2>1. [k \in Keys |-> totals[k].tokens] = [k \in Keys |-> SumFunctionOnSet(KeyTokens, rowsOf(k))]
    BY <1>4
  <2>2. KeyTokens = Tokens
    BY <1>7 DEF KeyTokens, Tokens, ShownTotal
  <2>3. SumFunctionOnSet(KeyTokens, rows) = SumFunction([k \in Keys |-> SumFunctionOnSet(KeyTokens, rowsOf(k))])
    <3>1. \A i \in DOMAIN ledger : KeyTokens[i] \in Nat
      BY <1>1
    <3> QED
      BY <3>1, TotalsByKey
  <2> QED
    BY <1>3, <2>1, <2>2, <2>3
<1>8. ASSUME NEW mid \in since + 1 .. before - 1
      PROVE  \A n \in DOMAIN all :
                all[n] = UsageSummary(Keys, since, mid)[n] + UsageSummary(Keys, mid, before)[n]
  <2> DEFINE first == UsageSummary(Keys, since, mid)
             second == UsageSummary(Keys, mid, before)
             early == RowsOf(Keys, since, mid)
             late == RowsOf(Keys, mid, before)
  <2>1. /\ first.requests = SumFunctionOnSet(Ones, early)
        /\ first.cost = SumFunctionOnSet(Costs, early)
        /\ first.read = SumFunctionOnSet(Reads, early)
        /\ first.tokens = SumFunctionOnSet(Tokens, early)
    BY <1>2, SummaryIs
  <2>2. /\ second.requests = SumFunctionOnSet(Ones, late)
        /\ second.cost = SumFunctionOnSet(Costs, late)
        /\ second.read = SumFunctionOnSet(Reads, late)
        /\ second.tokens = SumFunctionOnSet(Tokens, late)
    BY <1>2, SummaryIs
  <2>3. since \in Int /\ mid \in Int /\ before \in Int /\ since =< mid /\ mid =< before
    BY BillingAssumption
  <2> HIDE DEF first, second
  <2>4. ASSUME NEW f, \A i \in DOMAIN ledger : f[i] \in Nat
        PROVE  SumFunctionOnSet(f, rows) = SumFunctionOnSet(f, early) + SumFunctionOnSet(f, late)
    BY <2>3, <2>4, WindowsAdjoin
  <2> HIDE DEF rows, early, late
  <2>5. /\ all.requests = first.requests + second.requests
        /\ all.cost = first.cost + second.cost
        /\ all.read = first.read + second.read
        /\ all.tokens = first.tokens + second.tokens
    BY <1>1, <1>3, <2>1, <2>2, <2>4
  <2>6. \A n \in DOMAIN all : all[n] = first[n] + second[n]
    BY <1>3, <2>5
  <2> QED
    BY <2>6 DEF first, second
<1> QED
  BY <1>5, <1>6, <1>7, <1>8 DEF all, totals

\* The statistics of adjoining windows add up, and so do those of the keys.
THEOREM SummariesAddUp == Spec => []StatisticsAddUp
<1>1. IInv => StatisticsAddUp
  BY AddUp DEF IInv, LedgerOK
<1> QED
  BY Inductive, <1>1, PTL
=============================================================================
