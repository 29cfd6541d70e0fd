-------------------------- MODULE RequestFlowProofs --------------------------
(***************************************************************************)
(* Proofs about RequestFlow, for any keys, accounts, requests in flight,   *)
(* limits, price lists and clocks: no usage outlives its key, metered      *)
(* requests are charged, a window's limit is passed by less than a charge  *)
(* for each request, and the whole implements Budget.                      *)
(***************************************************************************)
EXTENDS RequestFlow, FiniteSetTheorems, TLAPS

Records ==
    [pc : PCs, key : Keys \cup {None}, now : 0 .. MaxTick,
     limits : LimitChoices \cup {NoLimits}, metered : BOOLEAN,
     provider : Providers \cup {None}, model : Models \cup {None},
     auth : Auths \cup {None},
     billed : (Providers \cup {None}) \X (Models \cup {None}), usd : Nat]

\* The rows of keys and of the ledger.
TablesTyped ==
    /\ keyState \in [Keys -> {"unborn", "live", "deleted"}]
    /\ enabled \in [Keys -> BOOLEAN]
    /\ limits \in [Keys -> LimitChoices \cup {NoLimits}]
    /\ bindings \in [Keys -> SUBSET Auths]
    /\ price \in PriceLists
    /\ ledger \in [Keys -> [0 .. MaxTick -> Nat]]
    /\ clock \in 0 .. MaxTick

\* What a record of a request carries from route to insert: it is metered only after
\* model.route, and then its model, if it was named, has a price at its provider unless the
\* rules have changed.
Sound(r, rec) ==
    /\ rec \in Records
    /\ rec.pc # "idle" => rec.key \in Keys
    /\ rec.pc \in {"five", "week", "total", "validate", "route"} => ~rec.metered
    /\ Chargeable /\ rec.metered /\ r \notin repriced =>
          /\ rec.pc \in {"pick", "running", "usage"} =>
                /\ rec.provider # None
                /\ rec.model # None => HasPrice(rec.provider, rec.model)
          /\ rec.pc = "insert" /\ rec.billed = <<rec.provider, rec.model>>
                /\ rec.model # None => rec.usd > 0
    /\ rec.pc \in {"running", "usage", "insert"} => rec.provider \in Providers

RequestsSound ==
    /\ req \in [Requests -> Records]
    /\ \A r \in Requests : Sound(r, req[r])
    /\ repriced \in SUBSET Requests

IInv == TablesTyped /\ RequestsSound /\ LedgerOwned

-----------------------------------------------------------------------------
\* A charge is a natural number, and positive for units at a price.
LEMMA CostTyped ==
  ASSUME TablesTyped, NEW p, NEW m, NEW units \in Units
  PROVE  /\ Cost(p, m, units) \in Nat
         /\ Chargeable /\ HasPrice(p, m) => Cost(p, m, units) > 0
<1>1. units \in Nat
  BY FlowAssumption
<1>2. \A a, b \in Nat : a * b \in Nat /\ (a # 0 /\ b # 0 => a * b > 0)
  OBVIOUS
<1>3. CASE HasPrice(p, m)
  <2>1. /\ <<p, m>> \in Providers \X Models /\ price \in PriceLists
        /\ price[<<p, m>>] # NoRule /\ Cost(p, m, units) = price[<<p, m>>] * units
    BY <1>3 DEF HasPrice, Cost, TablesTyped
  <2>2. price[<<p, m>>] \in Nat
    BY <2>1, FlowAssumption
  <2>3. Chargeable => price[<<p, m>>] # 0 /\ units # 0
    BY <2>1 DEF Chargeable
  <2> QED
    BY <1>1, <1>2, <2>1, <2>2, <2>3
<1>4. CASE ~HasPrice(p, m)
  BY <1>4 DEF Cost
<1> QED
  BY <1>3, <1>4

\* A request that is not in flight.
LEMMA IdleSound ==
  ASSUME NEW r \in Requests
  PROVE  Sound(r, Idle) /\ Sound(r, Idle)' /\ Idle \in Records /\ Idle.pc = "idle"
<1>1. Idle \in Records /\ Idle.pc = "idle" /\ Idle.metered = FALSE
  BY FlowAssumption DEF Idle, Records, PCs
<1> QED
  BY <1>1 DEF Sound

LEMMA InitInv == Init => IInv
<1> SUFFICES ASSUME Init PROVE IInv
  OBVIOUS
<1>1. NoLimits \in LimitChoices \cup {NoLimits} /\ 0 \in 0 .. MaxTick
  BY FlowAssumption
<1>2. TablesTyped /\ LedgerOwned
  BY <1>1 DEF Init, TablesTyped, LedgerOwned
<1>3. RequestsSound
  BY IdleSound DEF Init, RequestsSound
<1> QED
  BY <1>2, <1>3 DEF IInv

\* The tables: only usage.handle adds to the ledger, and only for a key that lives.
LEMMA TablesStep == IInv /\ [Next]_vars => TablesTyped' /\ LedgerOwned'
<1> SUFFICES ASSUME IInv, [Next]_vars PROVE TablesTyped' /\ LedgerOwned'
  OBVIOUS
<1> USE DEF IInv, TablesTyped, LedgerOwned
<1>1. ASSUME NEW k \in Keys, NEW S \in BindingSets, NEW lim \in LimitChoices,
             CreateKey(k, S, lim)
      PROVE  TablesTyped' /\ LedgerOwned'
  BY <1>1, FlowAssumption DEF CreateKey
<1>2. ASSUME NEW k \in Keys, NEW S \in BindingSets, NEW lim \in LimitChoices,
             NEW on \in BOOLEAN, UpdateKey(k, on, S, lim)
      PROVE  TablesTyped' /\ LedgerOwned'
  BY <1>2, FlowAssumption DEF UpdateKey
<1>3. ASSUME NEW k \in Keys, DeleteKey(k)
      PROVE  TablesTyped' /\ LedgerOwned'
  BY <1>3 DEF DeleteKey
<1>4. ASSUME NEW r \in Requests, UsageInsert(r)
      PROVE  TablesTyped' /\ LedgerOwned'
  <2> DEFINE k == req[r].key
             t == req[r].now
  <2>1. k \in Keys /\ t \in 0 .. MaxTick /\ req[r].usd \in Nat
    BY <1>4 DEF UsageInsert, At, RequestsSound, Sound, Records
  <2>2. UNCHANGED <<keyState, enabled, limits, bindings, price, clock>>
    BY <1>4 DEF UsageInsert, keyRows
  <2>3. CASE keyState[k] = "live"
    <3> DEFINE row == [ledger[k] EXCEPT ![t] = @ + req[r].usd]
    <3>1. ledger' = [ledger EXCEPT ![k] = row]
      BY <1>4, <2>3 DEF UsageInsert
    <3>2. row \in [0 .. MaxTick -> Nat]
      <4>1. ledger[k] \in [0 .. MaxTick -> Nat]
        BY <2>1
      <4> HIDE DEF k, t
      <4> QED
        BY <2>1, <4>1
    <3> HIDE DEF k, t, row
    <3>3. ledger' \in [Keys -> [0 .. MaxTick -> Nat]]
      BY <2>1, <3>1, <3>2
    <3>4. \A l \in Keys : l # k => ledger'[l] = ledger[l]
      BY <3>1
    <3> QED
      BY <2>2, <2>3, <3>3, <3>4
  <2>4. CASE keyState[k] # "live"
    BY <1>4, <2>2, <2>4 DEF UsageInsert
  <2> QED
    BY <2>3, <2>4
<1>5. ASSUME UNCHANGED <<keyRows, ledger>>, price' \in PriceLists, clock' \in 0 .. MaxTick
      PROVE  TablesTyped' /\ LedgerOwned'
  BY <1>5 DEF keyRows
<1>6. ASSUME NEW r \in Requests, Handle(r) \/ (\E k \in Keys : Present(r, k)), ~UsageInsert(r)
      PROVE  UNCHANGED <<keyRows, price, ledger, clock>>
  BY <1>6 DEF Handle, Present, CheckFiveHours, CheckWeek, CheckTotal, CheckSum, Validate,
              Route, Pick, QueryFails, UsageLookup, UsageLost, UsagePrice
<1>7. CASE Tick
  BY <1>7, <1>5, FlowAssumption DEF Tick, keyRows
<1>8. CASE Restart \/ (\E list \in PriceLists : SetPrices(list)) \/ UNCHANGED vars
  BY <1>8, <1>5 DEF Restart, SetPrices, vars, keyRows
<1> QED
  BY <1>1, <1>2, <1>3, <1>4, <1>5, <1>6, <1>7, <1>8 DEF Next

\* A change of one request, while the price rules stay.
LEMMA StepSound ==
  ASSUME IInv, NEW r \in Requests, NEW rec, Step(r, rec), Sound(r, rec), UNCHANGED price
  PROVE  RequestsSound'
<1>1. /\ req' = [req EXCEPT ![r] = rec]
      /\ repriced' = IF rec.pc = "idle" THEN repriced \ {r} ELSE repriced
  BY DEF Step
<1>2. req \in [Requests -> Records] /\ repriced \in SUBSET Requests
      /\ \A q \in Requests : Sound(q, req[q])
  BY DEF IInv, RequestsSound
<1>3. rec \in Records
  BY DEF Sound
<1>4. /\ req' \in [Requests -> Records] /\ repriced' \in SUBSET Requests
      /\ req'[r] = rec /\ \A q \in Requests : q # r => req'[q] = req[q]
  BY <1>1, <1>2, <1>3
<1>5. ASSUME NEW q \in Requests PROVE Sound(q, req[q])'
  <2>1. Sound(q, req'[q])
    BY <1>2, <1>4
  <2>2. req'[q].pc = "idle" \/ (q \in repriced' <=> q \in repriced)
    BY <1>1, <1>4
  <2>3. CASE req'[q].pc = "idle"
    BY <2>1, <2>3 DEF Sound
  <2>4. CASE q \in repriced' <=> q \in repriced
    BY <2>1, <2>4 DEF Sound, HasPrice
  <2> QED
    BY <2>2, <2>3, <2>4
<1> QED
  BY <1>4, <1>5 DEF RequestsSound

\* A step through the checks that only moves the request on.
LEMMA MoveSound ==
  ASSUME IInv, NEW r \in Requests, NEW pc \in {"week", "total", "validate"},
         req[r].pc \in {"five", "week", "total"}, Goto(r, pc), UNCHANGED price
  PROVE  RequestsSound'
<1> DEFINE rec == [req[r] EXCEPT !.pc = pc]
<1>1. Sound(r, req[r]) /\ req[r] \in Records
  BY DEF IInv, RequestsSound, Sound
<1>2. /\ rec \in Records /\ rec.pc = pc /\ rec.key = req[r].key
      /\ rec.metered = req[r].metered
  BY <1>1 DEF Records, PCs
<1>3. Step(r, rec)
  BY DEF Goto
<1> HIDE DEF rec
<1>4. Sound(r, rec)
  BY <1>1, <1>2 DEF Sound
<1> QED
  BY <1>3, <1>4, StepSound

\* The request ends.
LEMMA EndSound ==
  ASSUME IInv, NEW r \in Requests, End(r), UNCHANGED price
  PROVE  RequestsSound'
  BY IdleSound, StepSound DEF End

\* A metered request is routed to a provider with a price, keeps the provider in the
\* pick, and is charged by that price.
LEMMA RequestsStep == IInv /\ [Next]_vars => RequestsSound'
<1> SUFFICES ASSUME IInv, [Next]_vars PROVE RequestsSound'
  OBVIOUS
<1>a. \A r \in Requests : req[r] \in Records /\ Sound(r, req[r])
  BY DEF IInv, RequestsSound, Sound
<1>t. TablesTyped
  BY DEF IInv
<1>1. ASSUME NEW r \in Requests, NEW k \in Keys, Present(r, k) PROVE RequestsSound'
  <2> DEFINE rec == [Idle EXCEPT !.pc = "five", !.key = k, !.now = clock,
                                 !.limits = limits[k]]
  <2>1. /\ rec \in Records /\ rec.pc = "five" /\ rec.key = k /\ rec.metered = FALSE
    BY <1>t, IdleSound DEF Idle, Records, PCs, TablesTyped
  <2>2. Step(r, rec) /\ UNCHANGED price
    BY <1>1 DEF Present
  <2> HIDE DEF rec
  <2>3. Sound(r, rec)
    BY <2>1 DEF Sound
  <2> QED
    BY <2>2, <2>3, StepSound
<1>2. ASSUME NEW r \in Requests, CheckFiveHours(r) \/ CheckWeek(r) \/ CheckTotal(r)
      PROVE  RequestsSound'
  <2>1. /\ UNCHANGED price /\ req[r].pc \in {"five", "week", "total"}
        /\ End(r) \/ (\E pc \in {"week", "total", "validate"} : Goto(r, pc))
    BY <1>2 DEF CheckFiveHours, CheckWeek, CheckTotal, CheckSum, At
  <2> QED
    BY <2>1, EndSound, MoveSound
<1>3. ASSUME NEW r \in Requests, NEW asked \in Models \cup {None}, Validate(r, asked)
      PROVE  RequestsSound'
  <2> DEFINE rec == [req[r] EXCEPT !.pc = "route", !.model = asked]
  <2>1. UNCHANGED price /\ req[r].pc = "validate" /\ (End(r) \/ Step(r, rec))
    BY <1>3 DEF Validate, At
  <2>2. /\ rec \in Records /\ rec.pc = "route" /\ rec.key = req[r].key
        /\ rec.metered = req[r].metered
    BY <1>a DEF Records, PCs
  <2> HIDE DEF rec
  <2>3. Sound(r, rec)
    BY <2>1, <2>2, <1>a DEF Sound
  <2> QED
    BY <2>1, <2>3, EndSound, StepSound
<1>4. ASSUME NEW r \in Requests, NEW m \in Models \cup {None}, Route(r, m)
      PROVE  RequestsSound'
  <2> DEFINE k == req[r].key
  <2>0. req[r].pc = "route" /\ UNCHANGED price /\ k \in Keys /\ ~req[r].metered
    BY <1>4, <1>a DEF Route, At, Sound
  <2>1. CASE End(r)
    BY <2>0, <2>1, EndSound
  <2>2. CASE Goto(r, "pick")
    <3> DEFINE rec == [req[r] EXCEPT !.pc = "pick"]
    <3>1. rec \in Records /\ rec.pc = "pick" /\ rec.key = k /\ ~rec.metered
      BY <2>0, <1>a DEF Records, PCs
    <3>2. Step(r, rec)
      BY <2>2 DEF Goto
    <3> HIDE DEF rec, k
    <3>3. Sound(r, rec)
      BY <2>0, <3>1 DEF Sound
    <3> QED
      BY <2>0, <3>2, <3>3, StepSound
  <2>3. ASSUME NEW p \in Routable(k, m),
               Step(r, [req[r] EXCEPT !.pc = "pick", !.provider = p, !.model = m,
                                      !.metered = Limited(limits[k])])
        PROVE  RequestsSound'
    <3> DEFINE rec == [req[r] EXCEPT !.pc = "pick", !.provider = p, !.model = m,
                                     !.metered = Limited(limits[k])]
    <3>1. p \in Providers /\ p # None
      BY <2>0, <1>t, FlowAssumption DEF Routable, ScopeProviders, TablesTyped
    <3>2. Limited(limits[k]) /\ ~AllowUnpriced /\ m # None => HasPrice(p, m)
      BY DEF Routable
    <3>3. Limited(limits[k]) \in BOOLEAN
      BY DEF Limited
    <3>4. /\ rec \in Records /\ rec.pc = "pick" /\ rec.key = k /\ rec.provider = p
          /\ rec.model = m /\ rec.metered = Limited(limits[k])
      BY <3>1, <3>3, <1>a DEF Records, PCs
    <3>5. Step(r, rec)
      BY <2>3
    <3> HIDE DEF rec, k
    <3>6. Sound(r, rec)
      BY <2>0, <3>1, <3>2, <3>4 DEF Sound, Chargeable
    <3> QED
      BY <2>0, <3>5, <3>6, StepSound
  <2> QED
    BY <1>4, <2>1, <2>2, <2>3 DEF Route
<1>5. ASSUME NEW r \in Requests, Pick(r) PROVE RequestsSound'
  <2>0. req[r].pc = "pick" /\ UNCHANGED price
    BY <1>5 DEF Pick, At
  <2>1. ASSUME NEW a \in Offered(r),
               Step(r, [req[r] EXCEPT !.pc = "running", !.auth = a,
                                      !.provider = AuthProvider[a]])
        PROVE  RequestsSound'
    <3> DEFINE rec == [req[r] EXCEPT !.pc = "running", !.auth = a,
                                     !.provider = AuthProvider[a]]
    <3>1. /\ a \in Auths /\ AuthProvider[a] \in Providers /\ AuthProvider[a] # None
          /\ req[r].provider \in {None, AuthProvider[a]}
      BY FlowAssumption DEF Offered
    <3>2. /\ rec \in Records /\ rec.pc = "running" /\ rec.key = req[r].key
          /\ rec.metered = req[r].metered /\ rec.provider = AuthProvider[a]
          /\ rec.model = req[r].model
      BY <3>1, <1>a DEF Records, PCs
    <3>3. Step(r, rec)
      BY <2>1
    <3> HIDE DEF rec
    <3>4. Sound(r, rec)
      BY <2>0, <3>1, <3>2, <1>a DEF Sound
    <3> QED
      BY <2>0, <3>3, <3>4, StepSound
  <2> QED
    BY <1>5, <2>0, <2>1, EndSound DEF Pick
<1>6. ASSUME NEW r \in Requests, QueryFails(r) \/ UsageInsert(r) \/ UsageLost(r)
      PROVE  RequestsSound'
  BY <1>6, EndSound DEF QueryFails, UsageInsert, UsageLost
<1>7. ASSUME NEW r \in Requests, UsageLookup(r) PROVE RequestsSound'
  <2>0. req[r].pc = "running" /\ UNCHANGED price /\ (End(r) \/ Goto(r, "usage"))
    BY <1>7 DEF UsageLookup, At
  <2>1. CASE Goto(r, "usage")
    <3> DEFINE rec == [req[r] EXCEPT !.pc = "usage"]
    <3>1. /\ rec \in Records /\ rec.pc = "usage" /\ rec.key = req[r].key
          /\ rec.metered = req[r].metered /\ rec.provider = req[r].provider
          /\ rec.model = req[r].model
      BY <1>a DEF Records, PCs
    <3>2. Step(r, rec)
      BY <2>1 DEF Goto
    <3> HIDE DEF rec
    <3>3. Sound(r, rec)
      BY <2>0, <3>1, <1>a DEF Sound
    <3> QED
      BY <2>0, <3>2, <3>3, StepSound
  <2> QED
    BY <2>0, <2>1, EndSound
<1>8. ASSUME NEW r \in Requests, NEW units \in Units, NEW p \in Providers \cup {None},
             NEW m \in Models \cup {None}, UsagePrice(r, units, p, m)
      PROVE  RequestsSound'
  <2> DEFINE usd == Cost(p, m, units)
             rec == [req[r] EXCEPT !.pc = "insert", !.now = clock, !.billed = <<p, m>>,
                                   !.usd = usd]
  <2>0. req[r].pc = "usage" /\ UNCHANGED price /\ req[r].provider \in Providers
    BY <1>8, <1>a DEF UsagePrice, At, Sound
  <2>1. usd \in Nat /\ (Chargeable /\ HasPrice(p, m) => usd > 0)
    BY <1>t, CostTyped
  <2>2. Step(r, rec)
    BY <1>8 DEF UsagePrice
  <2> HIDE DEF usd
  <2>3. /\ rec \in Records /\ rec.pc = "insert" /\ rec.key = req[r].key
        /\ rec.metered = req[r].metered /\ rec.provider = req[r].provider
        /\ rec.model = req[r].model /\ rec.billed = <<p, m>> /\ rec.usd = usd
    BY <2>1, <1>a, <1>t DEF Records, PCs, TablesTyped
  <2> HIDE DEF rec
  <2>4. Sound(r, rec)
    BY <2>0, <2>1, <2>3, <1>a DEF Sound
  <2> QED
    BY <2>0, <2>2, <2>4, StepSound
<1>9. ASSUME NEW list \in PriceLists, SetPrices(list) PROVE RequestsSound'
  <2>1. /\ UNCHANGED req /\ repriced' = {r \in Requests : req[r].pc # "idle"}
    BY <1>9 DEF SetPrices
  <2>2. ASSUME NEW r \in Requests PROVE Sound(r, req[r])'
    <3>1. req[r].pc = "idle" \/ r \in repriced'
      BY <2>1
    <3> QED
      BY <2>1, <3>1, <1>a DEF Sound
  <2> QED
    BY <2>1, <2>2, <1>a DEF RequestsSound, IInv
<1>10. CASE Restart
  BY <1>10, IdleSound DEF Restart, RequestsSound
<1>11. ASSUME UNCHANGED <<req, repriced, price>> PROVE RequestsSound'
  BY <1>11 DEF IInv, RequestsSound, Sound, HasPrice
<1>12. ASSUME NEW k \in Keys, NEW S \in BindingSets, NEW lim \in LimitChoices,
              CreateKey(k, S, lim) \/ (\E on \in BOOLEAN : UpdateKey(k, on, S, lim))
       PROVE  UNCHANGED <<req, repriced, price>>
  BY <1>12 DEF CreateKey, UpdateKey
<1>13. ASSUME NEW k \in Keys, DeleteKey(k) PROVE UNCHANGED <<req, repriced, price>>
  BY <1>13 DEF DeleteKey
<1>14. Tick \/ UNCHANGED vars => UNCHANGED <<req, repriced, price>>
  BY DEF Tick, vars
<1>15. ASSUME NEW r \in Requests, Handle(r) PROVE RequestsSound'
  BY <1>2, <1>3, <1>4, <1>5, <1>6, <1>7, <1>8, <1>15 DEF Handle
<1> QED
  BY <1>1, <1>9, <1>10, <1>11, <1>12, <1>13, <1>14, <1>15 DEF Next

-----------------------------------------------------------------------------
\* The invariant is inductive.
LEMMA Inductive == Spec => []IInv
<1>1. IInv /\ [Next]_vars => IInv'
  BY TablesStep, RequestsStep DEF IInv
<1> QED
  BY InitInv, <1>1, PTL DEF Spec

\* Tables and requests have their types; every charge is a natural number.
THEOREM Typed == Spec => []TypeOK
<1>1. IInv => TypeOK
  BY DEF IInv, TablesTyped, RequestsSound, Records, TypeOK
<1> QED
  BY Inductive, <1>1, PTL

\* Nothing is recorded for a key that does not exist, at whatever step of
\* usage.handle the key is deleted.
THEOREM NoLedgerWithoutKey == Spec => []LedgerOwned
<1>1. IInv => LedgerOwned
  BY DEF IInv
<1> QED
  BY Inductive, <1>1, PTL

\* Routing and billing agree on the price: a metered request that is recorded under the
\* provider and the model it was routed with is not free, unless the rules changed while
\* it was in flight.
THEOREM MeteredAreCharged == Spec => []MeteredIsCharged
<1>1. IInv => MeteredIsCharged
  BY DEF IInv, RequestsSound, Sound, MeteredIsCharged, At
<1> QED
  BY Inductive, <1>1, PTL

-----------------------------------------------------------------------------
(* The sums of the ledger.                                                  *)

LedgerRows == [0 .. MaxTick -> Nat]

\* Induction on a bounded set of numbers, as a fact about sets.
LEMMA BoundedInduction ==
  ASSUME NEW N \in Nat, NEW P, 0 \in P, \A n \in 0 .. N : n < N /\ n \in P => n + 1 \in P
  PROVE  \A n \in 0 .. N : n \in P
<1> SUFFICES ASSUME (0 .. N) \ P # {} PROVE FALSE
  OBVIOUS
<1> DEFINE Less == OpToRel(<, Nat)
           S == (0 .. N) \ P
<1>1. PICK x \in S : \A y \in S : ~(<<y, x>> \in Less)
  <2>1. IsWellFoundedOn(Less, Nat)
    BY NatLessThanWellFounded
  <2>2. S \subseteq Nat /\ S # {}
    OBVIOUS
  <2> HIDE DEF Less, S
  <2> QED
    BY <2>1, <2>2, WFMin
<1>2. x \in 0 .. N /\ x \notin P /\ x # 0
  BY <1>1
<1>3. x - 1 \in 0 .. N /\ x - 1 < N /\ x - 1 \in Nat /\ x \in Nat /\ x - 1 < x
  BY <1>2
<1>4. x - 1 \in P
  <2>1. ~(<<x - 1, x>> \in Less) => ~(x - 1 < x)
    BY <1>3 DEF OpToRel
  <2> QED
    BY <1>1, <1>3, <2>1
<1> QED
  BY <1>2, <1>3, <1>4

\* f holds the sums of a row over the ticks before each one.
Sums(f, row, from) ==
  /\ f[0] = 0
  /\ \A t \in 0 .. MaxTick :
        f[t + 1] = f[t] + (IF t >= from THEN row[t] ELSE 0)

\* The recursive definition of SumSince has a solution.
LEMMA SumSinceSolved ==
  ASSUME NEW row \in LedgerRows, NEW from \in Int
  PROVE  \E f \in [0 .. MaxTick + 1 -> Nat] :
            Sums(f, row, from) /\ SumSince(row, from) = f[MaxTick + 1]
<1> DEFINE N == MaxTick + 1
           Body(f) == [t \in 0 .. N |->
                         IF t = 0 THEN 0
                         ELSE f[t - 1] + (IF t > from THEN row[t - 1] ELSE 0)]
           Part(f, n) == /\ f \in [0 .. n -> Nat]
                         /\ f[0] = 0
                         /\ \A t \in 1 .. n :
                              f[t] = f[t - 1] + (IF t > from THEN row[t - 1] ELSE 0)
           P == {n \in 0 .. N : \E f : Part(f, n)}
<1>0. MaxTick \in Nat /\ N \in Nat
  BY FlowAssumption
<1>r. \A t \in 1 .. N : row[t - 1] \in Nat
  BY <1>0 DEF LedgerRows
<1>1. 0 \in P
  <2> DEFINE f == [t \in 0 .. 0 |-> 0]
  <2>1. Part(f, 0)
    OBVIOUS
  <2> HIDE DEF Part, f
  <2> QED
    BY <1>0, <2>1
<1>2. ASSUME NEW n \in 0 .. N, n < N, n \in P
      PROVE  n + 1 \in P
  <2>1. PICK f : Part(f, n)
    BY <1>2
  <2> DEFINE next == f[n] + (IF n + 1 > from THEN row[n] ELSE 0)
             g == [t \in 0 .. n + 1 |-> IF t = n + 1 THEN next ELSE f[t]]
  <2>2. n \in Nat /\ f[n] \in Nat /\ row[n] \in Nat /\ next \in Nat
    BY <1>0, <1>2, <1>r, <2>1 DEF LedgerRows
  <2>3. g \in [0 .. n + 1 -> Nat]
    <3> HIDE DEF next
    <3> QED
      BY <2>1, <2>2
  <2>4. g[0] = 0 /\ g[n + 1] = next /\ g[n] = f[n]
    BY <2>1, <2>2
  <2>5. ASSUME NEW t \in 1 .. n + 1
        PROVE  g[t] = g[t - 1] + (IF t > from THEN row[t - 1] ELSE 0)
    <3>1. CASE t = n + 1
      <4>1. g[t] = next /\ g[t - 1] = f[n] /\ t - 1 = n
        BY <3>1, <2>4, <2>2
      <4> HIDE DEF g
      <4> QED
        BY <3>1, <4>1
    <3>2. CASE t # n + 1
      <4>1. t \in 1 .. n /\ t \in 0 .. n + 1 /\ t - 1 \in 0 .. n + 1 /\ t - 1 # n + 1
        BY <3>2, <2>2
      <4>2. g[t] = f[t] /\ g[t - 1] = f[t - 1]
        BY <3>2, <4>1
      <4>3. f[t] = f[t - 1] + (IF t > from THEN row[t - 1] ELSE 0)
        BY <4>1, <2>1
      <4> HIDE DEF g
      <4> QED
        BY <4>2, <4>3
    <3> QED
      BY <3>1, <3>2
  <2>6. Part(g, n + 1)
    <3> HIDE DEF g
    <3> QED
      BY <2>3, <2>4, <2>5
  <2>7. n + 1 \in 0 .. N
    BY <1>0, <1>2
  <2> HIDE DEF g, Part
  <2> QED
    BY <2>6, <2>7
<1>3. N \in P
  <2> HIDE DEF P, N
  <2>1. N \in 0 .. N
    BY <1>0
  <2> QED
    BY <1>0, <1>1, <1>2, <2>1, BoundedInduction
<1>4. PICK f : Part(f, N)
  BY <1>3
<1> DEFINE h == CHOOSE g : g = Body(g)
<1>5. f = Body(f)
  <2>1. \A t \in 0 .. N : f[t] = Body(f)[t]
    BY <1>0, <1>4
  <2>2. f \in [0 .. N -> Nat]
    BY <1>4
  <2>3. DOMAIN Body(f) = 0 .. N /\ Body(f) = [t \in 0 .. N |-> Body(f)[t]]
    OBVIOUS
  <2>4. f = [t \in 0 .. N |-> f[t]]
    BY <2>2
  <2> HIDE DEF Body
  <2> QED
    BY <2>1, <2>3, <2>4
<1>6. h = Body(h)
  <2> HIDE DEF Body
  <2> QED
    BY <1>5
<1>7. SumSince(row, from) = h[N]
  BY DEF SumSince
<1> HIDE DEF h
<1>8. \A t \in 0 .. N : h[t] = IF t = 0 THEN 0
                               ELSE h[t - 1] + (IF t > from THEN row[t - 1] ELSE 0)
  BY <1>6
<1>9. \A t \in 0 .. N : h[t] \in Nat
  <2> DEFINE Q == {t \in 0 .. N : h[t] \in Nat}
  <2>1. 0 \in Q
    BY <1>0, <1>8
  <2>2. ASSUME NEW n \in 0 .. N, n < N, n \in Q
        PROVE  n + 1 \in Q
    <3>1. n + 1 \in 1 .. N /\ n + 1 \in 0 .. N /\ h[n] \in Nat /\ n + 1 - 1 = n /\ n + 1 # 0
      BY <1>0, <2>2
    <3>2. row[n] \in Nat
      BY <1>r, <3>1
    <3>3. h[n + 1] = h[n] + (IF n + 1 > from THEN row[n] ELSE 0)
      BY <1>8, <3>1
    <3> QED
      BY <3>1, <3>2, <3>3
  <2>3. \A n \in 0 .. N : n \in Q
    <3> HIDE DEF Q, N
    <3> QED
      BY <1>0, <2>1, <2>2, BoundedInduction
  <2> QED
    BY <2>3
<1>10. h \in [0 .. N -> Nat]
  <2>1. h = [t \in 0 .. N |-> h[t]]
    <3>1. DOMAIN Body(h) = 0 .. N /\ Body(h) = [t \in 0 .. N |-> Body(h)[t]]
      OBVIOUS
    <3> HIDE DEF Body
    <3> QED
      BY <1>6, <3>1
  <2> QED
    BY <1>9, <2>1
<1>11. Sums(h, row, from)
  <2>1. h[0] = 0
    BY <1>0, <1>8
  <2>2. ASSUME NEW t \in 0 .. MaxTick
        PROVE  h[t + 1] = h[t] + (IF t >= from THEN row[t] ELSE 0)
    <3>1. t + 1 \in 0 .. N /\ t + 1 # 0 /\ t + 1 - 1 = t /\ (t + 1 > from <=> t >= from)
      BY <1>0
    <3> QED
      BY <1>8, <3>1
  <2> QED
    BY <2>1, <2>2 DEF Sums
<1> QED
  BY <1>7, <1>10, <1>11

\* What was spent is a natural number, and nothing in a row of zeros.
LEMMA SumSinceTyped ==
  ASSUME NEW row \in LedgerRows, NEW from \in Int
  PROVE  SumSince(row, from) \in Nat
<1>1. PICK f \in [0 .. MaxTick + 1 -> Nat] : SumSince(row, from) = f[MaxTick + 1]
  BY SumSinceSolved
<1>2. MaxTick + 1 \in 0 .. MaxTick + 1
  BY FlowAssumption
<1> QED
  BY <1>1, <1>2

LEMMA SumSinceZero ==
  ASSUME NEW from \in Int
  PROVE  SumSince([t \in 0 .. MaxTick |-> 0], from) = 0
<1> DEFINE row == [t \in 0 .. MaxTick |-> 0]
<1>1. row \in LedgerRows /\ \A t \in 0 .. MaxTick : row[t] = 0
  BY DEF LedgerRows
<1> HIDE DEF row
<1>2. PICK f \in [0 .. MaxTick + 1 -> Nat] :
         Sums(f, row, from) /\ SumSince(row, from) = f[MaxTick + 1]
  BY <1>1, SumSinceSolved
<1> DEFINE N == MaxTick + 1
           P == {n \in 0 .. N : f[n] = 0}
<1>3. N \in Nat /\ 0 \in P
  BY <1>2, FlowAssumption DEF Sums
<1>4. ASSUME NEW n \in 0 .. N, n < N, n \in P
      PROVE  n + 1 \in P
  <2>1. n \in 0 .. MaxTick /\ n + 1 \in 0 .. N
    BY <1>4, FlowAssumption
  <2>2. f[n + 1] = 0
    BY <1>1, <1>2, <1>4, <2>1 DEF Sums
  <2> QED
    BY <2>1, <2>2
<1>5. N \in P
  <2> HIDE DEF N, P
  <2>1. N \in 0 .. N
    BY <1>3
  <2> QED
    BY <1>3, <1>4, <2>1, BoundedInduction
<1> QED
  BY <1>2, <1>5 DEF row

\* A charge counts in full in the sums of the windows it falls into.
LEMMA SumSinceCharge ==
  ASSUME NEW row \in LedgerRows, NEW from \in Int, NEW now \in 0 .. MaxTick, NEW usd \in Nat
  PROVE  SumSince([row EXCEPT ![now] = @ + usd], from)
           = SumSince(row, from) + (IF now >= from THEN usd ELSE 0)
<1> DEFINE charged == [row EXCEPT ![now] = @ + usd]
<1>1. /\ charged \in LedgerRows
      /\ \A t \in 0 .. MaxTick : row[t] \in Nat
      /\ \A t \in 0 .. MaxTick : charged[t] = IF t = now THEN row[t] + usd ELSE row[t]
  BY DEF LedgerRows
<1> HIDE DEF charged
<1>2. PICK f \in [0 .. MaxTick + 1 -> Nat] :
         Sums(f, row, from) /\ SumSince(row, from) = f[MaxTick + 1]
  BY SumSinceSolved
<1>3. PICK g \in [0 .. MaxTick + 1 -> Nat] :
         Sums(g, charged, from) /\ SumSince(charged, from) = g[MaxTick + 1]
  BY <1>1, SumSinceSolved
<1> DEFINE N == MaxTick + 1
           part(n) == IF n > now /\ now >= from THEN usd ELSE 0
           P == {n \in 0 .. N : g[n] = f[n] + part(n)}
<1>4. N \in Nat /\ 0 \in P
  BY <1>2, <1>3, FlowAssumption DEF Sums
<1>5. ASSUME NEW n \in 0 .. N, n < N, n \in P
      PROVE  n + 1 \in P
  <2>1. n \in 0 .. MaxTick /\ n + 1 \in 0 .. N /\ n \in 0 .. N
    BY <1>5, FlowAssumption
  <2>2. f[n] \in Nat /\ f[n + 1] \in Nat /\ g[n] \in Nat /\ g[n + 1] \in Nat
    BY <1>2, <1>3, <2>1
  <2>3. /\ f[n + 1] = f[n] + (IF n >= from THEN row[n] ELSE 0)
        /\ g[n + 1] = g[n] + (IF n >= from THEN charged[n] ELSE 0)
    BY <1>2, <1>3, <2>1 DEF Sums
  <2>4. g[n] = f[n] + part(n)
    BY <1>5
  <2>5. row[n] \in Nat /\ charged[n] = IF n = now THEN row[n] + usd ELSE row[n]
    BY <1>1, <2>1
  <2>6. g[n + 1] = f[n + 1] + part(n + 1)
    <3>1. CASE n = now
      BY <2>2, <2>3, <2>4, <2>5, <3>1
    <3>2. CASE n # now
      <4> DEFINE u == IF n >= from THEN row[n] ELSE 0
                 p == part(n)
      <4>1. part(n + 1) = p /\ charged[n] = row[n] /\ u \in Nat /\ p \in Nat
        BY <2>1, <2>2, <2>5, <3>2
      <4>2. f[n + 1] = f[n] + u /\ g[n + 1] = g[n] + u /\ g[n] = f[n] + p
        BY <2>3, <2>4, <4>1
      <4> HIDE DEF part, u, p
      <4>3. g[n + 1] = f[n + 1] + p
        BY <2>2, <4>1, <4>2
      <4> QED
        BY <4>1, <4>3
    <3> QED
      BY <3>1, <3>2
  <2> QED
    BY <2>1, <2>6
<1>6. N \in P
  <2> HIDE DEF N, P
  <2>1. N \in 0 .. N
    BY <1>4
  <2> QED
    BY <1>4, <1>5, <2>1, BoundedInduction
<1>7. N > now
  BY FlowAssumption
<1>8. g[N] = f[N] + (IF now >= from THEN usd ELSE 0)
  BY <1>6, <1>7
<1>9. SumSince(charged, from) = SumSince(row, from) + (IF now >= from THEN usd ELSE 0)
  BY <1>2, <1>3, <1>8
<1> QED
  BY <1>9 DEF charged

\* A window that starts later holds no more.
LEMMA SumSinceShrinks ==
  ASSUME NEW row \in LedgerRows, NEW from \in Int, NEW later \in Int, from <= later
  PROVE  SumSince(row, later) <= SumSince(row, from)
<1>1. PICK f \in [0 .. MaxTick + 1 -> Nat] :
         Sums(f, row, from) /\ SumSince(row, from) = f[MaxTick + 1]
  BY SumSinceSolved
<1>2. PICK g \in [0 .. MaxTick + 1 -> Nat] :
         Sums(g, row, later) /\ SumSince(row, later) = g[MaxTick + 1]
  BY SumSinceSolved
<1> DEFINE N == MaxTick + 1
           P == {n \in 0 .. N : g[n] <= f[n]}
<1>3. N \in Nat /\ 0 \in P
  BY <1>1, <1>2, FlowAssumption DEF Sums
<1>4. ASSUME NEW n \in 0 .. N, n < N, n \in P
      PROVE  n + 1 \in P
  <2>1. n \in 0 .. MaxTick /\ n + 1 \in 0 .. N /\ n \in 0 .. N
    BY <1>4, FlowAssumption
  <2>2. f[n] \in Nat /\ f[n + 1] \in Nat /\ g[n] \in Nat /\ g[n + 1] \in Nat /\ row[n] \in Nat
    BY <1>1, <1>2, <2>1 DEF LedgerRows
  <2>3. /\ f[n + 1] = f[n] + (IF n >= from THEN row[n] ELSE 0)
        /\ g[n + 1] = g[n] + (IF n >= later THEN row[n] ELSE 0)
    BY <1>1, <1>2, <2>1 DEF Sums
  <2>4. g[n] <= f[n]
    BY <1>4
  <2>5. n >= later => n >= from
    BY <2>1
  <2>6. g[n + 1] <= f[n + 1]
    <3> DEFINE a == f[n]  b == f[n + 1]  x == g[n]  y == g[n + 1]  u == row[n]
    <3>1. /\ a \in Nat /\ b \in Nat /\ x \in Nat /\ y \in Nat /\ u \in Nat /\ x <= a
          /\ b = a + (IF n >= from THEN u ELSE 0)
          /\ y = x + (IF n >= later THEN u ELSE 0)
      BY <2>2, <2>3, <2>4
    <3> HIDE DEF a, b, x, y, u
    <3>2. y <= b
      BY <2>5, <3>1
    <3> QED
      BY <3>2 DEF y, b
  <2> QED
    BY <2>1, <2>6
<1>5. N \in P
  <2> HIDE DEF N, P
  <2>1. N \in 0 .. N
    BY <1>3
  <2> QED
    BY <1>3, <1>4, <2>1, BoundedInduction
<1> QED
  BY <1>1, <1>2, <1>5

-----------------------------------------------------------------------------
(* The highest limit, price and charge.                                     *)

LEMMA MaxOfFinite ==
  ASSUME NEW S \in SUBSET Nat, S # {}, IsFiniteSet(S)
  PROVE  Max(S) \in S /\ \A x \in S : x <= Max(S)
<1>1. PICK f \in Bijection(1 .. Cardinality(S), S) : TRUE
  BY FS_CardinalityType DEF ExistsBijection
<1> DEFINE N == Cardinality(S)
           Highest(m, n) == m \in 1 .. n /\ \A i \in 1 .. n : f[i] <= f[m]
           P == {n \in 0 .. N : n = 0 \/ \E m : Highest(m, n)}
<1>2. /\ N \in Nat /\ f \in [1 .. N -> S] /\ \A x \in S : \E i \in 1 .. N : f[i] = x
      /\ \A i \in 1 .. N : f[i] \in Nat
  BY <1>1, FS_CardinalityType DEF Bijection, Surjection
<1> HIDE DEF N
<1>3. 0 \in P
  BY <1>2
<1>4. ASSUME NEW n \in 0 .. N, n < N, n \in P
      PROVE  n + 1 \in P
  <2>0. /\ n + 1 \in 0 .. N /\ f[n + 1] \in Nat /\ n \in Nat
        /\ \A i \in 1 .. n + 1 : f[i] \in Nat /\ (i \in 1 .. n \/ i = n + 1)
    BY <1>2, <1>4
  <2>1. CASE n = 0
    <3>1. Highest(1, n + 1)
      BY <2>0, <2>1
    <3> QED
      BY <2>0, <3>1
  <2>2. CASE n # 0
    <3>1. PICK m : Highest(m, n)
      BY <1>4, <2>2
    <3>2. m \in 1 .. n + 1 /\ f[m] \in Nat
      BY <2>0, <3>1
    <3>3. Highest(n + 1, n + 1) \/ Highest(m, n + 1)
      <4>1. CASE f[m] <= f[n + 1]
        <5>1. \A i \in 1 .. n + 1 : f[i] <= f[n + 1]
          BY <2>0, <3>1, <3>2, <4>1
        <5> QED
          BY <2>0, <5>1
      <4>2. CASE f[n + 1] <= f[m]
        BY <2>0, <3>1, <3>2, <4>2
      <4> QED
        BY <2>0, <3>2, <4>1, <4>2
    <3> HIDE DEF Highest
    <3> QED
      BY <2>0, <3>3
  <2> QED
    BY <2>1, <2>2
<1>5. N \in P
  <2> HIDE DEF P
  <2>1. N \in 0 .. N
    BY <1>2
  <2> QED
    BY <1>2, <1>3, <1>4, <2>1, BoundedInduction
<1>6. N # 0
  <2>1. PICK i \in 1 .. N : TRUE
    BY <1>2
  <2> QED
    BY <1>2, <2>1
<1>7. PICK m : Highest(m, N)
  BY <1>5, <1>6
<1>8. f[m] \in S /\ \A x \in S : x <= f[m]
  BY <1>2, <1>7
<1> HIDE DEF Highest
<1>9. \E x \in S : \A y \in S : x >= y
  BY <1>8
<1> QED
  BY <1>9 DEF Max

\* A field of the limits: window is "five", "week" or "total".
LEMMA HighestLimitBounds ==
  ASSUME NEW window \in {"five", "week", "total"}
  PROVE  /\ HighestLimit(window) \in Nat
         /\ \A lim \in LimitChoices : lim[window] <= HighestLimit(window)
         /\ (\A lim \in LimitChoices : lim[window] > 0) => HighestLimit(window) > 0
<1> DEFINE S == {lim[window] : lim \in LimitChoices}
           f == [lim \in LimitChoices |-> lim[window]]
<1>1. \A lim \in LimitChoices : lim[window] \in Nat
  BY FlowAssumption
<1>2. S \in SUBSET Nat /\ S # {}
  BY <1>1, FiniteAssumption
<1>3. f \in Surjection(LimitChoices, S)
  BY DEF Surjection
<1>4. IsFiniteSet(S)
  <2> HIDE DEF f, S
  <2> QED
    BY <1>3, FS_Surjection, FiniteAssumption
<1>5. Max(S) \in S /\ \A x \in S : x <= Max(S)
  <2> HIDE DEF S
  <2> QED
    BY <1>2, <1>4, MaxOfFinite
<1> QED
  BY <1>1, <1>5 DEF HighestLimit

LEMMA HighestPriceBounds ==
  /\ HighestPrice \in Nat
  /\ \A l \in PriceLists, x \in Providers \X Models : l[x] # NoRule => l[x] <= HighestPrice
<1> DEFINE R == Providers \X Models
           T == {l[x] : l \in PriceLists, x \in R}
           f == [y \in PriceLists \X R |-> y[1][y[2]]]
           S == {0} \cup (T \ {NoRule})
<1>1. \A l \in PriceLists, x \in R : l[x] \in Nat \cup {NoRule}
  BY FlowAssumption
<1>3. IsFiniteSet(PriceLists \X R)
  <2>1. IsFiniteSet(R)
    BY FiniteAssumption, FS_Product
  <2> HIDE DEF R
  <2> QED
    BY <2>1, FiniteAssumption, FS_Product
<1>8. HighestPrice = Max(S)
  BY DEF HighestPrice
<1>r. R = Providers \X Models
  OBVIOUS
<1> HIDE DEF R
<1>2. f \in Surjection(PriceLists \X R, T)
  <2>1. f \in [PriceLists \X R -> T]
    OBVIOUS
  <2>2. ASSUME NEW t \in T PROVE \E y \in PriceLists \X R : f[y] = t
    <3>1. PICK l \in PriceLists : \E x \in R : t = l[x]
      OBVIOUS
    <3>2. PICK x \in R : t = l[x]
      BY <3>1
    <3>3. <<l, x>> \in PriceLists \X R /\ f[<<l, x>>] = t
      BY <3>2
    <3> QED
      BY <3>3
  <2> HIDE DEF f, T
  <2> QED
    BY <2>1, <2>2 DEF Surjection
<1>4. IsFiniteSet(T)
  <2> HIDE DEF f, T
  <2> QED
    BY <1>2, <1>3, FS_Surjection
<1>5. IsFiniteSet(S)
  <2> HIDE DEF T
  <2>1. IsFiniteSet(T \ {NoRule})
    BY <1>4, FS_RemoveElement
  <2>2. S = (T \ {NoRule}) \cup {0}
    OBVIOUS
  <2> HIDE DEF S
  <2> QED
    BY <2>1, <2>2, FS_AddElement
<1>6. S \in SUBSET Nat /\ S # {}
  BY <1>1
<1>7. Max(S) \in S /\ \A x \in S : x <= Max(S)
  <2> HIDE DEF S
  <2> QED
    BY <1>5, <1>6, MaxOfFinite
<1>9. \A l \in PriceLists, x \in R : l[x] # NoRule => l[x] \in S
  OBVIOUS
<1> HIDE DEF S
<1> QED
  BY <1>6, <1>7, <1>8, <1>9, <1>r

\* No charge is higher than MaxCost.
LEMMA CostBounded ==
  ASSUME TablesTyped, NEW p, NEW m, NEW units \in Units
  PROVE  /\ MaxCost \in Nat
         /\ Cost(p, m, units) <= MaxCost
<1>1. /\ Max(Units) \in Units /\ Max(Units) \in Nat
      /\ units <= Max(Units) /\ units \in Nat
  BY MaxOfFinite, FlowAssumption, FiniteAssumption
<1>2. HighestPrice \in Nat
  BY HighestPriceBounds
<1>3. \A a, b, x, y \in Nat : a <= x /\ b <= y => a * b <= x * y /\ a * b \in Nat
  <2> SUFFICES ASSUME NEW a \in Nat, NEW b \in Nat, NEW x \in Nat, NEW y \in Nat,
                      a <= x, b <= y
               PROVE  a * b <= x * y /\ a * b \in Nat
    OBVIOUS
  <2>1. a * b <= x * b /\ b * x <= y * x
    OBVIOUS
  <2>2. x * b = b * x /\ y * x = x * y /\ a * b \in Nat /\ x * b \in Nat /\ x * y \in Nat
    OBVIOUS
  <2> QED
    BY <2>1, <2>2
<1>4. MaxCost \in Nat /\ MaxCost >= 0
  BY <1>1, <1>2 DEF MaxCost
<1>5. CASE HasPrice(p, m)
  <2>1. /\ <<p, m>> \in Providers \X Models /\ price \in PriceLists
        /\ price[<<p, m>>] # NoRule /\ Cost(p, m, units) = price[<<p, m>>] * units
    BY <1>5 DEF HasPrice, Cost, TablesTyped
  <2>2. price[<<p, m>>] \in Nat /\ price[<<p, m>>] <= HighestPrice
    BY <2>1, HighestPriceBounds, FlowAssumption
  <2>3. price[<<p, m>>] * units <= HighestPrice * Max(Units)
    BY <1>1, <1>2, <1>3, <2>2
  <2> QED
    BY <1>4, <2>1, <2>3 DEF MaxCost
<1>6. CASE ~HasPrice(p, m)
  BY <1>4, <1>6 DEF Cost
<1> QED
  BY <1>4, <1>5, <1>6

-----------------------------------------------------------------------------
(* How a request moves, as far as the limits are concerned.                 *)

LimitsSet == \A k \in Keys : keyState[k] = "live" => limits[k] \in LimitChoices

\* A record carries limits that were set, a time that has been, and at the end a charge
\* of at most MaxCost.
Bounded(rec, time) ==
    /\ rec.pc # "idle" => rec.limits \in LimitChoices
    /\ rec.now <= time
    /\ rec.pc = "insert" => rec.usd <= MaxCost

RequestsBounded == \A r \in Requests : Bounded(req[r], clock)

BInv == IInv /\ LimitsSet /\ RequestsBounded

\* The request ends, starts with the limits of its key, passes a check, or goes on
\* towards its record.
Advances(r, rec) ==
    \/ rec = Idle
    \/ /\ At(r, "idle") /\ rec.pc = "five"
       /\ rec.key \in Keys /\ rec.limits \in LimitChoices /\ rec.now = clock
    \/ /\ <<req[r].pc, rec.pc>> \in {<<"five", "week">>, <<"week", "total">>,
                                     <<"total", "validate">>}
       /\ rec.key = req[r].key /\ rec.limits = req[r].limits /\ rec.now = req[r].now
       /\ At(r, "five") =>
            ~LimitReached(req[r].limits.five,
                          SpentSince(req[r].key, req[r].now - FiveHours))
       /\ At(r, "total") =>
            ~LimitReached(req[r].limits.total, SpentSince(req[r].key, 0))
    \/ /\ req[r].pc \in OpenPCs /\ rec.pc \in OpenPCs
       /\ rec.key = req[r].key /\ rec.limits = req[r].limits
       /\ rec.now \in {req[r].now, clock}
       /\ rec.pc = "insert" => rec.usd <= MaxCost

LEMMA RecordsOf ==
  ASSUME IInv, NEW r \in Requests
  PROVE  /\ req \in [Requests -> Records] /\ req[r] \in Records
         /\ req[r].pc # "idle" => req[r].key \in Keys
         /\ req[r].pc \in {"running", "usage", "insert"} => req[r].provider \in Providers
         /\ req[r].now \in 0 .. MaxTick /\ req[r].usd \in Nat /\ clock \in 0 .. MaxTick
BY DEF IInv, TablesTyped, RequestsSound, Sound, Records

\* What a step of a request does besides usage.handle's INSERT.
LEMMA HandleAdvances ==
  ASSUME BInv, NEW r \in Requests, Handle(r) \/ (\E k \in Keys : Present(r, k)),
         ~UsageInsert(r)
  PROVE  \E rec : /\ Step(r, rec) /\ Advances(r, rec)
                  /\ UNCHANGED <<keyRows, price, ledger, clock>>
<1>0. IInv /\ req[r] \in Records
  BY RecordsOf DEF BInv
<1>1. UNCHANGED <<keyRows, price, ledger, clock>>
  BY DEF Handle, Present, CheckFiveHours, CheckWeek, CheckTotal, CheckSum, Validate,
         Route, Pick, QueryFails, UsageLookup, UsageLost, UsagePrice
<1>2. CASE End(r)
  BY <1>1, <1>2 DEF End, Advances
<1>3. ASSUME NEW k \in Keys, Present(r, k)
      PROVE  \E rec : Step(r, rec) /\ Advances(r, rec)
  <2> DEFINE rec == [Idle EXCEPT !.pc = "five", !.key = k, !.now = clock,
                                 !.limits = limits[k]]
  <2>1. /\ At(r, "idle") /\ rec.pc = "five" /\ rec.key = k /\ rec.limits = limits[k]
        /\ rec.now = clock /\ Step(r, rec)
    BY <1>3 DEF Present, Idle
  <2>2. limits[k] \in LimitChoices
    BY <1>3 DEF Present, BInv, LimitsSet
  <2> HIDE DEF rec
  <2> QED
    BY <2>1, <2>2 DEF Advances
<1>4. ASSUME CheckFiveHours(r) \/ CheckWeek(r) \/ CheckTotal(r), ~End(r)
      PROVE  \E rec : Step(r, rec) /\ Advances(r, rec)
  <2>1. PICK pc \in {"week", "total", "validate"} :
           /\ Goto(r, pc)
           /\ <<req[r].pc, pc>> \in {<<"five", "week">>, <<"week", "total">>,
                                     <<"total", "validate">>}
           /\ At(r, "five") =>
                ~LimitReached(req[r].limits.five,
                              SpentSince(req[r].key, req[r].now - FiveHours))
           /\ At(r, "total") =>
                ~LimitReached(req[r].limits.total, SpentSince(req[r].key, 0))
    BY <1>4 DEF CheckFiveHours, CheckWeek, CheckTotal, CheckSum, At
  <2> DEFINE rec == [req[r] EXCEPT !.pc = pc]
  <2>2. /\ rec.pc = pc /\ rec.key = req[r].key /\ rec.limits = req[r].limits
        /\ rec.now = req[r].now /\ Step(r, rec)
    BY <1>0, <2>1 DEF Records, Goto
  <2> HIDE DEF rec
  <2> QED
    BY <2>1, <2>2 DEF Advances
<1>5. ASSUME NEW rec, Step(r, rec), req[r].pc \in OpenPCs, rec.pc \in OpenPCs,
             rec.key = req[r].key, rec.limits = req[r].limits, rec.now \in {req[r].now, clock},
             rec.pc = "insert" => rec.usd <= MaxCost
      PROVE  \E x : Step(r, x) /\ Advances(r, x)
  BY <1>5 DEF Advances
<1>6. ASSUME NEW pc \in {"pick", "usage"}, req[r].pc \in OpenPCs, Goto(r, pc)
      PROVE  \E rec : Step(r, rec) /\ Advances(r, rec)
  <2> DEFINE rec == [req[r] EXCEPT !.pc = pc]
  <2>1. /\ rec.pc = pc /\ rec.key = req[r].key /\ rec.limits = req[r].limits
        /\ rec.now = req[r].now /\ Step(r, rec)
    BY <1>0, <1>6 DEF Records, Goto
  <2> HIDE DEF rec
  <2> QED
    BY <1>5, <1>6, <2>1 DEF OpenPCs
<1>7. ASSUME NEW asked, Validate(r, asked)
      PROVE  \E rec : Step(r, rec) /\ Advances(r, rec)
  <2> DEFINE rec == [req[r] EXCEPT !.pc = "route", !.model = asked]
  <2>1. req[r].pc = "validate" /\ (End(r) \/ Step(r, rec))
    BY <1>7 DEF Validate, At
  <2>2. /\ rec.pc = "route" /\ rec.key = req[r].key /\ rec.limits = req[r].limits
        /\ rec.now = req[r].now
    BY <1>0 DEF Records
  <2> HIDE DEF rec
  <2> QED
    BY <1>2, <1>5, <2>1, <2>2 DEF OpenPCs, End, Advances
<1>8. ASSUME NEW p, NEW m, req[r].pc = "route",
             Step(r, [req[r] EXCEPT !.pc = "pick", !.provider = p, !.model = m,
                                    !.metered = Limited(limits[req[r].key])])
      PROVE  \E rec : Step(r, rec) /\ Advances(r, rec)
  <2> DEFINE rec == [req[r] EXCEPT !.pc = "pick", !.provider = p, !.model = m,
                                   !.metered = Limited(limits[req[r].key])]
  <2>1. /\ rec.pc = "pick" /\ rec.key = req[r].key /\ rec.limits = req[r].limits
        /\ rec.now = req[r].now /\ Step(r, rec)
    BY <1>0, <1>8 DEF Records
  <2> HIDE DEF rec
  <2> QED
    BY <1>5, <1>8, <2>1 DEF OpenPCs
<1>9. ASSUME NEW m, Route(r, m)
      PROVE  \E rec : Step(r, rec) /\ Advances(r, rec)
  <2>1. /\ req[r].pc = "route"
        /\ \/ End(r) \/ Goto(r, "pick")
           \/ \E p : Step(r, [req[r] EXCEPT !.pc = "pick", !.provider = p, !.model = m,
                                            !.metered = Limited(limits[req[r].key])])
    BY <1>9 DEF Route, At
  <2> QED
    BY <1>2, <1>6, <1>8, <2>1 DEF OpenPCs, End, Advances
<1>10. ASSUME NEW a, req[r].pc = "pick",
              Step(r, [req[r] EXCEPT !.pc = "running", !.auth = a,
                                     !.provider = AuthProvider[a]])
       PROVE  \E rec : Step(r, rec) /\ Advances(r, rec)
  <2> DEFINE rec == [req[r] EXCEPT !.pc = "running", !.auth = a,
                                   !.provider = AuthProvider[a]]
  <2>1. /\ rec.pc = "running" /\ rec.key = req[r].key /\ rec.limits = req[r].limits
        /\ rec.now = req[r].now /\ Step(r, rec)
    BY <1>0, <1>10 DEF Records
  <2> HIDE DEF rec
  <2> QED
    BY <1>5, <1>10, <2>1 DEF OpenPCs
<1>11. CASE Pick(r)
  <2>1. /\ req[r].pc = "pick"
        /\ \/ End(r)
           \/ \E a : Step(r, [req[r] EXCEPT !.pc = "running", !.auth = a,
                                            !.provider = AuthProvider[a]])
    BY <1>11 DEF Pick, At
  <2> QED
    BY <1>1, <1>2, <1>10, <2>1
<1>12. CASE UsageLookup(r)
  BY <1>1, <1>2, <1>6, <1>12 DEF UsageLookup, At, OpenPCs
<1>13. ASSUME NEW units \in Units, NEW p, NEW m, UsagePrice(r, units, p, m)
       PROVE  \E rec : Step(r, rec) /\ Advances(r, rec)
  <2> DEFINE usd == Cost(p, m, units)
             rec == [req[r] EXCEPT !.pc = "insert", !.now = clock, !.billed = <<p, m>>,
                                   !.usd = usd]
  <2>0. req[r].pc = "usage"
    BY <1>13 DEF UsagePrice, At
  <2>1. usd <= MaxCost
    BY <1>0, CostBounded DEF IInv
  <2>2. Step(r, rec)
    BY <1>13 DEF UsagePrice
  <2> HIDE DEF usd
  <2>3. /\ rec.pc = "insert" /\ rec.key = req[r].key /\ rec.limits = req[r].limits
        /\ rec.now = clock /\ rec.usd = usd
    BY <1>0 DEF Records
  <2> HIDE DEF rec
  <2> QED
    BY <1>5, <2>0, <2>1, <2>2, <2>3 DEF OpenPCs
<1>14. \E rec : Step(r, rec) /\ Advances(r, rec)
  BY <1>1, <1>2, <1>3, <1>4, <1>7, <1>9, <1>11, <1>12, <1>13
     DEF Handle, QueryFails, UsageLost
<1> QED
  BY <1>1, <1>14

LEMMA StepOne ==
  ASSUME IInv, NEW r \in Requests, NEW rec, Step(r, rec)
  PROVE  \A q \in Requests : req'[q] = IF q = r THEN rec ELSE req[q]
BY RecordsOf DEF Step

\* Limits come from management, charges from the price lists, times from the clock.
LEMMA BoundedNext == BInv /\ [Next]_vars => BInv'
<1> SUFFICES ASSUME BInv, [Next]_vars PROVE LimitsSet' /\ RequestsBounded'
  BY TablesStep, RequestsStep DEF BInv, IInv
<1>0. IInv /\ clock \in Nat
  BY FlowAssumption DEF BInv, IInv, TablesTyped
<1>i. \A time \in Nat : Bounded(Idle, time)
  BY DEF Bounded, Idle
<1>1. UNCHANGED keyRows => LimitsSet'
  BY DEF keyRows, BInv, LimitsSet
<1>2. ASSUME UNCHANGED req, clock' \in Nat, clock <= clock' PROVE RequestsBounded'
  <2>1. \A r \in Requests : req[r].now \in Nat
    BY <1>0, RecordsOf
  <2> QED
    BY <1>0, <1>2, <2>1 DEF BInv, RequestsBounded, Bounded
<1>3. ASSUME NEW r \in Requests, Handle(r) \/ (\E k \in Keys : Present(r, k)), ~UsageInsert(r)
      PROVE  LimitsSet' /\ RequestsBounded'
  <2>1. PICK rec : /\ Step(r, rec) /\ Advances(r, rec)
                   /\ UNCHANGED <<keyRows, price, ledger, clock>>
    BY <1>3, HandleAdvances
  <2>2. Bounded(req[r], clock) /\ req[r].now \in Nat
    BY <1>0, RecordsOf DEF BInv, RequestsBounded
  <2>3. Bounded(rec, clock)
    BY <1>0, <1>i, <2>1, <2>2 DEF Advances, Bounded, OpenPCs, At
  <2>4. \A q \in Requests : req'[q] = IF q = r THEN rec ELSE req[q]
    BY <1>0, <2>1, StepOne
  <2> QED
    BY <1>1, <2>1, <2>3, <2>4 DEF BInv, RequestsBounded
<1>4. ASSUME NEW r \in Requests, UsageInsert(r)
      PROVE  LimitsSet' /\ RequestsBounded'
  <2>1. Step(r, Idle) /\ UNCHANGED <<keyRows, clock>>
    BY <1>4 DEF UsageInsert, End
  <2>2. \A q \in Requests : req'[q] = IF q = r THEN Idle ELSE req[q]
    BY <1>0, <2>1, StepOne
  <2> QED
    BY <1>0, <1>1, <1>i, <2>1, <2>2 DEF BInv, RequestsBounded
<1>5. ASSUME NEW k \in Keys, NEW S \in BindingSets, NEW lim \in LimitChoices,
             CreateKey(k, S, lim) \/ (\E on \in BOOLEAN : UpdateKey(k, on, S, lim))
      PROVE  LimitsSet' /\ RequestsBounded'
  <2>1. /\ limits' = [limits EXCEPT ![k] = lim] /\ UNCHANGED <<req, clock>>
        /\ \A j \in Keys \ {k} : keyState'[j] = keyState[j]
    BY <1>0, <1>5 DEF CreateKey, UpdateKey, IInv, TablesTyped
  <2>2. limits \in [Keys -> LimitChoices \cup {NoLimits}]
    BY <1>0 DEF IInv, TablesTyped
  <2> QED
    BY <1>0, <1>2, <2>1, <2>2 DEF BInv, LimitsSet
<1>6. ASSUME NEW k \in Keys, DeleteKey(k)
      PROVE  LimitsSet' /\ RequestsBounded'
  <2>1. /\ keyState' = [keyState EXCEPT ![k] = "deleted"] /\ UNCHANGED <<req, clock>>
        /\ \A j \in Keys \ {k} : limits'[j] = limits[j]
    BY <1>0, <1>6 DEF DeleteKey, IInv, TablesTyped
  <2>2. keyState \in [Keys -> {"unborn", "live", "deleted"}]
    BY <1>0 DEF IInv, TablesTyped
  <2> QED
    BY <1>0, <1>2, <2>1, <2>2 DEF BInv, LimitsSet
<1>7. CASE Restart
  BY <1>0, <1>1, <1>7, <1>i DEF Restart, RequestsBounded
<1>8. CASE Tick \/ (\E list \in PriceLists : SetPrices(list)) \/ UNCHANGED vars
  <2>1. UNCHANGED keyRows /\ UNCHANGED req /\ clock' \in {clock, clock + 1}
    BY <1>8 DEF Tick, SetPrices, vars, keyRows
  <2> QED
    BY <1>0, <1>1, <1>2, <2>1
<1> QED
  BY <1>3, <1>4, <1>5, <1>6, <1>7, <1>8 DEF Next

LEMMA BoundedInvariant == Spec => []BInv
<1>1. Init => BInv
  <2> SUFFICES ASSUME Init PROVE LimitsSet /\ RequestsBounded
    BY InitInv DEF BInv
  <2>1. LimitsSet
    BY DEF Init, LimitsSet
  <2>2. RequestsBounded
    BY DEF Init, RequestsBounded, Bounded, Idle
  <2> QED
    BY <2>1, <2>2
<1> QED
  BY <1>1, BoundedNext, PTL DEF Spec

-----------------------------------------------------------------------------
(* The five-hour window.                                                    *)

\* Requests past the check of the five-hour window.
PastFive == {"week", "total"} \cup OpenPCs
Reserved(k) == {r \in Requests : req[r].key = k /\ req[r].pc \in PastFive}

\* A charge is kept for every request in S, in the room that Requests take.
Room(used, S, limit) ==
    used + MaxCost * Cardinality(S) < limit + MaxCost * Cardinality(Requests)

RollingRoom ==
    \A k \in Keys :
        Room(SpentSince(k, clock - FiveHours), Reserved(k), HighestLimit("five"))

LEMMA MaxCostType == MaxCost \in Nat
<1>1. Max(Units) \in Nat
  BY MaxOfFinite, FlowAssumption, FiniteAssumption
<1> QED
  BY <1>1, HighestPriceBounds DEF MaxCost

LEMMA ChargesOf ==
  ASSUME NEW S \in SUBSET Requests
  PROVE  /\ IsFiniteSet(S) /\ Cardinality(S) \in Nat
         /\ MaxCost * Cardinality(S) \in Nat
         /\ MaxCost * Cardinality(Requests) \in Nat
         /\ MaxCost * Cardinality(S) <= MaxCost * Cardinality(Requests)
<1>1. /\ IsFiniteSet(S) /\ Cardinality(S) \in Nat
      /\ Cardinality(Requests) \in Nat /\ Cardinality(S) <= Cardinality(Requests)
  BY FiniteAssumption, FS_Subset, FS_CardinalityType
<1>2. \A m, n \in Nat : m <= n => MaxCost * m <= MaxCost * n /\ MaxCost * m \in Nat
                                  /\ MaxCost * n \in Nat
  BY MaxCostType
<1> QED
  BY <1>1, <1>2

\* Less spent and fewer requests leave the room.
LEMMA RoomShrinks ==
  ASSUME NEW w \in Nat, NEW v \in Nat, v <= w, NEW limit \in Nat,
         NEW S \in SUBSET Requests, NEW T \in SUBSET S, Room(w, S, limit)
  PROVE  Room(v, T, limit)
<1> DEFINE s == MaxCost * Cardinality(S)
           t == MaxCost * Cardinality(T)
           all == MaxCost * Cardinality(Requests)
<1>1. /\ IsFiniteSet(S) /\ Cardinality(S) \in Nat /\ Cardinality(T) \in Nat
      /\ Cardinality(T) <= Cardinality(S) /\ s \in Nat /\ t \in Nat /\ all \in Nat
  BY ChargesOf, FS_Subset
<1>2. t <= s
  BY <1>1, MaxCostType
<1>3. w + s < limit + all
  BY DEF Room
<1> HIDE DEF s, t, all
<1>4. v + t < limit + all
  BY <1>1, <1>2, <1>3
<1> QED
  BY <1>4 DEF Room, t, all

\* A request that is charged gives back what was kept for it.
LEMMA RoomCharged ==
  ASSUME NEW w \in Nat, NEW v \in Nat, v <= w + MaxCost, NEW limit \in Nat,
         NEW S \in SUBSET Requests, NEW r \in S, NEW T \in SUBSET (S \ {r}),
         Room(w, S, limit)
  PROVE  Room(v, T, limit)
<1> DEFINE s == MaxCost * Cardinality(S)
           t == MaxCost * Cardinality(T)
           all == MaxCost * Cardinality(Requests)
<1>1. /\ IsFiniteSet(S) /\ Cardinality(S) \in Nat /\ Cardinality(T) \in Nat
      /\ s \in Nat /\ t \in Nat /\ all \in Nat
  BY ChargesOf
<1>2. Cardinality(T) + 1 <= Cardinality(S)
  <2>1. IsFiniteSet(S \ {r}) /\ Cardinality(S \ {r}) = Cardinality(S) - 1
    BY <1>1, FS_RemoveElement
  <2>2. Cardinality(T) <= Cardinality(S \ {r})
    BY <2>1, FS_Subset
  <2> QED
    BY <1>1, <2>1, <2>2
<1>3. t + MaxCost <= s
  <2>1. \A m, n \in Nat : m + 1 <= n => MaxCost * m + MaxCost <= MaxCost * n
    <3> SUFFICES ASSUME NEW m \in Nat, NEW n \in Nat, m + 1 <= n
                 PROVE  MaxCost * m + MaxCost <= MaxCost * n
      OBVIOUS
    <3>1. MaxCost * (m + 1) <= MaxCost * n
      BY MaxCostType
    <3>2. MaxCost * (m + 1) = MaxCost * m + MaxCost
      BY MaxCostType
    <3> QED
      BY <3>1, <3>2
  <2> QED
    BY <1>1, <1>2, <2>1
<1>4. w + s < limit + all /\ MaxCost \in Nat
  BY MaxCostType DEF Room
<1> HIDE DEF s, t, all
<1>5. v + t < limit + all
  BY <1>1, <1>3, <1>4
<1> QED
  BY <1>5 DEF Room, t, all

\* There is room for all requests below the limit.
LEMMA RoomAdmits ==
  ASSUME NEW v \in Nat, NEW limit \in Nat, v < limit, NEW T \in SUBSET Requests
  PROVE  Room(v, T, limit)
<1> DEFINE t == MaxCost * Cardinality(T)
           all == MaxCost * Cardinality(Requests)
<1>1. t \in Nat /\ all \in Nat /\ t <= all
  BY ChargesOf
<1> HIDE DEF t, all
<1>2. v + t < limit + all
  BY <1>1
<1> QED
  BY <1>2 DEF Room, t, all

LEMMA SpentTyped ==
  ASSUME IInv, NEW k \in Keys, NEW from \in Int
  PROVE  SpentSince(k, from) \in Nat /\ ledger[k] \in LedgerRows
BY SumSinceTyped DEF IInv, TablesTyped, SpentSince, LedgerRows

\* The INSERT adds one charge to one row, and ends the request.
LEMMA InsertCharges ==
  ASSUME BInv, NEW r \in Requests, UsageInsert(r)
  PROVE  /\ req[r].key \in Keys /\ req[r].pc = "insert"
         /\ Step(r, Idle) /\ UNCHANGED clock
         /\ \A k \in Keys, from \in Int :
              SpentSince(k, from)' = SpentSince(k, from)
                 + (IF /\ k = req[r].key /\ keyState[k] = "live"
                       /\ req[r].now >= from
                    THEN req[r].usd ELSE 0)
<1> DEFINE k == req[r].key
           now == req[r].now
           usd == req[r].usd
<1>1. IInv /\ req[r].pc = "insert" /\ Step(r, Idle) /\ UNCHANGED clock
  BY DEF BInv, UsageInsert, At, End
<1>2. k \in Keys /\ now \in 0 .. MaxTick /\ usd \in Nat
  BY <1>1, RecordsOf
<1>3. \A from \in Int, j \in Keys : SpentSince(j, from) \in Nat /\ ledger[j] \in LedgerRows
  BY <1>1, SpentTyped
<1>4. CASE keyState[k] = "live"
  <2> DEFINE row == [ledger[k] EXCEPT ![now] = @ + usd]
  <2>1. ledger' = [ledger EXCEPT ![k] = row]
    BY <1>4 DEF UsageInsert
  <2> HIDE DEF k, now, usd
  <2>2. \A from \in Int :
           SumSince(row, from)
              = SumSince(ledger[k], from) + (IF now >= from THEN usd ELSE 0)
    BY <1>2, <1>3, SumSinceCharge
  <2> HIDE DEF row
  <2>3. \A j \in Keys : ledger'[j] = IF j = k THEN row ELSE ledger[j]
    BY <1>1, <1>2, <2>1 DEF IInv, TablesTyped
  <2>4. ASSUME NEW j \in Keys, NEW from \in Int
        PROVE  SpentSince(j, from)' = SpentSince(j, from)
                 + (IF j = k /\ keyState[j] = "live" /\ now >= from THEN usd ELSE 0)
    <3>1. CASE j = k
      BY <1>4, <2>2, <2>3, <3>1 DEF SpentSince
    <3>2. CASE j # k
      BY <1>3, <2>3, <3>2 DEF SpentSince
    <3> QED
      BY <3>1, <3>2
  <2> QED
    BY <1>1, <1>2, <2>4 DEF k, now, usd
<1>5. CASE keyState[k] # "live"
  <2>1. ledger' = ledger
    BY <1>5 DEF UsageInsert
  <2>2. ASSUME NEW j \in Keys, NEW from \in Int
        PROVE  SpentSince(j, from)' = SpentSince(j, from)
                 + (IF j = k /\ keyState[j] = "live" /\ now >= from THEN usd ELSE 0)
    BY <1>3, <1>5, <2>1 DEF SpentSince
  <2> QED
    BY <1>1, <1>2, <2>2
<1> QED
  BY <1>4, <1>5

\* A check passes below the highest limit.
LEMMA CheckPassed ==
  ASSUME NEW window \in {"five", "week", "total"},
         \A lim \in LimitChoices : lim[window] > 0,
         NEW lim \in LimitChoices, NEW used \in Nat, ~LimitReached(lim[window], used)
  PROVE  used < HighestLimit(window)
<1>1. lim[window] \in Nat /\ lim[window] > 0 /\ lim[window] <= HighestLimit(window)
      /\ HighestLimit(window) \in Nat
  BY FlowAssumption, HighestLimitBounds
<1> QED
  BY <1>1 DEF LimitReached

LEMMA RollingNext ==
  ASSUME \A lim \in LimitChoices : lim.five > 0
  PROVE  BInv /\ RollingRoom /\ [Next]_vars => RollingRoom'
<1> SUFFICES ASSUME BInv, RollingRoom, [Next]_vars, NEW k \in Keys
             PROVE  Room(SpentSince(k, clock - FiveHours)', Reserved(k)',
                         HighestLimit("five"))
  BY DEF RollingRoom, Room, HighestLimit, MaxCost, HighestPrice
<1> DEFINE w == SpentSince(k, clock - FiveHours)
           L == HighestLimit("five")
<1>0. /\ IInv /\ clock \in Nat /\ FiveHours \in Nat
      /\ \A j \in Keys, from \in Int : SpentSince(j, from) \in Nat /\ ledger[j] \in LedgerRows
  <2>1. IInv /\ clock \in Nat /\ FiveHours \in Nat
    BY FlowAssumption DEF BInv, IInv, TablesTyped
  <2> QED
    BY <2>1, SpentTyped
<1>1. /\ w \in Nat /\ L \in Nat /\ clock - FiveHours \in Int
      /\ Room(w, Reserved(k), L) /\ Reserved(k) \in SUBSET Requests
  BY <1>0, HighestLimitBounds DEF RollingRoom, Reserved
<1>3. ASSUME w' \in Nat, w' <= w, Reserved(k)' \subseteq Reserved(k)
      PROVE  Room(w', Reserved(k)', L)
  <2> HIDE DEF w, L
  <2> QED
    BY <1>1, <1>3, RoomShrinks
<1>4. UNCHANGED <<ledger, clock>> => w' = w
  BY DEF SpentSince
<1>5. UNCHANGED req => Reserved(k)' = Reserved(k)
  BY DEF Reserved
<1>6. ASSUME NEW r \in Requests, Handle(r) \/ (\E j \in Keys : Present(r, j)), ~UsageInsert(r)
      PROVE  Room(w', Reserved(k)', L)
  <2>1. PICK rec : /\ Step(r, rec) /\ Advances(r, rec)
                   /\ UNCHANGED <<keyRows, price, ledger, clock>>
    BY <1>6, HandleAdvances
  <2>2. \A q \in Requests : req'[q] = IF q = r THEN rec ELSE req[q]
    BY <1>0, <2>1, StepOne
  <2>3. w' = w
    BY <1>4, <2>1
  <2>4. CASE At(r, "five") /\ rec.pc = "week" /\ req[r].key = k
    <3>1. /\ ~LimitReached(req[r].limits.five, SpentSince(k, req[r].now - FiveHours))
          /\ req[r].limits \in LimitChoices
          /\ req[r].now \in Nat /\ req[r].now <= clock
      <4>1. rec # Idle
        BY <2>4 DEF Idle
      <4>2. /\ req[r].limits \in LimitChoices
            /\ req[r].now \in Nat /\ req[r].now <= clock
        BY <1>0, <2>4, RecordsOf DEF BInv, RequestsBounded, Bounded, At
      <4> QED
        BY <2>1, <2>4, <4>1, <4>2 DEF Advances, At, OpenPCs
    <3> DEFINE checked == SpentSince(k, req[r].now - FiveHours)
    <3>2. checked \in Nat /\ w <= checked
      <4>1. req[r].now - FiveHours \in Int /\ req[r].now - FiveHours <= clock - FiveHours
        BY <1>0, <3>1
      <4> QED
        BY <1>0, <1>1, <4>1, SumSinceShrinks DEF SpentSince
    <3>3. checked < L
      <4>1. \A lim \in LimitChoices : lim["five"] > 0
        OBVIOUS
      <4> HIDE DEF checked
      <4>2. ~LimitReached(req[r].limits["five"], checked)
        BY <3>1 DEF checked
      <4> QED
        BY <3>1, <3>2, <4>1, <4>2, CheckPassed
    <3>4. Reserved(k)' \in SUBSET Requests
      BY DEF Reserved
    <3> HIDE DEF w, L, checked
    <3>5. w' \in Nat /\ w' < L
      BY <1>1, <2>3, <3>2, <3>3
    <3> QED
      BY <1>1, <3>4, <3>5, RoomAdmits
  <2>5. CASE ~(At(r, "five") /\ rec.pc = "week" /\ req[r].key = k)
    <3>1. rec.pc \in PastFive /\ rec.key = k
            => req[r].pc \in PastFive /\ req[r].key = k
      BY <2>1, <2>5 DEF Advances, Idle, At, PastFive, OpenPCs
    <3>2. Reserved(k)' \subseteq Reserved(k)
      BY <2>2, <3>1 DEF Reserved
    <3> QED
      BY <1>1, <1>3, <2>3, <3>2
  <2> QED
    BY <2>4, <2>5
<1>7. ASSUME NEW r \in Requests, UsageInsert(r)
      PROVE  Room(w', Reserved(k)', L)
  <2>1. /\ req[r].key \in Keys /\ req[r].pc = "insert"
        /\ Step(r, Idle) /\ UNCHANGED clock
        /\ \A j \in Keys, from \in Int :
              SpentSince(j, from)' = SpentSince(j, from)
                 + (IF /\ j = req[r].key /\ keyState[j] = "live"
                       /\ req[r].now >= from
                    THEN req[r].usd ELSE 0)
    BY <1>7, InsertCharges
  <2>2. req[r].usd \in Nat /\ req[r].usd <= MaxCost /\ MaxCost \in Nat
    BY <1>0, <2>1, RecordsOf, MaxCostType DEF BInv, RequestsBounded, Bounded
  <2>3. w' = SpentSince(k, clock - FiveHours)'
    OBVIOUS
  <2>4. /\ w' \in Nat /\ w' <= w + MaxCost
        /\ k # req[r].key => w' = w
    <3> DEFINE from == clock - FiveHours
    <3>1. from \in Int /\ SpentSince(k, clock - FiveHours)' = SpentSince(k, from)'
      BY <1>1, <2>1
    <3>2. w' = w + (IF /\ k = req[r].key /\ keyState[k] = "live" /\ req[r].now >= from
                    THEN req[r].usd ELSE 0)
      BY <2>1, <3>1
    <3> HIDE DEF w, from
    <3> QED
      BY <1>1, <2>2, <3>2
  <2>5. \A q \in Requests : req'[q] = IF q = r THEN Idle ELSE req[q]
    BY <1>0, <2>1, StepOne
  <2>6. Reserved(k)' \subseteq Reserved(k) \ {r}
    BY <2>5 DEF Reserved, Idle, PastFive, OpenPCs
  <2>7. CASE k = req[r].key
    <3>1. r \in Reserved(k)
      BY <2>1, <2>7 DEF Reserved, PastFive, OpenPCs
    <3> HIDE DEF w, L
    <3> QED
      BY <1>1, <2>4, <2>6, <3>1, RoomCharged
  <2>8. CASE k # req[r].key
    BY <1>1, <1>3, <2>4, <2>6, <2>8
  <2> QED
    BY <2>7, <2>8
<1>8. ASSUME NEW j \in Keys, DeleteKey(j)
      PROVE  Room(w', Reserved(k)', L)
  <2>1. /\ UNCHANGED <<req, clock>>
        /\ ledger'[k] = IF j = k THEN [t \in 0 .. MaxTick |-> 0] ELSE ledger[k]
    BY <1>0, <1>8 DEF DeleteKey, IInv, TablesTyped
  <2>2. w' = 0 \/ w' = w
    BY <1>1, <2>1, SumSinceZero DEF SpentSince
  <2> QED
    BY <1>1, <1>3, <1>5, <2>1, <2>2
<1>9. CASE Tick
  <2>1. UNCHANGED <<ledger, req>> /\ clock' = clock + 1
    BY <1>9 DEF Tick
  <2>2. clock' - FiveHours \in Int /\ clock - FiveHours <= clock' - FiveHours
    BY <1>0, <2>1
  <2>3. w' = SumSince(ledger[k], clock' - FiveHours)
    BY <2>1 DEF SpentSince
  <2>4. w' \in Nat /\ w' <= w
    BY <1>0, <1>1, <2>2, <2>3, SumSinceShrinks, SumSinceTyped DEF SpentSince
  <2> QED
    BY <1>3, <1>5, <2>1, <2>4
<1>10. CASE Restart
  <2>1. \A q \in Requests : req'[q] = Idle
    BY <1>10 DEF Restart
  <2>2. Reserved(k)' = {}
    BY <2>1 DEF Reserved, Idle, PastFive, OpenPCs
  <2>3. w' = w
    BY <1>4, <1>10 DEF Restart
  <2> QED
    BY <1>1, <1>3, <2>2, <2>3
<1>11. ASSUME UNCHANGED <<ledger, clock, req>>
       PROVE  Room(w', Reserved(k)', L)
  BY <1>1, <1>3, <1>4, <1>5, <1>11
<1>12. ASSUME NEW j \in Keys, NEW S \in BindingSets, NEW lim \in LimitChoices,
              CreateKey(j, S, lim) \/ (\E on \in BOOLEAN : UpdateKey(j, on, S, lim))
       PROVE  UNCHANGED <<ledger, clock, req>>
  BY <1>12 DEF CreateKey, UpdateKey
<1>13. (\E list \in PriceLists : SetPrices(list)) \/ UNCHANGED vars
         => UNCHANGED <<ledger, clock, req>>
  BY DEF SetPrices, vars
<1>14. Room(w', Reserved(k)', L)
  BY <1>6, <1>7, <1>8, <1>9, <1>10, <1>11, <1>12, <1>13 DEF Next
<1> QED
  BY <1>14

\* While every key has a five-hour limit, what a key has spent in the last five hours
\* exceeds the highest of them by less than one full charge for each request that can be
\* in flight: the window moves, the check uses the time of authenticate and the record
\* that of usage.handle (CheckQuota, RecordUsage).
THEOREM RollingOvershootBounded == Spec => []RollingOvershoot
<1>1. CASE \A lim \in LimitChoices : lim.five > 0
  <2>1. Init => RollingRoom
    <3> SUFFICES ASSUME Init, NEW k \in Keys
                 PROVE  Room(SpentSince(k, clock - FiveHours), Reserved(k),
                             HighestLimit("five"))
      BY DEF RollingRoom
    <3>1. SpentSince(k, clock - FiveHours) = 0
      <4>1. clock - FiveHours \in Int /\ ledger[k] = [t \in 0 .. MaxTick |-> 0]
        BY FlowAssumption DEF Init
      <4> QED
        BY <4>1, SumSinceZero DEF SpentSince
    <3>2. HighestLimit("five") \in Nat /\ HighestLimit("five") > 0
      BY <1>1, HighestLimitBounds
    <3>3. Reserved(k) \in SUBSET Requests
      BY DEF Reserved
    <3> QED
      BY <3>1, <3>2, <3>3, RoomAdmits
  <2>2. BInv /\ RollingRoom => RollingOvershoot
    <3> SUFFICES ASSUME BInv, RollingRoom, NEW k \in Keys
                 PROVE  SpentSince(k, clock - FiveHours)
                          < HighestLimit("five") + MaxCost * Cardinality(Requests)
      BY DEF RollingOvershoot
    <3> DEFINE w == SpentSince(k, clock - FiveHours)
               s == MaxCost * Cardinality(Reserved(k))
               all == MaxCost * Cardinality(Requests)
               L == HighestLimit("five")
    <3>1. IInv /\ clock - FiveHours \in Int
      BY FlowAssumption DEF BInv, IInv, TablesTyped
    <3>2. w \in Nat /\ L \in Nat /\ s \in Nat /\ all \in Nat
      BY <3>1, SpentTyped, HighestLimitBounds, ChargesOf DEF Reserved
    <3>3. w + s < L + all
      BY DEF RollingRoom, Room
    <3> HIDE DEF w, s, all, L
    <3>4. w < L + all
      BY <3>2, <3>3
    <3> QED
      BY <3>4 DEF w, all, L
  <2>3. BInv /\ RollingRoom /\ [Next]_vars => RollingRoom'
    BY <1>1, RollingNext
  <2> QED
    BY <2>1, <2>2, <2>3, BoundedInvariant, PTL DEF Spec
<1>2. CASE ~(\A lim \in LimitChoices : lim.five > 0)
  <2>1. RollingOvershoot
    BY <1>2 DEF RollingOvershoot
  <2> QED
    BY <2>1, PTL
<1> QED
  BY <1>1, <1>2

-----------------------------------------------------------------------------
(* The refinement of Budget.                                                *)

SpentOf == [k \in Keys |-> SpentSince(k, 0)]
OpenOf == [k \in Keys |-> {r \in Requests : req[r].key = k /\ req[r].pc \in OpenPCs}]

LEMMA TotalInit == Init => Total!Init
<1> SUFFICES ASSUME Init
             PROVE  SpentOf = [k \in Keys |-> 0] /\ OpenOf = [k \in Keys |-> {}]
  BY DEF Total!Init, SpentOf, OpenOf
<1>1. ASSUME NEW k \in Keys PROVE SpentSince(k, 0) = 0
  <2>1. ledger[k] = [t \in 0 .. MaxTick |-> 0] /\ 0 \in Int
    BY DEF Init
  <2> QED
    BY <2>1, SumSinceZero DEF SpentSince
<1>2. ASSUME NEW k \in Keys
      PROVE  {r \in Requests : req[r].key = k /\ req[r].pc \in OpenPCs} = {}
  BY DEF Init, Idle, OpenPCs
<1> QED
  BY <1>1, <1>2 DEF SpentOf, OpenOf

\* Every step is a step of Budget with the highest total limit, or none.
LEMMA TotalNext ==
  ASSUME \A lim \in LimitChoices : lim.total > 0
  PROVE  BInv /\ [Next]_vars => [Total!Next]_(Total!vars)
<1> SUFFICES ASSUME BInv, [Next]_vars
             PROVE  Total!Next \/ UNCHANGED <<SpentOf, OpenOf>>
  BY DEF Total!vars, SpentOf, OpenOf
<1> DEFINE L == HighestLimit("total")
<1>0. /\ IInv
      /\ \A j \in Keys, from \in Int : SpentSince(j, from) \in Nat
  <2>1. IInv
    BY DEF BInv
  <2> QED
    BY <2>1, SpentTyped
<1>1. /\ UNCHANGED ledger => UNCHANGED SpentOf
      /\ UNCHANGED req => UNCHANGED OpenOf
  BY DEF SpentOf, SpentSince, OpenOf
<1>2. ASSUME NEW r \in Requests, NEW rec,
             \A q \in Requests : req'[q] = IF q = r THEN rec ELSE req[q]
      PROVE  /\ req[r].pc \notin OpenPCs /\ rec.pc \notin OpenPCs => UNCHANGED OpenOf
             /\ req[r].pc \in OpenPCs /\ rec.pc \in OpenPCs /\ rec.key = req[r].key
                  => UNCHANGED OpenOf
             /\ \A k \in Keys :
                  req[r].pc \notin OpenPCs /\ rec.pc \in OpenPCs /\ rec.key = k
                    => OpenOf' = [OpenOf EXCEPT ![k] = @ \cup {r}]
             /\ \A k \in Keys :
                  req[r].pc \in OpenPCs /\ rec.pc \notin OpenPCs /\ req[r].key = k
                    => OpenOf' = [OpenOf EXCEPT ![k] = @ \ {r}]
  <2> DEFINE Now(q, k) == req[q].key = k /\ req[q].pc \in OpenPCs
             Then(q, k) == req'[q].key = k /\ req'[q].pc \in OpenPCs
  <2>1. /\ OpenOf = [k \in Keys |-> {q \in Requests : Now(q, k)}]
        /\ OpenOf' = [k \in Keys |-> {q \in Requests : Then(q, k)}]
    BY DEF OpenOf
  <2>2. \A q \in Requests, k \in Keys : q # r => (Then(q, k) <=> Now(q, k))
    BY <1>2
  <2>3. \A k \in Keys : Then(r, k) <=> rec.key = k /\ rec.pc \in OpenPCs
    BY <1>2
  <2>4. \A k \in Keys : Now(r, k) <=> req[r].key = k /\ req[r].pc \in OpenPCs
    OBVIOUS
  <2> HIDE DEF Now, Then
  <2>5. ASSUME NEW k \in Keys
        PROVE  /\ (Then(r, k) <=> Now(r, k)) => OpenOf'[k] = OpenOf[k]
               /\ Then(r, k) => OpenOf'[k] = OpenOf[k] \cup {r}
               /\ ~Then(r, k) => OpenOf'[k] = OpenOf[k] \ {r}
    <3>1. \A q : q \in OpenOf[k] <=> q \in Requests /\ Now(q, k)
      BY <2>1
    <3>2. \A q : q \in OpenOf'[k] <=> q \in Requests /\ Then(q, k)
      BY <2>1
    <3> QED
      BY <2>2, <3>1, <3>2
  <2>6. /\ OpenOf = [k \in Keys |-> OpenOf[k]] /\ OpenOf' = [k \in Keys |-> OpenOf'[k]]
    BY <2>1
  <2>7. ASSUME \A k \in Keys : Then(r, k) <=> Now(r, k)
        PROVE  UNCHANGED OpenOf
    <3>1. \A k \in Keys : OpenOf'[k] = OpenOf[k]
      BY <2>5, <2>7
    <3> QED
      BY <2>6, <3>1
  <2>8. ASSUME NEW k \in Keys, Then(r, k), \A j \in Keys : ~Now(r, j),
               \A j \in Keys \ {k} : ~Then(r, j)
        PROVE  OpenOf' = [OpenOf EXCEPT ![k] = @ \cup {r}]
    <3>1. /\ OpenOf'[k] = OpenOf[k] \cup {r}
          /\ \A j \in Keys \ {k} : OpenOf'[j] = OpenOf[j]
      BY <2>5, <2>8
    <3> QED
      BY <2>6, <3>1
  <2>9. ASSUME NEW k \in Keys, Now(r, k), \A j \in Keys : ~Then(r, j),
               \A j \in Keys \ {k} : ~Now(r, j)
        PROVE  OpenOf' = [OpenOf EXCEPT ![k] = @ \ {r}]
    <3>1. /\ OpenOf'[k] = OpenOf[k] \ {r}
          /\ \A j \in Keys \ {k} : OpenOf'[j] = OpenOf[j]
      BY <2>5, <2>9
    <3> QED
      BY <2>6, <3>1
  <2> QED
    BY <2>3, <2>4, <2>7, <2>8, <2>9
<1>3. ASSUME NEW r \in Requests, Handle(r) \/ (\E j \in Keys : Present(r, j)), ~UsageInsert(r)
      PROVE  Total!Next \/ UNCHANGED <<SpentOf, OpenOf>>
  <2>1. PICK rec : /\ Step(r, rec) /\ Advances(r, rec)
                   /\ UNCHANGED <<keyRows, price, ledger, clock>>
    BY <1>3, HandleAdvances
  <2>2. \A q \in Requests : req'[q] = IF q = r THEN rec ELSE req[q]
    BY <1>0, <2>1, StepOne
  <2>3. UNCHANGED SpentOf
    BY <1>1, <2>1
  <2>4. CASE At(r, "total") /\ rec.pc = "validate"
    <3>0. req[r].key \in Keys
      BY <1>0, <2>4, RecordsOf DEF At
    <3> PICK k \in Keys : k = req[r].key
      BY <3>0
    <3>1. /\ rec.key = k /\ rec.pc \in OpenPCs /\ req[r].pc \notin OpenPCs
          /\ req[r].limits \in LimitChoices
          /\ ~LimitReached(req[r].limits["total"], SpentSince(k, 0))
      <4>1. rec # Idle
        BY <2>4 DEF Idle
      <4>2. req[r].limits \in LimitChoices
        BY <1>0, <2>4, RecordsOf DEF BInv, RequestsBounded, Bounded, At
      <4> QED
        BY <2>1, <2>4, <4>1, <4>2 DEF Advances, At, OpenPCs
    <3>2. SpentSince(k, 0) < L
      BY <1>0, <3>1, CheckPassed
    <3>3. SpentOf[k] < L /\ \A j \in Keys : r \notin OpenOf[j]
      BY <3>1, <3>2 DEF SpentOf, OpenOf
    <3>4. OpenOf' = [OpenOf EXCEPT ![k] = @ \cup {r}]
      BY <1>2, <2>2, <3>1
    <3>5. Total!Admit(k, r)
      BY <2>3, <3>3, <3>4 DEF Total!Admit, SpentOf, OpenOf
    <3> QED
      BY <3>1, <3>5 DEF Total!Next
  <2>5. CASE req[r].pc \in OpenPCs /\ rec = Idle
    <3>1. req[r].key \in Keys /\ Idle.pc \notin OpenPCs
      BY <1>0, <2>5, RecordsOf DEF Idle, OpenPCs
    <3> PICK k \in Keys : k = req[r].key
      BY <3>1
    <3>2. OpenOf' = [OpenOf EXCEPT ![k] = @ \ {r}] /\ r \in OpenOf[k]
      BY <1>2, <2>2, <2>5, <3>1 DEF OpenOf
    <3>3. Total!Abandon(k, r)
      BY <2>3, <3>2 DEF Total!Abandon, SpentOf, OpenOf
    <3> QED
      BY <3>1, <3>3 DEF Total!Next
  <2>6. CASE /\ ~(At(r, "total") /\ rec.pc = "validate")
             /\ ~(req[r].pc \in OpenPCs /\ rec = Idle)
    <3>1. \/ req[r].pc \notin OpenPCs /\ rec.pc \notin OpenPCs
          \/ req[r].pc \in OpenPCs /\ rec.pc \in OpenPCs /\ rec.key = req[r].key
      BY <2>1, <2>6 DEF Advances, Idle, At, OpenPCs
    <3> QED
      BY <1>2, <2>2, <2>3, <3>1
  <2> QED
    BY <2>4, <2>5, <2>6
<1>4. ASSUME NEW r \in Requests, UsageInsert(r)
      PROVE  Total!Next
  <2>0. req[r].key \in Keys
    BY <1>4, InsertCharges
  <2> PICK k \in Keys : k = req[r].key
    BY <2>0
  <2>1. /\ req[r].pc = "insert" /\ Step(r, Idle)
        /\ \A j \in Keys, from \in Int :
              SpentSince(j, from)' = SpentSince(j, from)
                 + (IF /\ j = k /\ keyState[j] = "live" /\ req[r].now >= from
                    THEN req[r].usd ELSE 0)
    BY <1>4, InsertCharges
  <2>2. /\ req[r].usd \in Nat /\ req[r].usd <= MaxCost /\ MaxCost \in Nat
        /\ req[r].now \in Nat
    BY <1>0, <2>1, RecordsOf, MaxCostType DEF BInv, RequestsBounded, Bounded
  <2> PICK usd : usd = IF keyState[k] = "live" THEN req[r].usd ELSE 0
    OBVIOUS
  <2>3. usd \in 0 .. MaxCost
    BY <2>2
  <2>4. \A j \in Keys : SpentSince(j, 0)' = SpentSince(j, 0) + (IF j = k THEN usd ELSE 0)
    <3>1. 0 \in Int /\ req[r].now >= 0
      BY <2>2
    <3> QED
      BY <1>0, <2>1, <3>1
  <2>5. \A q \in Requests : req'[q] = IF q = r THEN Idle ELSE req[q]
    BY <1>0, <2>1, StepOne
  <2>6. Idle.pc \notin OpenPCs /\ req[r].pc \in OpenPCs
    BY <2>1 DEF Idle, OpenPCs
  <2>7. OpenOf' = [OpenOf EXCEPT ![k] = @ \ {r}] /\ r \in OpenOf[k]
    BY <1>2, <2>1, <2>5, <2>6 DEF OpenOf
  <2>8. SpentOf' = [SpentOf EXCEPT ![k] = @ + usd]
    <3>1. \A j \in Keys : SpentOf'[j] = [SpentOf EXCEPT ![k] = @ + usd][j]
      <4>1. \A j \in Keys : SpentOf[j] = SpentSince(j, 0) /\ SpentOf'[j] = SpentSince(j, 0)'
                             /\ SpentSince(j, 0) \in Nat
        BY <1>0 DEF SpentOf
      <4>2. DOMAIN SpentOf = Keys
        BY DEF SpentOf
      <4> QED
        BY <2>1, <2>4, <4>1, <4>2
    <3>2. SpentOf' = [j \in Keys |-> SpentOf'[j]] /\ SpentOf = [j \in Keys |-> SpentOf[j]]
      BY DEF SpentOf
    <3> QED
      BY <3>1, <3>2
  <2>9. Total!Charge(k, r, usd)
    BY <2>7, <2>8 DEF Total!Charge, SpentOf, OpenOf
  <2> QED
    BY <2>1, <2>3, <2>9 DEF Total!Next
<1>5. ASSUME NEW k \in Keys, DeleteKey(k)
      PROVE  Total!Next
  <2>1. /\ UNCHANGED req
        /\ \A j \in Keys : ledger'[j] = IF j = k THEN [t \in 0 .. MaxTick |-> 0] ELSE ledger[j]
    BY <1>0, <1>5 DEF DeleteKey, IInv, TablesTyped
  <2>2. \A j \in Keys : SpentSince(j, 0)' = IF j = k THEN 0 ELSE SpentSince(j, 0)
    <3>0. 0 \in Int
      OBVIOUS
    <3>1. SumSince([t \in 0 .. MaxTick |-> 0], 0) = 0
      BY <3>0, SumSinceZero, Zenon
    <3> TAKE j \in Keys
    <3>2. SpentSince(j, 0)' = SumSince(ledger'[j], 0) /\ SpentSince(j, 0) = SumSince(ledger[j], 0)
      BY DEF SpentSince
    <3>3. CASE j = k
      <4>1. SumSince(ledger'[j], 0) = SumSince([t \in 0 .. MaxTick |-> 0], 0)
        BY <2>1, <3>3
      <4>2. SpentSince(j, 0)' = 0
        BY <3>1, <3>2, <4>1
      <4> QED
        BY <3>3, <4>2
    <3>4. CASE j # k
      <4>1. ledger'[j] = ledger[j]
        BY <2>1, <3>4
      <4> QED
        BY <3>2, <3>4, <4>1
    <3> QED
      BY <3>3, <3>4
  <2>3. SpentOf' = [SpentOf EXCEPT ![k] = 0]
    BY <2>2 DEF SpentOf
  <2>4. Total!Erase(k)
    BY <1>1, <2>1, <2>3 DEF Total!Erase, SpentOf, OpenOf
  <2> QED
    BY <2>4 DEF Total!Next
<1>6. CASE Restart
  <2>1. \A q \in Requests : req'[q] = Idle
    BY <1>6 DEF Restart
  <2>2. OpenOf' = [k \in Keys |-> {}]
    BY <2>1 DEF OpenOf, Idle, OpenPCs
  <2>3. UNCHANGED SpentOf
    BY <1>1, <1>6 DEF Restart
  <2>4. Total!AbandonAll
    BY <2>2, <2>3 DEF Total!AbandonAll, SpentOf, OpenOf
  <2> QED
    BY <2>4 DEF Total!Next
<1>7. ASSUME UNCHANGED <<ledger, req>>
      PROVE  UNCHANGED <<SpentOf, OpenOf>>
  BY <1>1, <1>7
<1>8. ASSUME NEW j \in Keys, NEW S \in BindingSets, NEW lim \in LimitChoices,
             CreateKey(j, S, lim) \/ (\E on \in BOOLEAN : UpdateKey(j, on, S, lim))
      PROVE  UNCHANGED <<ledger, req>>
  BY <1>8 DEF CreateKey, UpdateKey
<1>9. Tick \/ (\E list \in PriceLists : SetPrices(list)) \/ UNCHANGED vars
        => UNCHANGED <<ledger, req>>
  BY DEF Tick, SetPrices, vars
<1> QED
  BY <1>3, <1>4, <1>5, <1>6, <1>7, <1>8, <1>9 DEF Next

\* Admission and recording implement Budget: while every key has a total limit, what is
\* recorded for a key is admitted below the highest limit and charged once per request.
THEOREM FlowImplementsBudget ==
    ASSUME \A lim \in LimitChoices : lim.total > 0
    PROVE  Spec => WithinBudget
<1>1. BInv /\ [Next]_vars => [Total!Next]_(Total!vars)
  BY TotalNext
<1> QED
  BY <1>1, TotalInit, BoundedInvariant, PTL DEF Spec, WithinBudget, Total!Spec
=============================================================================
