----------------------------- MODULE BudgetProofs -----------------------------
(***************************************************************************)
(* The bound on overshooting a limit, for any number of keys and requests, *)
(* any limit and any cost of a request.                                    *)
(***************************************************************************)
EXTENDS Budget, FiniteSetTheorems, TLAPS

USE BudgetAssumption

\* The charges kept for the open requests are a natural number, and never
\* more than one for each request.
LEMMA OpenCardinality ==
    ASSUME NEW S \in SUBSET Requests
    PROVE  /\ IsFiniteSet(S)
           /\ Cardinality(S) \in Nat
           /\ Cardinality(S) <= Cardinality(Requests)
           /\ Cardinality(Requests) \in Nat
BY FS_Subset, FS_CardinalityType

\* A request more or less in a set of open requests is a charge more or less.
LEMMA OpenOneMore ==
    ASSUME NEW S \in SUBSET Requests, NEW r \in Requests, r \notin S
    PROVE  /\ Cardinality(S \cup {r}) = Cardinality(S) + 1
           /\ MaxCost * Cardinality(S \cup {r}) = MaxCost * Cardinality(S) + MaxCost
           /\ Cardinality(S \cup {r}) <= Cardinality(Requests)
<1>1. Cardinality(S \cup {r}) = Cardinality(S) + 1
  BY OpenCardinality, FS_AddElement
<1>2. S \cup {r} \in SUBSET Requests
  OBVIOUS
<1> QED
  BY <1>1, <1>2, OpenCardinality

LEMMA OpenOneLess ==
    ASSUME NEW S \in SUBSET Requests, NEW r \in S
    PROVE  MaxCost * Cardinality(S) = MaxCost * Cardinality(S \ {r}) + MaxCost
<1>1. S \ {r} \in SUBSET Requests /\ r \in Requests /\ r \notin S \ {r}
  OBVIOUS
<1>2. (S \ {r}) \cup {r} = S
  OBVIOUS
<1> QED
  BY <1>1, <1>2, OpenOneMore

\* A product of the cost and a cardinality, for the arithmetic below.
LEMMA Monotone ==
    ASSUME NEW m \in Nat, NEW n \in Nat, m <= n
    PROVE  MaxCost * m <= MaxCost * n /\ MaxCost * m \in Nat /\ MaxCost * n \in Nat
OBVIOUS

IInv == TypeOK /\ Headroom

LEMMA IInvInit == Init => IInv
<1> SUFFICES ASSUME Init PROVE IInv
  OBVIOUS
<1>1. Cardinality({}) = 0
  BY FS_EmptySet
<1>2. Cardinality(Requests) \in Nat
  BY OpenCardinality
<1>3. MaxCost * Cardinality(Requests) \in Nat
  BY <1>2
<1> QED
  BY <1>1, <1>3 DEF Init, IInv, TypeOK, Headroom

LEMMA IInvNext == IInv /\ [Next]_vars => IInv'
<1> SUFFICES ASSUME IInv, [Next]_vars PROVE IInv'
  OBVIOUS
<1> USE DEF IInv, TypeOK
<1> DEFINE Room == MaxCost * Cardinality(Requests)
<1>0. Room \in Nat /\ \A k \in Keys : MaxCost * Cardinality(open[k]) \in Nat
  BY OpenCardinality
<1>1. ASSUME NEW k \in Keys, NEW r \in Requests, Admit(k, r)
      PROVE  IInv'
  <2>1. TypeOK'
    BY <1>1 DEF Admit
  <2>2. r \notin open[k] /\ spent' = spent /\ open'[k] = open[k] \cup {r}
    BY <1>1 DEF Admit
  <2>3. Cardinality(open[k] \cup {r}) <= Cardinality(Requests)
    BY <2>2, OpenOneMore
  <2>4. MaxCost * Cardinality(open[k] \cup {r}) <= Room
    BY <2>3, <2>2, OpenCardinality, Monotone
  <2>5. spent[k] + MaxCost * Cardinality(open'[k]) < Limit + Room
    <3>1. spent[k] < Limit
      BY <1>1 DEF Admit
    <3>2. MaxCost * Cardinality(open'[k]) \in Nat
      BY <2>1, OpenCardinality
    <3> HIDE DEF Room
    <3> QED
      BY <3>1, <3>2, <2>2, <2>4, <1>0
  <2>6. \A j \in Keys \ {k} : open'[j] = open[j]
    BY <1>1 DEF Admit
  <2>7. Headroom'
    BY <2>2, <2>5, <2>6 DEF Headroom
  <2> QED
    BY <2>1, <2>7
<1>2. ASSUME NEW k \in Keys, NEW r \in Requests, NEW usd \in 0 .. MaxCost,
             Charge(k, r, usd)
      PROVE  IInv'
  <2>1. TypeOK'
    BY <1>2 DEF Charge
  <2>2. r \in open[k] /\ spent'[k] = spent[k] + usd /\ open'[k] = open[k] \ {r}
    BY <1>2 DEF Charge
  <2>3. MaxCost * Cardinality(open[k]) = MaxCost * Cardinality(open'[k]) + MaxCost
    BY <2>2, OpenOneLess
  <2>4. spent'[k] + MaxCost * Cardinality(open'[k]) < Limit + Room
    <3>1. spent[k] + MaxCost * Cardinality(open[k]) < Limit + Room
      BY DEF Headroom
    <3>2. MaxCost * Cardinality(open'[k]) \in Nat
      BY <2>1, OpenCardinality
    <3> DEFINE before == MaxCost * Cardinality(open[k])
               after == MaxCost * Cardinality(open'[k])
    <3>3. before = after + MaxCost /\ before \in Nat /\ after \in Nat
      BY <2>3, <3>2, <1>0
    <3>4. spent[k] + before < Limit + Room
      BY <3>1
    <3>5. spent[k] \in Nat
      OBVIOUS
    <3> HIDE DEF Room, before, after
    <3>6. spent'[k] + after < Limit + Room
      BY <3>3, <3>4, <3>5, <2>2, <1>0
    <3> QED
      BY <3>6 DEF after
  <2>5. \A j \in Keys \ {k} : open'[j] = open[j] /\ spent'[j] = spent[j]
    BY <1>2 DEF Charge
  <2>6. Headroom'
    BY <2>4, <2>5 DEF Headroom
  <2> QED
    BY <2>1, <2>6
<1>3. ASSUME spent' \in [Keys -> Nat],
             open' \in [Keys -> SUBSET Requests],
             \A k \in Keys : spent'[k] <= spent[k] /\ open'[k] \subseteq open[k]
      PROVE  IInv'
  <2>1. ASSUME NEW k \in Keys
        PROVE  spent'[k] + MaxCost * Cardinality(open'[k]) < Limit + Room
    <3>1. Cardinality(open'[k]) <= Cardinality(open[k])
      BY <1>3, OpenCardinality, FS_Subset
    <3> DEFINE before == MaxCost * Cardinality(open[k])
               after == MaxCost * Cardinality(open'[k])
    <3>2. after <= before /\ before \in Nat /\ after \in Nat
      BY <3>1, <1>3, OpenCardinality, Monotone
    <3>3. spent[k] + before < Limit + Room
      BY DEF Headroom
    <3>4. spent'[k] <= spent[k] /\ spent[k] \in Nat /\ spent'[k] \in Nat
      BY <1>3
    <3> HIDE DEF Room, before, after
    <3>5. spent'[k] + after < Limit + Room
      BY <3>2, <3>3, <3>4, <1>0
    <3> QED
      BY <3>5 DEF after
  <2> QED
    BY <2>1, <1>3 DEF Headroom
<1>4. ASSUME NEW k \in Keys, NEW r \in Requests, Abandon(k, r)
      PROVE  IInv'
  BY <1>3, <1>4 DEF Abandon
<1>5. ASSUME NEW k \in Keys, Erase(k)
      PROVE  IInv'
  BY <1>3, <1>5 DEF Erase
<1>6. CASE AbandonAll
  BY <1>3, <1>6 DEF AbandonAll
<1>7. CASE UNCHANGED vars
  BY <1>3, <1>7 DEF vars
<1> QED
  BY <1>1, <1>2, <1>4, <1>5, <1>6, <1>7 DEF Next

\* Type correctness and the room kept for the open requests, in every state.
THEOREM BudgetInvariant == Spec => [](TypeOK /\ Headroom)
<1>1. Spec => []IInv
  BY IInvInit, IInvNext, PTL DEF Spec
<1> QED
  BY <1>1, PTL DEF IInv

\* Recorded spending is a natural number, and only requests that exist are open.
THEOREM BudgetTyped == Spec => []TypeOK
<1>1. TypeOK /\ Headroom => TypeOK
  OBVIOUS
<1> QED
  BY <1>1, BudgetInvariant, PTL

\* For every number of concurrent requests, every limit and every cost, the
\* spending recorded for a key stays below the limit plus one charge for each
\* of them (Store.CheckQuota before, Store.RecordUsage after the request).
THEOREM OvershootIsBounded == Spec => []OvershootBounded
<1>1. IInv => OvershootBounded
  <2> SUFFICES ASSUME IInv, NEW k \in Keys
               PROVE  spent[k] < Limit + MaxCost * Cardinality(Requests)
    BY DEF OvershootBounded
  <2>1. /\ spent[k] \in Nat
        /\ MaxCost * Cardinality(open[k]) \in Nat
        /\ MaxCost * Cardinality(Requests) \in Nat
    BY OpenCardinality DEF IInv, TypeOK
  <2>2. spent[k] + MaxCost * Cardinality(open[k])
            < Limit + MaxCost * Cardinality(Requests)
    BY DEF IInv, Headroom
  <2> DEFINE reserve == MaxCost * Cardinality(open[k])
             room == MaxCost * Cardinality(Requests)
  <2>3. spent[k] \in Nat /\ reserve \in Nat /\ room \in Nat
        /\ spent[k] + reserve < Limit + room
    BY <2>1, <2>2
  <2> HIDE DEF reserve, room
  <2>4. spent[k] < Limit + room
    BY <2>3
  <2> QED
    BY <2>4 DEF room
<1>2. Spec => []IInv
  BY IInvInit, IInvNext, PTL DEF Spec
<1> QED
  BY <1>1, <1>2, PTL
===============================================================================
