-------------------------------- MODULE Budget --------------------------------
(***************************************************************************)
(* What the USD limits promise.  A request is admitted while the recorded  *)
(* spending of its key is below the limit, and is charged when it is over, *)
(* when its token counts are known (README.md, "Quota").  In between it is *)
(* not counted anywhere, so the limit can be passed: this specification    *)
(* says by how much.  RequestFlow implements it.                           *)
(***************************************************************************)
EXTENDS Integers, FiniteSets

CONSTANTS
    Keys,
    Requests,   \* requests that may be in flight together
    Limit,      \* the highest limit that a key is ever given
    MaxCost     \* the most one request can cost

ASSUME BudgetAssumption ==
    /\ IsFiniteSet(Requests)
    /\ Limit \in Nat \ {0}
    /\ MaxCost \in Nat

VARIABLES
    spent,      \* recorded spending of each key
    open        \* requests of each key admitted and not yet charged

vars == <<spent, open>>

Init ==
    /\ spent = [k \in Keys |-> 0]
    /\ open = [k \in Keys |-> {}]

\* Mutant: the limit itself may still be spent.
AdmitAtLimit(k, r) ==
    /\ spent[k] <= Limit
    /\ \A j \in Keys : r \notin open[j]
    /\ open' = [open EXCEPT ![k] = @ \cup {r}]
    /\ UNCHANGED spent
Admit(k, r) ==
    /\ spent[k] < Limit
    /\ \A j \in Keys : r \notin open[j]
    /\ open' = [open EXCEPT ![k] = @ \cup {r}]
    /\ UNCHANGED spent

\* Mutant: a request stays open after its charge and is charged again.
ChargeRepeatedly(k, r, usd) ==
    /\ r \in open[k]
    /\ spent' = [spent EXCEPT ![k] = @ + usd]
    /\ UNCHANGED open
\* Mutant: the charge is subtracted.
ChargeNegative(k, r, usd) ==
    /\ r \in open[k]
    /\ open' = [open EXCEPT ![k] = @ \ {r}]
    /\ spent' = [spent EXCEPT ![k] = @ - usd]
Charge(k, r, usd) ==
    /\ r \in open[k]
    /\ open' = [open EXCEPT ![k] = @ \ {r}]
    /\ spent' = [spent EXCEPT ![k] = @ + usd]

\* Refused later on, failed without usage, or its key is gone.
Abandon(k, r) ==
    /\ r \in open[k]
    /\ open' = [open EXCEPT ![k] = @ \ {r}]
    /\ UNCHANGED spent

\* The ledger rows of a deleted key go with it.
Erase(k) ==
    /\ spent' = [spent EXCEPT ![k] = 0]
    /\ UNCHANGED open

\* A restart of the process ends the requests in flight.
AbandonAll ==
    /\ open' = [k \in Keys |-> {}]
    /\ UNCHANGED spent

Next ==
    \/ \E k \in Keys, r \in Requests :
          \/ Admit(k, r)
          \/ \E usd \in 0 .. MaxCost : Charge(k, r, usd)
          \/ Abandon(k, r)
    \/ \E k \in Keys : Erase(k)
    \/ AbandonAll

Spec == Init /\ [][Next]_vars

\* Type invariant of the recorded spending and the open requests.
TypeOK ==
    /\ spent \in [Keys -> Nat]
    /\ open \in [Keys -> SUBSET Requests]

\* The room that is left covers the requests still to be charged: an inductive
\* strengthening of OvershootBounded that counts a charge, for each request
\* between its quota check and its record, before usage.handle delivers it.
Headroom ==
    \A k \in Keys :
        spent[k] + MaxCost * Cardinality(open[k])
            < Limit + MaxCost * Cardinality(Requests)

\* A key overshoots its limit by less than one full charge for each request
\* that can be in flight, however quota checks and usage records interleave
\* (Store.CheckQuota, Store.RecordUsage).
OvershootBounded ==
    \A k \in Keys : spent[k] < Limit + MaxCost * Cardinality(Requests)
===============================================================================
