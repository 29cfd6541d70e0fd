-------------------------- MODULE RoutingGuardProofs --------------------------
(***************************************************************************)
(* Routing implements AccessGuard, for any constants: every step of a      *)
(* routing call, of management or of the process is a step of the guard or *)
(* leaves what the guard sees as it is.                                    *)
(***************************************************************************)
EXTENDS RoutingProofs

\* What the guard sees of a call.
Image(r) == [phase |-> Phase(r.pc), key |-> r.key,
             seen |-> r.scope, verdict |-> r.answer]

LEMMA PhaseValues ==
    /\ Phase("idle") = "idle" /\ Phase("done") = "ruled"
    /\ Phase("getKey") = "asked" /\ Phase("resolve") = "asked"
    /\ Phase("pickLock") = "asked"
    /\ Phase("chooseTx") = "looked" /\ Phase("pickTx") = "looked"
BY DEF Phase

LEMMA IdleImage == Image(IdleCall) = Guard!NoRequest
BY PhaseValues DEF Image, IdleCall, Denied, Guard!NoRequest, Guard!Request, Guard!Denied

\* A step of one call changes one request of the guard.
LEMMA GuardCallMoves ==
    ASSUME IInv, NEW c \in Calls, NEW rec, Continue(c, rec)
    PROVE  /\ GuardCall[c] = Image(call[c])
           /\ GuardCall' = [GuardCall EXCEPT ![c] = Image(rec)]
<1>1. \A d \in Calls : call'[d] = IF d = c THEN rec ELSE call[d]
  BY DEF Continue, IInv, TypeOK
<1>2. GuardCall = [d \in Calls |-> Image(call[d])]
  BY DEF GuardCall, Image
<1>3. GuardCall' = [d \in Calls |-> Image(call'[d])]
  BY DEF GuardCall, Image
<1> QED
  BY <1>1, <1>2, <1>3

\* The answers: without another look, or with a look at the same instant.
LEMMA AnswerRules ==
    ASSUME IInv, NEW c \in Calls, NEW ans, Answer(c, ans), UNCHANGED bindings
    PROVE  /\ Phase(call[c].pc) = "looked" /\ ans \in Guard!Verdicts(call[c].scope)
                => Guard!Rule(c)
           /\ Phase(call[c].pc) = "asked" /\ ans \in Guard!Verdicts(bindings[call[c].key])
                => Guard!LookAndRule(c)
<1> DEFINE rec == [IdleCall EXCEPT !.pc = "done", !.key = call[c].key, !.answer = ans]
           out == Guard!Request("ruled", call[c].key, {}, ans)
<1>1. Image(rec) = out
  BY PhaseValues DEF Image, IdleCall, Guard!Request
<1>2. /\ GuardCall[c] = Image(call[c])
      /\ GuardCall' = [GuardCall EXCEPT ![c] = out]
  BY <1>1, GuardCallMoves DEF Answer
<1> HIDE DEF rec
<1>3. /\ GuardCall[c].phase = Phase(call[c].pc) /\ GuardCall[c].key = call[c].key
      /\ GuardCall[c].seen = call[c].scope
  BY <1>2 DEF Image
<1>4. \A seen : ans \in Guard!Verdicts(seen) => Guard!Ruled(c, seen)
  BY <1>2, <1>3 DEF Guard!Ruled
<1> QED
  BY <1>3, <1>4 DEF Guard!Rule, Guard!LookAndRule

LEMMA DeniedIsSafe == \A seen : Denied \in Guard!Verdicts(seen)
BY DEF Denied, Guard!Denied, Guard!Verdicts

LEMMA UnboundIsUnhandled == Unhandled \in Guard!Verdicts({})
BY DEF Unhandled, Guard!Unhandled, Guard!Verdicts

LEMMA TargetsAreGranted ==
    ASSUME NEW seen, NEW x, x \in seen \/ x \in ProvidersOf(seen)
    PROVE  Target(x) \in Guard!Verdicts(seen)
BY DEF Target, Guard!Target, Guard!Verdicts, ProvidersOf

-----------------------------------------------------------------------------
(* One step for each action of a call.                                     *)

LEMMA StartAsks ==
    ASSUME IInv, NEW c \in Calls, Start(c)
    PROVE  Guard!Ask(c)
<1>1. PICK k \in Keys, m \in Models, s \in Sessions \cup {None} :
        \/ ChooseStart(c, k, m, s)
        \/ \E p \in Filters, offer \in Offers : PickStart(c, k, m, s, p, offer)
  BY DEF Start
<1>2. UNCHANGED bindings /\ call[c].pc = "idle"
  BY <1>1 DEF ChooseStart, PickStart, store
<1>3. PICK rec : Continue(c, rec) /\ Image(rec) = Guard!Request("asked", k, {}, Denied)
  <2>1. CASE ChooseStart(c, k, m, s)
    <3> DEFINE r == [IdleCall EXCEPT !.pc = "getKey", !.key = k, !.model = m,
                                     !.session = s, !.now = clock]
    <3>1. Image(r) = Guard!Request("asked", k, {}, Denied)
      BY PhaseValues DEF Image, IdleCall, Guard!Request
    <3> QED
      BY <2>1, <3>1 DEF ChooseStart
  <2>2. ASSUME NEW p \in Filters, NEW offer \in Offers, PickStart(c, k, m, s, p, offer)
        PROVE  \E r : Continue(c, r) /\ Image(r) = Guard!Request("asked", k, {}, Denied)
    <3> DEFINE r == [IdleCall EXCEPT !.pc = "pickLock", !.key = k, !.model = m,
                        !.session = s, !.now = clock, !.filter = p,
                        !.offer = offer]
    <3>1. Image(r) = Guard!Request("asked", k, {}, Denied)
      BY PhaseValues DEF Image, IdleCall, Guard!Request
    <3> QED
      BY <2>2, <3>1 DEF PickStart
  <2> QED
    BY <1>1, <2>1, <2>2
<1>4. /\ GuardCall[c] = Image(call[c])
      /\ GuardCall' = [GuardCall EXCEPT ![c] = Guard!Request("asked", k, {}, Denied)]
  BY <1>3, GuardCallMoves
<1>5. GuardCall[c].phase = "idle"
  BY <1>2, <1>4, PhaseValues DEF Image
<1> QED
  BY <1>2, <1>4, <1>5 DEF Guard!Ask, Denied, Guard!Denied

\* A call that has read its scope and goes on.
LEMMA ScopeIsLookedAt ==
    ASSUME IInv, NEW c \in Calls, NEW rec, Continue(c, rec), UNCHANGED bindings,
           call[c].pc \in {"resolve", "pickLock"}, Phase(rec.pc) = "looked",
           rec.key = call[c].key, rec.scope = bindings[call[c].key],
           rec.answer = call[c].answer
    PROVE  Guard!Look(c)
<1>1. /\ GuardCall[c] = Image(call[c])
      /\ GuardCall' = [GuardCall EXCEPT ![c] = Image(rec)]
  BY GuardCallMoves
<1>2. GuardCall[c].phase = "asked" /\ GuardCall[c].key = call[c].key
  BY <1>1, PhaseValues DEF Image
<1>3. rec.answer = Denied
  BY DEF IInv, CallsSound, RecordSound
<1>4. Image(rec) = Guard!Request("looked", call[c].key, bindings[call[c].key], Denied)
  BY <1>3 DEF Image, Guard!Request
<1> QED
  BY <1>1, <1>2, <1>4 DEF Guard!Look, Denied, Guard!Denied

LEMMA ChooseGetKeyGuarded ==
    ASSUME IInv, NEW c \in Calls, ChooseGetKey(c)
    PROVE  Guard!LookAndRule(c) \/ UNCHANGED <<bindings, GuardCall>>
<1>1. call[c].pc = "getKey" /\ UNCHANGED bindings /\ Phase(call[c].pc) = "asked"
  BY PhaseValues DEF ChooseGetKey, store
<1>2. CASE Answer(c, Denied)
  BY <1>1, <1>2, DeniedIsSafe, AnswerRules
<1> DEFINE rec == [call[c] EXCEPT !.pc = "resolve", !.limited = limited[call[c].key]]
<1>3. CASE Continue(c, rec)
  <2>1. call[c] \in CallRecords
    BY DEF IInv, TypeOK
  <2>2. Image(rec) = Image(call[c])
    BY <1>1, <2>1, PhaseValues DEF Image, CallRecords
  <2> HIDE DEF rec
  <2>3. GuardCall' = [GuardCall EXCEPT ![c] = GuardCall[c]]
    BY <1>3, <2>2, GuardCallMoves
  <2> QED
    BY <1>1, <2>3 DEF GuardCall
<1> QED
  BY <1>2, <1>3 DEF ChooseGetKey

LEMMA ChooseResolveGuarded ==
    ASSUME IInv, NEW c \in Calls, NEW available, ChooseResolve(c, available)
    PROVE  Guard!Look(c) \/ Guard!LookAndRule(c)
<1>1. call[c].pc = "resolve" /\ UNCHANGED bindings /\ Phase(call[c].pc) = "asked"
  BY PhaseValues DEF ChooseResolve, store
<1>2. CASE Answer(c, Denied)
  BY <1>1, <1>2, DeniedIsSafe, AnswerRules
<1>3. CASE Answer(c, Unhandled) /\ bindings[call[c].key] = {}
  BY <1>1, <1>3, UnboundIsUnhandled, AnswerRules
<1> DEFINE scope == bindings[call[c].key]
           rec == [call[c] EXCEPT !.pc = "chooseTx", !.scope = scope,
                      !.targets = AllowedProviders(c, scope, available)]
<1>4. CASE Continue(c, rec)
  <2>1. call[c] \in CallRecords
    BY DEF IInv, TypeOK
  <2>2. rec.pc = "chooseTx" /\ rec.key = call[c].key /\ rec.scope = scope
        /\ rec.answer = call[c].answer
    BY <2>1 DEF CallRecords
  <2> HIDE DEF rec
  <2> QED
    BY <1>1, <1>4, <2>2, PhaseValues, ScopeIsLookedAt
<1> QED
  BY <1>2, <1>3, <1>4 DEF ChooseResolve

LEMMA PickResolveGuarded ==
    ASSUME IInv, NEW c \in Calls, PickResolve(c)
    PROVE  Guard!Look(c) \/ Guard!LookAndRule(c)
<1>1. call[c].pc = "pickLock" /\ UNCHANGED bindings /\ Phase(call[c].pc) = "asked"
  BY PhaseValues DEF PickResolve, store
<1>2. CASE Answer(c, Denied)
  BY <1>1, <1>2, DeniedIsSafe, AnswerRules
<1>3. CASE Answer(c, Unhandled) /\ bindings[call[c].key] = {}
  BY <1>1, <1>3, UnboundIsUnhandled, AnswerRules
<1> DEFINE scope == bindings[call[c].key]
           top == Top(c, Matched(c, scope))
           rec(a) == [call[c] EXCEPT !.pc = "pickTx", !.scope = scope,
                         !.targets = top, !.prio = call[c].offer[a], !.offer = <<>>]
<1>4. ASSUME NEW a \in top, Continue(c, rec(a))
      PROVE  Guard!Look(c)
  <2>1. call[c] \in CallRecords
    BY DEF IInv, TypeOK
  <2>2. rec(a).pc = "pickTx" /\ rec(a).key = call[c].key /\ rec(a).scope = scope
        /\ rec(a).answer = call[c].answer
    BY <2>1 DEF CallRecords
  <2> HIDE DEF rec
  <2> QED
    BY <1>1, <1>4, <2>2, PhaseValues, ScopeIsLookedAt
<1> QED
  BY <1>2, <1>3, <1>4 DEF PickResolve, EarlyReturn

LEMMA ReadFailsGuarded ==
    ASSUME IInv, NEW c \in Calls, ChooseReadFails(c) \/ PickReadFails(c)
    PROVE  Guard!LookAndRule(c)
<1>1. /\ UNCHANGED bindings /\ Answer(c, Denied) /\ Phase(call[c].pc) = "asked"
  BY PhaseValues DEF ChooseReadFails, PickReadFails, EarlyReturn, store
<1> QED
  BY <1>1, DeniedIsSafe, AnswerRules

LEMMA ChooseTxGuarded ==
    ASSUME IInv, NEW c \in Calls, ChooseTx(c)
    PROVE  Guard!Rule(c)
<1>1. /\ call[c].pc = "chooseTx" /\ UNCHANGED bindings
      /\ Phase(call[c].pc) = "looked"
  BY PhaseValues DEF ChooseTx, store
<1>2. call[c] \in CallRecords /\ RecordSound(call[c])
  BY DEF IInv, TypeOK, CallsSound
<1>3. /\ call[c].targets # {} /\ call[c].targets \subseteq ProvidersOf(call[c].scope)
      /\ call[c].targets \in SUBSET Providers
      /\ call[c].key \in Keys /\ call[c].model \in Models
  BY <1>1, <1>2, ProvidersOfType DEF RecordSound, CallRecords
<1>4. RoutingValue(ProviderCursor(c), call[c].targets) \in call[c].targets
  BY <1>3, RoutingValueInSet DEF IInv, ProviderCursor, CursorKeys
<1>5. PICK ans :
        /\ Answer(c, ans)
        /\ ans = Denied \/ \E p \in call[c].targets : ans = Target(p)
  BY <1>4 DEF ChooseTx, ChooseSticky, ChooseNext, ChooseRoundRobin, ChooseTxFails,
              ProviderSticks
<1>6. ans \in Guard!Verdicts(call[c].scope)
  BY <1>3, <1>5, DeniedIsSafe, TargetsAreGranted
<1> QED
  BY <1>1, <1>5, <1>6, AnswerRules

LEMMA PickTxGuarded ==
    ASSUME IInv, NEW c \in Calls, PickTx(c)
    PROVE  Guard!Rule(c)
<1>1. /\ call[c].pc = "pickTx" /\ UNCHANGED bindings
      /\ Phase(call[c].pc) = "looked"
  BY PhaseValues DEF PickTx, store
<1>2. call[c] \in CallRecords /\ RecordSound(call[c])
  BY DEF IInv, TypeOK, CallsSound
<1>3. /\ call[c].targets # {} /\ call[c].targets \subseteq call[c].scope
      /\ call[c].targets \in SUBSET Auths
      /\ call[c].key \in Keys /\ call[c].model \in Models
      /\ call[c].filter \in Filters /\ call[c].prio \in Priorities
  BY <1>1, <1>2 DEF RecordSound, CallRecords
<1>4. RoutingValue(AuthCursor(c), call[c].targets) \in call[c].targets
  BY <1>3, RoutingValueInSet DEF IInv, AuthCursor, CursorKeys
<1>5. PICK ans :
        /\ Answer(c, ans)
        /\ ans = Denied \/ \E a \in call[c].targets : ans = Target(a)
  BY <1>4 DEF PickTx, PickSticky, PickNext, PickRoundRobin, PickTxFails, AuthSticks
<1>6. ans \in Guard!Verdicts(call[c].scope)
  BY <1>3, <1>5, DeniedIsSafe, TargetsAreGranted
<1> QED
  BY <1>1, <1>5, <1>6, AnswerRules

LEMMA FinishForgets ==
    ASSUME IInv, NEW c \in Calls, Finish(c)
    PROVE  Guard!Forget(c)
<1>1. call[c].pc = "done" /\ UNCHANGED bindings /\ Continue(c, IdleCall)
  BY DEF Finish, store
<1>2. /\ GuardCall[c] = Image(call[c])
      /\ GuardCall' = [GuardCall EXCEPT ![c] = Image(IdleCall)]
  BY <1>1, GuardCallMoves
<1>3. Image(IdleCall) = Guard!NoRequest
  BY IdleImage
<1>4. GuardCall[c].phase = "ruled"
  BY <1>1, <1>2, PhaseValues DEF Image
<1> QED
  BY <1>1, <1>2, <1>3, <1>4 DEF Guard!Forget

-----------------------------------------------------------------------------
(* Management and the process.                                             *)

LEMMA ManageRegrants ==
    ASSUME IInv, Manage
    PROVE  \/ \E k \in Keys, S \in SUBSET Auths : Guard!Regrant(k, S)
           \/ UNCHANGED <<bindings, GuardCall>>
<1>1. UNCHANGED call
  BY DEF Manage, CreateKey, UpdateKey, DeleteKey, ReplacePriceRules
<1>2. UNCHANGED GuardCall
  BY <1>1 DEF GuardCall
<1>3. \/ \E k \in Keys, S \in SUBSET Auths : bindings' = [bindings EXCEPT ![k] = S]
      \/ UNCHANGED bindings
  BY ConstantsAssumption
     DEF Manage, CreateKey, UpdateKey, DeleteKey, ReplacePriceRules
<1> QED
  BY <1>2, <1>3 DEF Guard!Regrant

LEMMA RestartCrashes ==
    ASSUME IInv, Restart
    PROVE  Guard!Crash
<1>1. call' = [c \in Calls |-> IdleCall] /\ UNCHANGED bindings
  BY DEF Restart, store
<1>2. GuardCall' = [c \in Calls |-> Image(IdleCall)]
  BY <1>1 DEF GuardCall, Image
<1> QED
  BY <1>1, <1>2, IdleImage DEF Guard!Crash

LEMMA InitImplements == Init => Guard!Init
<1> SUFFICES ASSUME Init PROVE Guard!Init
  OBVIOUS
<1>1. GuardCall = [c \in Calls |-> Image(IdleCall)]
  BY DEF Init, GuardCall, Image
<1> QED
  BY <1>1, IdleImage DEF Init, Guard!Init

LEMMA StepImplements == IInv /\ [Next]_vars => [Guard!Next]_(Guard!vars)
<1> SUFFICES ASSUME IInv, [Next]_vars PROVE [Guard!Next]_(Guard!vars)
  OBVIOUS
<1>1. ASSUME NEW c \in Calls, Start(c) \/ Finish(c)
      PROVE  Guard!Next
  BY <1>1, StartAsks, FinishForgets DEF Guard!Next
<1>2. ASSUME NEW c \in Calls, Proceed(c)
      PROVE  Guard!Next \/ UNCHANGED <<bindings, GuardCall>>
  BY <1>2, ChooseGetKeyGuarded, ChooseResolveGuarded, PickResolveGuarded,
     ReadFailsGuarded, ChooseTxGuarded, PickTxGuarded DEF Proceed, Guard!Next
<1>3. CASE Manage
  BY <1>3, ManageRegrants DEF Guard!Next, Guard!vars
<1>4. CASE Restart
  BY <1>4, RestartCrashes DEF Guard!Next
<1>5. CASE Tick \/ UNCHANGED vars
  <2>1. UNCHANGED <<bindings, call>>
    BY <1>5 DEF Tick, vars, store
  <2> QED
    BY <2>1 DEF GuardCall, Guard!vars
<1> QED
  BY <1>1, <1>2, <1>3, <1>4, <1>5 DEF Next, Guard!vars

\* Every answer of model.route and scheduler.pick follows from the bindings the
\* key had at one instant during the call, for any number of keys, accounts,
\* sessions, calls and any interleaving with management and restarts.
THEOREM RoutingImplementsGuard == Spec => AnswersAuthorized
<1>1. Spec => []IInv
  BY RoutingInvariant
<1>2. Spec => Guard!Init /\ [][Guard!Next]_(Guard!vars)
  BY <1>1, InitImplements, StepImplements, PTL DEF Spec
<1> QED
  BY <1>2 DEF AnswersAuthorized, Guard!Spec

=============================================================================
