----------------------------- MODULE RoutingProofs -----------------------------
(***************************************************************************)
(* Safety of routing for any keys, accounts, sessions, clocks, candidate   *)
(* lists and any number of concurrent calls.                               *)
(***************************************************************************)
EXTENDS Routing, FiniteSetTheorems, TLAPS

\* What a call in flight knows: inputs of the right kind, and targets that come
\* from the scope it has read.
RecordSound(r) ==
    /\ r.pc # "idle" => r.key \in Keys
    /\ r.pc \in {"getKey", "resolve", "chooseTx", "pickLock", "pickTx"}
         => r.model \in Models
    /\ r.pc = "pickLock" => r.offer \in Offers
    /\ r.pc \in {"pickLock", "pickTx"} => r.filter \in Filters
    /\ r.pc = "chooseTx" =>
         r.targets # {} /\ r.targets \subseteq ProvidersOf(r.scope)
    /\ r.pc = "pickTx" =>
         r.targets # {} /\ r.targets \subseteq r.scope /\ r.prio \in Priorities
    /\ r.pc \notin {"chooseTx", "pickTx"} => r.scope = {}
    /\ r.pc # "done" => r.answer = Denied

CallsSound == \A c \in Calls : RecordSound(call[c])

UnboundWhenGone == \A k \in Keys : keyState[k] # "live" => bindings[k] = {}

IInv ==
    /\ TypeOK
    /\ CallsSound
    /\ LockDiscipline
    /\ SessionsOwned
    /\ SessionsConsistent
    /\ UnboundWhenGone

-----------------------------------------------------------------------------
(* Operators.                                                              *)

\* The round robin picks one of the values it is given, whatever the cursor.
LEMMA RoutingValueInSet ==
    ASSUME TypeOK, NEW ck \in CursorKeys,
           NEW values \in (SUBSET Auths) \cup (SUBSET Providers), values # {}
    PROVE  RoutingValue(ck, values) \in values
<1>1. IsFiniteSet(values)
  BY ConstantsAssumption, FS_Subset
<1>2. Cardinality(values) \in Nat /\ Cardinality(values) # 0
  BY <1>1, FS_CardinalityType, FS_EmptySet
<1>3. cursor[ck] \in Nat
  BY ConstantsAssumption DEF TypeOK
<1>4. cursor[ck] % Cardinality(values) \in 0 .. Cardinality(values) - 1
  BY <1>2, <1>3
<1>5. Sorted[values] \in [0 .. Cardinality(values) - 1 -> values]
  BY SortedAssumption
<1> QED
  BY <1>4, <1>5 DEF RoutingValue

LEMMA AdvancedType ==
    ASSUME TypeOK, NEW ck
    PROVE  Advanced(ck) \in [CursorKeys -> 0 .. CursorModulus - 1]
<1>1. ASSUME NEW x \in CursorKeys
      PROVE  (cursor[x] + 1) % CursorModulus \in 0 .. CursorModulus - 1
  BY ConstantsAssumption DEF TypeOK
<1> QED
  BY <1>1 DEF TypeOK, Advanced

LEMMA RowType ==
    ASSUME NEW p \in Providers, NEW a \in Auths \cup {None}, NEW now \in 0 .. MaxTick
    PROVE  Row(p, a, now) \in Rows
BY ConstantsAssumption DEF Row, Rows

\* The cleanup keeps a row as it is or removes it.
LEMMA WithoutExpiredKeeps ==
    ASSUME NEW table \in [Keys \X Sessions -> Rows \cup {NoRow}], NEW now
    PROVE  /\ WithoutExpired(table, now) \in [Keys \X Sessions -> Rows \cup {NoRow}]
           /\ \A ks \in Keys \X Sessions :
                WithoutExpired(table, now)[ks] \in {table[ks], NoRow}
BY DEF WithoutExpired

LEMMA ProvidersOfType ==
    ASSUME NEW S \in SUBSET Auths
    PROVE  ProvidersOf(S) \in SUBSET Providers
BY ConstantsAssumption DEF ProvidersOf

LEMMA IdleRecord == IdleCall \in CallRecords /\ RecordSound(IdleCall)
<1>1. 0 \in 0 .. MaxTick
  BY ConstantsAssumption
<1>2. IdleCall \in CallRecords
  BY <1>1 DEF IdleCall, CallRecords, PCs, Answers
<1>3. RecordSound(IdleCall)
  BY DEF IdleCall, RecordSound
<1> QED
  BY <1>2, <1>3

-----------------------------------------------------------------------------
(* Steps of a call.                                                        *)

\* A call that goes on with a sound record, taking or leaving no lock.
LEMMA CallMoves ==
    ASSUME IInv, NEW c \in Calls, NEW rec \in CallRecords, RecordSound(rec),
           Continue(c, rec)
    PROVE  /\ call' \in [Calls -> CallRecords]
           /\ CallsSound'
           /\ /\ mutex' = mutex
              /\ rec.pc # "pickTx"
              /\ call[c].pc # "pickTx"
              => LockDiscipline'
<1>1. call \in [Calls -> CallRecords]
  BY DEF IInv, TypeOK
<1>2. call' = [call EXCEPT ![c] = rec]
  BY DEF Continue
<1>3. \A d \in Calls : call'[d] = IF d = c THEN rec ELSE call[d]
  BY <1>1, <1>2
<1>4. CallsSound'
  BY <1>3 DEF IInv, CallsSound, RecordSound
<1>5. mutex' = mutex /\ rec.pc # "pickTx" /\ call[c].pc # "pickTx" => LockDiscipline'
  BY <1>3 DEF IInv, LockDiscipline
<1> QED
  BY <1>1, <1>2, <1>4, <1>5

\* The record of a call that has been answered.
LEMMA AnswerMoves ==
    ASSUME IInv, NEW c \in Calls, NEW ans \in Answers, call[c].key \in Keys,
           Answer(c, ans)
    PROVE  /\ call' \in [Calls -> CallRecords]
           /\ CallsSound'
           /\ mutex' = mutex /\ call[c].pc # "pickTx" => LockDiscipline'
           /\ call[c].pc = "pickTx" /\ mutex' = None => LockDiscipline'
<1> DEFINE rec == [IdleCall EXCEPT !.pc = "done", !.key = call[c].key, !.answer = ans]
<1>1. rec \in CallRecords /\ rec.pc = "done"
  BY IdleRecord DEF IdleCall, CallRecords, PCs
<1>2. RecordSound(rec)
  BY DEF RecordSound, IdleCall
<1>3. Continue(c, rec)
  BY DEF Answer
<1> HIDE DEF rec
<1>4. /\ call' \in [Calls -> CallRecords]
      /\ CallsSound'
      /\ mutex' = mutex /\ call[c].pc # "pickTx" => LockDiscipline'
  BY <1>1, <1>2, <1>3, CallMoves
<1>5. ASSUME call[c].pc = "pickTx", mutex' = None
      PROVE  LockDiscipline'
  <2>1. mutex = c
    BY <1>5 DEF IInv, LockDiscipline
  <2>2. \A d \in Calls : call'[d] = IF d = c THEN rec ELSE call[d]
    BY <1>3 DEF Continue, IInv, TypeOK
  <2>3. \A d \in Calls : call'[d].pc # "pickTx"
    BY <2>1, <2>2, <1>1 DEF IInv, LockDiscipline
  <2>4. None \notin Calls
    BY ConstantsAssumption
  <2> QED
    BY <1>5, <2>3, <2>4 DEF LockDiscipline
<1> QED
  BY <1>4, <1>5

\* The rest of the invariant when neither the tables nor the clock change.
LEMMA TablesSame ==
    ASSUME IInv, UNCHANGED <<store, sessions, clock>>,
           cursor' \in [CursorKeys -> 0 .. CursorModulus - 1],
           mutex' \in Calls \cup {None},
           call' \in [Calls -> CallRecords], CallsSound', LockDiscipline'
    PROVE  IInv'
BY DEF IInv, TypeOK, store, SessionsOwned, SessionsConsistent, UnboundWhenGone

LEMMA StartStep ==
    ASSUME IInv, NEW c \in Calls, Start(c)
    PROVE  IInv'
<1>1. PICK k \in Keys, m \in Models, s \in Sessions \cup {None} :
        \/ ChooseStart(c, k, m, s)
        \/ \E p \in Filters, offer \in Offers : PickStart(c, k, m, s, p, offer)
  BY DEF Start
<1>2. CASE ChooseStart(c, k, m, s)
  <2> DEFINE rec == [IdleCall EXCEPT !.pc = "getKey", !.key = k, !.model = m,
                                     !.session = s, !.now = clock]
  <2>1. rec \in CallRecords /\ rec.pc = "getKey"
    BY IdleRecord DEF IdleCall, CallRecords, PCs, IInv, TypeOK
  <2>2. RecordSound(rec)
    BY DEF RecordSound, IdleCall
  <2>3. Continue(c, rec) /\ call[c].pc = "idle"
    BY <1>2 DEF ChooseStart
  <2> HIDE DEF rec
  <2>4. UNCHANGED <<store, sessions, cursor, mutex, clock>>
    BY <1>2 DEF ChooseStart
  <2>5. call' \in [Calls -> CallRecords] /\ CallsSound' /\ LockDiscipline'
    BY <2>1, <2>2, <2>3, <2>4, CallMoves
  <2> QED
    BY <2>4, <2>5, TablesSame DEF IInv, TypeOK
<1>3. ASSUME NEW p \in Filters, NEW offer \in Offers, PickStart(c, k, m, s, p, offer)
      PROVE  IInv'
  <2> DEFINE rec == [IdleCall EXCEPT !.pc = "pickLock", !.key = k, !.model = m,
                        !.session = s, !.now = clock, !.filter = p,
                        !.offer = offer]
  <2>1. rec \in CallRecords /\ rec.pc = "pickLock"
    BY IdleRecord DEF IdleCall, CallRecords, PCs, IInv, TypeOK
  <2>2. RecordSound(rec)
    BY DEF RecordSound, IdleCall
  <2>3. Continue(c, rec) /\ call[c].pc = "idle"
    BY <1>3 DEF PickStart
  <2> HIDE DEF rec
  <2>4. UNCHANGED <<store, sessions, cursor, mutex, clock>>
    BY <1>3 DEF PickStart
  <2>5. call' \in [Calls -> CallRecords] /\ CallsSound' /\ LockDiscipline'
    BY <2>1, <2>2, <2>3, <2>4, CallMoves
  <2> QED
    BY <2>4, <2>5, TablesSame DEF IInv, TypeOK
<1> QED
  BY <1>1, <1>2, <1>3

LEMMA FinishStep ==
    ASSUME IInv, NEW c \in Calls, Finish(c)
    PROVE  IInv'
<1>1. UNCHANGED <<store, sessions, cursor, mutex, clock>>
  BY DEF Finish
<1>2. Continue(c, IdleCall) /\ call[c].pc = "done" /\ IdleCall.pc = "idle"
  BY DEF Finish, IdleCall
<1>3. call' \in [Calls -> CallRecords] /\ CallsSound' /\ LockDiscipline'
  BY <1>1, <1>2, IdleRecord, CallMoves
<1> QED
  BY <1>1, <1>3, TablesSame DEF IInv, TypeOK

LEMMA AnswerTypes ==
    /\ Denied \in Answers /\ Unhandled \in Answers
    /\ \A x \in Auths \cup Providers : Target(x) \in Answers
BY DEF Answers

LEMMA ChooseGetKeyStep ==
    ASSUME IInv, NEW c \in Calls, ChooseGetKey(c)
    PROVE  IInv'
<1>1. UNCHANGED <<store, sessions, cursor, mutex, clock>> /\ call[c].pc = "getKey"
  BY DEF ChooseGetKey
<1>2. call[c] \in CallRecords /\ RecordSound(call[c])
  BY DEF IInv, TypeOK, CallsSound
<1>3. call[c].key \in Keys
  BY <1>1, <1>2 DEF RecordSound
<1>4. call' \in [Calls -> CallRecords] /\ CallsSound' /\ LockDiscipline'
  <2>1. CASE Answer(c, Denied)
    BY <1>1, <1>3, <2>1, AnswerTypes, AnswerMoves
  <2> DEFINE rec == [call[c] EXCEPT !.pc = "resolve", !.limited = limited[call[c].key]]
  <2>2. CASE Continue(c, rec)
    <3>1. limited[call[c].key] \in BOOLEAN
      BY <1>3 DEF IInv, TypeOK
    <3>2. rec \in CallRecords /\ rec.pc = "resolve"
      BY <1>2, <3>1 DEF CallRecords, PCs
    <3>3. RecordSound(rec)
      BY <1>1, <1>2 DEF RecordSound, CallRecords
    <3> HIDE DEF rec
    <3> QED
      BY <1>1, <2>2, <3>2, <3>3, CallMoves
  <2> QED
    BY <2>1, <2>2 DEF ChooseGetKey
<1> QED
  BY <1>1, <1>4, TablesSame DEF IInv, TypeOK

LEMMA ChooseResolveStep ==
    ASSUME IInv, NEW c \in Calls, NEW available \in AvailableLists,
           ChooseResolve(c, available)
    PROVE  IInv'
<1>1. UNCHANGED <<store, sessions, cursor, mutex, clock>> /\ call[c].pc = "resolve"
  BY DEF ChooseResolve
<1>2. call[c] \in CallRecords /\ RecordSound(call[c])
  BY DEF IInv, TypeOK, CallsSound
<1>3. call[c].key \in Keys
  BY <1>1, <1>2 DEF RecordSound
<1>4. call' \in [Calls -> CallRecords] /\ CallsSound' /\ LockDiscipline'
  <2> DEFINE scope == bindings[call[c].key]
             allowed == AllowedProviders(c, scope, available)
             rec == [call[c] EXCEPT !.pc = "chooseTx", !.scope = scope,
                                    !.targets = allowed]
  <2>1. CASE Answer(c, Denied)
    BY <1>1, <1>3, <2>1, AnswerTypes, AnswerMoves
  <2>2. CASE Answer(c, Unhandled)
    BY <1>1, <1>3, <2>2, AnswerTypes, AnswerMoves
  <2>3. CASE allowed # {} /\ Continue(c, rec)
    <3>1. scope \in SUBSET Auths
      BY <1>3 DEF IInv, TypeOK
    <3>2. allowed \subseteq ProvidersOf(scope) /\ allowed \in SUBSET Providers
      BY <3>1, ProvidersOfType DEF AllowedProviders
    <3> HIDE DEF scope, allowed
    <3>3. rec \in CallRecords /\ rec.pc = "chooseTx"
      BY <1>2, <3>1, <3>2 DEF CallRecords, PCs
    <3>4. rec.scope = scope /\ rec.targets = allowed /\ rec.key = call[c].key
          /\ rec.model = call[c].model /\ rec.answer = call[c].answer
      BY <1>2 DEF CallRecords
    <3>5. RecordSound(rec)
      BY <1>1, <1>2, <2>3, <3>2, <3>3, <3>4 DEF RecordSound
    <3> HIDE DEF rec
    <3> QED
      BY <1>1, <2>3, <3>3, <3>5, CallMoves
  <2> QED
    BY <2>1, <2>2, <2>3 DEF ChooseResolve
<1> QED
  BY <1>1, <1>4, TablesSame DEF IInv, TypeOK

LEMMA PickResolveStep ==
    ASSUME IInv, NEW c \in Calls, PickResolve(c)
    PROVE  IInv'
<1>1. /\ UNCHANGED <<store, sessions, cursor, clock>>
      /\ call[c].pc = "pickLock" /\ mutex = None
  BY DEF PickResolve
<1>2. call[c] \in CallRecords /\ RecordSound(call[c])
  BY DEF IInv, TypeOK, CallsSound
<1>3. call[c].key \in Keys /\ call[c].offer \in Offers
  BY <1>1, <1>2 DEF RecordSound
<1> DEFINE scope == bindings[call[c].key]
           matched == Matched(c, scope)
           top == Top(c, matched)
           rec(a) == [call[c] EXCEPT !.pc = "pickTx", !.scope = scope,
                          !.targets = top, !.prio = call[c].offer[a],
                          !.offer = <<>>]
<1>4. CASE EarlyReturn(c, Denied) \/ EarlyReturn(c, Unhandled)
  <2>1. mutex' = mutex /\ (Answer(c, Denied) \/ Answer(c, Unhandled))
    BY <1>4 DEF EarlyReturn
  <2>2. call' \in [Calls -> CallRecords] /\ CallsSound' /\ LockDiscipline'
    BY <1>1, <1>3, <2>1, AnswerTypes, AnswerMoves
  <2> QED
    BY <1>1, <2>1, <2>2, TablesSame DEF IInv, TypeOK
<1>5. ASSUME NEW a \in top, Continue(c, rec(a)), mutex' = c
      PROVE  IInv'
  <2>1. scope \in SUBSET Auths
    BY <1>3 DEF IInv, TypeOK
  <2>2. matched \subseteq scope /\ matched \subseteq DOMAIN call[c].offer
    BY DEF Matched
  <2>3. top \subseteq matched
    BY DEF Top
  <2> HIDE DEF scope, matched, top
  <2>4. call[c].offer[a] \in Priorities
    BY <1>3, <2>2, <2>3 DEF Priorities
  <2>5. /\ rec(a) \in CallRecords /\ rec(a).pc = "pickTx"
        /\ rec(a).scope = scope /\ rec(a).targets = top
        /\ rec(a).key = call[c].key /\ rec(a).model = call[c].model
        /\ rec(a).filter = call[c].filter /\ rec(a).prio = call[c].offer[a]
        /\ rec(a).answer = call[c].answer
    BY <1>2, <2>1, <2>2, <2>3, <2>4 DEF CallRecords, PCs
  <2>6. RecordSound(rec(a))
    BY <1>1, <1>2, <2>2, <2>3, <2>4, <2>5 DEF RecordSound
  <2> HIDE DEF rec
  <2>7. call' \in [Calls -> CallRecords] /\ CallsSound'
    BY <1>5, <2>5, <2>6, CallMoves
  <2>8. LockDiscipline'
    <3>1. \A d \in Calls : call'[d] = IF d = c THEN rec(a) ELSE call[d]
      BY <1>5 DEF Continue, IInv, TypeOK
    <3>2. None \notin Calls
      BY ConstantsAssumption
    <3>3. \A d \in Calls : call[d].pc # "pickTx"
      BY <1>1, <3>2 DEF IInv, LockDiscipline
    <3> QED
      BY <1>5, <2>5, <3>1, <3>3 DEF LockDiscipline
  <2> QED
    BY <1>1, <1>5, <2>7, <2>8, TablesSame DEF IInv, TypeOK
<1> QED
  BY <1>4, <1>5 DEF PickResolve

LEMMA ReadFailsStep ==
    ASSUME IInv, NEW c \in Calls, ChooseReadFails(c) \/ PickReadFails(c)
    PROVE  IInv'
<1>1. /\ UNCHANGED <<store, sessions, cursor, mutex, clock>>
      /\ Answer(c, Denied) /\ call[c].pc \in {"getKey", "resolve", "pickLock"}
  BY DEF ChooseReadFails, PickReadFails, EarlyReturn
<1>2. call[c].key \in Keys
  BY <1>1 DEF IInv, CallsSound, RecordSound
<1>3. call' \in [Calls -> CallRecords] /\ CallsSound' /\ LockDiscipline'
  BY <1>1, <1>2, AnswerTypes, AnswerMoves
<1> QED
  BY <1>1, <1>3, TablesSame DEF IInv, TypeOK

-----------------------------------------------------------------------------
(* The transactions.                                                       *)

\* A row saved for a live key, under the provider of its auth.
LEMMA SavedRow ==
    ASSUME IInv, NEW ks \in Keys \X Sessions, keyState[ks[1]] = "live",
           NEW p \in Providers, NEW a \in Auths \cup {None},
           a # None => p = AuthProvider[a],
           NEW now \in 0 .. MaxTick,
           UNCHANGED keyState,
           LET table == [sessions EXCEPT ![ks] = Row(p, a, now)]
           IN sessions' \in {table, WithoutExpired(table, now)}
    PROVE  /\ sessions' \in [Keys \X Sessions -> Rows \cup {NoRow}]
           /\ SessionsOwned'
           /\ SessionsConsistent'
<1> DEFINE table == [sessions EXCEPT ![ks] = Row(p, a, now)]
<1>1. Row(p, a, now) \in Rows
  BY RowType
<1>2. table \in [Keys \X Sessions -> Rows \cup {NoRow}]
  BY <1>1 DEF IInv, TypeOK
<1>3. \A js \in Keys \X Sessions :
        table[js] = IF js = ks THEN Row(p, a, now) ELSE sessions[js]
  BY DEF IInv, TypeOK
<1>4. Row(p, a, now).auth = a /\ Row(p, a, now).provider = p /\ NoRow.auth = None
  BY DEF Row, NoRow
<1> HIDE DEF table
<1>5. /\ sessions' \in [Keys \X Sessions -> Rows \cup {NoRow}]
      /\ \A js \in Keys \X Sessions : sessions'[js] \in {table[js], NoRow}
  <2>1. sessions' \in {table, WithoutExpired(table, now)}
    BY DEF table
  <2>2. /\ WithoutExpired(table, now) \in [Keys \X Sessions -> Rows \cup {NoRow}]
        /\ \A js \in Keys \X Sessions :
             WithoutExpired(table, now)[js] \in {table[js], NoRow}
    BY <1>2, WithoutExpiredKeeps
  <2> QED
    BY <1>2, <2>1, <2>2
<1>6. SessionsOwned'
  BY <1>3, <1>5 DEF IInv, SessionsOwned
<1>7. SessionsConsistent'
  BY <1>3, <1>4, <1>5 DEF IInv, SessionsConsistent
<1> QED
  BY <1>5, <1>6, <1>7

\* The two ways a transaction of call c ends.
LEMMA TxEnds ==
    ASSUME IInv, NEW c \in Calls, NEW ans \in Answers, Answer(c, ans),
           call[c].key \in Keys,
           \/ call[c].pc = "chooseTx" /\ mutex = None /\ mutex' = mutex
           \/ call[c].pc = "pickTx" /\ mutex' = None,
           UNCHANGED <<store, clock>>,
           cursor' \in [CursorKeys -> 0 .. CursorModulus - 1],
           sessions' \in [Keys \X Sessions -> Rows \cup {NoRow}],
           SessionsOwned', SessionsConsistent'
    PROVE  IInv'
<1>1. call' \in [Calls -> CallRecords] /\ CallsSound' /\ LockDiscipline'
  BY AnswerMoves
<1>2. mutex' \in Calls \cup {None}
  BY DEF IInv, TypeOK
<1> QED
  BY <1>1, <1>2 DEF IInv, TypeOK, store, UnboundWhenGone

LEMMA SessionsSame ==
    ASSUME IInv, UNCHANGED <<store, sessions>>
    PROVE  /\ sessions' \in [Keys \X Sessions -> Rows \cup {NoRow}]
           /\ SessionsOwned' /\ SessionsConsistent'
BY DEF IInv, TypeOK, store, SessionsOwned, SessionsConsistent

LEMMA ChooseTxStep ==
    ASSUME IInv, NEW c \in Calls, ChooseTx(c)
    PROVE  IInv'
<1>1. /\ call[c].pc = "chooseTx" /\ mutex = None /\ mutex' = mutex
      /\ UNCHANGED <<store, clock>> /\ keyState' = keyState
  BY DEF ChooseTx, store
<1>2. call[c] \in CallRecords /\ RecordSound(call[c])
  BY DEF IInv, TypeOK, CallsSound
<1>3. /\ call[c].key \in Keys /\ call[c].model \in Models
      /\ call[c].targets # {} /\ call[c].now \in 0 .. MaxTick
      /\ call[c].session \in Sessions \cup {None}
      /\ call[c].targets \in SUBSET Providers
  <2>1. call[c].scope \in SUBSET Auths
    BY <1>2 DEF CallRecords
  <2> QED
    BY <1>1, <1>2, <2>1, ProvidersOfType DEF RecordSound, CallRecords
<1>4. HasSession(c) => SessionOf(c) \in Keys \X Sessions /\ SessionOf(c)[1] = call[c].key
  BY <1>3 DEF HasSession, SessionOf
<1>5. ProviderCursor(c) \in CursorKeys
  BY <1>3 DEF ProviderCursor, CursorKeys
<1> DEFINE p == RoutingValue(ProviderCursor(c), call[c].targets)
<1>6. p \in Providers /\ p \in call[c].targets
  BY <1>3, <1>5, RoutingValueInSet DEF IInv
<1>7. Advanced(ProviderCursor(c)) \in [CursorKeys -> 0 .. CursorModulus - 1]
  BY AdvancedType DEF IInv
<1>8. cursor \in [CursorKeys -> 0 .. CursorModulus - 1]
  BY DEF IInv, TypeOK
<1> HIDE DEF p
<1>9. CASE ChooseSticky(c)
  <2> DEFINE row == sessions[SessionOf(c)]
  <2>1. /\ HasSession(c) /\ row # NoRow /\ row.provider \in call[c].targets
        /\ sessions' = [sessions EXCEPT ![SessionOf(c)] =
                            Row(row.provider, row.auth, call[c].now)]
        /\ Answer(c, Target(row.provider)) /\ cursor' = cursor
    BY <1>9 DEF ChooseSticky, ProviderSticks, LiveAt
  <2>2. row \in Rows /\ keyState[SessionOf(c)[1]] = "live"
    BY <1>4, <2>1 DEF IInv, TypeOK, SessionsOwned
  <2>3. row.provider \in Providers /\ row.auth \in Auths \cup {None}
    BY <2>2 DEF Rows
  <2>4. row.auth # None => row.provider = AuthProvider[row.auth]
    BY <1>4, <2>1 DEF IInv, SessionsConsistent
  <2>5. /\ sessions' \in [Keys \X Sessions -> Rows \cup {NoRow}]
        /\ SessionsOwned' /\ SessionsConsistent'
    BY <1>1, <1>3, <1>4, <2>1, <2>2, <2>3, <2>4, SavedRow
  <2> QED
    BY <1>1, <1>3, <1>8, <2>1, <2>3, <2>5, AnswerTypes, TxEnds
<1>10. CASE ChooseNext(c)
  <2>1. HasSession(c) /\ cursor' = Advanced(ProviderCursor(c))
    BY <1>10 DEF ChooseNext
  <2>2. CASE Answer(c, Denied) /\ UNCHANGED sessions
    BY <1>1, <1>3, <1>7, <2>1, <2>2, SessionsSame, AnswerTypes, TxEnds
  <2>3. CASE keyState[call[c].key] = "live" /\ SaveNewRow(c, p, None) /\ Answer(c, Target(p))
    <3>1. /\ sessions' \in [Keys \X Sessions -> Rows \cup {NoRow}]
          /\ SessionsOwned' /\ SessionsConsistent'
      BY <1>1, <1>3, <1>4, <1>6, <2>1, <2>3, SavedRow DEF SaveNewRow
    <3> QED
      BY <1>1, <1>3, <1>6, <1>7, <2>1, <2>3, <3>1, AnswerTypes, TxEnds
  <2> QED
    BY <1>10, <2>2, <2>3 DEF ChooseNext, p
<1>11. CASE ChooseRoundRobin(c)
  <2>1. Answer(c, Target(p)) /\ cursor' = Advanced(ProviderCursor(c)) /\ UNCHANGED sessions
    BY <1>11 DEF ChooseRoundRobin, p
  <2> QED
    BY <1>1, <1>3, <1>6, <1>7, <2>1, SessionsSame, AnswerTypes, TxEnds
<1>12. CASE ChooseTxFails(c)
  BY <1>1, <1>3, <1>7, <1>8, <1>12, SessionsSame, AnswerTypes, TxEnds DEF ChooseTxFails
<1> QED
  BY <1>9, <1>10, <1>11, <1>12 DEF ChooseTx

LEMMA PickTxStep ==
    ASSUME IInv, NEW c \in Calls, PickTx(c)
    PROVE  IInv'
<1>1. /\ call[c].pc = "pickTx" /\ mutex' = None
      /\ UNCHANGED <<store, clock>> /\ keyState' = keyState
  BY DEF PickTx, store
<1>2. call[c] \in CallRecords /\ RecordSound(call[c])
  BY DEF IInv, TypeOK, CallsSound
<1>3. /\ call[c].key \in Keys /\ call[c].model \in Models
      /\ call[c].filter \in Filters /\ call[c].prio \in Priorities
      /\ call[c].targets # {} /\ call[c].now \in 0 .. MaxTick
      /\ call[c].session \in Sessions \cup {None}
      /\ call[c].targets \in SUBSET Auths
  BY <1>1, <1>2 DEF RecordSound, CallRecords
<1>4. HasSession(c) => SessionOf(c) \in Keys \X Sessions /\ SessionOf(c)[1] = call[c].key
  BY <1>3 DEF HasSession, SessionOf
<1>5. AuthCursor(c) \in CursorKeys
  BY <1>3 DEF AuthCursor, CursorKeys
<1> DEFINE a == RoutingValue(AuthCursor(c), call[c].targets)
<1>6. a \in Auths /\ AuthProvider[a] \in Providers
  BY <1>3, <1>5, RoutingValueInSet, ConstantsAssumption DEF IInv
<1>7. Advanced(AuthCursor(c)) \in [CursorKeys -> 0 .. CursorModulus - 1]
  BY AdvancedType DEF IInv
<1>8. cursor \in [CursorKeys -> 0 .. CursorModulus - 1]
  BY DEF IInv, TypeOK
<1> HIDE DEF a
<1>9. CASE PickSticky(c)
  <2> DEFINE b == sessions[SessionOf(c)].auth
  <2>1. /\ HasSession(c) /\ sessions[SessionOf(c)] # NoRow /\ b \in call[c].targets
        /\ sessions' = [sessions EXCEPT ![SessionOf(c)] =
                            Row(AuthProvider[b], b, call[c].now)]
        /\ Answer(c, Target(b)) /\ cursor' = cursor
    BY <1>9 DEF PickSticky, AuthSticks, LiveAt
  <2>2. keyState[SessionOf(c)[1]] = "live"
    BY <1>4, <2>1 DEF IInv, SessionsOwned
  <2>3. b \in Auths /\ AuthProvider[b] \in Providers
    BY <1>3, <2>1, ConstantsAssumption
  <2>4. /\ sessions' \in [Keys \X Sessions -> Rows \cup {NoRow}]
        /\ SessionsOwned' /\ SessionsConsistent'
    BY <1>1, <1>3, <1>4, <2>1, <2>2, <2>3, SavedRow
  <2> QED
    BY <1>1, <1>3, <1>8, <2>1, <2>3, <2>4, AnswerTypes, TxEnds
<1>10. CASE PickNext(c)
  <2>1. HasSession(c) /\ cursor' = Advanced(AuthCursor(c))
    BY <1>10 DEF PickNext
  <2>2. CASE Answer(c, Denied) /\ UNCHANGED sessions
    BY <1>1, <1>3, <1>7, <2>1, <2>2, SessionsSame, AnswerTypes, TxEnds
  <2>3. CASE /\ keyState[call[c].key] = "live"
             /\ SaveNewRow(c, AuthProvider[a], a) /\ Answer(c, Target(a))
    <3>1. /\ sessions' \in [Keys \X Sessions -> Rows \cup {NoRow}]
          /\ SessionsOwned' /\ SessionsConsistent'
      BY <1>1, <1>3, <1>4, <1>6, <2>1, <2>3, SavedRow DEF SaveNewRow
    <3> QED
      BY <1>1, <1>3, <1>6, <1>7, <2>1, <2>3, <3>1, AnswerTypes, TxEnds
  <2> QED
    BY <1>10, <2>2, <2>3 DEF PickNext, a
<1>11. CASE PickRoundRobin(c)
  <2>1. Answer(c, Target(a)) /\ cursor' = Advanced(AuthCursor(c)) /\ UNCHANGED sessions
    BY <1>11 DEF PickRoundRobin, a
  <2> QED
    BY <1>1, <1>3, <1>6, <1>7, <2>1, SessionsSame, AnswerTypes, TxEnds
<1>12. CASE PickTxFails(c)
  BY <1>1, <1>3, <1>7, <1>8, <1>12, SessionsSame, AnswerTypes, TxEnds DEF PickTxFails
<1> QED
  BY <1>9, <1>10, <1>11, <1>12 DEF PickTx

-----------------------------------------------------------------------------
(* Management, restarts and time.                                          *)

LEMMA ManageStep ==
    ASSUME IInv, Manage
    PROVE  IInv'
<1>1. ASSUME NEW k \in Keys, NEW S \in BindingSets, NEW lim \in Limiting,
             CreateKey(k, S, lim) \/ UpdateKey(k, S, lim)
      PROVE  IInv'
  <2>1. /\ keyState' \in {keyState, [keyState EXCEPT ![k] = "live"]}
        /\ bindings' = [bindings EXCEPT ![k] = S]
        /\ limited' = [limited EXCEPT ![k] = lim]
        /\ keyState[k] \in {"unborn", "live"}
        /\ keyState[k] = "live" => keyState' = keyState
        /\ keyState[k] # "live" => keyState' = [keyState EXCEPT ![k] = "live"]
        /\ UNCHANGED <<priced, sessions, cursor, mutex, call, clock>>
    BY <1>1 DEF CreateKey, UpdateKey
  <2>2. S \in SUBSET Auths /\ lim \in BOOLEAN
    BY ConstantsAssumption
  <2>3. \A j \in Keys : keyState'[j] = IF j = k THEN "live" ELSE keyState[j]
    BY <2>1 DEF IInv, TypeOK
  <2>4. \A j \in Keys : bindings'[j] = IF j = k THEN S ELSE bindings[j]
    BY <2>1 DEF IInv, TypeOK
  <2>5. TypeOK'
    BY <2>1, <2>2 DEF IInv, TypeOK
  <2>6. SessionsOwned'
    BY <2>1, <2>3 DEF IInv, SessionsOwned
  <2>7. UnboundWhenGone'
    BY <2>3, <2>4 DEF IInv, UnboundWhenGone
  <2>8. CallsSound' /\ LockDiscipline' /\ SessionsConsistent'
    BY <2>1 DEF IInv, CallsSound, LockDiscipline, SessionsConsistent
  <2> QED
    BY <2>5, <2>6, <2>7, <2>8 DEF IInv
<1>2. ASSUME NEW k \in Keys, DeleteKey(k)
      PROVE  IInv'
  <2>1. /\ keyState' = [keyState EXCEPT ![k] = "deleted"]
        /\ bindings' = [bindings EXCEPT ![k] = {}]
        /\ limited' = [limited EXCEPT ![k] = FALSE]
        /\ UNCHANGED <<priced, cursor, mutex, call, clock>>
    BY <1>2 DEF DeleteKey
  <2>2. \A j \in Keys : keyState'[j] = IF j = k THEN "deleted" ELSE keyState[j]
    BY <2>1 DEF IInv, TypeOK
  <2>3. \A j \in Keys : bindings'[j] = IF j = k THEN {} ELSE bindings[j]
    BY <2>1 DEF IInv, TypeOK
  <2>4. /\ sessions' \in [Keys \X Sessions -> Rows \cup {NoRow}]
        /\ \A ks \in Keys \X Sessions :
             sessions'[ks] = IF ks[1] = k THEN NoRow ELSE sessions[ks]
    BY <1>2 DEF DeleteKey, IInv, TypeOK
  <2>5. TypeOK'
    BY <2>1, <2>4 DEF IInv, TypeOK
  <2>6. SessionsOwned'
    BY <2>2, <2>4 DEF IInv, SessionsOwned
  <2>7. SessionsConsistent'
    BY <2>4 DEF IInv, SessionsConsistent, NoRow
  <2>8. UnboundWhenGone'
    BY <2>2, <2>3 DEF IInv, UnboundWhenGone
  <2>9. CallsSound' /\ LockDiscipline'
    BY <2>1 DEF IInv, CallsSound, LockDiscipline
  <2> QED
    BY <2>5, <2>6, <2>7, <2>8, <2>9 DEF IInv
<1>3. ASSUME NEW table \in PriceTables, ReplacePriceRules(table)
      PROVE  IInv'
  BY <1>3 DEF ReplacePriceRules, IInv, TypeOK, CallsSound, LockDiscipline,
              SessionsOwned, SessionsConsistent, UnboundWhenGone
<1> QED
  BY <1>1, <1>2, <1>3 DEF Manage

\* Nothing is in flight after a restart, and nothing holds routingMu.
LEMMA NothingInFlight ==
    ASSUME call' = [c \in Calls |-> IdleCall], mutex' = None,
           cursor' = [ck \in CursorKeys |-> 0]
    PROVE  /\ call' \in [Calls -> CallRecords]
           /\ cursor' \in [CursorKeys -> 0 .. CursorModulus - 1]
           /\ CallsSound' /\ LockDiscipline'
<1>1. 0 \in 0 .. CursorModulus - 1
  BY ConstantsAssumption
<1>2. \A c \in Calls : call'[c] = IdleCall /\ None # c
  BY ConstantsAssumption
<1>3. IdleCall.pc = "idle"
  BY DEF IdleCall
<1> QED
  BY <1>1, <1>2, <1>3, IdleRecord DEF CallsSound, LockDiscipline

LEMMA RestartStep ==
    ASSUME IInv, Restart
    PROVE  IInv'
<1>1. UNCHANGED <<store, sessions, clock>>
  BY DEF Restart
<1> QED
  BY <1>1, NothingInFlight, TablesSame DEF Restart

LEMMA TickStep ==
    ASSUME IInv, Tick
    PROVE  IInv'
<1>1. clock' \in 0 .. MaxTick
  BY ConstantsAssumption DEF IInv, TypeOK, Tick
<1> QED
  BY <1>1 DEF Tick, store, IInv, TypeOK, CallsSound, LockDiscipline,
              SessionsOwned, SessionsConsistent, UnboundWhenGone

-----------------------------------------------------------------------------
(* The inductive invariant.                                                *)

LEMMA IInvInit == Init => IInv
<1> SUFFICES ASSUME Init PROVE IInv
  OBVIOUS
<1>1. /\ 0 \in 0 .. CursorModulus - 1 /\ 0 \in 0 .. MaxTick
      /\ \A c \in Calls : None # c
  BY ConstantsAssumption
<1>2. \A c \in Calls : call[c] = IdleCall
  BY DEF Init
<1>3. IdleCall.pc = "idle" /\ NoRow.auth = None
  BY DEF IdleCall, NoRow
<1>4. TypeOK
  BY <1>1, IdleRecord DEF Init, TypeOK
<1>5. CallsSound
  BY <1>2, IdleRecord DEF CallsSound
<1>6. LockDiscipline
  BY <1>1, <1>2, <1>3 DEF Init, LockDiscipline
<1>7. SessionsOwned /\ SessionsConsistent /\ UnboundWhenGone
  BY <1>3 DEF Init, SessionsOwned, SessionsConsistent, UnboundWhenGone
<1> QED
  BY <1>4, <1>5, <1>6, <1>7 DEF IInv

LEMMA ProceedStep ==
    ASSUME IInv, NEW c \in Calls, Proceed(c)
    PROVE  IInv'
BY ChooseGetKeyStep, ChooseResolveStep, ChooseTxStep, PickResolveStep, PickTxStep,
   ReadFailsStep DEF Proceed

LEMMA IInvNext == IInv /\ [Next]_vars => IInv'
<1> SUFFICES ASSUME IInv, [Next]_vars PROVE IInv'
  OBVIOUS
<1>1. ASSUME NEW c \in Calls, Start(c) \/ Proceed(c) \/ Finish(c)
      PROVE  IInv'
  BY <1>1, StartStep, ProceedStep, FinishStep
<1>2. CASE Manage
  BY <1>2, ManageStep
<1>3. CASE Restart
  BY <1>3, RestartStep
<1>4. CASE Tick
  BY <1>4, TickStep
<1>5. CASE UNCHANGED vars
  BY <1>5 DEF vars, IInv, TypeOK, CallsSound, LockDiscipline,
              SessionsOwned, SessionsConsistent, UnboundWhenGone
<1> QED
  BY <1>1, <1>2, <1>3, <1>4, <1>5 DEF Next

\* Every reachable state satisfies the inductive invariant.
THEOREM RoutingInvariant == Spec => []IInv
BY IInvInit, IInvNext, PTL DEF Spec

\* The tables, the in-memory routing state and the locals of every call keep
\* their types, for any number of keys, accounts, sessions and calls.
THEOREM RoutingTypes == Spec => []TypeOK
<1>1. IInv => TypeOK
  BY DEF IInv
<1> QED
  BY <1>1, RoutingInvariant, PTL

\* A session row belongs to a live key, whatever falls between the reads of a
\* routing call and its transaction (routing_sessions, ON DELETE CASCADE).
THEOREM SessionsAreOwned == Spec => []SessionsOwned
<1>1. IInv => SessionsOwned
  BY DEF IInv
<1> QED
  BY <1>1, RoutingInvariant, PTL

\* model.route and scheduler.pick, which save the same row, never leave the
\* provider of one auth beside another auth.
THEOREM SessionsAreConsistent == Spec => []SessionsConsistent
<1>1. IInv => SessionsConsistent
  BY DEF IInv
<1> QED
  BY <1>1, RoutingInvariant, PTL

\* No return path of PickCandidateRouted leaves routingMu locked, and never are
\* two picks between their read of the scope and the end of their transaction.
THEOREM LockIsDisciplined == Spec => []LockDiscipline
<1>1. IInv => LockDiscipline
  BY DEF IInv
<1> QED
  BY <1>1, RoutingInvariant, PTL

-----------------------------------------------------------------------------
(* A conversation stays on its resource.  Expiry times are compared as text *)
(* by the cleanup, exactly only between different seconds.                  *)

SecondOf(t) == t \div TicksPerSecond

\* A row that expires in a later second than the present one.
Secure(row) == row # NoRow /\ SecondOf(row.expires) > SecondOf(clock)

\* The only ways a session loses its auth: the deletion of its key, and a call of its own
\* that may not use the recorded target.
AuthMayChange(ks) ==
    \/ keyState'[ks[1]] = "deleted"
    \/ \E c \in Calls :
          /\ SessionOf(c) = ks
          /\ call'[c].pc = "done"
          /\ \/ call[c].pc = "pickTx"
                /\ sessions[ks].auth \notin call[c].targets
             \/ call[c].pc = "chooseTx"
                /\ sessions[ks].provider \notin call[c].targets

AuthStays(ks) == sessions'[ks].auth = sessions[ks].auth \/ AuthMayChange(ks)

\* Calls carry the time at which they started.
CallsPast == \A c \in Calls : call[c].now <= clock

\* A second is the quotient and no more: instants are its start and an offset.
LEMMA SecondBounds ==
    ASSUME NEW t \in Nat
    PROVE  /\ SecondOf(t) \in Nat
           /\ SecondOf(t) * TicksPerSecond <= t
           /\ t < SecondOf(t) * TicksPerSecond + TicksPerSecond
BY ConstantsAssumption DEF SecondOf

\* In text, an instant stays within its second.
LEMMA TextRankBounds ==
    ASSUME NEW t \in Nat
    PROVE  /\ TextRank(t) \in Nat
           /\ SecondOf(t) * TicksPerSecond <= TextRank(t)
           /\ TextRank(t) < SecondOf(t) * TicksPerSecond + TicksPerSecond
<1> DEFINE offset == (t + TicksPerSecond - 1) % TicksPerSecond
<1>1. offset \in Nat /\ offset < TicksPerSecond
  BY ConstantsAssumption
<1>2. SecondOf(t) \in Nat /\ SecondOf(t) * TicksPerSecond \in Nat
  BY SecondBounds, ConstantsAssumption
<1>3. TextRank(t) = SecondOf(t) * TicksPerSecond + offset
  BY DEF TextRank, SecondOf
<1> HIDE DEF offset
<1> QED
  BY <1>1, <1>2, <1>3, ConstantsAssumption

\* Later seconds are later, in time and in text.
LEMMA SecondsOrder ==
    ASSUME NEW s \in Nat, NEW t \in Nat
    PROVE  /\ s <= t => SecondOf(s) <= SecondOf(t)
           /\ SecondOf(s) < SecondOf(t) => TextRank(s) < TextRank(t) /\ s < t
<1> DEFINE d == TicksPerSecond
           p == SecondOf(s)
           q == SecondOf(t)
<1>1. d \in Nat /\ d > 0 /\ p \in Nat /\ q \in Nat
  BY SecondBounds, ConstantsAssumption
<1>2. p < q => p * d + d <= q * d
  <2>1. \A m \in Nat : m * d + d = (m + 1) * d
    BY <1>1
  <2>2. \A m, n \in Nat : m <= n => m * d <= n * d
    BY <1>1
  <2> HIDE DEF p, q, d
  <2> QED
    BY <1>1, <2>1, <2>2
<1>3. q < p => q * d + d <= p * d
  <2>1. \A m \in Nat : m * d + d = (m + 1) * d
    BY <1>1
  <2>2. \A m, n \in Nat : m <= n => m * d <= n * d
    BY <1>1
  <2> HIDE DEF p, q, d
  <2> QED
    BY <1>1, <2>1, <2>2
<1>4. p * d <= s /\ s < p * d + d /\ q * d <= t /\ t < q * d + d
  BY SecondBounds
<1>5. /\ p * d <= TextRank(s) /\ TextRank(s) < p * d + d
      /\ q * d <= TextRank(t) /\ TextRank(t) < q * d + d
      /\ TextRank(s) \in Nat /\ TextRank(t) \in Nat
  BY TextRankBounds
<1>6. p * d \in Nat /\ q * d \in Nat
  BY <1>1
<1> DEFINE pd == p * d
           qd == q * d
<1>7. /\ p < q => pd + d <= qd
      /\ q < p => qd + d <= pd
      /\ pd <= s /\ s < pd + d /\ qd <= t /\ t < qd + d
      /\ pd <= TextRank(s) /\ TextRank(s) < pd + d
      /\ qd <= TextRank(t) /\ TextRank(t) < qd + d
      /\ pd \in Nat /\ qd \in Nat
  BY <1>2, <1>3, <1>4, <1>5, <1>6
<1> HIDE DEF pd, qd, d, p, q
<1> SUFFICES /\ s <= t => p <= q
             /\ p < q => TextRank(s) < TextRank(t) /\ s < t
  BY DEF p, q
<1> QED
  BY <1>1, <1>5, <1>7

\* The cleanup of a call, with its older clock, leaves a secure row alone.
LEMMA CleanupKeepsSecure ==
    ASSUME NEW table \in [Keys \X Sessions -> Rows \cup {NoRow}],
           NEW now \in 0 .. MaxTick, clock \in 0 .. MaxTick, now <= clock,
           NEW ks \in Keys \X Sessions, Secure(table[ks])
    PROVE  WithoutExpired(table, now)[ks] = table[ks]
<1>1. table[ks] \in Rows
  BY DEF Secure
<1>2. table[ks].expires \in Nat
  BY <1>1 DEF Rows
<1>3. now \in Nat /\ clock \in Nat
  OBVIOUS
<1>4. SecondOf(now) <= SecondOf(clock)
  BY <1>3, SecondsOrder
<1>5. SecondOf(clock) < SecondOf(table[ks].expires)
  BY <1>2, <1>3, SecondBounds DEF Secure
<1>6. SecondOf(now) < SecondOf(table[ks].expires)
  BY <1>2, <1>3, <1>4, <1>5, SecondBounds
<1>7. TextRank(now) < TextRank(table[ks].expires)
  BY <1>2, <1>3, <1>6, SecondsOrder
<1>8. ~(TextRank(table[ks].expires) <= TextRank(now))
  BY <1>2, <1>3, <1>7, TextRankBounds
<1> QED
  BY <1>8 DEF WithoutExpired

\* A secure row is alive for every call.
LEMMA SecureLives ==
    ASSUME IInv, CallsPast, NEW c \in Calls,
           NEW ks \in Keys \X Sessions, Secure(sessions[ks])
    PROVE  LiveAt(sessions[ks], call[c].now)
<1>1. sessions[ks] \in Rows
  BY DEF IInv, TypeOK, Secure
<1>2. sessions[ks].expires \in Nat /\ sessions[ks] # NoRow
  BY <1>1 DEF Rows, Secure
<1>3. /\ clock \in Nat /\ call[c].now \in Nat
      /\ call[c].now <= clock
  BY DEF IInv, TypeOK, CallRecords, CallsPast
<1>4. clock < sessions[ks].expires
  BY <1>2, <1>3, SecondBounds, SecondsOrder DEF Secure
<1> QED
  BY <1>2, <1>3, <1>4 DEF LiveAt

\* A row that another session's call saves is not this session's.
LEMMA OthersStay ==
    ASSUME IInv, CallsPast, NEW c \in Calls,
           NEW ks \in Keys \X Sessions, Secure(sessions[ks]),
           NEW js \in Keys \X Sessions, js # ks,
           NEW p \in Providers, NEW a \in Auths \cup {None},
           LET table == [sessions EXCEPT ![js] = Row(p, a, call[c].now)]
           IN sessions' \in {table, WithoutExpired(table, call[c].now)}
    PROVE  sessions'[ks] = sessions[ks]
<1> DEFINE table == [sessions EXCEPT ![js] = Row(p, a, call[c].now)]
<1>1. /\ call[c].now \in 0 .. MaxTick /\ clock \in 0 .. MaxTick
      /\ call[c].now <= clock
      /\ sessions \in [Keys \X Sessions -> Rows \cup {NoRow}]
  BY DEF IInv, TypeOK, CallRecords, CallsPast
<1>2. Row(p, a, call[c].now) \in Rows
  BY <1>1, RowType
<1>3. table \in [Keys \X Sessions -> Rows \cup {NoRow}] /\ table[ks] = sessions[ks]
  BY <1>1, <1>2
<1>4. sessions' \in {table, WithoutExpired(table, call[c].now)}
  OBVIOUS
<1> HIDE DEF table
<1>5. WithoutExpired(table, call[c].now)[ks] = table[ks]
  BY <1>1, <1>3, CleanupKeepsSecure
<1> QED
  BY <1>3, <1>4, <1>5

LEMMA AnswerDone ==
    ASSUME IInv, NEW c \in Calls, NEW ans, Answer(c, ans)
    PROVE  call'[c].pc = "done"
BY DEF IInv, TypeOK, Answer, Continue, IdleCall

LEMMA ChooseTxStays ==
    ASSUME IInv, CallsPast, NEW c \in Calls, ChooseTx(c),
           NEW ks \in Keys \X Sessions, Secure(sessions[ks])
    PROVE  AuthStays(ks)
<1>1. call[c].pc = "chooseTx" /\ mutex = None
  BY DEF ChooseTx
<1>2. call[c] \in CallRecords /\ RecordSound(call[c])
  BY DEF IInv, TypeOK, CallsSound
<1>3. /\ call[c].key \in Keys /\ call[c].model \in Models
      /\ call[c].targets # {} /\ call[c].now \in 0 .. MaxTick
      /\ call[c].session \in Sessions \cup {None}
      /\ call[c].targets \in SUBSET Providers
  <2>1. call[c].scope \in SUBSET Auths
    BY <1>2 DEF CallRecords
  <2> QED
    BY <1>1, <1>2, <2>1, ProvidersOfType DEF RecordSound, CallRecords
<1>4. HasSession(c) => SessionOf(c) \in Keys \X Sessions
  BY <1>3 DEF HasSession, SessionOf
<1>5. sessions \in [Keys \X Sessions -> Rows \cup {NoRow}]
  BY DEF IInv, TypeOK
<1> DEFINE p == RoutingValue(ProviderCursor(c), call[c].targets)
<1>6. p \in Providers
  <2>1. ProviderCursor(c) \in CursorKeys
    BY <1>3 DEF ProviderCursor, CursorKeys
  <2> QED
    BY <1>3, <2>1, RoutingValueInSet DEF IInv
<1> HIDE DEF p
<1>7. CASE UNCHANGED sessions
  BY <1>7 DEF AuthStays
<1>8. CASE ChooseSticky(c)
  <2> DEFINE row == sessions[SessionOf(c)]
  <2>1. /\ HasSession(c) /\ row # NoRow
        /\ sessions' = [sessions EXCEPT ![SessionOf(c)] =
                            Row(row.provider, row.auth, call[c].now)]
    BY <1>8 DEF ChooseSticky, ProviderSticks, LiveAt
  <2>2. sessions'[ks].auth = sessions[ks].auth
    BY <1>4, <1>5, <2>1 DEF Row
  <2> QED
    BY <2>2 DEF AuthStays
<1>9. CASE HasSession(c) /\ ~ProviderSticks(c) /\ SaveNewRow(c, p, None) /\ Answer(c, Target(p))
  <2>1. CASE SessionOf(c) # ks
    <3>1. sessions'[ks] = sessions[ks]
      BY <1>4, <1>6, <1>9, <2>1, OthersStay DEF SaveNewRow
    <3> QED
      BY <3>1 DEF AuthStays
  <2>2. CASE SessionOf(c) = ks
    <3>1. sessions[ks].provider \notin call[c].targets
      BY <1>9, <2>2, SecureLives DEF ProviderSticks
    <3>2. call'[c].pc = "done"
      BY <1>9, AnswerDone
    <3> QED
      BY <1>1, <2>2, <3>1, <3>2 DEF AuthStays, AuthMayChange
  <2> QED
    BY <2>1, <2>2
<1> QED
  BY <1>7, <1>8, <1>9 DEF ChooseTx, ChooseNext, ChooseRoundRobin, ChooseTxFails, p

LEMMA PickTxStays ==
    ASSUME IInv, CallsPast, NEW c \in Calls, PickTx(c),
           NEW ks \in Keys \X Sessions, Secure(sessions[ks]), sessions[ks].auth # None
    PROVE  AuthStays(ks)
<1>1. call[c].pc = "pickTx"
  BY DEF PickTx
<1>2. call[c] \in CallRecords /\ RecordSound(call[c])
  BY DEF IInv, TypeOK, CallsSound
<1>3. /\ call[c].key \in Keys /\ call[c].model \in Models
      /\ call[c].filter \in Filters /\ call[c].prio \in Priorities
      /\ call[c].targets # {} /\ call[c].now \in 0 .. MaxTick
      /\ call[c].session \in Sessions \cup {None}
      /\ call[c].targets \in SUBSET Auths
  BY <1>1, <1>2 DEF RecordSound, CallRecords
<1>4. HasSession(c) => SessionOf(c) \in Keys \X Sessions
  BY <1>3 DEF HasSession, SessionOf
<1>5. sessions \in [Keys \X Sessions -> Rows \cup {NoRow}]
  BY DEF IInv, TypeOK
<1> DEFINE a == RoutingValue(AuthCursor(c), call[c].targets)
<1>6. a \in Auths /\ AuthProvider[a] \in Providers
  <2>1. AuthCursor(c) \in CursorKeys
    BY <1>3 DEF AuthCursor, CursorKeys
  <2> QED
    BY <1>3, <2>1, RoutingValueInSet, ConstantsAssumption DEF IInv
<1> HIDE DEF a
<1>7. CASE UNCHANGED sessions
  BY <1>7 DEF AuthStays
<1>8. CASE PickSticky(c)
  <2> DEFINE b == sessions[SessionOf(c)].auth
  <2>1. /\ HasSession(c)
        /\ sessions' = [sessions EXCEPT ![SessionOf(c)] =
                            Row(AuthProvider[b], b, call[c].now)]
    BY <1>8 DEF PickSticky
  <2>2. sessions'[ks].auth = sessions[ks].auth
    BY <1>4, <1>5, <2>1 DEF Row
  <2> QED
    BY <2>2 DEF AuthStays
<1>9. CASE /\ HasSession(c) /\ ~AuthSticks(c)
           /\ SaveNewRow(c, AuthProvider[a], a) /\ Answer(c, Target(a))
  <2>1. CASE SessionOf(c) # ks
    <3>1. sessions'[ks] = sessions[ks]
      BY <1>4, <1>6, <1>9, <2>1, OthersStay DEF SaveNewRow
    <3> QED
      BY <3>1 DEF AuthStays
  <2>2. CASE SessionOf(c) = ks
    <3>1. sessions[ks].provider = AuthProvider[sessions[ks].auth]
      BY DEF IInv, SessionsConsistent
    <3>2. sessions[ks].auth \notin call[c].targets
      BY <1>9, <2>2, <3>1, SecureLives DEF AuthSticks
    <3>3. call'[c].pc = "done"
      BY <1>9, AnswerDone
    <3> QED
      BY <1>1, <2>2, <3>2, <3>3 DEF AuthStays, AuthMayChange
  <2> QED
    BY <2>1, <2>2
<1> QED
  BY <1>7, <1>8, <1>9 DEF PickTx, PickNext, PickRoundRobin, PickTxFails, a

\* The transactions are all that touches the sessions, besides DeleteKey.
LEMMA StepStays ==
    ASSUME IInv, CallsPast, [Next]_vars,
           NEW ks \in Keys \X Sessions, Secure(sessions[ks]), sessions[ks].auth # None
    PROVE  AuthStays(ks)
<1>1. CASE UNCHANGED sessions
  BY <1>1 DEF AuthStays
<1>2. ASSUME NEW c \in Calls, Start(c) \/ Finish(c)
      PROVE  UNCHANGED sessions
  BY <1>2 DEF Start, ChooseStart, PickStart, Finish
<1>3. ASSUME NEW c \in Calls, Proceed(c)
      PROVE  AuthStays(ks)
  <2>1. ChooseTx(c) \/ PickTx(c) \/ UNCHANGED sessions
    BY <1>3 DEF Proceed, ChooseGetKey, ChooseResolve, ChooseReadFails, PickResolve,
                PickReadFails
  <2> QED
    BY <1>1, <2>1, ChooseTxStays, PickTxStays
<1>4. ASSUME NEW k \in Keys, DeleteKey(k)
      PROVE  AuthStays(ks)
  <2>1. CASE ks[1] = k
    BY <1>4, <2>1 DEF DeleteKey, IInv, TypeOK, AuthStays, AuthMayChange
  <2>2. CASE ks[1] # k
    BY <1>4, <2>2 DEF DeleteKey, IInv, TypeOK, AuthStays
  <2> QED
    BY <2>1, <2>2
<1>5. CASE Manage
  BY <1>1, <1>4, <1>5 DEF Manage, CreateKey, UpdateKey, ReplacePriceRules
<1> QED
  BY <1>1, <1>2, <1>3, <1>5 DEF Next, Restart, Tick, vars

\* A call that starts reads the clock; time and every other step keep it in the past.
LEMMA CallsPastNext == IInv /\ CallsPast /\ [Next]_vars => CallsPast'
<1> SUFFICES ASSUME IInv, CallsPast, [Next]_vars PROVE CallsPast'
  OBVIOUS
<1>1. clock \in Nat /\ call \in [Calls -> CallRecords]
  BY DEF IInv, TypeOK
<1>2. \A c \in Calls : call[c].now \in Nat /\ call[c].now <= clock
  BY <1>1 DEF CallRecords, CallsPast
<1>3. IdleCall.now = 0
  BY DEF IdleCall
<1>4. ASSUME NEW c \in Calls, NEW rec, Continue(c, rec), clock' = clock,
             rec.now \in {0, clock, call[c].now}
      PROVE  CallsPast'
  <2>1. \A d \in Calls : call'[d] = IF d = c THEN rec ELSE call[d]
    BY <1>1, <1>4 DEF Continue
  <2> QED
    BY <1>1, <1>2, <1>4, <2>1 DEF CallsPast
<1>5. ASSUME NEW c \in Calls, NEW ans, Answer(c, ans), clock' = clock
      PROVE  CallsPast'
  <2> DEFINE rec == [IdleCall EXCEPT !.pc = "done", !.key = call[c].key, !.answer = ans]
  <2>1. rec.now = 0 /\ Continue(c, rec)
    BY <1>5 DEF IdleCall, Answer
  <2> HIDE DEF rec
  <2> QED
    BY <1>4, <1>5, <2>1
<1>6. ASSUME NEW c \in Calls, Start(c)
      PROVE  CallsPast'
  <2>1. PICK k \in Keys, m \in Models, s \in Sessions \cup {None} :
            \/ ChooseStart(c, k, m, s)
            \/ \E p \in Filters, offer \in Offers : PickStart(c, k, m, s, p, offer)
    BY <1>6 DEF Start
  <2>2. CASE ChooseStart(c, k, m, s)
    <3> DEFINE rec == [IdleCall EXCEPT !.pc = "getKey", !.key = k, !.model = m,
                                       !.session = s, !.now = clock]
    <3>1. rec.now = clock /\ Continue(c, rec) /\ clock' = clock
      BY <2>2 DEF IdleCall, ChooseStart
    <3> HIDE DEF rec
    <3> QED
      BY <1>4, <3>1
  <2>3. ASSUME NEW p \in Filters, NEW offer \in Offers, PickStart(c, k, m, s, p, offer)
        PROVE  CallsPast'
    <3> DEFINE rec == [IdleCall EXCEPT !.pc = "pickLock", !.key = k, !.model = m,
                        !.session = s, !.now = clock, !.filter = p,
                        !.offer = offer]
    <3>1. rec.now = clock /\ Continue(c, rec) /\ clock' = clock
      BY <2>3 DEF IdleCall, PickStart
    <3> HIDE DEF rec
    <3> QED
      BY <1>4, <3>1
  <2> QED
    BY <2>1, <2>2, <2>3
<1>7. ASSUME NEW c \in Calls, Proceed(c)
      PROVE  CallsPast'
  <2>0. call[c] \in CallRecords /\ clock' = clock
    BY <1>1, <1>7 DEF Proceed, ChooseGetKey, ChooseResolve, ChooseReadFails, ChooseTx,
                      PickResolve, PickReadFails, PickTx
  <2>1. CASE ChooseGetKey(c)
    <3> DEFINE rec == [call[c] EXCEPT !.pc = "resolve", !.limited = limited[call[c].key]]
    <3>1. rec.now = call[c].now
      BY <2>0 DEF CallRecords
    <3>2. Continue(c, rec) \/ Answer(c, Denied)
      BY <2>1 DEF ChooseGetKey
    <3> HIDE DEF rec
    <3> QED
      BY <1>4, <1>5, <2>0, <3>1, <3>2
  <2>2. ASSUME NEW available \in AvailableLists, ChooseResolve(c, available)
        PROVE  CallsPast'
    <3> DEFINE scope == bindings[call[c].key]
               rec == [call[c] EXCEPT !.pc = "chooseTx", !.scope = scope,
                                      !.targets = AllowedProviders(c, scope, available)]
    <3>1. rec.now = call[c].now
      BY <2>0 DEF CallRecords
    <3>2. Continue(c, rec) \/ Answer(c, Denied) \/ Answer(c, Unhandled)
      BY <2>2 DEF ChooseResolve
    <3> HIDE DEF rec
    <3> QED
      BY <1>4, <1>5, <2>0, <3>1, <3>2
  <2>3. CASE PickResolve(c)
    <3> DEFINE top == Top(c, Matched(c, bindings[call[c].key]))
    <3>1. ASSUME NEW a \in top,
                 Continue(c, [call[c] EXCEPT !.pc = "pickTx",
                                    !.scope = bindings[call[c].key], !.targets = top,
                                    !.prio = call[c].offer[a], !.offer = <<>>])
          PROVE  CallsPast'
      <4> DEFINE rec == [call[c] EXCEPT !.pc = "pickTx",
                                    !.scope = bindings[call[c].key], !.targets = top,
                                    !.prio = call[c].offer[a], !.offer = <<>>]
      <4>1. rec.now = call[c].now
        BY <2>0 DEF CallRecords
      <4>2. Continue(c, rec)
        BY <3>1
      <4> HIDE DEF rec
      <4> QED
        BY <1>4, <2>0, <4>1, <4>2
    <3>2. \/ Answer(c, Denied) \/ Answer(c, Unhandled)
          \/ \E a \in top :
                Continue(c, [call[c] EXCEPT !.pc = "pickTx",
                                    !.scope = bindings[call[c].key], !.targets = top,
                                    !.prio = call[c].offer[a], !.offer = <<>>])
      BY <2>3 DEF PickResolve, EarlyReturn
    <3> QED
      BY <1>5, <2>0, <3>1, <3>2
  <2>4. CASE ChooseReadFails(c) \/ PickReadFails(c) \/ ChooseTx(c) \/ PickTx(c)
    <3>1. \E ans : Answer(c, ans)
      BY <2>4 DEF ChooseReadFails, PickReadFails, EarlyReturn, ChooseTx, ChooseSticky,
                  ChooseNext, ChooseRoundRobin, ChooseTxFails, PickTx, PickSticky, PickNext,
                  PickRoundRobin, PickTxFails
    <3> QED
      BY <1>5, <2>0, <3>1
  <2> QED
    BY <1>7, <2>1, <2>2, <2>3, <2>4 DEF Proceed
<1>8. ASSUME NEW c \in Calls, Finish(c)
      PROVE  CallsPast'
  BY <1>3, <1>4, <1>8 DEF Finish
<1>9. CASE Restart
  BY <1>1, <1>3, <1>9 DEF Restart, CallsPast
<1>10. CASE Tick
  BY <1>1, <1>2, <1>10 DEF Tick, CallsPast
<1>11. CASE UNCHANGED <<call, clock>>
  BY <1>11 DEF CallsPast
<1>12. CASE Manage
  BY <1>11, <1>12 DEF Manage, CreateKey, UpdateKey, DeleteKey, ReplacePriceRules
<1> QED
  BY <1>6, <1>7, <1>8, <1>9, <1>10, <1>11, <1>12 DEF Next, vars

\* Calls never carry a time that is still to come.
LEMMA CallsArePast == Spec => []CallsPast
<1>1. Init => CallsPast
  BY DEF Init, CallsPast, IdleCall
<1> QED
  BY <1>1, CallsPastNext, RoutingInvariant, PTL DEF Spec

\* Whatever the resolution of the clock, a session whose row expires in a later second
\* than the present one stays on its auth (deleteExpiredRoutingSessions compares the
\* expiry times as text, exactly only between seconds).
THEOREM ConversationsStayBySecond ==
    Spec => [][\A ks \in Keys \X Sessions :
                 Secure(sessions[ks]) /\ sessions[ks].auth # None => AuthStays(ks)]_vars
<1>1. IInv /\ CallsPast /\ [Next]_vars
        => [\A ks \in Keys \X Sessions :
              Secure(sessions[ks]) /\ sessions[ks].auth # None => AuthStays(ks)]_vars
  BY StepStays
<1> QED
  BY <1>1, RoutingInvariant, CallsArePast, PTL DEF Spec

\* With a clock of whole seconds a conversation remains on its resource for as long as
\* its row has not expired, except when its key is deleted or its own call may not use
\* the resource any more, for any number of sessions, calls and restarts.
THEOREM ConversationsStay ==
    ASSUME TicksPerSecond = 1
    PROVE  Spec => ConversationStays
<1> DEFINE Stay ==
      \A ks \in Keys \X Sessions :
         LiveAt(sessions[ks], clock) /\ sessions[ks].auth # None => AuthStays(ks)
<1>1. ASSUME IInv, NEW ks \in Keys \X Sessions, LiveAt(sessions[ks], clock)
      PROVE  Secure(sessions[ks])
  <2>1. sessions[ks] # NoRow /\ sessions[ks] \in Rows /\ clock \in Nat
    BY <1>1 DEF LiveAt, IInv, TypeOK
  <2>2. sessions[ks].expires \in Nat /\ sessions[ks].expires > clock
    BY <1>1, <2>1 DEF LiveAt, Rows
  <2>3. \A t \in Nat : SecondOf(t) = t
    BY DEF SecondOf
  <2> QED
    BY <2>1, <2>2, <2>3 DEF Secure
<1>2. IInv /\ CallsPast /\ [Next]_vars => [Stay]_vars
  BY <1>1, StepStays
<1>3. [Stay]_vars <=>
        [\A ks \in Keys \X Sessions :
         LiveAt(sessions[ks], clock) /\ sessions[ks].auth # None =>
            \/ sessions'[ks].auth = sessions[ks].auth
            \/ keyState'[ks[1]] = "deleted"
            \/ \E c \in Calls :
                  /\ SessionOf(c) = ks
                  /\ call'[c].pc = "done"
                  /\ \/ call[c].pc = "pickTx"
                        /\ sessions[ks].auth \notin call[c].targets
                     \/ call[c].pc = "chooseTx"
                        /\ sessions[ks].provider \notin call[c].targets]_vars
  BY DEF AuthStays, AuthMayChange
<1> QED
  BY <1>2, <1>3, RoutingInvariant, CallsArePast, PTL DEF Spec, ConversationStays

=============================================================================
