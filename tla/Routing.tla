------------------------------- MODULE Routing -------------------------------
(***************************************************************************)
(* Routing of authorized requests: src/internal/access/routing.go, with    *)
(* the rows of store.go it reads and the management calls that change      *)
(* those rows under it.                                                    *)
(*                                                                         *)
(* The plugin is a shared library whose entry point may be called from     *)
(* several CPA goroutines at once.  Each call in flight is a member of     *)
(* Calls; every SQL statement or transaction, and every critical section   *)
(* of Store.routingMu, is one action.  The management calls do not take    *)
(* routingMu, so they fall between any two of them.                        *)
(***************************************************************************)
EXTENDS Integers, FiniteSets

CONSTANTS
    Keys,            \* key ids (keys.id); an id is never used twice
    Auths,           \* auth ids: CPA's accounts, the ids of its candidates
    Providers,       \* normalized provider names
    Models,          \* requested models; None is a request that names none
    Sessions,        \* session hashes
    Calls,           \* calls of the plugin that may be in flight together
    AuthProvider,    \* the provider of each auth's inventory row
    BindingSets,     \* the sets of auths that management binds
    Limiting,        \* whether management gives keys a limit: TRUE, FALSE
    PriceTables,     \* the price_rules tables management installs
    AvailableLists,  \* values of ModelRouteRequest.AvailableProviders
    Offers,          \* candidate lists of scheduler.pick: auth -> priority
    Filters,         \* SchedulerPickRequest.Provider: a provider or None
    AllowUnpriced,   \* config allow_unpriced
    Sorted,          \* what package sort makes of a set of ids
    CursorModulus,   \* 2^64 in the code: the cursors are uint64
    TTL,             \* RoutingSessionTTL, in ticks
    TicksPerSecond,  \* ticks of the clock per whole second
    MaxTick,         \* bound: the clock stops here
    None             \* "" or an absent row

ASSUME ConstantsAssumption ==
    /\ None \notin Auths \cup Providers \cup Sessions \cup Calls
    /\ IsFiniteSet(Auths) /\ IsFiniteSet(Providers)
    /\ AuthProvider \in [Auths -> Providers]
    /\ BindingSets \subseteq SUBSET Auths
    /\ AvailableLists \subseteq SUBSET Providers
    /\ Filters \subseteq Providers \cup {None}
    /\ \A offer \in Offers : DOMAIN offer \subseteq Auths
    /\ \A offer \in Offers : \A a \in DOMAIN offer : offer[a] \in Int
    /\ Limiting \subseteq BOOLEAN
    /\ AllowUnpriced \in BOOLEAN
    /\ CursorModulus \in Nat \ {0}
    /\ TicksPerSecond \in Nat \ {0}
    /\ MaxTick \in Nat
    /\ TTL \in Nat /\ TTL > 0

\* The sort is a fixed order of the ids: it lists a set without repetition.
ASSUME SortedAssumption ==
    \A S \in (SUBSET Auths) \cup (SUBSET Providers) :
        /\ Sorted[S] \in [0 .. Cardinality(S) - 1 -> S]
        /\ \A x \in S : \E i \in 0 .. Cardinality(S) - 1 : Sorted[S][i] = x

Priorities == UNION {{offer[a] : a \in DOMAIN offer} : offer \in Offers}

\* The keys of Store.routingCursor: "provider\0key\0model" and
\* "auth\0key\0model\0provider\0priority".
CursorKeys == (Keys \X Models) \cup
              (Keys \X Models \X Filters \X Priorities)

NoRow == [provider |-> None, auth |-> None, expires |-> -1]
Rows == [provider : Providers, auth : Auths \cup {None}, expires : Nat]

\* What a call answers: an authorized target, "not handled" (CPA then applies
\* its own default) or an error envelope with status 403.
Denied == [kind |-> "denied", target |-> None]
Unhandled == [kind |-> "unhandled", target |-> None]
Target(x) == [kind |-> "target", target |-> x]
Answers == {Denied, Unhandled} \cup {Target(x) : x \in Auths \cup Providers}

IdleCall == [pc |-> "idle", key |-> None, model |-> None, session |-> None,
             now |-> 0, filter |-> None, offer |-> <<>>, limited |-> FALSE,
             scope |-> {}, targets |-> {}, prio |-> 0, answer |-> Denied]

VARIABLES
    keyState,   \* the rows of keys: "unborn", "live" or "deleted"
    limited,    \* keys with some USD limit: Limits.Enabled()
    bindings,   \* key_bindings: the auths each key is bound to
    priced,     \* price_rules: <<provider, model>> pairs with a rule
    sessions,   \* routing_sessions: [key, session hash] -> row or NoRow
    cursor,     \* Store.routingCursor, in memory
    mutex,      \* the call that holds Store.routingMu, or None
    call,       \* the local variables of each call
    clock       \* wall clock, in ticks

vars == <<keyState, limited, bindings, priced, sessions, cursor, mutex, call, clock>>
store == <<keyState, limited, bindings, priced>>

Init ==
    /\ keyState = [k \in Keys |-> "unborn"]
    /\ limited = [k \in Keys |-> FALSE]
    /\ bindings = [k \in Keys |-> {}]
    /\ priced \in PriceTables
    /\ sessions = [ks \in Keys \X Sessions |-> NoRow]
    /\ cursor = [ck \in CursorKeys |-> 0]
    /\ mutex = None
    /\ call = [c \in Calls |-> IdleCall]
    /\ clock = 0

-----------------------------------------------------------------------------
(* Helpers.                                                                *)

ProvidersOf(S) == {AuthProvider[a] : a \in S}

\* Timestamps are stored with time.RFC3339Nano, which drops a zero fraction,
\* and SQLite compares them as text: "10:00:00Z" sorts after "10:00:00.5Z".
\* TextRank(t) is the place of instant t in that order.
TextRank(t) ==
    (t \div TicksPerSecond) * TicksPerSecond
        + ((t + TicksPerSecond - 1) % TicksPerSecond)

\* A row that loadRoutingSession finds and that has not expired at time now.
LiveAt(row, now) == row # NoRow /\ row.expires > now

\* Mutant: the row is saved without the provider of its auth.
RowNoProvider(provider, auth, now) ==
    [provider |-> None, auth |-> auth, expires |-> now + TTL]
Row(provider, auth, now) ==
    [provider |-> provider, auth |-> auth, expires |-> now + TTL]

\* deleteExpiredRoutingSessions: expires_at <= now, all keys.
WithoutExpired(table, now) ==
    [ks \in DOMAIN table |->
        IF table[ks] # NoRow /\ TextRank(table[ks].expires) <= TextRank(now)
        THEN NoRow ELSE table[ks]]

\* The value nextRoutingValue returns, and what it does to the cursor.
RoutingValue(ck, values) ==
    Sorted[values][cursor[ck] % Cardinality(values)]
Advanced(ck) == [cursor EXCEPT ![ck] = (@ + 1) % CursorModulus]

ProviderCursor(c) == <<call[c].key, call[c].model>>
AuthCursor(c) ==
    <<call[c].key, call[c].model, call[c].filter, call[c].prio>>

SessionOf(c) == <<call[c].key, call[c].session>>
HasSession(c) == call[c].session # None

\* A step of call c that moves it on / that ends it.  The locals of a call that
\* has ended are dead: only its key and its answer are kept.
Continue(c, rec) == call' = [call EXCEPT ![c] = rec]
Answer(c, ans) ==
    Continue(c, [IdleCall EXCEPT !.pc = "done", !.key = call[c].key,
                                 !.answer = ans])

-----------------------------------------------------------------------------
(* ChooseProviderRouted, called by model.route.                            *)

\* App.routeModel evaluates time.Now() and calls the store.  The key id comes
\* from the metadata authenticate returned: the key existed once.
ChooseStart(c, k, m, s) ==
    /\ call[c].pc = "idle"
    /\ keyState[k] # "unborn"
    /\ Continue(c, [IdleCall EXCEPT !.pc = "getKey", !.key = k, !.model = m,
                                    !.session = s, !.now = clock])
    /\ UNCHANGED <<store, sessions, cursor, mutex, clock>>

ChooseGetKey(c) ==
    /\ call[c].pc = "getKey"
    /\ IF keyState[call[c].key] = "live"
       THEN Continue(c, [call[c] EXCEPT !.pc = "resolve",
                                        !.limited = limited[call[c].key]])
       ELSE Answer(c, Denied)          \* ErrKeyNotFound
    /\ UNCHANGED <<store, sessions, cursor, mutex, clock>>

\* The providers of the scope that CPA lists and, for a limited key, that
\* have a price for the model.  An empty list means CPA listed none.
AllowedProviders(c, scope, available) ==
    {p \in ProvidersOf(scope) :
        /\ available = {} \/ p \in available
        /\ call[c].limited /\ ~AllowUnpriced /\ call[c].model # None
              => <<p, call[c].model>> \in priced}

\* Before routingMu is taken.  available is AvailableProviders of the request.
ChooseResolve(c, available) ==
    /\ call[c].pc = "resolve"
    /\ LET scope == bindings[call[c].key]
           allowed == AllowedProviders(c, scope, available)
       IN IF scope = {} THEN Answer(c, Unhandled)    \* ErrNoBindings
          ELSE IF allowed = {} THEN Answer(c, Denied)
          ELSE Continue(c, [call[c] EXCEPT !.pc = "chooseTx",
                                           !.scope = scope,
                                           !.targets = allowed])
    /\ UNCHANGED <<store, sessions, cursor, mutex, clock>>

\* A query before the transaction fails.
ChooseReadFails(c) ==
    /\ call[c].pc \in {"getKey", "resolve"}
    /\ Answer(c, Denied)
    /\ UNCHANGED <<store, sessions, cursor, mutex, clock>>

\* Mutant: a live session is believed without asking the scope.
ProviderAlwaysSticks(c) == LiveAt(sessions[SessionOf(c)], call[c].now)
\* The session's provider is kept only while the call may still use it.
ProviderSticks(c) ==
    /\ LiveAt(sessions[SessionOf(c)], call[c].now)
    /\ sessions[SessionOf(c)].provider \in call[c].targets

ChooseSticky(c) ==
    /\ HasSession(c) /\ ProviderSticks(c)
    /\ LET row == sessions[SessionOf(c)]
       IN /\ sessions' = [sessions EXCEPT ![SessionOf(c)] =
                            Row(row.provider, row.auth, call[c].now)]
          /\ Answer(c, Target(row.provider))
    /\ UNCHANGED cursor

\* Mutant: a new provider is saved beside the auth of the old one.
SaveNewRowKeepsAuth(c, provider, auth) ==
    sessions' = WithoutExpired(
        [sessions EXCEPT ![SessionOf(c)] =
            Row(provider, IF @.auth = None THEN auth ELSE @.auth, call[c].now)],
        call[c].now)
SaveNewRow(c, provider, auth) ==
    sessions' = WithoutExpired(
        [sessions EXCEPT ![SessionOf(c)] = Row(provider, auth, call[c].now)],
        call[c].now)

\* The cursor moves before the row is saved; for a key deleted meanwhile the
\* foreign key makes the save fail, and the call with it.
ChooseNext(c) ==
    /\ HasSession(c) /\ ~ProviderSticks(c)
    /\ LET p == RoutingValue(ProviderCursor(c), call[c].targets)
       IN IF keyState[call[c].key] = "live"
          THEN SaveNewRow(c, p, None) /\ Answer(c, Target(p))
          ELSE Answer(c, Denied) /\ UNCHANGED sessions
    /\ cursor' = Advanced(ProviderCursor(c))

ChooseRoundRobin(c) ==
    /\ ~HasSession(c)
    /\ Answer(c, Target(RoutingValue(ProviderCursor(c), call[c].targets)))
    /\ cursor' = Advanced(ProviderCursor(c))
    /\ UNCHANGED sessions

\* The transaction fails (SQLite busy or I/O error): it is rolled back, but a
\* cursor that already moved stays where it is.
ChooseTxFails(c) ==
    /\ HasSession(c)
    /\ Answer(c, Denied)
    /\ \/ UNCHANGED cursor
       \/ ~ProviderSticks(c) /\ cursor' = Advanced(ProviderCursor(c))
    /\ UNCHANGED sessions

\* routingMu is taken, the transaction runs, routingMu is released.
ChooseTx(c) ==
    /\ call[c].pc = "chooseTx"
    /\ mutex = None
    /\ ChooseSticky(c) \/ ChooseNext(c) \/ ChooseRoundRobin(c) \/ ChooseTxFails(c)
    /\ UNCHANGED <<store, mutex, clock>>

-----------------------------------------------------------------------------
(* PickCandidateRouted, called by scheduler.pick.                          *)

PickStart(c, k, m, s, filter, offer) ==
    /\ call[c].pc = "idle"
    /\ keyState[k] # "unborn"
    /\ Continue(c, [IdleCall EXCEPT !.pc = "pickLock", !.key = k, !.model = m,
                        !.session = s, !.now = clock, !.filter = filter,
                        !.offer = offer])
    /\ UNCHANGED <<store, sessions, cursor, mutex, clock>>

Matched(c, scope) ==
    {a \in DOMAIN call[c].offer :
        /\ call[c].filter \in {None, AuthProvider[a]}
        /\ a \in scope}

\* The candidates tied at the highest priority.
Top(c, matched) ==
    {a \in matched : \A b \in matched : call[c].offer[b] <= call[c].offer[a]}

\* Mutant: an early return leaves routingMu locked.
EarlyReturnLocked(c, ans) == Answer(c, ans) /\ mutex' = c
\* defer s.routingMu.Unlock() covers the early returns as well.
EarlyReturn(c, ans) == Answer(c, ans) /\ UNCHANGED mutex

\* routingMu is taken and stays taken until the transaction has ended, except
\* on the two early returns.
PickResolve(c) ==
    /\ call[c].pc = "pickLock"
    /\ mutex = None
    /\ LET scope == bindings[call[c].key]
           matched == Matched(c, scope)
           top == Top(c, matched)
       IN IF scope = {}
          THEN EarlyReturn(c, Unhandled)        \* ErrNoBindings
          ELSE IF matched = {}
          THEN EarlyReturn(c, Denied)
          ELSE /\ \E a \in top :
                    Continue(c, [call[c] EXCEPT !.pc = "pickTx",
                                    !.scope = scope, !.targets = top,
                                    !.prio = call[c].offer[a], !.offer = <<>>])
               /\ mutex' = c
    /\ UNCHANGED <<store, sessions, cursor, clock>>

\* ResolveScope fails.
PickReadFails(c) ==
    /\ call[c].pc = "pickLock"
    /\ mutex = None
    /\ EarlyReturn(c, Denied)
    /\ UNCHANGED <<store, sessions, cursor, clock>>

\* Mutant: only a row without a provider matches.
AuthSticksNoProvider(c) ==
    /\ LiveAt(sessions[SessionOf(c)], call[c].now)
    /\ sessions[SessionOf(c)].auth \in call[c].targets
    /\ sessions[SessionOf(c)].provider = None
\* The session's auth is kept only while it is one of the best candidates.
AuthSticks(c) ==
    /\ LiveAt(sessions[SessionOf(c)], call[c].now)
    /\ sessions[SessionOf(c)].auth \in call[c].targets
    /\ sessions[SessionOf(c)].provider \in
           {None, AuthProvider[sessions[SessionOf(c)].auth]}

PickSticky(c) ==
    /\ HasSession(c) /\ AuthSticks(c)
    /\ LET a == sessions[SessionOf(c)].auth
       IN /\ sessions' = [sessions EXCEPT ![SessionOf(c)] =
                            Row(AuthProvider[a], a, call[c].now)]
          /\ Answer(c, Target(a))
    /\ UNCHANGED cursor

PickNext(c) ==
    /\ HasSession(c) /\ ~AuthSticks(c)
    /\ LET a == RoutingValue(AuthCursor(c), call[c].targets)
       IN IF keyState[call[c].key] = "live"
          THEN SaveNewRow(c, AuthProvider[a], a) /\ Answer(c, Target(a))
          ELSE Answer(c, Denied) /\ UNCHANGED sessions
    /\ cursor' = Advanced(AuthCursor(c))

PickRoundRobin(c) ==
    /\ ~HasSession(c)
    /\ Answer(c, Target(RoutingValue(AuthCursor(c), call[c].targets)))
    /\ cursor' = Advanced(AuthCursor(c))
    /\ UNCHANGED sessions

PickTxFails(c) ==
    /\ HasSession(c)
    /\ Answer(c, Denied)
    /\ \/ UNCHANGED cursor
       \/ ~AuthSticks(c) /\ cursor' = Advanced(AuthCursor(c))
    /\ UNCHANGED sessions

PickTx(c) ==
    /\ call[c].pc = "pickTx"
    /\ mutex' = None                             \* defer s.routingMu.Unlock()
    /\ PickSticky(c) \/ PickNext(c) \/ PickRoundRobin(c) \/ PickTxFails(c)
    /\ UNCHANGED <<store, clock>>

\* CPA has the answer; the slot may carry another call.
Finish(c) ==
    /\ call[c].pc = "done"
    /\ Continue(c, IdleCall)
    /\ UNCHANGED <<store, sessions, cursor, mutex, clock>>

-----------------------------------------------------------------------------
(* Management, restarts and time.                                          *)

CreateKey(k, S, lim) ==
    /\ keyState[k] = "unborn"
    /\ keyState' = [keyState EXCEPT ![k] = "live"]
    /\ bindings' = [bindings EXCEPT ![k] = S]
    /\ limited' = [limited EXCEPT ![k] = lim]
    /\ UNCHANGED <<priced, sessions, cursor, mutex, call, clock>>

\* One transaction; S and lim may be the values the key already has, so a
\* patch that names only one of them is included.
UpdateKey(k, S, lim) ==
    /\ keyState[k] = "live"
    /\ bindings' = [bindings EXCEPT ![k] = S]
    /\ limited' = [limited EXCEPT ![k] = lim]
    /\ UNCHANGED <<keyState, priced, sessions, cursor, mutex, call, clock>>

\* Mutant: the sessions of the key are left behind.
DeleteKeyNoCascade(k) ==
    /\ keyState[k] = "live"
    /\ keyState' = [keyState EXCEPT ![k] = "deleted"]
    /\ bindings' = [bindings EXCEPT ![k] = {}]
    /\ limited' = [limited EXCEPT ![k] = FALSE]
    /\ UNCHANGED <<priced, sessions, cursor, mutex, call, clock>>
\* ON DELETE CASCADE takes the key's bindings and sessions with it.
DeleteKey(k) ==
    /\ keyState[k] = "live"
    /\ keyState' = [keyState EXCEPT ![k] = "deleted"]
    /\ bindings' = [bindings EXCEPT ![k] = {}]
    /\ limited' = [limited EXCEPT ![k] = FALSE]
    /\ sessions' = [ks \in DOMAIN sessions |->
                        IF ks[1] = k THEN NoRow ELSE sessions[ks]]
    /\ UNCHANGED <<priced, cursor, mutex, call, clock>>

ReplacePriceRules(table) ==
    /\ priced' = table
    /\ UNCHANGED <<keyState, limited, bindings, sessions, cursor, mutex, call, clock>>

\* The process ends at any moment and starts again: what is in memory is lost,
\* an open transaction is rolled back, the tables stay.
Restart ==
    /\ cursor' = [ck \in CursorKeys |-> 0]
    /\ mutex' = None
    /\ call' = [c \in Calls |-> IdleCall]
    /\ UNCHANGED <<store, sessions, clock>>

Tick ==
    /\ clock < MaxTick
    /\ clock' = clock + 1
    /\ UNCHANGED <<store, sessions, cursor, mutex, call>>

Start(c) ==
    \E k \in Keys, m \in Models, s \in Sessions \cup {None} :
        \/ ChooseStart(c, k, m, s)
        \/ \E p \in Filters, offer \in Offers :
              PickStart(c, k, m, s, p, offer)

\* One step of a call that is under way.
Proceed(c) ==
    \/ ChooseGetKey(c)
    \/ \E available \in AvailableLists : ChooseResolve(c, available)
    \/ ChooseReadFails(c)
    \/ ChooseTx(c)
    \/ PickResolve(c)
    \/ PickReadFails(c)
    \/ PickTx(c)

Manage ==
    \/ \E k \in Keys, S \in BindingSets, lim \in Limiting :
          CreateKey(k, S, lim) \/ UpdateKey(k, S, lim)
    \/ \E k \in Keys : DeleteKey(k)
    \/ \E table \in PriceTables : ReplacePriceRules(table)

Next ==
    \/ \E c \in Calls : Start(c) \/ Proceed(c) \/ Finish(c)
    \/ Manage
    \/ Restart
    \/ Tick

Spec == Init /\ [][Next]_vars

-----------------------------------------------------------------------------
(* Properties.                                                             *)

PCs == {"idle", "getKey", "resolve", "chooseTx", "pickLock", "pickTx", "done"}

CallRecords ==
    [pc : PCs, key : Keys \cup {None}, model : Models \cup {None},
     session : Sessions \cup {None}, now : 0 .. MaxTick,
     filter : Filters \cup {None}, offer : Offers \cup {<<>>},
     limited : BOOLEAN, scope : SUBSET Auths,
     targets : SUBSET (Auths \cup Providers), prio : Priorities \cup {0},
     answer : Answers]

\* Type invariant of the tables, the in-memory routing state and the calls.
TypeOK ==
    /\ keyState \in [Keys -> {"unborn", "live", "deleted"}]
    /\ limited \in [Keys -> BOOLEAN]
    /\ bindings \in [Keys -> SUBSET Auths]
    /\ priced \in PriceTables
    /\ sessions \in [Keys \X Sessions -> Rows \cup {NoRow}]
    /\ cursor \in [CursorKeys -> 0 .. CursorModulus - 1]
    /\ mutex \in Calls \cup {None}
    /\ clock \in 0 .. MaxTick
    /\ call \in [Calls -> CallRecords]

\* A session row belongs to a key that exists, also when DeleteKey falls
\* between the reads of a routing call and the transaction that saves the row
\* (routing_sessions, ON DELETE CASCADE).
SessionsOwned ==
    \A ks \in Keys \X Sessions :
        sessions[ks] # NoRow => keyState[ks[1]] = "live"

\* A session that has been given an auth is recorded under that auth's
\* provider: model.route and scheduler.pick, which save the same row, never
\* leave the provider of one beside the auth of the other.
SessionsConsistent ==
    \A ks \in Keys \X Sessions :
        sessions[ks].auth # None =>
            sessions[ks].provider = AuthProvider[sessions[ks].auth]

\* Store.routingMu is held exactly while a pick is between the read of its
\* scope and the end of its transaction: no return path leaves it locked, and
\* no two calls are past it together.
LockDiscipline ==
    \A c \in Calls : call[c].pc = "pickTx" <=> mutex = c

\* "A conversation must remain on one resource" (routing_test.go): while a
\* session row that holds an auth has not expired, no step gives the session
\* another auth or drops the row, except the deletion of its key and a call of
\* this very key and session that may not use the recorded target.  Calls of
\* other sessions clean up expired rows all the time and with an older clock.
ConversationStays ==
    [][\A ks \in Keys \X Sessions :
         LiveAt(sessions[ks], clock) /\ sessions[ks].auth # None =>
            \/ sessions'[ks].auth = sessions[ks].auth
            \/ keyState'[ks[1]] = "deleted"
            \/ \E c \in Calls :
                  /\ SessionOf(c) = ks
                  /\ call'[c].pc = "done"
                  /\ \/ call[c].pc = "pickTx"
                        /\ sessions[ks].auth \notin call[c].targets
                     \/ call[c].pc = "chooseTx"
                        /\ sessions[ks].provider \notin call[c].targets]_vars

\* Every call that has started is answered: no order of calls, failed
\* transactions and management operations leaves one waiting for routingMu.
CallsAnswered ==
    \A c \in Calls : call[c].pc # "idle" ~> call[c].pc \in {"done", "idle"}

\* The goroutine of a call that can run gets to run, and sync.Mutex lets a
\* waiter that keeps losing the race for the lock in (starvation mode).
Fairness == \A c \in Calls : SF_vars(Proceed(c))

FairSpec == Spec /\ Fairness

-----------------------------------------------------------------------------
(* Routing implements AccessGuard: the grants are the bindings, and a call  *)
(* has looked at them when it has resolved the scope it goes on with.       *)

Phase(pc) ==
    CASE pc = "idle" -> "idle"
      [] pc \in {"getKey", "resolve", "pickLock"} -> "asked"
      [] pc \in {"chooseTx", "pickTx"} -> "looked"
      [] pc = "done" -> "ruled"

GuardCall ==
    [c \in Calls |-> [phase |-> Phase(call[c].pc), key |-> call[c].key,
                      seen |-> call[c].scope, verdict |-> call[c].answer]]

Guard == INSTANCE AccessGuard WITH grants <- bindings, request <- GuardCall

\* Every answer follows from the bindings the key had at one instant during
\* the call: a target is one of them (or the provider of one), and "not
\* handled" is answered only to a key without bindings.
AnswersAuthorized == Guard!Spec

=============================================================================
