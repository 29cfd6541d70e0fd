------------------------------ MODULE KeyStore ------------------------------
(***************************************************************************)
(* API keys and the tokens that name them: the key operations of           *)
(* internal/access/store.go and internal/plugin/management.go, beside      *)
(* requests whose callbacks (internal/plugin/app.go) each find out anew    *)
(* which key they work for.                                                *)
(*                                                                         *)
(* A call of the management API is an admin's; each of its SQL statements  *)
(* that another call can fall before or after is a step, a transaction is  *)
(* one step.  A token and a key id are both strings a client may send, so  *)
(* they share a namespace: nothing stops an admin from choosing the id of  *)
(* one key as the custom token of another.  Quotas, prices and bindings as *)
(* such are the subjects of RequestFlow and Inventory; timestamps and      *)
(* names are left out.                                                     *)
(***************************************************************************)
EXTENDS Naturals, FiniteSets

CONSTANTS
    Ids,            \* key ids; newID draws one that was never used
    CustomTokens,   \* tokens an admin may choose ("api_key" of POST /keys)
    RandomTokens,   \* tokens newPlainKey draws, each of them once
    Windows,        \* the limits of a key
    Bodies,         \* bodies of POST and PATCH; 0 and {} are null, or name none
    Admins,         \* management calls that may be in flight together
    Requests,       \* client requests that may be in flight together
    NoField,        \* a field the body does not name
    None

Tokens == CustomTokens \cup RandomTokens
Absent(S) == S \cup {NoField}

ASSUME KeyStoreAssumption ==
    /\ \A b \in Bodies :
          /\ b.enabled \in Absent(BOOLEAN)
          /\ b.limits \in [Windows -> Absent(Nat)]
          /\ b.bindings = NoField \/ IsFiniteSet(b.bindings)
    /\ RandomTokens \cap (CustomTokens \cup Ids) = {}
    /\ NoField \notin BOOLEAN \cup Nat
    /\ None \notin Ids \cup Tokens

NoLimits == [w \in Windows |-> 0]
NoRow == [token |-> None, enabled |-> FALSE, limits |-> NoLimits, bindings |-> {}]
NoCall == [pc |-> "idle", id |-> None, token |-> None, body |-> None, answer |-> "none"]
NoRequest == [pc |-> "idle", key |-> None, name |-> None, as |-> None]

VARIABLES
    rows,       \* table keys with the key_bindings of each: id -> row or NoRow
    born,       \* ids that were used
    used,       \* tokens that some key has had
    adm,        \* per admin: the management call in flight
    req,        \* the requests in flight
    owned,      \* history: admins whose token was some key's during the call
    blurred     \* history: requests whose name stopped naming their key alone

vars == <<rows, born, used, adm, req, owned, blurred>>
table == <<rows, born, used>>

Init ==
    /\ rows = [k \in Ids |-> NoRow]
    /\ born = {}
    /\ used = {}
    /\ adm = [a \in Admins |-> NoCall]
    /\ req = [r \in Requests |-> NoRequest]
    /\ owned = {}
    /\ blurred = {}

-----------------------------------------------------------------------------
(* Helpers.                                                                *)

Live == {k \in Ids : rows[k] # NoRow}
OwnersOf(t) == {k \in Live : rows[k].token = t}

\* Mutant: the token of a deleted or rotated key counts as well.
TokenEverTaken(t) == t \in used
\* SELECT EXISTS(... WHERE key_hash = ?)
TokenTaken(t) == OwnersOf(t) # {}

\* Mutant: a limit the body does not name is stored as such.
LimitsAsNamed(body) == body.limits
\* bodyLimits: a limit the body does not name is none.
LimitsOf(body) ==
    [w \in Windows |-> IF body.limits[w] = NoField THEN 0 ELSE body.limits[w]]
NamesLimits(body) == \E w \in Windows : body.limits[w] # NoField

\* handleKeys, POST: a key is enabled unless the body says otherwise.
NewRow(t, body) ==
    [token |-> t,
     enabled |-> IF body.enabled = NoField THEN TRUE ELSE body.enabled,
     limits |-> LimitsOf(body),
     bindings |-> IF body.bindings = NoField THEN {} ELSE body.bindings]

\* Mutant: the limits a PATCH does not name are kept.
PatchedMerging(row, body) ==
    [row EXCEPT
        !.limits = [w \in Windows |->
                       IF body.limits[w] = NoField THEN @[w] ELSE body.limits[w]]]
\* handleKeys, PATCH, and UpdateKey: only what the body names is written, but a
\* body that names one limit replaces them all.
Patched(row, body) ==
    [row EXCEPT !.enabled = IF body.enabled = NoField THEN @ ELSE body.enabled,
                !.limits = IF NamesLimits(body) THEN LimitsOf(body) ELSE @,
                !.bindings = IF body.bindings = NoField THEN @ ELSE body.bindings]

Call(a, rec) == adm' = [adm EXCEPT ![a] = rec]
Answer(a, ans) == Call(a, [NoCall EXCEPT !.pc = "answered", !.answer = ans])
ReadNext(a, k) == Call(a, [NoCall EXCEPT !.pc = "read", !.id = k])
InCall(a, pc) == adm[a].pc = pc

Goto(r, rec) == req' = [req EXCEPT ![r] = rec]
At(r, pc) == req[r].pc = pc
End(r) == Goto(r, NoRequest)

-----------------------------------------------------------------------------
(* Management of keys.                                                     *)

\* newPlainKey: 32 random bytes.
Drawn(t) == t \in RandomTokens \ used /\ \A b \in Admins : adm[b].token # t

\* CreateKeyWithPlain: a token of the admin's choice is looked up first.  An id
\* cannot be chosen before it exists.
CreateStart(a, t, body) ==
    /\ InCall(a, "idle")
    /\ \/ t \in CustomTokens /\ (t \in Ids => t \in born)
       \/ Drawn(t)
    /\ Call(a, [NoCall EXCEPT !.pc = IF t \in CustomTokens THEN "exists" ELSE "insert",
                              !.token = t, !.body = body])
    /\ UNCHANGED <<table, req>>

CreateExists(a) ==
    /\ InCall(a, "exists")
    /\ IF TokenTaken(adm[a].token)
       THEN Answer(a, "duplicate")                     \* ErrDuplicateKey
       ELSE Call(a, [adm[a] EXCEPT !.pc = "insert"])
    /\ UNCHANGED <<table, req>>

Insert(k, a) ==
    /\ rows' = [rows EXCEPT ![k] = NewRow(adm[a].token, adm[a].body)]
    /\ born' = born \cup {k}
    /\ used' = used \cup {adm[a].token}
    /\ ReadNext(a, k)

\* Mutant: key_hash is not UNIQUE.
CreateInsertUnchecked(a) ==
    /\ InCall(a, "insert")
    /\ \E k \in Ids \ born : Insert(k, a)
    /\ UNCHANGED req
\* The transaction that inserts the key and its bindings: key_hash is UNIQUE.
CreateInsert(a) ==
    /\ InCall(a, "insert")
    /\ \/ /\ TokenTaken(adm[a].token)
          /\ Answer(a, "duplicate")
          /\ UNCHANGED table
       \/ /\ ~TokenTaken(adm[a].token)
          /\ \E k \in Ids \ born : Insert(k, a)
    /\ UNCHANGED req

\* RotateKey: one UPDATE replaces the token of the key.
RotateKey(a, k, t) ==
    /\ InCall(a, "idle") /\ Drawn(t)
    /\ \/ /\ k \in Live
          /\ rows' = [rows EXCEPT ![k].token = t]
          /\ used' = used \cup {t}
          /\ ReadNext(a, k)
          /\ UNCHANGED born
       \/ /\ k \notin Live
          /\ Answer(a, "not found")
          /\ UNCHANGED table
    /\ UNCHANGED req

\* UpdateKey: one transaction.
UpdateKey(a, k, body) ==
    /\ InCall(a, "idle")
    /\ \/ /\ k \in Live
          /\ rows' = [rows EXCEPT ![k] = Patched(@, body)]
          /\ ReadNext(a, k)
       \/ /\ k \notin Live
          /\ Answer(a, "not found")
          /\ UNCHANGED rows
    /\ UNCHANGED <<born, used, req>>

\* The bindings, sessions and ledger rows go with the key (ON DELETE CASCADE).
DeleteKey(a, k) ==
    /\ InCall(a, "idle")
    /\ rows' = [rows EXCEPT ![k] = NoRow]
    /\ Answer(a, IF k \in Live THEN "done" ELSE "not found")
    /\ UNCHANGED <<born, used, req>>

\* GetKey at the end of a creation, rotation or update: the key may be gone.
ReadBack(a) ==
    /\ InCall(a, "read")
    /\ Answer(a, IF adm[a].id \in Live THEN "done" ELSE "not found")
    /\ UNCHANGED <<table, req>>

\* A statement or a transaction fails.  When it is GetKey the change is made.  (A
\* call that fails at its first statement is no step.)
CallFails(a) ==
    /\ adm[a].pc \in {"exists", "insert", "read"}
    /\ Answer(a, "error")
    /\ UNCHANGED <<table, req>>

\* The admin has the answer, and may do the same again.
CallEnds(a) ==
    /\ InCall(a, "answered")
    /\ Call(a, NoCall)
    /\ UNCHANGED <<table, req>>
-----------------------------------------------------------------------------
(* Requests.  What the callbacks after the first get to see of the key is   *)
(* its id (Principal and Metadata of the answer to authenticate) or, should *)
(* CPA not pass these on, the token in the headers: req.name.               *)

\* Authenticate: KeyByPresentedToken, and a key that is enabled.  Whether quota
\* and prices admit the request is left to RequestFlow.
Authenticate(r, t) ==
    /\ At(r, "idle")
    /\ \E k \in OwnersOf(t) :
          /\ rows[k].enabled
          /\ \E name \in {k, t} :
                Goto(r, [pc |-> "admitted", key |-> k, name |-> name, as |-> k])
    /\ UNCHANGED <<table, adm>>

\* routeModel and pickScheduler: the key id of the metadata is taken as it is, a
\* token is looked up; without a key the callback is "not handled" (as = None).
\* (A token that CPA put in the metadata as "api_key" would be taken as an id; the
\* names that authenticate gives come before that one.)
Serve(r) ==
    /\ req[r].pc \in {"admitted", "served"}
    /\ \/ req[r].name = req[r].key /\ Goto(r, [req[r] EXCEPT !.pc = "served", !.as = @])
       \/ /\ req[r].name # req[r].key
          /\ \E k \in OwnersOf(req[r].name) :
                Goto(r, [req[r] EXCEPT !.pc = "served", !.as = k])
       \/ /\ req[r].name # req[r].key
          /\ OwnersOf(req[r].name) = {}
          /\ Goto(r, [req[r] EXCEPT !.pc = "served", !.as = None])
    /\ UNCHANGED <<table, adm>>

\* Mutant: the id is tried before the token.
UsageLookupIdFirst(r) ==
    /\ req[r].pc \in {"admitted", "served"}
    /\ \/ req[r].name \in Live /\ Goto(r, [req[r] EXCEPT !.pc = "record", !.as = req[r].name])
       \/ /\ req[r].name \notin Live
          /\ \E k \in OwnersOf(req[r].name) :
                Goto(r, [req[r] EXCEPT !.pc = "record", !.as = k])
    /\ UNCHANGED <<table, adm>>
\* handleUsage, KeyByIDOrPresentedToken: the name is looked up as a token ...
UsageLookup(r) ==
    /\ req[r].pc \in {"admitted", "served"}
    /\ \/ \E k \in OwnersOf(req[r].name) :
             Goto(r, [req[r] EXCEPT !.pc = "record", !.as = k])
       \/ /\ OwnersOf(req[r].name) = {}
          /\ Goto(r, [req[r] EXCEPT !.pc = "usageById"])
    /\ UNCHANGED <<table, adm>>

\* ... and then, in another statement, as a key id.
UsageLookupId(r) ==
    /\ At(r, "usageById")
    /\ IF req[r].name \in Live
       THEN Goto(r, [req[r] EXCEPT !.pc = "record", !.as = req[r].name])
       ELSE End(r)                                     \* the usage is dropped
    /\ UNCHANGED <<table, adm>>

\* RecordUsage for the key found; or the request ends, or its usage is lost.
RequestEnds(r) ==
    /\ ~At(r, "idle")
    /\ End(r)
    /\ UNCHANGED <<table, adm>>

\* The process ends and starts again: every call in flight is gone.
Restart ==
    /\ adm' = [a \in Admins |-> NoCall]
    /\ req' = [r \in Requests |-> NoRequest]
    /\ UNCHANGED table

-----------------------------------------------------------------------------
Manage(a) ==
    \/ \E body \in Bodies :
          \/ \E t \in Tokens : CreateStart(a, t, body)
          \/ \E k \in born : UpdateKey(a, k, body)
    \/ CreateExists(a) \/ CreateInsert(a)
    \/ \E k \in born : DeleteKey(a, k) \/ (\E t \in RandomTokens : RotateKey(a, k, t))
    \/ ReadBack(a) \/ CallFails(a) \/ CallEnds(a)

Handle(r) ==
    \/ \E t \in Tokens : Authenticate(r, t)
    \/ Serve(r) \/ UsageLookup(r) \/ UsageLookupId(r) \/ RequestEnds(r)

\* The token of a creation is some key's.
Owned(a) == adm[a].pc \in {"exists", "insert"} /\ OwnersOf(adm[a].token) # {}

\* The name of a request names another key as well, or its own key no more.
Blurred(r) ==
    IF req[r].name = req[r].key THEN OwnersOf(req[r].key) # {}
                                ELSE req[r].key \notin OwnersOf(req[r].name)

Next ==
    /\ \/ \E a \in Admins : Manage(a)
       \/ \E r \in Requests : Handle(r)
       \/ Restart
    /\ owned' = {a \in Admins : adm'[a].pc # "idle" /\ (a \in owned \/ Owned(a)')}
    /\ blurred' = {r \in Requests : req'[r].pc # "idle" /\ (r \in blurred \/ Blurred(r)')}

Spec == Init /\ [][Next]_vars

-----------------------------------------------------------------------------
(* Properties.                                                             *)

BindingSets == {b.bindings : b \in Bodies} \cup {{}}
Rows == [token : Tokens, enabled : BOOLEAN, limits : [Windows -> Nat],
         bindings : BindingSets]
Calls ==
    [pc : {"idle", "exists", "insert", "read", "answered"},
     id : Ids \cup {None}, token : Tokens \cup {None}, body : Bodies \cup {None},
     answer : {"none", "done", "duplicate", "not found", "error"}]
RequestRecords ==
    [pc : {"idle", "admitted", "served", "usageById", "record"},
     key : Ids \cup {None}, name : Tokens \cup Ids \cup {None},
     as : Ids \cup {None}]

\* Type invariant; a row exists only under an id that was given out.
TypeOK ==
    /\ rows \in [Ids -> Rows \cup {NoRow}]
    /\ Live \subseteq born /\ born \subseteq Ids
    /\ used \subseteq Tokens
    /\ adm \in [Admins -> Calls]
    /\ req \in [Requests -> RequestRecords]
    /\ owned \subseteq Admins /\ blurred \subseteq Requests

\* A token names one key, also when two admins choose the same one at once and
\* neither finds it taken, and when a creation whose answer was lost is repeated.
TokenNamesOneKey ==
    \A k, l \in Live : rows[k].token = rows[l].token => k = l

\* A creation is refused as a duplicate (ErrDuplicateKey) only if some key had
\* the token during the call: a deleted key gives its token free, a rotated one
\* the token it had, and a refused creation has not taken the token itself.
DuplicateJustified ==
    \A a \in Admins : adm[a].answer = "duplicate" => a \in owned

\* The limits of a key are those of one request: however PATCHes follow on and
\* overlap each other, a key never has the short window of one and the long
\* window of another.
LimitsFromOneBody ==
    \A k \in Live : rows[k].limits \in {LimitsOf(b) : b \in Bodies}

\* The callbacks of one request work for one key: model.route, scheduler.pick
\* and usage.handle, which look the key up anew, find the key that authenticate
\* admitted, unless during the request the token they go by left that key
\* (rotation, deletion), or the id they go by became another key's token.
RequestKeepsKey ==
    \A r \in Requests :
        req[r].pc \in {"served", "record"} /\ r \notin blurred
            => req[r].as = req[r].key
=============================================================================
