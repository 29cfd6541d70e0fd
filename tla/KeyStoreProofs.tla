---------------------------- MODULE KeyStoreProofs ----------------------------
(***************************************************************************)
(* Proofs about KeyStore, for any number of keys, admins and requests: a   *)
(* token names one key, a refusal is justified, limits are never mixed,    *)
(* and the callbacks of a request agree on its key.                        *)
(***************************************************************************)
EXTENDS KeyStore, TLAPS

\* What the table keeps: rows only under ids that were given out, tokens only
\* that were used.
TableOK ==
    /\ rows \in [Ids -> Rows \cup {NoRow}]
    /\ Live \subseteq born /\ born \subseteq Ids
    /\ used \subseteq Tokens
    /\ \A k \in Live : rows[k].token \in used

\* What a management call holds at each of its steps.
CallsSound ==
    /\ adm \in [Admins -> Calls]
    /\ \A a \in Admins :
          /\ adm[a].pc \in {"exists", "insert"}
                => adm[a].token \in Tokens /\ adm[a].body \in Bodies
          /\ adm[a].answer = "duplicate" => adm[a].pc = "answered"

\* The history variables know of every overlap there is at the moment.
HistoryKnows ==
    /\ owned \subseteq Admins /\ blurred \subseteq Requests
    /\ \A a \in Admins : Owned(a) => a \in owned
    /\ \A r \in Requests : req[r].pc # "idle" /\ Blurred(r) => r \in blurred

\* What a request has found so far; only one that goes by the id of its key gets
\* to the second lookup of usage.handle.
RequestsSound ==
    /\ req \in [Requests -> RequestRecords]
    /\ \A r \in Requests :
          /\ req[r].pc # "idle" => req[r].key \in Ids
          /\ req[r].pc \in {"admitted", "served", "record"} /\ r \notin blurred
                => req[r].as = req[r].key
          /\ req[r].pc = "usageById" /\ r \notin blurred => req[r].name = req[r].key

IInv ==
    /\ TableOK /\ TokenNamesOneKey /\ LimitsFromOneBody
    /\ CallsSound /\ DuplicateJustified
    /\ HistoryKnows /\ RequestsSound

-----------------------------------------------------------------------------
\* A limit that a body does not name is none, so a body always gives all limits.
LEMMA LimitsTyped ==
  ASSUME NEW b \in Bodies
  PROVE  LimitsOf(b) \in [Windows -> Nat]
<1> b.limits \in [Windows -> Nat \cup {NoField}]
  BY KeyStoreAssumption DEF Absent
<1> QED
  BY DEF LimitsOf

\* A row is a row: None is nobody's token.
LEMMA RowIsLive ==
  ASSUME NEW row \in Rows
  PROVE  row # NoRow
  BY KeyStoreAssumption DEF Rows, NoRow

\* The row a creation inserts.
LEMMA NewRowTyped ==
  ASSUME NEW t \in Tokens, NEW b \in Bodies
  PROVE  /\ NewRow(t, b) \in Rows
         /\ NewRow(t, b).token = t
         /\ NewRow(t, b).limits = LimitsOf(b)
<1>1. LimitsOf(b) \in [Windows -> Nat]
  BY LimitsTyped
<1>2. b.enabled \in BOOLEAN \cup {NoField}
  BY KeyStoreAssumption DEF Absent
<1>3. (IF b.bindings = NoField THEN {} ELSE b.bindings) \in BindingSets
  BY DEF BindingSets
<1>4. (IF b.enabled = NoField THEN TRUE ELSE b.enabled) \in BOOLEAN
  BY <1>2
<1> QED
  BY <1>1, <1>3, <1>4 DEF NewRow, Rows

\* The row an update leaves: its token stays, its limits are its own or all those
\* of the body.
LEMMA PatchedTyped ==
  ASSUME NEW row \in Rows, NEW b \in Bodies
  PROVE  /\ Patched(row, b) \in Rows
         /\ Patched(row, b).token = row.token
         /\ Patched(row, b).limits \in {row.limits, LimitsOf(b)}
<1>1. LimitsOf(b) \in [Windows -> Nat]
  BY LimitsTyped
<1>2. b.enabled \in BOOLEAN \cup {NoField}
  BY KeyStoreAssumption DEF Absent
<1> DEFINE on == IF b.enabled = NoField THEN row.enabled ELSE b.enabled
           lim == IF NamesLimits(b) THEN LimitsOf(b) ELSE row.limits
           bnd == IF b.bindings = NoField THEN row.bindings ELSE b.bindings
<1>3. Patched(row, b) = [row EXCEPT !.enabled = on, !.limits = lim, !.bindings = bnd]
  BY DEF Patched, Rows
<1>4. on \in BOOLEAN
  BY <1>2 DEF Rows
<1>5. lim \in [Windows -> Nat] /\ lim \in {row.limits, LimitsOf(b)}
  BY <1>1 DEF Rows
<1>6. bnd \in BindingSets
  BY DEF Rows, BindingSets
<1> HIDE DEF on, lim, bnd
<1> QED
  BY <1>3, <1>4, <1>5, <1>6 DEF Rows

-----------------------------------------------------------------------------
\* The store starts empty.
LEMMA InitInv == Init => IInv
<1> SUFFICES ASSUME Init PROVE IInv
  OBVIOUS
<1>1. Live = {} /\ \A t : OwnersOf(t) = {}
  BY DEF Init, Live, OwnersOf
<1>2. TableOK /\ TokenNamesOneKey /\ LimitsFromOneBody
  BY <1>1 DEF Init, TableOK, TokenNamesOneKey, LimitsFromOneBody
<1>3. NoCall \in Calls /\ NoCall.pc = "idle" /\ NoCall.answer = "none"
  BY DEF NoCall, Calls
<1>4. NoRequest \in RequestRecords /\ NoRequest.pc = "idle"
  BY DEF NoRequest, RequestRecords
<1>5. CallsSound /\ DuplicateJustified
  BY <1>3, KeyStoreAssumption DEF Init, CallsSound, DuplicateJustified, NoCall
<1>6. HistoryKnows /\ RequestsSound
  BY <1>3, <1>4, KeyStoreAssumption DEF Init, HistoryKnows, RequestsSound, Owned, NoCall, NoRequest
<1> QED
  BY <1>2, <1>5, <1>6 DEF IInv

\* The four ways a step may leave the table: an insertion of a token nobody has, a
\* rotation to a token nobody has had, an update, a deletion, or no change.
TableChanges ==
    \/ \E k \in Ids \ born, t \in Tokens, b \in Bodies :
          /\ OwnersOf(t) = {}
          /\ rows' = [rows EXCEPT ![k] = NewRow(t, b)]
          /\ born' = born \cup {k} /\ used' = used \cup {t}
    \/ \E k \in Live, t \in RandomTokens \ used :
          /\ rows' = [rows EXCEPT ![k].token = t]
          /\ used' = used \cup {t} /\ born' = born
    \/ \E k \in Live, b \in Bodies :
          /\ rows' = [rows EXCEPT ![k] = Patched(@, b)]
          /\ born' = born /\ used' = used
    \/ \E k \in Ids :
          /\ rows' = [rows EXCEPT ![k] = NoRow]
          /\ born' = born /\ used' = used
    \/ UNCHANGED table

LEMMA TableCases == IInv /\ [Next]_vars => TableChanges
<1> SUFFICES ASSUME IInv, [Next]_vars PROVE TableChanges
  OBVIOUS
<1>1. ASSUME NEW a \in Admins, CreateInsert(a) PROVE TableChanges
  <2>1. adm[a].token \in Tokens /\ adm[a].body \in Bodies
    BY <1>1 DEF CreateInsert, InCall, IInv, CallsSound
  <2>2. CASE UNCHANGED table
    BY <2>2 DEF TableChanges
  <2>3. CASE \E k \in Ids \ born : ~TokenTaken(adm[a].token) /\ Insert(k, a)
    BY <2>1, <2>3 DEF TableChanges, Insert, TokenTaken
  <2> QED
    BY <1>1, <2>2, <2>3 DEF CreateInsert
<1>2. ASSUME NEW a \in Admins, NEW k \in born, NEW t \in RandomTokens, RotateKey(a, k, t)
      PROVE  TableChanges
  BY <1>2 DEF RotateKey, Drawn, TableChanges, table
<1>3. ASSUME NEW a \in Admins, NEW k \in born, NEW b \in Bodies, UpdateKey(a, k, b)
      PROVE  TableChanges
  BY <1>3 DEF UpdateKey, TableChanges, table
<1>4. ASSUME NEW a \in Admins, NEW k \in born, DeleteKey(a, k)
      PROVE  TableChanges
  <2> k \in Ids
    BY DEF IInv, TableOK
  <2> QED
    BY <1>4 DEF DeleteKey, TableChanges
<1>5. CASE UNCHANGED vars
  BY <1>5 DEF vars, table, TableChanges
<1>6. ASSUME NEW a \in Admins, Manage(a) PROVE TableChanges
  BY <1>1, <1>2, <1>3, <1>4, <1>6
     DEF Manage, CreateStart, CreateExists, ReadBack, CallFails, CallEnds, TableChanges
<1>7. ASSUME NEW r \in Requests, Handle(r) PROVE TableChanges
  BY <1>7 DEF Handle, Authenticate, Serve, UsageLookup, UsageLookupId, RequestEnds,
              TableChanges
<1>8. CASE Restart
  BY <1>8 DEF Restart, TableChanges
<1> QED
  BY <1>5, <1>6, <1>7, <1>8 DEF Next

\* Whatever is done to the table, a token names one key and limits stay together.
LEMMA TableStep ==
    IInv /\ [Next]_vars => TableOK' /\ TokenNamesOneKey' /\ LimitsFromOneBody'
<1> SUFFICES ASSUME IInv, TableChanges
             PROVE  TableOK' /\ TokenNamesOneKey' /\ LimitsFromOneBody'
  BY TableCases
<1>a. \A k \in Live : rows[k] \in Rows
  BY DEF IInv, TableOK, Live
<1> USE DEF IInv, TableOK, TokenNamesOneKey, LimitsFromOneBody
<1>1. ASSUME NEW k \in Ids \ born, NEW t \in Tokens, NEW b \in Bodies, OwnersOf(t) = {},
             rows' = [rows EXCEPT ![k] = NewRow(t, b)],
             born' = born \cup {k}, used' = used \cup {t}
      PROVE  TableOK' /\ TokenNamesOneKey' /\ LimitsFromOneBody'
  <2> DEFINE new == NewRow(t, b)
  <2>1. new \in Rows /\ new # NoRow /\ new.token = t /\ new.limits = LimitsOf(b)
    BY NewRowTyped, RowIsLive
  <2> HIDE DEF new
  <2>2. /\ rows' = [rows EXCEPT ![k] = new] /\ rows'[k] = new
        /\ \A l \in Ids : l # k => rows'[l] = rows[l]
    BY <1>1 DEF new
  <2>3. Live' = Live \cup {k}
    BY <2>1, <2>2 DEF Live
  <2>4. \A l \in Live : rows[l].token # t /\ l # k
    BY <1>1 DEF OwnersOf
  <2>5. TableOK'
    BY <1>1, <2>1, <2>2, <2>3
  <2>6. TokenNamesOneKey'
    BY <2>1, <2>2, <2>3, <2>4 DEF Live
  <2>7. LimitsFromOneBody'
    BY <2>1, <2>2, <2>3 DEF Live
  <2> QED
    BY <2>5, <2>6, <2>7
<1>2. ASSUME NEW k \in Live, NEW t \in RandomTokens \ used,
             rows' = [rows EXCEPT ![k].token = t],
             used' = used \cup {t}, born' = born
      PROVE  TableOK' /\ TokenNamesOneKey' /\ LimitsFromOneBody'
  <2> DEFINE new == [rows[k] EXCEPT !.token = t]
  <2>1. new \in Rows /\ new.token = t /\ new.limits = rows[k].limits
    BY <1>a DEF Rows, Tokens
  <2>0. new # NoRow
    BY <2>1, RowIsLive
  <2>2. rows' = [rows EXCEPT ![k] = new]
    BY <1>2
  <2> HIDE DEF new
  <2>3. k \in Ids /\ rows'[k] = new /\ \A l \in Ids : l # k => rows'[l] = rows[l]
    BY <2>2 DEF Live
  <2>4. Live' = Live
    BY <2>0, <2>3 DEF Live
  <2>5. TableOK'
    BY <1>2, <2>1, <2>2, <2>3, <2>4 DEF Tokens
  <2>6. TokenNamesOneKey'
    BY <1>2, <2>1, <2>3, <2>4 DEF Live
  <2>7. LimitsFromOneBody'
    BY <2>1, <2>3, <2>4 DEF Live
  <2> QED
    BY <2>5, <2>6, <2>7
<1>3. ASSUME NEW k \in Live, NEW b \in Bodies,
             rows' = [rows EXCEPT ![k] = Patched(@, b)], born' = born, used' = used
      PROVE  TableOK' /\ TokenNamesOneKey' /\ LimitsFromOneBody'
  <2> DEFINE new == Patched(rows[k], b)
  <2>1. /\ new \in Rows /\ new # NoRow /\ new.token = rows[k].token
        /\ new.limits \in {rows[k].limits, LimitsOf(b)}
    BY <1>a, PatchedTyped, RowIsLive
  <2>2. rows' = [rows EXCEPT ![k] = new]
    BY <1>3
  <2> HIDE DEF new
  <2>3. k \in Ids /\ rows'[k] = new /\ \A l \in Ids : l # k => rows'[l] = rows[l]
    BY <2>2 DEF Live
  <2>4. Live' = Live
    BY <2>1, <2>3 DEF Live
  <2>5. TableOK'
    BY <1>3, <2>1, <2>2, <2>3, <2>4
  <2>6. TokenNamesOneKey'
    BY <2>1, <2>3, <2>4 DEF Live
  <2>7. LimitsFromOneBody'
    BY <2>1, <2>3, <2>4 DEF Live
  <2> QED
    BY <2>5, <2>6, <2>7
<1>4. ASSUME NEW k \in Ids, rows' = [rows EXCEPT ![k] = NoRow], born' = born, used' = used
      PROVE  TableOK' /\ TokenNamesOneKey' /\ LimitsFromOneBody'
  <2>1. Live' = Live \ {k} /\ \A l \in Live' : rows'[l] = rows[l]
    BY <1>4 DEF Live
  <2> QED
    BY <1>4, <2>1
<1>5. CASE UNCHANGED table
  BY <1>5 DEF table, Live
<1> QED
  BY <1>1, <1>2, <1>3, <1>4, <1>5 DEF TableChanges

\* What the history variables of the last step say.
LEMMA HistoryStep ==
  ASSUME IInv, [Next]_vars
  PROVE  /\ HistoryKnows'
         /\ \A a \in owned : adm'[a].pc # "idle" => a \in owned'
         /\ \A r \in blurred : req'[r].pc # "idle" => r \in blurred'
<1> USE DEF IInv, HistoryKnows
<1>1. CASE Next
  <2>1. /\ owned' = {a \in Admins : adm'[a].pc # "idle" /\ (a \in owned \/ Owned(a)')}
        /\ blurred' = {r \in Requests : req'[r].pc # "idle" /\ (r \in blurred \/ Blurred(r)')}
    BY <1>1 DEF Next
  <2>2. \A a \in Admins : Owned(a)' => adm'[a].pc # "idle"
    BY DEF Owned
  <2> QED
    BY <2>1, <2>2
<1>2. CASE UNCHANGED vars
  BY <1>2 DEF vars, Owned, OwnersOf, Live, Blurred
<1> QED
  BY <1>1, <1>2

\* A management call goes from the duplicate check to its transaction with the
\* token and the body it came with, and is refused only when the token is taken.
LEMMA CallsStep == IInv /\ [Next]_vars => CallsSound' /\ DuplicateJustified'
<1> SUFFICES ASSUME IInv, [Next]_vars PROVE CallsSound' /\ DuplicateJustified'
  OBVIOUS
<1>a. \A a \in owned : adm'[a].pc # "idle" => a \in owned'
  BY HistoryStep
<1>b. /\ adm \in [Admins -> Calls] /\ NoCall \in Calls
      /\ NoCall.pc = "idle" /\ NoCall.answer = "none"
  BY DEF IInv, CallsSound, NoCall, Calls
<1> DEFINE Good(a, rec) ==
             /\ rec \in Calls
             /\ rec.pc \in {"exists", "insert"} => rec.token \in Tokens /\ rec.body \in Bodies
             /\ rec.answer = "duplicate" => rec.pc = "answered" /\ a \in owned
<1>c. \A a \in Admins : Good(a, adm[a])
  BY DEF IInv, CallsSound, DuplicateJustified
<1>d. \A a \in Admins : Good(a, NoCall)
  BY <1>b
<1>e. ASSUME NEW a \in Admins, NEW rec, Good(a, rec), Call(a, rec)
      PROVE  CallsSound' /\ DuplicateJustified'
  <2>1. adm' \in [Admins -> Calls] /\ \A b \in Admins : Good(b, adm'[b])
    BY <1>b, <1>c, <1>e DEF Call
  <2> QED
    BY <2>1, <1>a DEF CallsSound, DuplicateJustified
<1>f. ASSUME UNCHANGED adm PROVE CallsSound' /\ DuplicateJustified'
  BY <1>f, <1>a, <1>c, <1>b DEF CallsSound, DuplicateJustified
<1>g. ASSUME NEW a \in Admins, NEW ans \in {"done", "not found", "error"}, Answer(a, ans)
      PROVE  CallsSound' /\ DuplicateJustified'
  <2> DEFINE rec == [NoCall EXCEPT !.pc = "answered", !.answer = ans]
  <2>1. rec \in Calls /\ rec.pc = "answered" /\ rec.answer = ans
    BY DEF NoCall, Calls
  <2> HIDE DEF rec
  <2>2. Good(a, rec)
    BY <2>1
  <2>3. Call(a, rec)
    BY <1>g DEF Answer, rec
  <2> HIDE DEF Good
  <2> QED
    BY <2>2, <2>3, <1>e
<1>h. ASSUME NEW a \in Admins, adm[a].pc \in {"exists", "insert"},
             TokenTaken(adm[a].token), Answer(a, "duplicate")
      PROVE  CallsSound' /\ DuplicateJustified'
  <2> DEFINE rec == [NoCall EXCEPT !.pc = "answered", !.answer = "duplicate"]
  <2>1. rec \in Calls /\ rec.pc = "answered"
    BY DEF NoCall, Calls
  <2>2. a \in owned
    BY <1>h DEF IInv, HistoryKnows, Owned, TokenTaken
  <2>3. Call(a, rec)
    BY <1>h DEF Answer
  <2> HIDE DEF rec
  <2>4. Good(a, rec)
    BY <2>1, <2>2
  <2> HIDE DEF Good
  <2> QED
    BY <2>3, <2>4, <1>e
<1>i. ASSUME NEW a \in Admins, NEW k \in Ids, ReadNext(a, k)
      PROVE  CallsSound' /\ DuplicateJustified'
  <2> DEFINE rec == [NoCall EXCEPT !.pc = "read", !.id = k]
  <2>1. rec \in Calls /\ rec.pc = "read" /\ rec.answer = "none"
    BY DEF NoCall, Calls
  <2>2. Call(a, rec)
    BY <1>i DEF ReadNext
  <2> HIDE DEF rec
  <2>3. Good(a, rec)
    BY <2>1
  <2> HIDE DEF Good
  <2> QED
    BY <2>2, <2>3, <1>e
<1>1. ASSUME NEW a \in Admins, NEW t \in Tokens, NEW b \in Bodies, CreateStart(a, t, b)
      PROVE  CallsSound' /\ DuplicateJustified'
  <2> DEFINE rec == [NoCall EXCEPT !.pc = IF t \in CustomTokens THEN "exists" ELSE "insert",
                                   !.token = t, !.body = b]
  <2>1. /\ rec \in Calls /\ rec.token = t /\ rec.body = b /\ rec.answer = "none"
    BY DEF NoCall, Calls
  <2>2. Call(a, rec)
    BY <1>1 DEF CreateStart
  <2> HIDE DEF rec
  <2>3. Good(a, rec)
    BY <2>1
  <2> HIDE DEF Good
  <2> QED
    BY <2>2, <2>3, <1>e
<1>2. ASSUME NEW a \in Admins, CreateExists(a)
      PROVE  CallsSound' /\ DuplicateJustified'
  <2>1. CASE TokenTaken(adm[a].token)
    BY <1>2, <2>1, <1>h DEF CreateExists, InCall
  <2>2. CASE ~TokenTaken(adm[a].token)
    <3> DEFINE rec == [adm[a] EXCEPT !.pc = "insert"]
    <3>1. Call(a, rec) /\ adm[a].pc = "exists"
      BY <1>2, <2>2 DEF CreateExists, InCall
    <3>2. /\ rec \in Calls /\ rec.token = adm[a].token /\ rec.body = adm[a].body
          /\ rec.answer = adm[a].answer
      BY <1>b DEF Calls
    <3> HIDE DEF rec
    <3>3. Good(a, rec)
      BY <3>1, <3>2, <1>c
    <3> HIDE DEF Good
    <3> QED
      BY <3>1, <3>3, <1>e
  <2> QED
    BY <2>1, <2>2
<1>3. ASSUME NEW a \in Admins, CreateInsert(a)
      PROVE  CallsSound' /\ DuplicateJustified'
  BY <1>3, <1>h, <1>i DEF CreateInsert, Insert, InCall
<1>4. ASSUME NEW a \in Admins, NEW k \in born,
             \/ \E b \in Bodies : UpdateKey(a, k, b)
             \/ \E t \in RandomTokens : RotateKey(a, k, t)
             \/ DeleteKey(a, k)
      PROVE  CallsSound' /\ DuplicateJustified'
  <2>1. k \in Ids
    BY DEF IInv, TableOK
  <2> HIDE DEF Good
  <2> QED
    BY <1>4, <2>1, <1>g, <1>i DEF UpdateKey, RotateKey, DeleteKey
<1>5. ASSUME NEW a \in Admins, ReadBack(a) \/ CallFails(a)
      PROVE  CallsSound' /\ DuplicateJustified'
  BY <1>5, <1>g DEF ReadBack, CallFails
<1>6. ASSUME NEW a \in Admins, CallEnds(a)
      PROVE  CallsSound' /\ DuplicateJustified'
  <2> HIDE DEF Good
  <2> QED
    BY <1>6, <1>d, <1>e DEF CallEnds
<1>7. ASSUME NEW r \in Requests, Handle(r) PROVE UNCHANGED adm
  BY <1>7 DEF Handle, Authenticate, Serve, UsageLookup, UsageLookupId, RequestEnds
<1>8. CASE Restart
  <2>1. adm' \in [Admins -> Calls] /\ \A a \in Admins : adm'[a] = NoCall
    BY <1>8, <1>b DEF Restart
  <2> QED
    BY <2>1, <1>b DEF CallsSound, DuplicateJustified
<1>9. CASE UNCHANGED vars
  BY <1>9, <1>f DEF vars
<1> HIDE DEF Good
<1>10. ASSUME NEW a \in Admins, Manage(a) PROVE CallsSound' /\ DuplicateJustified'
  BY <1>1, <1>2, <1>3, <1>4, <1>5, <1>6, <1>10 DEF Manage
<1> QED
  BY <1>7, <1>f, <1>8, <1>9, <1>10 DEF Next

\* Each callback finds the key that authenticate admitted, or the request's name has
\* stopped naming that key alone.
LEMMA RequestsStep == IInv /\ [Next]_vars => RequestsSound'
<1> SUFFICES ASSUME IInv, [Next]_vars PROVE RequestsSound'
  OBVIOUS
<1>a. \A r \in blurred : req'[r].pc # "idle" => r \in blurred'
  BY HistoryStep
<1> DEFINE Good(r, rec) ==
             /\ rec \in RequestRecords
             /\ rec.pc # "idle" => rec.key \in Ids
             /\ rec.pc \in {"admitted", "served", "record"} /\ r \notin blurred
                   => rec.as = rec.key
             /\ rec.pc = "usageById" /\ r \notin blurred => rec.name = rec.key
<1>b. req \in [Requests -> RequestRecords] /\ \A r \in Requests : Good(r, req[r])
  BY DEF IInv, RequestsSound
<1>c. NoRequest \in RequestRecords /\ NoRequest.pc = "idle"
  BY DEF NoRequest, RequestRecords
<1>d. ASSUME NEW r \in Requests, NEW rec, Good(r, rec), Goto(r, rec)
      PROVE  RequestsSound'
  <2>1. req' \in [Requests -> RequestRecords] /\ \A q \in Requests : Good(q, req'[q])
    BY <1>b, <1>d DEF Goto
  <2> QED
    BY <2>1, <1>a DEF RequestsSound
<1>e. ASSUME UNCHANGED req PROVE RequestsSound'
  BY <1>e, <1>a, <1>b DEF RequestsSound
<1>f. ASSUME NEW r \in Requests, req[r].pc # "idle", r \notin blurred
      PROVE  IF req[r].name = req[r].key THEN OwnersOf(req[r].key) = {}
             ELSE \A k \in OwnersOf(req[r].name) : k = req[r].key
  BY <1>f DEF IInv, HistoryKnows, Blurred, OwnersOf, TokenNamesOneKey
<1>g. ASSUME NEW r \in Requests, req[r].pc # "idle", r \notin blurred,
             OwnersOf(req[r].name) = {}
      PROVE  req[r].name = req[r].key
  BY <1>g DEF IInv, HistoryKnows, Blurred
<1>h. ASSUME NEW r \in Requests, End(r) PROVE RequestsSound'
  <2>1. Good(r, NoRequest)
    BY <1>c
  <2> HIDE DEF Good
  <2> QED
    BY <1>h, <2>1, <1>d DEF End
<1>1. ASSUME NEW r \in Requests, NEW t \in Tokens, Authenticate(r, t)
      PROVE  RequestsSound'
  <2>0. PICK k \in OwnersOf(t) :
           \E name \in {k, t} :
              Goto(r, [pc |-> "admitted", key |-> k, name |-> name, as |-> k])
    BY <1>1 DEF Authenticate
  <2>1. PICK name \in {k, t} :
           Goto(r, [pc |-> "admitted", key |-> k, name |-> name, as |-> k])
    BY <2>0
  <2>2. Good(r, [pc |-> "admitted", key |-> k, name |-> name, as |-> k])
    BY <2>1 DEF OwnersOf, Live, RequestRecords
  <2> HIDE DEF Good
  <2> QED
    BY <2>1, <2>2, <1>d
<1>2. ASSUME NEW r \in Requests, Serve(r)
      PROVE  RequestsSound'
  <2>1. PICK as \in Ids \cup {None} :
           /\ Goto(r, [req[r] EXCEPT !.pc = "served", !.as = as])
           /\ r \notin blurred => as = req[r].key
    <3>1. req[r] \in RequestRecords /\ req[r].pc \in {"admitted", "served"}
      BY <1>2, <1>b DEF Serve
    <3>2. CASE req[r].name = req[r].key /\ Goto(r, [req[r] EXCEPT !.pc = "served", !.as = @])
      BY <3>1, <3>2, <1>b DEF RequestRecords
    <3>3. ASSUME NEW k \in OwnersOf(req[r].name), req[r].name # req[r].key,
                 Goto(r, [req[r] EXCEPT !.pc = "served", !.as = k])
          PROVE  \E as \in Ids \cup {None} :
                    /\ Goto(r, [req[r] EXCEPT !.pc = "served", !.as = as])
                    /\ r \notin blurred => as = req[r].key
      BY <3>1, <3>3, <1>f DEF OwnersOf, Live
    <3>4. CASE /\ req[r].name # req[r].key /\ OwnersOf(req[r].name) = {}
               /\ Goto(r, [req[r] EXCEPT !.pc = "served", !.as = None])
      BY <3>1, <3>4, <1>g
    <3> QED
      BY <1>2, <3>2, <3>3, <3>4 DEF Serve
  <2> DEFINE rec == [req[r] EXCEPT !.pc = "served", !.as = as]
  <2>2. rec \in RequestRecords /\ rec.pc = "served" /\ rec.as = as /\ rec.key = req[r].key
    BY <1>b DEF RequestRecords
  <2>3. req[r].key \in Ids
    BY <1>2, <1>b DEF Serve
  <2>4. Goto(r, rec)
    BY <2>1
  <2> HIDE DEF rec
  <2>5. Good(r, rec)
    BY <2>1, <2>2, <2>3
  <2> HIDE DEF Good
  <2> QED
    BY <2>4, <2>5, <1>d
<1>i. ASSUME NEW r \in Requests, req[r].pc # "idle", NEW k \in Ids,
             r \notin blurred => k = req[r].key,
             Goto(r, [req[r] EXCEPT !.pc = "record", !.as = k])
      PROVE  RequestsSound'
  <2> DEFINE rec == [req[r] EXCEPT !.pc = "record", !.as = k]
  <2>1. rec \in RequestRecords /\ rec.pc = "record" /\ rec.as = k /\ rec.key = req[r].key
    BY <1>b DEF RequestRecords
  <2>2. Goto(r, rec) /\ req[r].key \in Ids
    BY <1>i, <1>b
  <2> HIDE DEF rec
  <2>3. Good(r, rec)
    BY <2>1, <2>2, <1>i
  <2> HIDE DEF Good
  <2> QED
    BY <2>2, <2>3, <1>d
<1>3. ASSUME NEW r \in Requests, UsageLookup(r)
      PROVE  RequestsSound'
  <2>0. req[r].pc \in {"admitted", "served"} /\ req[r].pc # "idle"
    BY <1>3 DEF UsageLookup
  <2>1. ASSUME NEW k \in OwnersOf(req[r].name),
               Goto(r, [req[r] EXCEPT !.pc = "record", !.as = k])
        PROVE  RequestsSound'
    <3>1. k \in Ids /\ (r \notin blurred => k = req[r].key)
      BY <2>0, <2>1, <1>f DEF OwnersOf, Live
    <3> HIDE DEF Good
    <3> QED
      BY <2>0, <2>1, <3>1, <1>i
  <2>2. ASSUME OwnersOf(req[r].name) = {}, Goto(r, [req[r] EXCEPT !.pc = "usageById"])
        PROVE  RequestsSound'
    <3> DEFINE rec == [req[r] EXCEPT !.pc = "usageById"]
    <3>1. /\ rec \in RequestRecords /\ rec.pc = "usageById"
          /\ rec.name = req[r].name /\ rec.key = req[r].key /\ req[r].key \in Ids
      BY <2>0, <1>b DEF RequestRecords
    <3>2. Goto(r, rec)
      BY <2>2
    <3> HIDE DEF rec
    <3>3. Good(r, rec)
      BY <2>0, <2>2, <3>1, <1>g
    <3> HIDE DEF Good
    <3> QED
      BY <3>2, <3>3, <1>d
  <2> QED
    BY <1>3, <2>1, <2>2 DEF UsageLookup
<1>4. ASSUME NEW r \in Requests, UsageLookupId(r)
      PROVE  RequestsSound'
  <2>1. req[r].pc = "usageById" /\ (r \notin blurred => req[r].name = req[r].key)
    BY <1>4, <1>b DEF UsageLookupId, At
  <2>2. CASE req[r].name \in Live
    <3>1. req[r].name \in Ids
      BY <2>2 DEF Live
    <3> HIDE DEF Good
    <3> QED
      BY <1>4, <2>1, <2>2, <3>1, <1>i DEF UsageLookupId
  <2>3. CASE req[r].name \notin Live
    BY <1>4, <2>3, <1>h DEF UsageLookupId
  <2> QED
    BY <2>2, <2>3
<1>5. ASSUME NEW r \in Requests, RequestEnds(r)
      PROVE  RequestsSound'
  BY <1>5, <1>h DEF RequestEnds
<1>6. ASSUME NEW a \in Admins, Manage(a) PROVE UNCHANGED req
  BY <1>6 DEF Manage, CreateStart, CreateExists, CreateInsert, RotateKey, UpdateKey,
              DeleteKey, ReadBack, CallFails, CallEnds
<1>7. CASE Restart
  <2>1. req' \in [Requests -> RequestRecords] /\ \A r \in Requests : req'[r] = NoRequest
    BY <1>7, <1>c DEF Restart
  <2> QED
    BY <2>1, <1>c DEF RequestsSound
<1>8. CASE UNCHANGED vars
  BY <1>8, <1>e DEF vars
<1> HIDE DEF Good
<1>9. ASSUME NEW r \in Requests, Handle(r) PROVE RequestsSound'
  BY <1>1, <1>2, <1>3, <1>4, <1>5, <1>9 DEF Handle
<1> QED
  BY <1>6, <1>e, <1>7, <1>8, <1>9 DEF Next

-----------------------------------------------------------------------------
\* The invariant is inductive.
LEMMA Inductive == Spec => []IInv
<1>1. IInv /\ [Next]_vars => IInv'
  BY TableStep, CallsStep, RequestsStep, HistoryStep DEF IInv
<1> QED
  BY InitInv, <1>1, PTL DEF Spec

\* The state has its type: a key has a row only under an id that was given out, and
\* a refused or failed creation leaves none.
THEOREM Typed == Spec => []TypeOK
<1>1. IInv => TypeOK
  BY DEF IInv, TableOK, CallsSound, HistoryKnows, RequestsSound, TypeOK
<1> QED
  BY Inductive, <1>1, PTL

\* However creations, rotations and deletions overlap, a token names one key.
THEOREM OneKeyPerToken == Spec => []TokenNamesOneKey
<1>1. IInv => TokenNamesOneKey
  BY DEF IInv
<1> QED
  BY Inductive, <1>1, PTL

\* ErrDuplicateKey is only ever the answer to a creation whose token was some key's
\* while it ran.
THEOREM RefusalsJustified == Spec => []DuplicateJustified
<1>1. IInv => DuplicateJustified
  BY DEF IInv
<1> QED
  BY Inductive, <1>1, PTL

\* The limits of a key are those of one body of POST or PATCH.
THEOREM LimitsTogether == Spec => []LimitsFromOneBody
<1>1. IInv => LimitsFromOneBody
  BY DEF IInv
<1> QED
  BY Inductive, <1>1, PTL

\* model.route, scheduler.pick and usage.handle find the key that authenticate
\* admitted, unless the request's name has stopped naming that key alone.
THEOREM KeyKept == Spec => []RequestKeepsKey
<1>1. IInv => RequestKeepsKey
  BY DEF IInv, RequestsSound, RequestKeepsKey
<1> QED
  BY Inductive, <1>1, PTL
=============================================================================
