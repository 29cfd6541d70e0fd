----------------------------- MODULE AccessGuard -----------------------------
(***************************************************************************)
(* What routing promises, whatever it remembers: a request is answered     *)
(* from the grants its key had at one instant between the request and the  *)
(* answer.  A target is one of those grants; "not handled" means that      *)
(* there were none.  The guard judges each call by itself: whether a pick  *)
(* may be "not handled" after its route was handled (it may, against the   *)
(* README) is RequestFlow!NoFallback.  The requirement knows nothing of    *)
(* sessions, cursors, priorities or locks; routing.go is shown to          *)
(* implement it by the module Routing.                                     *)
(***************************************************************************)
CONSTANTS Keys, Auths, Providers, Calls, AuthProvider, None

VARIABLES
    grants,     \* the auths each key may use
    request     \* per call: its phase, key, the grants it saw, its verdict

vars == <<grants, request>>

Denied == [kind |-> "denied", target |-> None]
Unhandled == [kind |-> "unhandled", target |-> None]
Target(x) == [kind |-> "target", target |-> x]

\* The answers that a set of grants justifies.  A refusal is always safe.
Verdicts(seen) ==
    {Denied}
        \cup {Target(a) : a \in seen}
        \cup {Target(AuthProvider[a]) : a \in seen}
        \cup (IF seen = {} THEN {Unhandled} ELSE {})

Request(phase, key, seen, verdict) ==
    [phase |-> phase, key |-> key, seen |-> seen, verdict |-> verdict]
NoRequest == Request("idle", None, {}, Denied)

Init ==
    /\ grants = [k \in Keys |-> {}]
    /\ request = [c \in Calls |-> NoRequest]

Ask(c) ==
    /\ request[c].phase = "idle"
    /\ \E k \in Keys :
          request' = [request EXCEPT ![c] = Request("asked", k, {}, Denied)]
    /\ UNCHANGED grants

Look(c) ==
    /\ request[c].phase = "asked"
    /\ LET k == request[c].key
       IN request' = [request EXCEPT ![c] = Request("looked", k, grants[k], Denied)]
    /\ UNCHANGED grants

Ruled(c, seen) ==
    \E v \in Verdicts(seen) :
        request' = [request EXCEPT ![c] = Request("ruled", request[c].key, {}, v)]

\* The answer comes later than the look ...
Rule(c) ==
    /\ request[c].phase = "looked"
    /\ Ruled(c, request[c].seen)
    /\ UNCHANGED grants

\* ... or together with it.
LookAndRule(c) ==
    /\ request[c].phase = "asked"
    /\ Ruled(c, grants[request[c].key])
    /\ UNCHANGED grants

Forget(c) ==
    /\ request[c].phase = "ruled"
    /\ request' = [request EXCEPT ![c] = NoRequest]
    /\ UNCHANGED grants

\* The process ends; nobody is answered.
Crash ==
    /\ request' = [c \in Calls |-> NoRequest]
    /\ UNCHANGED grants

Regrant(k, S) ==
    /\ grants' = [grants EXCEPT ![k] = S]
    /\ UNCHANGED request

Next ==
    \/ \E c \in Calls : Ask(c) \/ Look(c) \/ Rule(c) \/ LookAndRule(c) \/ Forget(c)
    \/ Crash
    \/ \E k \in Keys, S \in SUBSET Auths : Regrant(k, S)

Spec == Init /\ [][Next]_vars
=============================================================================
