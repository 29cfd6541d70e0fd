--------------------------- MODULE LifecycleProofs ---------------------------
(***************************************************************************)
(* Proofs about PluginLifecycle, for any number of reconfigurations,       *)
(* callbacks and stores: no database is leaked, closed twice or closed     *)
(* while App.store holds it, and no callback mixes two registrations.      *)
(***************************************************************************)
EXTENDS PluginLifecycle, TLAPS

\* What a configure holds at each of its steps, and that whoever holds a store
\* holds one that was opened.
HandsKnown ==
    /\ \A a \in Configurers :
          /\ conf[a].pc = "init" =>
                /\ conf[a].new \in 1..Len(paths)
                /\ conf[a].old = NoStore
                /\ paths[conf[a].new] = conf[a].cfg.path
          /\ conf[a].pc # "init" => conf[a].new = NoStore
          /\ conf[a].pc = "idle" => conf[a].old = NoStore
    /\ \A c \in Callbacks : call[c].pc = "running" => call[c].store \in 1..Len(paths)

IInv == TypeOK /\ StoresOwned /\ PairsConsistent /\ HandsKnown

\* What sql.Open adds to the list of opened stores.
LEMMA OpenedPaths ==
  ASSUME TypeOK, NEW a \in Configurers, NEW new \in Configs, ConfigureOpen(a, new)
  PROVE  /\ Len(paths) \in Nat
         /\ Len(paths') = Len(paths) + 1
         /\ Len(paths') \in Stores
         /\ paths' \in Seq(Paths)
         /\ paths'[Len(paths')] = new.path
         /\ \A s \in 1..Len(paths) : paths'[s] = paths[s]
  BY LifecycleAssumption DEF TypeOK, ConfigureOpen, Configs, Stores

\* App starts with no store and no call in progress.
LEMMA InitInv == Init => IInv
  BY LifecycleAssumption DEF Init, IInv, TypeOK, StoresOwned, PairsConsistent,
     HandsKnown, Held, NoConf, NoCall, NoStore, Configs, Stores

\* Every step keeps the shape of the state.
LEMMA TypeStep == IInv /\ [Next]_vars => TypeOK'
<1> SUFFICES ASSUME IInv, [Next]_vars PROVE TypeOK'
  OBVIOUS
<1> USE LifecycleAssumption DEF IInv, TypeOK, Stores, NoStore, Configs
<1>1. ASSUME NEW a \in Configurers, NEW new \in Configs, ConfigureOpen(a, new)
      PROVE TypeOK'
  <2>1. /\ paths' \in Seq(Paths) /\ Len(paths') <= MaxStores
        /\ Len(paths') = Len(paths) + 1 /\ Len(paths') \in Stores /\ Len(paths) \in Nat
    BY <1>1, OpenedPaths
  <2>2. open' \subseteq 1..Len(paths')
    BY <1>1, <2>1 DEF ConfigureOpen
  <2>3. [NoConf EXCEPT !.pc = "init", !.cfg = new, !.new = Len(paths')]
          \in [pc : {"idle", "init", "close"}, cfg : Configs,
               new : Stores \cup {NoStore}, old : Stores \cup {NoStore}]
    BY <2>1 DEF NoConf
  <2>4. QED
    BY <1>1, <2>1, <2>2, <2>3 DEF ConfigureOpen
<1>2. ASSUME NEW a \in Configurers, ConfigureFails(a)
      PROVE TypeOK'
  BY <1>2 DEF ConfigureFails, NoConf
<1>3. ASSUME NEW a \in Configurers, ConfigureSwap(a)
      PROVE TypeOK'
  BY <1>3 DEF ConfigureSwap, NoConf
<1>4. ASSUME NEW a \in Configurers, ConfigureClose(a)
      PROVE TypeOK'
  BY <1>4 DEF ConfigureClose, NoConf
<1>5. CASE Shutdown
  BY <1>5 DEF Shutdown
<1>6. ASSUME NEW c \in Callbacks, Called(c)
      PROVE TypeOK'
  <2> DEFINE Calls == [pc : {"idle", "running"}, enforces : BOOLEAN, cfg : Configs,
                       store : Stores \cup {NoStore}]
  <2>1. \A enforces \in BOOLEAN :
           [pc |-> "running", enforces |-> enforces, cfg |-> cfg, store |-> store] \in Calls
    OBVIOUS
  <2>2. NoCall \in Calls
    BY DEF NoCall, NoConf
  <2>3. call' \in [Callbacks -> Calls]
    <3>1. CASE \E enforces \in BOOLEAN : CallStart(c, enforces)
      <4>1. PICK enforces \in BOOLEAN : CallStart(c, enforces)
        BY <3>1
      <4>2. QED
        BY <4>1, <2>1 DEF CallStart
    <3>2. CASE CallFails(c) \/ CallCommits(c)
      BY <3>2, <2>2 DEF CallFails, CallCommits
    <3>3. QED
      BY <1>6, <3>1, <3>2 DEF Called
  <2>4. UNCHANGED <<cfg, store, paths, open, conf>>
    BY <1>6 DEF Called, CallStart, CallFails, CallCommits
  <2>5. QED
    BY <2>3, <2>4
<1>7. CASE UNCHANGED vars
  BY <1>7 DEF vars
<1>8. QED
  BY <1>1, <1>2, <1>3, <1>4, <1>5, <1>6, <1>7 DEF Next, Configure

\* Every step keeps each open database in the hands of exactly one owner.
LEMMA OwnersStep == IInv /\ [Next]_vars => StoresOwned' /\ HandsKnown'
<1> SUFFICES ASSUME IInv, [Next]_vars PROVE StoresOwned' /\ HandsKnown'
  OBVIOUS
<1> USE DEF IInv, StoresOwned, HandsKnown, NoStore
<1>t. conf \in [Configurers -> [pc : {"idle", "init", "close"}, cfg : Configs,
                               new : Stores \cup {NoStore}, old : Stores \cup {NoStore}]]
      /\ call \in [Callbacks -> [pc : {"idle", "running"}, enforces : BOOLEAN, cfg : Configs,
                                 store : Stores \cup {NoStore}]]
      /\ open \subseteq 1..Len(paths) /\ Len(paths) \in Nat
      /\ open \subseteq Stores /\ store \in Stores \cup {NoStore} /\ NoStore \notin Stores
  BY LifecycleAssumption DEF TypeOK, Stores
<1>1. ASSUME NEW a \in Configurers, NEW new \in Configs, ConfigureOpen(a, new)
      PROVE StoresOwned' /\ HandsKnown'
  <2> DEFINE n == Len(paths) + 1
  <2>1. /\ Len(paths') = n /\ paths'[n] = new.path
        /\ \A s \in 1..Len(paths) : paths'[s] = paths[s]
        /\ n \in Stores /\ n \notin open /\ n # NoStore
    BY <1>1, <1>t, OpenedPaths
  <2>2. open' = open \cup {n} /\ UNCHANGED <<store, call>>
    BY <1>1, <2>1 DEF ConfigureOpen
  <2>3. /\ conf'[a] = [pc |-> "init", cfg |-> new, new |-> n, old |-> NoStore]
        /\ \A b \in Configurers \ {a} : conf'[b] = conf[b]
        /\ conf[a].new = NoStore /\ conf[a].old = NoStore
    BY <1>1, <1>t, <2>1 DEF ConfigureOpen, NoConf
  <2> HIDE DEF n
  <2>4. /\ Held(a) = {} /\ Held(a)' = {n}
        /\ \A b \in Configurers \ {a} : Held(b)' = Held(b)
    BY <2>1, <2>3 DEF Held
  <2>5. n # store /\ \A b \in Configurers : n \notin Held(b)
    BY <1>t, <2>1
  <2>6. StoresOwned'
    <3>1. \A s \in Stores : s \in open' <=> s = store' \/ \E b \in Configurers : s \in Held(b)'
      BY <2>1, <2>2, <2>4
    <3>2. \A b \in Configurers : store' \notin Held(b)'
      BY <2>2, <2>4, <2>5
    <3>3. \A b, d \in Configurers : b # d => Held(b)' \cap Held(d)' = {}
      BY <2>4, <2>5
    <3>4. QED
      BY <3>1, <3>2, <3>3
  <2>7. HandsKnown'
    <3>1. 1..Len(paths) \subseteq 1..Len(paths') /\ n \in 1..Len(paths')
      BY <1>t, <2>1 DEF n
    <3>2. QED
      BY <2>1, <2>2, <2>3, <3>1
  <2>8. QED
    BY <2>6, <2>7
<1>2. ASSUME NEW a \in Configurers, ConfigureFails(a)
      PROVE StoresOwned' /\ HandsKnown'
  <2>1. /\ conf'[a] = NoConf
        /\ \A b \in Configurers \ {a} : conf'[b] = conf[b]
    BY <1>2, <1>t DEF ConfigureFails
  <2>2. /\ Held(a) = {conf[a].new} /\ Held(a)' = {} /\ conf[a].new # NoStore
        /\ \A b \in Configurers \ {a} : Held(b)' = Held(b)
    BY <1>2, <1>t, <2>1 DEF ConfigureFails, NoConf, Held
  <2>3. StoresOwned'
    BY <1>2, <2>2 DEF ConfigureFails
  <2>4. HandsKnown'
    BY <1>2, <2>1 DEF ConfigureFails, NoConf
  <2>5. QED
    BY <2>3, <2>4
<1>3. ASSUME NEW a \in Configurers, ConfigureSwap(a)
      PROVE StoresOwned' /\ HandsKnown'
  <2>1. /\ conf'[a] = [NoConf EXCEPT !.pc = "close", !.old = store]
        /\ \A b \in Configurers \ {a} : conf'[b] = conf[b]
    BY <1>3, <1>t DEF ConfigureSwap
  <2>2. /\ Held(a) = {conf[a].new} /\ conf[a].new # NoStore
        /\ Held(a)' = {store} \ {NoStore} /\ store' = conf[a].new
        /\ \A b \in Configurers \ {a} : Held(b)' = Held(b)
    BY <1>3, <1>t, <2>1 DEF ConfigureSwap, NoConf, Held
  <2>3. StoresOwned'
    <3>1. open' = open
      BY <1>3 DEF ConfigureSwap
    <3>2. \A s \in Stores : s \in open' <=> s = store' \/ \E b \in Configurers : s \in Held(b)'
      BY <1>t, <2>2, <3>1
    <3>3. \A b \in Configurers : store' \notin Held(b)'
      BY <2>2
    <3>4. \A b, d \in Configurers : b # d => Held(b)' \cap Held(d)' = {}
      BY <2>2
    <3>5. QED
      BY <3>2, <3>3, <3>4
  <2>4. HandsKnown'
    BY <1>3, <2>1 DEF ConfigureSwap, NoConf
  <2>5. QED
    BY <2>3, <2>4
<1>4. ASSUME NEW a \in Configurers, ConfigureClose(a)
      PROVE StoresOwned' /\ HandsKnown'
  <2>1. /\ conf'[a] = NoConf
        /\ \A b \in Configurers \ {a} : conf'[b] = conf[b]
    BY <1>4, <1>t DEF ConfigureClose
  <2>2. /\ Held(a) = {conf[a].old} \ {NoStore} /\ Held(a)' = {}
        /\ \A b \in Configurers \ {a} : Held(b)' = Held(b)
    BY <1>4, <2>1 DEF ConfigureClose, NoConf, Held
  <2>3. StoresOwned'
    BY <1>4, <1>t, <2>2 DEF ConfigureClose
  <2>4. HandsKnown'
    BY <1>4, <2>1 DEF ConfigureClose, NoConf
  <2>5. QED
    BY <2>3, <2>4
<1>5. CASE Shutdown
  BY <1>5, <1>t DEF Shutdown, Held
<1>6. ASSUME NEW c \in Callbacks, Called(c)
      PROVE StoresOwned' /\ HandsKnown'
  <2>1. /\ UNCHANGED <<cfg, store, paths, open, conf>>
        /\ \A d \in Callbacks : call'[d].pc = "running" =>
              call'[d] = call[d] \/ (store # NoStore /\ call'[d].store = store)
    BY <1>6, <1>t DEF Called, CallStart, CallFails, CallCommits, NoCall
  <2>2. StoresOwned'
    BY <2>1 DEF Held
  <2>3. store # NoStore => store \in 1..Len(paths)
    BY <1>t
  <2>4. HandsKnown'
    BY <2>1, <2>3
  <2>5. QED
    BY <2>2, <2>4
<1>7. CASE UNCHANGED vars
  BY <1>7 DEF vars, Held
<1>8. QED
  BY <1>1, <1>2, <1>3, <1>4, <1>5, <1>6, <1>7 DEF Next, Configure

\* Every step keeps configurations with the databases they were opened for.
LEMMA PairsStep == IInv /\ [Next]_vars => PairsConsistent'
<1> SUFFICES ASSUME IInv, [Next]_vars PROVE PairsConsistent'
  OBVIOUS
<1> USE DEF IInv, PairsConsistent, NoStore
<1>t. /\ call \in [Callbacks -> [pc : {"idle", "running"}, enforces : BOOLEAN, cfg : Configs,
                                  store : Stores \cup {NoStore}]]
      /\ store # NoStore => store \in 1..Len(paths)
      /\ \A c \in Callbacks : call[c].pc = "running" => call[c].store \in 1..Len(paths)
  BY LifecycleAssumption DEF TypeOK, StoresOwned, HandsKnown, Stores
<1>1. ASSUME NEW a \in Configurers, NEW new \in Configs, ConfigureOpen(a, new)
      PROVE PairsConsistent'
  BY <1>1, <1>t, OpenedPaths DEF ConfigureOpen
<1>2. ASSUME NEW a \in Configurers, ConfigureFails(a) \/ ConfigureClose(a)
      PROVE PairsConsistent'
  BY <1>2 DEF ConfigureFails, ConfigureClose
<1>3. ASSUME NEW a \in Configurers, ConfigureSwap(a)
      PROVE PairsConsistent'
  BY <1>3 DEF ConfigureSwap, HandsKnown
<1>4. CASE Shutdown
  BY <1>4 DEF Shutdown
<1>5. ASSUME NEW c \in Callbacks, Called(c)
      PROVE PairsConsistent'
  BY <1>5, <1>t DEF Called, CallStart, CallFails, CallCommits, NoCall
<1>6. CASE UNCHANGED vars
  BY <1>6 DEF vars
<1>7. QED
  BY <1>1, <1>2, <1>3, <1>4, <1>5, <1>6 DEF Next, Configure

\* The inductive invariant.
LEMMA Invariant == Spec => []IInv
<1>1. IInv /\ [Next]_vars => IInv'
  BY TypeStep, OwnersStep, PairsStep DEF IInv
<1>2. QED
  BY InitInv, <1>1, PTL DEF Spec

\* The state of App, of its configures and of its callbacks has its shape.
THEOREM TypeCorrect == Spec => []TypeOK
<1>1. IInv => TypeOK
  BY DEF IInv
<1>2. QED
  BY Invariant, <1>1, PTL

\* No reconfiguration or shutdown leaks a database, or closes the one in use.
THEOREM NoStoreLeaked == Spec => []StoresOwned
<1>1. IInv => StoresOwned
  BY DEF IInv
<1>2. QED
  BY Invariant, <1>1, PTL

\* No callback enforces one configuration on the database of another.
THEOREM NoMixedPair == Spec => []PairsConsistent
<1>1. IInv => PairsConsistent
  BY DEF IInv
<1>2. QED
  BY Invariant, <1>1, PTL
=============================================================================
