--------------------------- MODULE PluginLifecycle ---------------------------
(***************************************************************************)
(* plugin.register, plugin.reconfigure and shutdown, while callbacks run   *)
(* (App.configure, App.loaded and App.Shutdown of internal/plugin/app.go,  *)
(* OpenStore and Close of internal/access/store.go).                       *)
(*                                                                         *)
(* App.mu protects the pair of configuration and store, and nothing else:  *)
(* a callback goes on with the pair it loaded.  Each critical section of   *)
(* mu is one step.  A store is a number, in the order of OpenStore.        *)
(***************************************************************************)
EXTENDS Naturals, Sequences

CONSTANTS
    Paths,          \* values of db_path
    Configurers,    \* concurrent plugin.register and plugin.reconfigure calls
    Callbacks,      \* concurrent calls of every other method
    MaxStores,      \* bound: stores opened in a behaviour
    DefaultPath     \* db_path before the first plugin.register

ASSUME LifecycleAssumption == MaxStores \in Nat /\ DefaultPath \in Paths

Configs == [enabled : BOOLEAN, path : Paths]
Stores == 1..MaxStores
NoStore == 0

VARIABLES
    cfg,        \* App.cfg
    store,      \* App.store, NoStore for nil
    paths,      \* the file of each store opened so far
    open,       \* the stores whose database is open
    conf,       \* per configurer: the call in progress
    call        \* per callback: the call in progress

vars == <<cfg, store, paths, open, conf, call>>

NoConf == [pc |-> "idle", cfg |-> [enabled |-> FALSE, path |-> DefaultPath],
           new |-> NoStore, old |-> NoStore]
NoCall == [pc |-> "idle", enforces |-> FALSE, cfg |-> NoConf.cfg, store |-> NoStore]

Init ==
    /\ cfg = NoConf.cfg
    /\ store = NoStore
    /\ paths = <<>>
    /\ open = {}
    /\ conf = [a \in Configurers |-> NoConf]
    /\ call = [c \in Callbacks |-> NoCall]

-----------------------------------------------------------------------------
\* sql.Open: from here the store holds connections.
ConfigureOpen(a, new) ==
    /\ conf[a].pc = "idle"
    /\ Len(paths) < MaxStores
    /\ paths' = Append(paths, new.path)
    /\ open' = open \cup {Len(paths')}
    /\ conf' = [conf EXCEPT ![a] = [NoConf EXCEPT !.pc = "init", !.cfg = new, !.new = Len(paths')]]
    /\ UNCHANGED <<cfg, store, call>>

\* Mutant: what was opened is not closed when its initialization fails.
ConfigureFailsOpen(a) ==
    /\ conf[a].pc = "init"
    /\ conf' = [conf EXCEPT ![a] = NoConf]
    /\ UNCHANGED <<cfg, store, paths, open, call>>

\* Store.init fails or its 10 seconds are over: OpenStore closes what it opened,
\* and the old configuration and store stay.
ConfigureFails(a) ==
    /\ conf[a].pc = "init"
    /\ open' = open \ {conf[a].new}
    /\ conf' = [conf EXCEPT ![a] = NoConf]
    /\ UNCHANGED <<cfg, store, paths, call>>

\* Mutant: the store is replaced, the configuration is not.
ConfigureSwapStore(a) ==
    /\ conf[a].pc = "init"
    /\ store' = conf[a].new
    /\ conf' = [conf EXCEPT ![a] = [NoConf EXCEPT !.pc = "close", !.old = store]]
    /\ UNCHANGED <<cfg, paths, open, call>>

ConfigureSwap(a) ==
    /\ conf[a].pc = "init"
    /\ cfg' = conf[a].cfg
    /\ store' = conf[a].new
    /\ conf' = [conf EXCEPT ![a] = [NoConf EXCEPT !.pc = "close", !.old = store]]
    /\ UNCHANGED <<paths, open, call>>

\* Mutant: the old store is closed when the callbacks are done with it.
ConfigureDrain(a) ==
    /\ conf[a].pc = "close"
    /\ \A c \in Callbacks : call[c].store # conf[a].old
    /\ open' = open \ {conf[a].old}
    /\ conf' = [conf EXCEPT ![a] = NoConf]
    /\ UNCHANGED <<cfg, store, paths, call>>

\* After the unlock, with callbacks possibly still using the old store.
ConfigureClose(a) ==
    /\ conf[a].pc = "close"
    /\ open' = open \ {conf[a].old}
    /\ conf' = [conf EXCEPT ![a] = NoConf]
    /\ UNCHANGED <<cfg, store, paths, call>>

\* Mutant: the configuration is reset to nothing with the store.
ShutdownResets ==
    /\ store # NoStore
    /\ open' = open \ {store}
    /\ store' = NoStore
    /\ cfg' = [enabled |-> FALSE]
    /\ UNCHANGED <<paths, conf, call>>

\* Shutdown closes under the lock.  cfg stays.
Shutdown ==
    /\ store # NoStore
    /\ open' = open \ {store}
    /\ store' = NoStore
    /\ UNCHANGED <<cfg, paths, conf, call>>

-----------------------------------------------------------------------------
\* loaded: without a store every callback answers at once; so do authenticate,
\* routeModel and pickScheduler, which enforce the keys, while the plugin is
\* disabled.  handleUsage and handleManagement work all the same.
CallStart(c, enforces) ==
    /\ call[c].pc = "idle"
    /\ store # NoStore
    /\ enforces => cfg.enabled
    /\ call' = [call EXCEPT ![c] = [pc |-> "running", enforces |-> enforces,
                                    cfg |-> cfg, store |-> store]]
    /\ UNCHANGED <<cfg, store, paths, open, conf>>

\* A query of a closed database fails, and the callback ends with its error.
CallFails(c) ==
    /\ call[c].pc = "running"
    /\ call[c].store \notin open
    /\ call' = [call EXCEPT ![c] = NoCall]
    /\ UNCHANGED <<cfg, store, paths, open, conf>>

\* A callback that met no closed database commits its last statement.
CallCommits(c) ==
    /\ call[c].pc = "running"
    /\ call[c].store \in open
    /\ call' = [call EXCEPT ![c] = NoCall]
    /\ UNCHANGED <<cfg, store, paths, open, conf>>

-----------------------------------------------------------------------------
Called(c) ==
    (\E enforces \in BOOLEAN : CallStart(c, enforces)) \/ CallFails(c) \/ CallCommits(c)

Configure(a) == ConfigureFails(a) \/ ConfigureSwap(a) \/ ConfigureClose(a)

Next ==
    \/ \E a \in Configurers : (\E new \in Configs : ConfigureOpen(a, new)) \/ Configure(a)
    \/ Shutdown
    \/ \E c \in Callbacks : Called(c)

Spec == Init /\ [][Next]_vars

\* A goroutine that has work is scheduled: a configure that began goes on.
Fairness == \A a \in Configurers : WF_vars(Configure(a))
FairSpec == Spec /\ Fairness

-----------------------------------------------------------------------------
TypeOK ==
    /\ cfg \in Configs
    /\ store \in Stores \cup {NoStore}
    /\ paths \in Seq(Paths) /\ Len(paths) <= MaxStores
    /\ open \subseteq 1..Len(paths)
    /\ conf \in [Configurers -> [pc : {"idle", "init", "close"}, cfg : Configs,
                                 new : Stores \cup {NoStore}, old : Stores \cup {NoStore}]]
    /\ call \in [Callbacks -> [pc : {"idle", "running"}, enforces : BOOLEAN, cfg : Configs,
                               store : Stores \cup {NoStore}]]

\* What a configure in progress still has to install or to close.
Held(a) == {conf[a].new, conf[a].old} \ {NoStore}

\* Every open database has one owner who will close it, App.store or one
\* configure in progress, and every owner's database is open: none is leaked, none
\* closed twice or behind the back of App.store, however reconfigurations and a
\* shutdown overlap (configure closes its old store outside the lock).
StoresOwned ==
    /\ \A s \in Stores : s \in open <=> s = store \/ \E a \in Configurers : s \in Held(a)
    /\ \A a \in Configurers : store \notin Held(a)
    /\ \A a, b \in Configurers : a # b => Held(a) \cap Held(b) = {}

\* The configuration and the store are of the same plugin.register, for App and
\* for every callback that has loaded them: no call enforces one configuration on
\* the database of another.
PairsConsistent ==
    /\ store # NoStore => paths[store] = cfg.path
    /\ \A c \in Callbacks :
          call[c].pc = "running" =>
             /\ paths[call[c].store] = call[c].cfg.path
             /\ call[c].enforces => call[c].cfg.enabled

\* A store that is open but not App's is closed, or becomes App's, in the end:
\* a database stays open only as long as something may use it.
RetiredStoresClose ==
    \A s \in Stores : (s \in open /\ s # store) ~> (s \notin open \/ s = store)
=============================================================================
