------------------------------ MODULE Inventory ------------------------------
(***************************************************************************)
(* What a key's bindings lead to: the groups, the inventory of auth files  *)
(* and provider instances, and the calls that read and rewrite them while  *)
(* each other run (internal/access/store.go, handleInventory and           *)
(* handleGroups of internal/plugin/management.go).                         *)
(*                                                                         *)
(* An identifier (Ids) is an auth file's id, its file name or auth index,  *)
(* or the id of a configured credential: one namespace of strings, where   *)
(* an auth file answers to its id and to its name.  A provider instance is *)
(* identified by <<provider, identifier>>, ProviderInstanceID's            *)
(* "provider:auth".  Every SQL statement that another call can come before *)
(* or after is a step; a transaction is one step.                          *)
(***************************************************************************)
EXTENDS FiniteSets

CONSTANTS
    Keys, Groups, Ids, Providers, NoProvider,
    Entries,        \* auth files the host may list: [id, name, provider]
    Configured,     \* credentials in CPA's configuration
    Inferred,       \* instance rows an earlier pick may have left
    CandidateLists, \* what CPA offers to scheduler.pick: sets of [provider, auth, url]
    Admins,         \* concurrent POST /inventory calls
    BindingChoices, MemberChoices,   \* bindings and members an admin may save
    None

Candidates == UNION CandidateLists
Instance(p, a, url) == [provider |-> p, auth |-> a, url |-> url]
Instances == [provider : Providers, auth : Ids, url : BOOLEAN]
EntryType == [id : Ids, name : Ids, provider : Providers \cup {NoProvider}]

AuthTarget(a) == [type |-> "auth", id |-> a, provider |-> NoProvider, group |-> None]
InstanceTarget(p, a) == [type |-> "instance", id |-> a, provider |-> p, group |-> None]
GroupTarget(g) == [type |-> "group", id |-> None, provider |-> NoProvider, group |-> g]

\* Ids are unique in a listing of auth files.
Listings == {S \in SUBSET Entries : \A e, f \in S : e.id = f.id => e = f}

MemberTargets ==
    {AuthTarget(a) : a \in Ids} \cup {InstanceTarget(p, a) : p \in Providers, a \in Ids}
Targets == MemberTargets \cup {GroupTarget(g) : g \in Groups}

ASSUME InventoryAssumption ==
    /\ Entries \subseteq EntryType
    /\ Configured \cup Inferred \cup Candidates \subseteq Instances
    /\ \A i \in Inferred : ~i.url
    /\ \A S \in BindingChoices : S \subseteq Targets
    /\ \A S \in MemberChoices : S \subseteq MemberTargets
    /\ None \notin Ids \cup Groups /\ NoProvider \notin Providers

VARIABLES
    bindings,   \* key_bindings: key -> targets
    groups,     \* rows of groups
    members,    \* group_members: group -> targets
    files,      \* inventory_items of type auth_file
    instances,  \* inventory_items of type provider_instance
    host,       \* the auth files CPA has now
    sync,       \* per admin: the inventory call in progress
    pick,       \* the scheduler.pick in progress
    alone,      \* history: the inventory calls beside no other and no pick so far
    synced,     \* history: the last SyncAuthFiles ended, alone, and saw today's host
    granted,    \* history: candidates the picking key was allowed at some instant
    steady      \* history: no admin saved the picking key since the pick began

access == <<bindings, groups, members>>
inventory == <<files, instances>>
vars == <<bindings, groups, members, files, instances, host, sync, pick,
          alone, synced, granted, steady>>

-----------------------------------------------------------------------------
(* Reading bindings.                                                       *)

\* The targets of a set with every group replaced by its members: applyTarget.
Flat(T, mem) ==
    {t \in T : t.type # "group"} \cup UNION {mem[t.group] : t \in {u \in T : u.type = "group"}}

InstanceRow(rows, p, a) == {i \in rows : i.provider = p /\ i.auth = a}

\* applyTarget on one target that is not a group: an instance also lends the
\* auth id of its inventory row, when it has one.
AuthsOf(t, rows) ==
    IF t.type = "auth" THEN {t.id} ELSE {i.auth : i \in InstanceRow(rows, t.provider, t.id)}

InstancesOf(t) == IF t.type = "instance" THEN {<<t.provider, t.id>>} ELSE {}

\* Scope.AllowsCandidate
Allows(auths, insts, c) == c.auth \in auths \/ <<c.provider, c.auth>> \in insts

\* What the database allows key k at this instant, read in one piece.
AllowedNow(k) ==
    LET T == Flat(bindings[k], members)
    IN {c \in Candidates : Allows(UNION {AuthsOf(t, instances) : t \in T},
                                  UNION {InstancesOf(t) : t \in T}, c)}

-----------------------------------------------------------------------------
(* Inventory rows.                                                         *)

\* Mutant: the conflict on (id, type) is forgotten.
PutFileNoConflict(rows, e) == rows \cup {e}
\* UpsertInventoryItem: ON CONFLICT(id, type) DO UPDATE.
PutFile(rows, e) == {r \in rows : r.id # e.id} \cup {e}
PutInstance(rows, i) == (rows \ InstanceRow(rows, i.provider, i.auth)) \cup {i}

Aliases(e) == {e.id, e.name}
AliasesOf(S) == UNION {Aliases(e) : e \in S}

\* stableAuthID: the auth id of a configured credential ends in a digest, and no
\* auth file is named so.
ASSUME CredentialAssumption ==
    \A i \in Configured : i.url \/ i.auth \notin AliasesOf(Entries)

\* deleteAuthFileProviderInstances: rows with a base URL are credentials of the
\* configuration, never inferred from a file.
WithoutInferred(rows, ids) == {i \in rows : i.url \/ i.auth \notin ids}

\* authFileByCandidate: the file with this id, or else one with this name.
FilesAnswering(a) ==
    LET byId == {f \in files : f.id = a}
    IN IF byId # {} THEN byId ELSE {f \in files : f.name = a}

\* Mutant: the old references are deleted before the new ones are selected.
MigratedDropped(T, S, owner) ==
    {t \in T : ~(t.type = "instance" /\ \E e \in S : e.provider = t.provider /\ t.id \in Aliases(e))}

\* migrateAuthFileReferences on one set of targets.  A target inferred from an
\* alias of a file becomes the file; of several files with the alias, the first
\* listed, owner, takes it.
LegacyOf(S) ==
    UNION {{e.provider} \X Aliases(e) : e \in {f \in S : f.provider # NoProvider}}
IsLegacy(t, S) == t.type = "instance" /\ <<t.provider, t.id>> \in LegacyOf(S)
Migrated(T, S, owner) ==
    {t \in T : ~IsLegacy(t, S)}
        \cup {AuthTarget(owner[<<t.provider, t.id>>].id) : t \in {u \in T : IsLegacy(u, S)}}

\* Mutant: any listed file of the provider takes the alias.
OwnersByProvider(S) ==
    {owner \in [LegacyOf(S) -> S] : \A l \in LegacyOf(S) : owner[l].provider = l[1]}
Owners(S) ==
    {owner \in [LegacyOf(S) -> S] :
        \A l \in LegacyOf(S) : owner[l].provider = l[1] /\ l[2] \in Aliases(owner[l])}

-----------------------------------------------------------------------------
NoSync == [pc |-> "idle", snap |-> {}, todo |-> {}, aliases |-> {}, full |-> FALSE]
NoPick ==
    [pc |-> "idle", key |-> None, cands |-> {}, todo |-> {}, auths |-> {},
     insts |-> {}, left |-> {}, row |-> None]

Init ==
    /\ bindings = [k \in Keys |-> {}]
    /\ groups = {}
    /\ members = [g \in Groups |-> {}]
    /\ files = {}
    /\ instances \in SUBSET Inferred
    /\ host = {}
    /\ sync = [a \in Admins |-> NoSync]
    /\ pick = NoPick
    /\ alone = {}
    /\ synced = FALSE
    /\ granted = {}
    /\ steady = TRUE

-----------------------------------------------------------------------------
(* Management of keys and groups: one transaction or statement each.       *)

\* replaceBindings in CreateKey and UpdateKey; DeleteKey's cascade leaves none.
ReplaceBindings(k, S) ==
    /\ bindings' = [bindings EXCEPT ![k] = S]
    /\ steady' = (steady /\ pick.key # k)
    /\ UNCHANGED <<groups, members, inventory, host, sync, pick, synced>>

CreateGroup(g, S) ==
    /\ g \notin groups
    /\ groups' = groups \cup {g}
    /\ members' = [members EXCEPT ![g] = S]
    /\ UNCHANGED <<bindings, inventory, host, sync, pick, synced, steady>>

UpdateGroup(g, S) ==
    /\ g \in groups
    /\ members' = [members EXCEPT ![g] = S]
    /\ UNCHANGED <<bindings, groups, inventory, host, sync, pick, synced, steady>>

\* The members go with the group (ON DELETE CASCADE); bindings to it stay.
DeleteGroup(g) ==
    /\ g \in groups
    /\ groups' = groups \ {g}
    /\ members' = [members EXCEPT ![g] = {}]
    /\ UNCHANGED <<bindings, inventory, host, sync, pick, synced, steady>>

\* An auth file leaves CPA's directory, appears in it, or is replaced.
HostChange(e) ==
    /\ host' = IF e \in host THEN host \ {e} ELSE PutFile(host, e)
    /\ synced' = FALSE
    /\ UNCHANGED <<access, inventory, sync, pick, steady>>

-----------------------------------------------------------------------------
(* POST /inventory: the posted rows, the posted files, a refresh.          *)

PostItem(i) ==
    /\ instances' = PutInstance(instances, i)
    /\ synced' = FALSE
    /\ UNCHANGED <<access, files, host, sync, pick, steady>>

\* UpsertAuthFiles alone, on entries the caller sends.
PostAuthFiles(a, S) ==
    /\ sync[a].pc = "idle"
    /\ sync' = [sync EXCEPT ![a] = [NoSync EXCEPT !.pc = "upsert", !.snap = S, !.todo = S]]
    /\ synced' = FALSE
    /\ UNCHANGED <<access, inventory, host, pick, steady>>

\* hostAuthFiles: the snapshot SyncAuthFiles works from.
SyncStart(a) ==
    /\ sync[a].pc = "idle"
    /\ sync' = [sync EXCEPT ![a] = [NoSync EXCEPT !.pc = "old", !.snap = host,
                                                  !.todo = host, !.full = TRUE]]
    /\ synced' = FALSE
    /\ UNCHANGED <<access, inventory, host, pick, steady>>

\* The aliases of the files known so far are read before anything is written.
SyncReadOld(a) ==
    /\ sync[a].pc = "old"
    /\ sync' = [sync EXCEPT ![a].pc = "upsert", ![a].aliases = AliasesOf(files)]
    /\ UNCHANGED <<access, inventory, host, pick, synced, steady>>

SyncUpsert(a, e) ==
    /\ sync[a].pc = "upsert"
    /\ e \in sync[a].todo
    /\ files' = PutFile(files, e)
    /\ sync' = [sync EXCEPT ![a].todo = @ \ {e}]
    /\ UNCHANGED <<access, instances, host, pick, synced, steady>>

\* The end of UpsertAuthFiles: what earlier picks inferred from these files.
SyncDropListed(a) ==
    /\ sync[a].pc = "upsert"
    /\ sync[a].todo = {}
    /\ instances' = WithoutInferred(instances, AliasesOf(sync[a].snap))
    /\ sync' = [sync EXCEPT ![a] = IF @.full THEN [@ EXCEPT !.pc = "migrate"] ELSE NoSync]
    /\ UNCHANGED <<access, files, host, pick, synced, steady>>

SyncMigrate(a) ==
    /\ sync[a].pc = "migrate"
    /\ sync' = [sync EXCEPT ![a].pc = "dropAll"]
    /\ LET S == sync[a].snap
       IN \E owner \in Owners(S) :
            /\ bindings' = [k \in Keys |-> Migrated(bindings[k], S, owner)]
            /\ members' = [g \in Groups |-> Migrated(members[g], S, owner)]
    /\ UNCHANGED <<groups, inventory, host, pick, synced, steady>>

SyncDropAll(a) ==
    /\ sync[a].pc = "dropAll"
    /\ instances' = WithoutInferred(instances, sync[a].aliases \cup AliasesOf(sync[a].snap))
    /\ sync' = [sync EXCEPT ![a].pc = "prune"]
    /\ UNCHANGED <<access, files, host, pick, synced, steady>>

\* Mutant: an empty snapshot is taken for a failed listing, and prunes nothing.
SyncPruneNonEmpty(a) ==
    /\ sync[a].pc = "prune"
    /\ files' = IF sync[a].snap = {} THEN files
                ELSE {f \in files : f.id \in {e.id : e \in sync[a].snap}}
    /\ \E C \in SUBSET Configured :
          sync' = [sync EXCEPT ![a] = [NoSync EXCEPT !.pc = "credentials", !.todo = C]]
    /\ synced' = (sync[a].snap = host /\ a \in alone)
    /\ UNCHANGED <<access, instances, host, pick, steady>>

\* DELETE ... WHERE type = 'auth_file' AND id NOT IN (the listed ids); then
\* hostProviderInventory, which skips a list it cannot fetch.
SyncPrune(a) ==
    /\ sync[a].pc = "prune"
    /\ files' = {f \in files : f.id \in {e.id : e \in sync[a].snap}}
    /\ \E C \in SUBSET Configured :
          sync' = [sync EXCEPT ![a] = [NoSync EXCEPT !.pc = "credentials", !.todo = C]]
    /\ synced' = (sync[a].snap = host /\ a \in alone)
    /\ UNCHANGED <<access, instances, host, pick, steady>>

SyncCredential(a, i) ==
    /\ sync[a].pc = "credentials"
    /\ i \in sync[a].todo
    /\ instances' = PutInstance(instances, i)
    /\ sync' = [sync EXCEPT ![a].todo = @ \ {i}]
    /\ UNCHANGED <<access, files, host, pick, synced, steady>>

SyncEnd(a) ==
    /\ sync[a].pc = "credentials"
    /\ sync[a].todo = {}
    /\ sync' = [sync EXCEPT ![a] = NoSync]
    /\ UNCHANGED <<access, inventory, host, pick, synced, steady>>

\* A statement fails, or the plugin stops: what was written stays.
SyncFails(a) ==
    /\ sync[a].pc # "idle"
    /\ sync' = [sync EXCEPT ![a] = NoSync]
    /\ UNCHANGED <<access, inventory, host, pick, synced, steady>>

-----------------------------------------------------------------------------
(* scheduler.pick up to the choice among the candidates it may use.        *)
(* routingMu lets one pick in at a time.                                   *)

PickStart(k, C) ==
    /\ pick.pc = "idle"
    /\ pick' = [pick EXCEPT !.pc = "bindings", !.key = k, !.cands = C]
    /\ steady' = TRUE
    /\ UNCHANGED <<access, inventory, host, sync, synced>>

\* KeyBindings.  Without bindings the answer is ErrNoBindings.
PickBindings ==
    /\ pick.pc = "bindings"
    /\ pick' = IF bindings[pick.key] = {} THEN NoPick
               ELSE [pick EXCEPT !.pc = "scope", !.todo = bindings[pick.key]]
    /\ UNCHANGED <<access, inventory, host, sync, synced, steady>>

\* applyTarget: a group's members, or an instance's row, are read when its turn
\* comes.
PickGroup(t) ==
    /\ pick.pc = "scope" /\ t \in pick.todo
    /\ t.type = "group"
    /\ pick' = [pick EXCEPT !.todo = (@ \ {t}) \cup members[t.group]]
    /\ UNCHANGED <<access, inventory, host, sync, synced, steady>>

PickTarget(t) ==
    /\ pick.pc = "scope" /\ t \in pick.todo
    /\ t.type # "group"
    /\ pick' = [pick EXCEPT !.todo = @ \ {t},
                            !.auths = @ \cup AuthsOf(t, instances),
                            !.insts = @ \cup InstancesOf(t)]
    /\ UNCHANGED <<access, inventory, host, sync, synced, steady>>

PickScoped ==
    /\ pick.pc = "scope" /\ pick.todo = {}
    /\ pick' = [pick EXCEPT !.pc = "refresh", !.left = pick.cands]
    /\ UNCHANGED <<access, inventory, host, sync, synced, steady>>

\* UpsertProviderCandidates reads what the inventory has for a candidate and
\* merges the two into the row to write ...
PickLookup(c) ==
    /\ pick.pc = "refresh" /\ c \in pick.left
    /\ \/ \E f \in FilesAnswering(c.auth) :
             pick' = [pick EXCEPT !.pc = "file", !.left = @ \ {c},
                                  !.row = [f EXCEPT !.provider = c.provider]]
       \/ /\ FilesAnswering(c.auth) = {}
          /\ LET url == c.url \/ \E i \in InstanceRow(instances, c.provider, c.auth) : i.url
             IN pick' = [pick EXCEPT !.pc = "instance", !.left = @ \ {c},
                                     !.row = [c EXCEPT !.url = url]]
    /\ UNCHANGED <<access, inventory, host, sync, synced, steady>>

\* ... and then writes it, whatever has happened to the inventory since.
PickWrite ==
    /\ \/ pick.pc = "file" /\ files' = PutFile(files, pick.row) /\ UNCHANGED instances
       \/ pick.pc = "instance" /\ instances' = PutInstance(instances, pick.row) /\ UNCHANGED files
    /\ pick' = [pick EXCEPT !.pc = "refresh", !.row = None]
    /\ UNCHANGED <<access, host, sync, synced, steady>>

\* The error of UpsertProviderCandidates is ignored: the pick goes on.
PickRefreshed ==
    /\ pick.pc \in {"refresh", "file", "instance"}
    /\ pick' = [pick EXCEPT !.pc = "answer", !.left = {}, !.row = None]
    /\ UNCHANGED <<access, inventory, host, sync, synced, steady>>

\* The candidates among which sessions and priorities then choose.
Answers == {c \in pick.cands : Allows(pick.auths, pick.insts, c)}

\* Mutant: the scope is cached, and the next pick starts from it.
PickEndCached ==
    /\ pick.pc # "idle"
    /\ pick' = [NoPick EXCEPT !.auths = pick.auths, !.insts = pick.insts]
    /\ UNCHANGED <<access, inventory, host, sync, synced, steady>>

\* The pick returns; or one of its queries fails, or the plugin stops.
PickEnd ==
    /\ pick.pc # "idle"
    /\ pick' = NoPick
    /\ UNCHANGED <<access, inventory, host, sync, synced, steady>>

-----------------------------------------------------------------------------
Manage ==
    \/ \E k \in Keys, S \in BindingChoices \cup {{}} : ReplaceBindings(k, S)
    \/ \E g \in Groups :
          \/ \E S \in MemberChoices : CreateGroup(g, S) \/ UpdateGroup(g, S)
          \/ DeleteGroup(g)

Post(a) ==
    \/ \E S \in Listings \ {{}} : PostAuthFiles(a, S)
    \/ SyncStart(a) \/ SyncReadOld(a) \/ (\E e \in Entries : SyncUpsert(a, e))
    \/ SyncDropListed(a) \/ SyncMigrate(a) \/ SyncDropAll(a) \/ SyncPrune(a)
    \/ (\E i \in Configured : SyncCredential(a, i)) \/ SyncEnd(a) \/ SyncFails(a)

Pick ==
    \/ \E k \in Keys, C \in CandidateLists : PickStart(k, C)
    \/ PickBindings \/ (\E t \in Targets : PickGroup(t) \/ PickTarget(t)) \/ PickScoped
    \/ (\E c \in Candidates : PickLookup(c))
    \/ PickWrite \/ PickRefreshed \/ PickEnd

Next ==
    /\ \/ Manage
       \/ \E e \in Entries : HostChange(e)
       \/ \E i \in Configured : PostItem(i)
       \/ \E a \in Admins : Post(a)
       \/ Pick
    /\ alone' = {a \in Admins :
                    /\ sync'[a].pc # "idle" /\ (sync[a].pc = "idle" \/ a \in alone)
                    /\ pick'.pc = "idle" /\ \A b \in Admins \ {a} : sync'[b].pc = "idle"}
    /\ granted' = IF pick'.pc = "idle" THEN {}
                  ELSE granted \cup (AllowedNow(pick.key))'

Spec == Init /\ [][Next]_vars

-----------------------------------------------------------------------------
(* Properties.                                                             *)

SyncType ==
    [pc : {"idle", "old", "upsert", "migrate", "dropAll", "prune", "credentials"},
     snap : Listings, todo : SUBSET (Entries \cup Configured),
     aliases : SUBSET Ids, full : BOOLEAN]
PickType ==
    [pc : {"idle", "bindings", "scope", "refresh", "file", "instance", "answer"},
     key : Keys \cup {None}, cands : SUBSET Candidates, todo : SUBSET Targets,
     auths : SUBSET Ids, insts : SUBSET (Providers \X Ids), left : SUBSET Candidates,
     row : EntryType \cup Instances \cup {None}]

\* The inventory holds rows of the right shape, one row for each id, and the
\* members of a group are never groups, without which applyTarget would not end.
TypeOK ==
    /\ bindings \in [Keys -> SUBSET Targets]
    /\ groups \subseteq Groups
    /\ members \in [Groups -> SUBSET MemberTargets]
    /\ files \subseteq EntryType /\ \A e, f \in files : e.id = f.id => e = f
    /\ instances \subseteq Instances
    /\ \A i, j \in instances : i.provider = j.provider /\ i.auth = j.auth => i = j
    /\ host \in Listings
    /\ sync \in [Admins -> SyncType]
    /\ \A a \in Admins : IF sync[a].pc = "credentials" THEN sync[a].todo \subseteq Configured
                                                       ELSE sync[a].todo \subseteq Entries
    /\ pick \in PickType
    /\ pick.pc # "idle" => pick.key \in Keys
    /\ pick.pc = "file" => pick.row \in EntryType
    /\ pick.pc = "instance" => pick.row \in Instances
    /\ alone \subseteq Admins
    /\ synced \in BOOLEAN /\ steady \in BOOLEAN
    /\ granted \subseteq Candidates

\* A key without bindings may use everything CPA has (a request of it is never
\* routed by the plugin), so only an admin who saves the key may take the last
\* binding away or add the first: no sync, no group's end and no pick does.
NeverUnrestricted ==
    [][\/ \E k \in Keys, S \in BindingChoices \cup {{}} : ReplaceBindings(k, S)
       \/ \A k \in Keys : (bindings[k] = {}) = (bindings'[k] = {})]_vars

\* Whether targets T reach auth file e, under its id or an inferred instance.
Reaches(T, e) ==
    \/ AuthTarget(e.id) \in T
    \/ e.provider # NoProvider /\ \E a \in Aliases(e) : InstanceTarget(e.provider, a) \in T

\* migrateAuthFileReferences gives no key a file it could not reach before, and
\* loses no file unless another listed file has the same provider and alias.
MigrationKeepsAccess ==
    [][\A a \in Admins : SyncMigrate(a) =>
         \A k \in Keys, e \in sync[a].snap :
            LET before == Flat(bindings[k], members)
                after == Flat(bindings'[k], members')
                shared == \E f \in sync[a].snap \ {e} :
                             f.provider = e.provider /\ Aliases(f) \cap Aliases(e) # {}
            IN /\ Reaches(after, e) => Reaches(before, e)
               /\ Reaches(before, e) /\ ~shared => Reaches(after, e)]_vars

\* SyncAuthFiles "treats entries as the host's complete auth-file snapshot": after
\* a sync of the files the host still has, the rows are those files, and no
\* instance inferred from one of their aliases is left, whatever earlier syncs
\* that failed half-way have left behind.  The statements of one sync are not a
\* transaction: it takes that it ran alone, beside no other inventory call and no
\* pick (synced); what follows it need not be alone.
SyncComplete ==
    synced =>
        /\ {f.id : f \in files} = {e.id : e \in host}
        /\ \A i \in instances : ~i.url => i.auth \notin AliasesOf(files)

\* An account has one provider: no two credentials or candidates with the same auth
\* id differ in it.
OneProviderPerAuth ==
    \A i, j \in Configured \cup Inferred \cup Candidates :
        i.auth = j.auth => i.provider = j.provider

\* A pick answers with a candidate that its key was allowed at some instant of
\* the call, although bindings, members and inventory rows are read one by one
\* and a sync migrates them meanwhile.  It takes that no admin saves the key
\* itself meanwhile: else the old bindings may meet the new members of a group.
\* It also takes OneProviderPerAuth: else an instance may lend its auth id to an
\* account of another provider when its row is posted after its group lost it.
PickAuthorized == pick.pc = "answer" /\ steady => Answers \subseteq granted
=============================================================================
