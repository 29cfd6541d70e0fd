--------------------------- MODULE InventoryProofs ---------------------------
(***************************************************************************)
(* Proofs about Inventory, for any files, keys, groups and candidates:     *)
(* what a sync may do to the bindings of a key, what it leaves in the      *)
(* inventory, and what a pick may answer while the tables change.          *)
(***************************************************************************)
EXTENDS Inventory, TLAPS

\* A migration gives every target a successor: it empties no set.
LEMMA MigratedNonEmpty ==
  ASSUME NEW T, NEW S, NEW owner
  PROVE  (T = {}) = (Migrated(T, S, owner) = {})
<1>1. T = {} => Migrated(T, S, owner) = {}
  BY DEF Migrated
<1>2. ASSUME NEW t \in T PROVE Migrated(T, S, owner) # {}
  <2>1. CASE IsLegacy(t, S)
    <3>1. t \in {u \in T : IsLegacy(u, S)}
      BY <1>2, <2>1
    <3>2. AuthTarget(owner[<<t.provider, t.id>>].id) \in Migrated(T, S, owner)
      BY <3>1 DEF Migrated
    <3>3. QED
      BY <3>2
  <2>2. CASE ~IsLegacy(t, S)
    BY <2>2 DEF Migrated
  <2>3. QED
    BY <2>1, <2>2
<1>3. QED
  BY <1>1, <1>2

\* Only an admin who saves a key makes it restricted or unrestricted.
THEOREM OnlyAdminsUnrestrict == Spec => NeverUnrestricted
<1> DEFINE Saved == \E k \in Keys, S \in BindingChoices \cup {{}} : ReplaceBindings(k, S)
           Same == \A k \in Keys : (bindings[k] = {}) = (bindings'[k] = {})
<1>1. ASSUME NEW a \in Admins, SyncMigrate(a) PROVE Same
  <2>1. PICK owner \in Owners(sync[a].snap) :
          bindings' = [k \in Keys |-> Migrated(bindings[k], sync[a].snap, owner)]
    BY <1>1 DEF SyncMigrate
  <2>2. QED
    BY <2>1, MigratedNonEmpty
<1>2. ASSUME [Next]_vars PROVE Saved \/ Same
  <2>1. CASE UNCHANGED bindings
    BY <2>1
  <2>2. CASE \E a \in Admins : SyncMigrate(a)
    BY <2>2, <1>1
  <2>3. CASE Manage
    BY <2>3 DEF Manage, CreateGroup, UpdateGroup, DeleteGroup
  <2>4. ASSUME NEW a \in Admins, Post(a), ~SyncMigrate(a) PROVE UNCHANGED bindings
    BY <2>4 DEF Post, PostAuthFiles, SyncStart, SyncReadOld, SyncUpsert, SyncDropListed,
       SyncDropAll, SyncPrune, SyncCredential, SyncEnd, SyncFails, access
  <2>5. ASSUME Pick PROVE UNCHANGED bindings
    BY <2>5 DEF Pick, PickStart, PickBindings, PickGroup, PickTarget, PickScoped,
       PickLookup, PickWrite, PickRefreshed, PickEnd, access
  <2>6. QED
    BY <1>2, <2>1, <2>2, <2>3, <2>4, <2>5 DEF Next, HostChange, PostItem, access, vars
<1>3. [Next]_vars => [Saved \/ Same]_vars
  BY <1>2
<1>4. QED
  BY <1>3, PTL DEF Spec, NeverUnrestricted

\* The entries of a listing are files with an id of their own.
LEMMA ListingIds ==
  ASSUME NEW S \in Listings
  PROVE  /\ \A e \in S : e \in EntryType
         /\ \A e, f \in S : e.id = f.id => e = f
BY InventoryAssumption DEF Listings

\* A legacy target belongs to its owner, a listed file with that alias.
LEMMA OwnerHasAlias ==
  ASSUME NEW S \in Listings, NEW owner \in Owners(S), NEW t \in Targets, IsLegacy(t, S)
  PROVE  LET o == owner[<<t.provider, t.id>>]
         IN /\ o \in S
            /\ o.provider = t.provider /\ t.id \in Aliases(o)
            /\ t = InstanceTarget(o.provider, t.id)
            /\ o.provider # NoProvider
<1> DEFINE l == <<t.provider, t.id>>
<1>1. l \in LegacyOf(S) /\ t.type = "instance"
  BY DEF IsLegacy
<1>2. owner[l] \in S /\ owner[l].provider = l[1] /\ l[2] \in Aliases(owner[l])
  BY <1>1 DEF Owners
<1>3. t = InstanceTarget(t.provider, t.id) /\ t.provider \in Providers
  BY <1>1 DEF Targets, MemberTargets, AuthTarget, InstanceTarget, GroupTarget
<1>4. QED
  BY <1>2, <1>3, InventoryAssumption

\* What a migrated set holds: what was there and is not legacy, and the owners of
\* what was legacy.
LEMMA MigratedMember ==
  ASSUME NEW T, NEW S, NEW owner, NEW t
  PROVE  t \in Migrated(T, S, owner) <=>
           \/ t \in T /\ ~IsLegacy(t, S)
           \/ \E u \in T : IsLegacy(u, S) /\ t = AuthTarget(owner[<<u.provider, u.id>>].id)
BY DEF Migrated

\* A migrated set reaches no listed file that the set did not reach.
LEMMA NoNewFile ==
  ASSUME NEW S \in Listings, NEW owner \in Owners(S), NEW T \in SUBSET Targets,
         NEW e \in S, Reaches(Migrated(T, S, owner), e)
  PROVE  Reaches(T, e)
<1>1. CASE AuthTarget(e.id) \in Migrated(T, S, owner)
  <2>1. CASE AuthTarget(e.id) \in T
    BY <2>1 DEF Reaches
  <2>2. CASE AuthTarget(e.id) \notin T
    <3>1. PICK u \in T : IsLegacy(u, S) /\ AuthTarget(e.id) = AuthTarget(owner[<<u.provider, u.id>>].id)
      BY <1>1, <2>2, MigratedMember
    <3> DEFINE o == owner[<<u.provider, u.id>>]
    <3>2. o \in S /\ o.provider # NoProvider /\ u.id \in Aliases(o) /\ u = InstanceTarget(o.provider, u.id)
      BY <3>1, OwnerHasAlias
    <3>3. e.id = o.id
      BY <3>1 DEF AuthTarget
    <3>4. e = o
      BY <3>2, <3>3, ListingIds
    <3> HIDE DEF o
    <3>5. QED
      BY <3>1, <3>2, <3>4 DEF Reaches
  <2>3. QED
    BY <2>1, <2>2
<1>2. CASE AuthTarget(e.id) \notin Migrated(T, S, owner)
  <2>1. PICK a \in Aliases(e) :
          e.provider # NoProvider /\ InstanceTarget(e.provider, a) \in Migrated(T, S, owner)
    BY <1>2 DEF Reaches
  <2>2. \A b : InstanceTarget(e.provider, a) # AuthTarget(b)
    BY DEF InstanceTarget, AuthTarget
  <2> DEFINE i == InstanceTarget(e.provider, a)
  <2>3. i \in T
    <3> HIDE DEF i
    <3>1. \/ i \in T /\ ~IsLegacy(i, S)
          \/ \E u \in T : IsLegacy(u, S) /\ i = AuthTarget(owner[<<u.provider, u.id>>].id)
      BY <2>1, MigratedMember DEF i
    <3>2. QED
      BY <2>2, <3>1 DEF i
  <2>4. QED
    BY <2>1, <2>3 DEF Reaches
<1>3. QED
  BY <1>1, <1>2

\* A listed file that shares no alias with another of its provider is the owner of
\* the legacy targets that name it: what reached it still does.
LEMMA NoFileLost ==
  ASSUME NEW S \in Listings, NEW owner \in Owners(S), NEW T \in SUBSET Targets,
         NEW e \in S, Reaches(T, e),
         \A f \in S \ {e} : f.provider = e.provider => Aliases(f) \cap Aliases(e) = {}
  PROVE  Reaches(Migrated(T, S, owner), e)
<1>1. CASE AuthTarget(e.id) \in T
  <2>1. ~IsLegacy(AuthTarget(e.id), S)
    BY DEF IsLegacy, AuthTarget
  <2>2. AuthTarget(e.id) \in Migrated(T, S, owner)
    BY <1>1, <2>1, MigratedMember
  <2>3. QED
    BY <2>2 DEF Reaches
<1>2. CASE AuthTarget(e.id) \notin T
  <2>1. PICK a \in Aliases(e) : e.provider # NoProvider /\ InstanceTarget(e.provider, a) \in T
    BY <1>2 DEF Reaches
  <2> DEFINE i == InstanceTarget(e.provider, a)
  <2>2. i.provider = e.provider /\ i.id = a /\ i.type = "instance"
    BY DEF InstanceTarget
  <2> HIDE DEF i
  <2>3. <<e.provider, a>> \in LegacyOf(S)
    <3>1. e \in {f \in S : f.provider # NoProvider} /\ <<e.provider, a>> \in {e.provider} \X Aliases(e)
      BY <2>1
    <3>2. QED
      BY <3>1 DEF LegacyOf
  <2>4. IsLegacy(i, S) /\ i \in T
    BY <2>1, <2>2, <2>3 DEF IsLegacy, i
  <2>5. owner[<<i.provider, i.id>>] = e
    <3> DEFINE o == owner[<<i.provider, i.id>>]
    <3>1. o \in S /\ o.provider = e.provider /\ a \in Aliases(o)
      BY <2>2, <2>4, OwnerHasAlias
    <3>2. QED
      BY <3>1, <2>1
  <2>6. AuthTarget(e.id) \in Migrated(T, S, owner)
    <3>1. \E u \in T : IsLegacy(u, S) /\ AuthTarget(e.id) = AuthTarget(owner[<<u.provider, u.id>>].id)
      BY <2>4, <2>5
    <3>2. QED
      BY <3>1, MigratedMember
  <2>7. QED
    BY <2>6 DEF Reaches
<1>3. QED
  BY <1>1, <1>2

\* Migrating the bindings and the members migrates what they come to.
LEMMA FlatMigrated ==
  ASSUME NEW S, NEW owner, NEW T \in SUBSET Targets,
         NEW mem \in [Groups -> SUBSET MemberTargets], NEW mem2,
         mem2 = [g \in Groups |-> Migrated(mem[g], S, owner)]
  PROVE  Flat(Migrated(T, S, owner), mem2) = Migrated(Flat(T, mem), S, owner)
<1> DEFINE new(u) == AuthTarget(owner[<<u.provider, u.id>>].id)
<1>1. \A u : new(u).type # "group"
  BY DEF AuthTarget
<1>2. \A u \in T : u.type = "group" => u.group \in Groups /\ ~IsLegacy(u, S)
  BY DEF Targets, MemberTargets, AuthTarget, InstanceTarget, GroupTarget, IsLegacy
<1>3. ASSUME NEW t
      PROVE  t \in Flat(T, mem) <=>
               \/ t \in T /\ t.type # "group"
               \/ \E u \in T : u.type = "group" /\ t \in mem[u.group]
  BY DEF Flat
<1>4. ASSUME NEW t
      PROVE  t \in Flat(Migrated(T, S, owner), mem2) <=>
               \/ t \in Migrated(T, S, owner) /\ t.type # "group"
               \/ \E u \in Migrated(T, S, owner) : u.type = "group" /\ t \in mem2[u.group]
  BY DEF Flat
<1>5. \A t : t \in Migrated(T, S, owner) <=>
               \/ t \in T /\ ~IsLegacy(t, S)
               \/ \E u \in T : IsLegacy(u, S) /\ t = new(u)
  BY MigratedMember
<1>6. \A t : t \in Migrated(Flat(T, mem), S, owner) <=>
               \/ t \in Flat(T, mem) /\ ~IsLegacy(t, S)
               \/ \E u \in Flat(T, mem) : IsLegacy(u, S) /\ t = new(u)
  BY MigratedMember
<1>7. \A g \in Groups : \A t : t \in mem2[g] <=>
               \/ t \in mem[g] /\ ~IsLegacy(t, S)
               \/ \E u \in mem[g] : IsLegacy(u, S) /\ t = new(u)
  BY MigratedMember
<1>8. \A u : u \in Migrated(T, S, owner) /\ u.type = "group" <=> u \in T /\ u.type = "group"
  BY <1>1, <1>2, <1>5
<1>9. \A t : IsLegacy(t, S) => t.type # "group"
  BY DEF IsLegacy
<1> HIDE DEF new
<1>10. ASSUME NEW t
       PROVE  t \in Flat(Migrated(T, S, owner), mem2) <=> t \in Migrated(Flat(T, mem), S, owner)
  <2>1. t \in Flat(Migrated(T, S, owner), mem2) =>
          t \in Migrated(Flat(T, mem), S, owner)
    BY <1>2, <1>3, <1>4, <1>5, <1>6, <1>7, <1>8, <1>9
  <2>2. t \in Migrated(Flat(T, mem), S, owner) =>
          t \in Flat(Migrated(T, S, owner), mem2)
    BY <1>1, <1>2, <1>3, <1>4, <1>5, <1>6, <1>7, <1>8, <1>9
  <2>3. QED
    BY <2>1, <2>2
<1>11. QED
  BY <1>10

-----------------------------------------------------------------------------
\* Every action of a call of POST /inventory is one of these.
LEMMA PostCases ==
  ASSUME NEW a \in Admins, Post(a)
  PROVE  \/ \E S \in Listings : PostAuthFiles(a, S)
         \/ SyncStart(a) \/ SyncReadOld(a) \/ (\E e \in Entries : SyncUpsert(a, e))
         \/ SyncDropListed(a) \/ SyncMigrate(a) \/ SyncDropAll(a) \/ SyncPrune(a)
         \/ (\E i \in Configured : SyncCredential(a, i)) \/ SyncEnd(a) \/ SyncFails(a)
BY DEF Post

\* A migration replaces targets by auth files.
LEMMA MigratedTyped ==
  ASSUME NEW S \in Listings, NEW owner \in Owners(S), NEW T \in SUBSET Targets
  PROVE  /\ Migrated(T, S, owner) \subseteq Targets
         /\ T \subseteq MemberTargets => Migrated(T, S, owner) \subseteq MemberTargets
<1>1. ASSUME NEW t \in Migrated(T, S, owner)
      PROVE  t \in T \/ t \in MemberTargets
  <2>1. CASE t \in T
    BY <2>1
  <2>2. CASE t \notin T
    <3>1. PICK u \in T : IsLegacy(u, S) /\ t = AuthTarget(owner[<<u.provider, u.id>>].id)
      BY <1>1, <2>2, MigratedMember
    <3> DEFINE o == owner[<<u.provider, u.id>>]
    <3>2. o \in S
      BY <3>1, OwnerHasAlias
    <3>3. o.id \in Ids
      BY <3>2, ListingIds DEF EntryType
    <3> HIDE DEF o
    <3>4. AuthTarget(o.id) \in MemberTargets
      BY <3>3 DEF MemberTargets
    <3>5. QED
      BY <3>1, <3>4 DEF o
  <2>3. QED
    BY <2>1, <2>2
<1>2. QED
  BY <1>1 DEF Targets

\* Bindings, groups and members keep their types.
LEMMA AccessStep ==
  TypeOK /\ [Next]_vars =>
    /\ bindings' \in [Keys -> SUBSET Targets]
    /\ groups' \subseteq Groups
    /\ members' \in [Groups -> SUBSET MemberTargets]
<1> SUFFICES ASSUME TypeOK, [Next]_vars
             PROVE  /\ bindings' \in [Keys -> SUBSET Targets]
                    /\ groups' \subseteq Groups
                    /\ members' \in [Groups -> SUBSET MemberTargets]
  OBVIOUS
<1> USE DEF TypeOK
<1>1. CASE Manage
  BY <1>1, InventoryAssumption
     DEF Manage, ReplaceBindings, CreateGroup, UpdateGroup, DeleteGroup
<1>2. ASSUME NEW a \in Admins, SyncMigrate(a)
      PROVE  /\ bindings' \in [Keys -> SUBSET Targets]
             /\ groups' \subseteq Groups
             /\ members' \in [Groups -> SUBSET MemberTargets]
  <2>1. sync[a].snap \in Listings
    BY DEF SyncType
  <2>2. PICK owner \in Owners(sync[a].snap) :
          /\ bindings' = [k \in Keys |-> Migrated(bindings[k], sync[a].snap, owner)]
          /\ members' = [g \in Groups |-> Migrated(members[g], sync[a].snap, owner)]
    BY <1>2 DEF SyncMigrate
  <2>3. \A k \in Keys : Migrated(bindings[k], sync[a].snap, owner) \subseteq Targets
    BY <2>1, MigratedTyped
  <2>4. \A g \in Groups : Migrated(members[g], sync[a].snap, owner) \subseteq MemberTargets
    BY <2>1, MigratedTyped DEF Targets
  <2>5. QED
    BY <1>2, <2>2, <2>3, <2>4 DEF SyncMigrate
<1>3. CASE UNCHANGED access
  BY <1>3 DEF access
<1>4. ASSUME NEW a \in Admins, Post(a), ~SyncMigrate(a) PROVE UNCHANGED access
  BY <1>4, PostCases DEF PostAuthFiles, SyncStart, SyncReadOld, SyncUpsert, SyncDropListed,
     SyncDropAll, SyncPrune, SyncCredential, SyncEnd, SyncFails
<1>5. ASSUME Pick PROVE UNCHANGED access
  BY <1>5 DEF Pick, PickStart, PickBindings, PickGroup, PickTarget, PickScoped,
     PickLookup, PickWrite, PickRefreshed, PickEnd
<1>6. QED
  BY <1>1, <1>2, <1>3, <1>4, <1>5 DEF Next, HostChange, PostItem, access, vars

\* Upserts keep the rows typed and one for each id.
LEMMA PutFileTyped ==
  ASSUME NEW rows \in SUBSET EntryType, \A e, f \in rows : e.id = f.id => e = f,
         NEW r \in EntryType
  PROVE  /\ PutFile(rows, r) \subseteq EntryType
         /\ \A e, f \in PutFile(rows, r) : e.id = f.id => e = f
BY DEF PutFile

LEMMA PutInstanceTyped ==
  ASSUME NEW rows \in SUBSET Instances, NEW r \in Instances,
         \A i, j \in rows : i.provider = j.provider /\ i.auth = j.auth => i = j
  PROVE  /\ PutInstance(rows, r) \subseteq Instances
         /\ \A i, j \in PutInstance(rows, r) :
               i.provider = j.provider /\ i.auth = j.auth => i = j
BY DEF PutInstance, InstanceRow

\* Inventory rows keep their types and their keys.
LEMMA RowsStep ==
  TypeOK /\ [Next]_vars =>
    /\ files' \subseteq EntryType /\ \A e, f \in files' : e.id = f.id => e = f
    /\ instances' \subseteq Instances
    /\ \A i, j \in instances' : i.provider = j.provider /\ i.auth = j.auth => i = j
<1> DEFINE Good ==
      /\ files' \subseteq EntryType /\ \A e, f \in files' : e.id = f.id => e = f
      /\ instances' \subseteq Instances
      /\ \A i, j \in instances' : i.provider = j.provider /\ i.auth = j.auth => i = j
<1> SUFFICES ASSUME TypeOK, [Next]_vars PROVE Good
  OBVIOUS
<1> USE DEF TypeOK
<1>1. CASE UNCHANGED inventory
  BY <1>1 DEF inventory
<1>2. ASSUME files' \subseteq files, instances' \subseteq instances PROVE Good
  BY <1>2
<1>3. ASSUME NEW r \in EntryType, files' = PutFile(files, r), UNCHANGED instances PROVE Good
  BY <1>3, PutFileTyped
<1>4. ASSUME NEW r \in Instances, instances' = PutInstance(instances, r), UNCHANGED files PROVE Good
  BY <1>4, PutInstanceTyped
<1> HIDE DEF Good
<1>5. CASE Manage
  BY <1>1, <1>5 DEF Manage, ReplaceBindings, CreateGroup, UpdateGroup, DeleteGroup
<1>6. ASSUME NEW i \in Configured, PostItem(i) PROVE Good
  BY <1>4, <1>6, InventoryAssumption DEF PostItem
<1>7. ASSUME NEW a \in Admins, Post(a) PROVE Good
  <2>1. ASSUME NEW e \in Entries, SyncUpsert(a, e) PROVE Good
    BY <1>3, <2>1, InventoryAssumption DEF SyncUpsert
  <2>2. ASSUME NEW i \in Configured, SyncCredential(a, i) PROVE Good
    BY <1>4, <2>2, InventoryAssumption DEF SyncCredential
  <2>3. CASE SyncDropListed(a) \/ SyncDropAll(a) \/ SyncPrune(a)
    BY <1>2, <2>3 DEF SyncDropListed, SyncDropAll, SyncPrune, WithoutInferred
  <2>4. CASE \/ \E S \in Listings : PostAuthFiles(a, S)
             \/ SyncStart(a) \/ SyncReadOld(a) \/ SyncMigrate(a) \/ SyncEnd(a) \/ SyncFails(a)
    BY <1>1, <2>4 DEF PostAuthFiles, SyncStart, SyncReadOld, SyncMigrate, SyncEnd, SyncFails
  <2>5. QED
    BY <1>7, PostCases, <2>1, <2>2, <2>3, <2>4
<1>8. CASE Pick
  <2>1. CASE PickWrite
    BY <1>3, <1>4, <2>1 DEF PickWrite
  <2>2. CASE UNCHANGED inventory
    BY <1>1, <2>2
  <2>3. QED
    BY <1>8, <2>1, <2>2 DEF Pick, PickStart, PickBindings, PickGroup, PickTarget,
       PickScoped, PickLookup, PickRefreshed, PickEnd
<1>9. QED
  BY <1>1, <1>5, <1>6, <1>7, <1>8 DEF Next, HostChange, inventory, vars

\* Aliases are identifiers.
LEMMA AliasesTyped == ASSUME NEW S \in SUBSET EntryType PROVE AliasesOf(S) \subseteq Ids
BY DEF AliasesOf, Aliases, EntryType

\* The host's listing keeps unique ids.
LEMMA HostStep == TypeOK /\ [Next]_vars => host' \in Listings
<1> SUFFICES ASSUME TypeOK, [Next]_vars PROVE host' \in Listings
  OBVIOUS
<1> USE DEF TypeOK
<1>1. ASSUME NEW e \in Entries, HostChange(e) PROVE host' \in Listings
  BY <1>1 DEF HostChange, PutFile, Listings
<1>2. ASSUME NEW a \in Admins, Post(a) PROVE UNCHANGED host
  BY <1>2, PostCases DEF PostAuthFiles, SyncStart, SyncReadOld, SyncUpsert, SyncDropListed,
     SyncMigrate, SyncDropAll, SyncPrune, SyncCredential, SyncEnd, SyncFails
<1>3. ASSUME Pick PROVE UNCHANGED host
  BY <1>3 DEF Pick, PickStart, PickBindings, PickGroup, PickTarget, PickScoped,
     PickLookup, PickWrite, PickRefreshed, PickEnd
<1>4. ASSUME Manage PROVE UNCHANGED host
  BY <1>4 DEF Manage, ReplaceBindings, CreateGroup, UpdateGroup, DeleteGroup
<1>5. QED
  BY <1>1, <1>2, <1>3, <1>4 DEF Next, PostItem, vars

\* The calls of POST /inventory keep their types.
LEMMA SyncStep ==
  TypeOK /\ [Next]_vars =>
    /\ sync' \in [Admins -> SyncType]
    /\ \A a \in Admins : IF sync'[a].pc = "credentials" THEN sync'[a].todo \subseteq Configured
                                                        ELSE sync'[a].todo \subseteq Entries
<1> DEFINE Fits(r) == /\ r \in SyncType
                      /\ IF r.pc = "credentials" THEN r.todo \subseteq Configured
                                                 ELSE r.todo \subseteq Entries
           Good == sync' \in [Admins -> SyncType] /\ \A a \in Admins : Fits(sync'[a])
<1> SUFFICES ASSUME TypeOK, [Next]_vars PROVE Good
  OBVIOUS
<1> USE DEF TypeOK
<1>1. Fits(NoSync)
  <2>1. {} \in Listings
    BY DEF Listings
  <2>2. QED
    BY <2>1 DEF NoSync, SyncType
<1>2. ASSUME NEW a \in Admins, NEW r, Fits(r), sync' = [sync EXCEPT ![a] = r] PROVE Good
  BY <1>2
<1>3. ASSUME UNCHANGED sync PROVE Good
  BY <1>3
<1>4. ASSUME NEW a \in Admins, Post(a) PROVE Good
  <2> DEFINE r == sync[a]
  <2>0. Fits(r) /\ r \in SyncType
    OBVIOUS
  <2>1. ASSUME NEW S \in Listings, PostAuthFiles(a, S) PROVE Good
    <3>1. Fits([NoSync EXCEPT !.pc = "upsert", !.snap = S, !.todo = S])
      BY <2>1 DEF NoSync, SyncType, Listings
    <3> QED
      BY <1>2, <2>1, <3>1 DEF PostAuthFiles
  <2>2. ASSUME SyncStart(a) PROVE Good
    <3>1. Fits([NoSync EXCEPT !.pc = "old", !.snap = host, !.todo = host, !.full = TRUE])
      BY DEF NoSync, SyncType, Listings
    <3> QED
      BY <1>2, <2>2, <3>1 DEF SyncStart
  <2>3. ASSUME SyncReadOld(a) PROVE Good
    <3>1. sync' = [sync EXCEPT ![a] = [r EXCEPT !.pc = "upsert", !.aliases = AliasesOf(files)]]
      BY <2>3 DEF SyncReadOld
    <3>2. Fits([r EXCEPT !.pc = "upsert", !.aliases = AliasesOf(files)])
      BY <2>0, <2>3, AliasesTyped DEF SyncType, SyncReadOld
    <3> QED
      BY <1>2, <3>1, <3>2
  <2>4. ASSUME NEW e \in Entries, SyncUpsert(a, e) PROVE Good
    <3>1. sync' = [sync EXCEPT ![a] = [r EXCEPT !.todo = @ \ {e}]]
      BY <2>4 DEF SyncUpsert
    <3>2. Fits([r EXCEPT !.todo = @ \ {e}])
      BY <2>0, <2>4 DEF SyncType, SyncUpsert
    <3> QED
      BY <1>2, <3>1, <3>2
  <2>5. ASSUME SyncDropListed(a) PROVE Good
    <3>1. Fits([r EXCEPT !.pc = "migrate"])
      BY <2>0, <2>5 DEF SyncType, SyncDropListed
    <3> QED
      BY <1>1, <1>2, <2>5, <3>1 DEF SyncDropListed
  <2>6. ASSUME SyncMigrate(a) \/ SyncDropAll(a) PROVE Good
    <3>1. Fits([r EXCEPT !.pc = "dropAll"]) /\ Fits([r EXCEPT !.pc = "prune"])
      BY <2>0, <2>6 DEF SyncType, SyncMigrate, SyncDropAll
    <3>2. \/ sync' = [sync EXCEPT ![a] = [r EXCEPT !.pc = "dropAll"]]
          \/ sync' = [sync EXCEPT ![a] = [r EXCEPT !.pc = "prune"]]
      BY <2>6 DEF SyncMigrate, SyncDropAll
    <3> QED
      BY <1>2, <3>1, <3>2
  <2>7. ASSUME SyncPrune(a) PROVE Good
    <3>1. PICK C \in SUBSET Configured :
            sync' = [sync EXCEPT ![a] = [NoSync EXCEPT !.pc = "credentials", !.todo = C]]
      BY <2>7 DEF SyncPrune
    <3>2. Fits([NoSync EXCEPT !.pc = "credentials", !.todo = C])
      BY <1>1 DEF NoSync, SyncType
    <3> QED
      BY <1>2, <3>1, <3>2
  <2>8. ASSUME NEW i \in Configured, SyncCredential(a, i) PROVE Good
    <3>1. sync' = [sync EXCEPT ![a] = [r EXCEPT !.todo = @ \ {i}]]
      BY <2>8 DEF SyncCredential
    <3>2. Fits([r EXCEPT !.todo = @ \ {i}])
      BY <2>0, <2>8 DEF SyncType, SyncCredential
    <3> QED
      BY <1>2, <3>1, <3>2
  <2>9. ASSUME SyncEnd(a) \/ SyncFails(a) PROVE Good
    BY <1>1, <1>2, <2>9 DEF SyncEnd, SyncFails
  <2>10. QED
    BY <1>4, PostCases, <2>1, <2>2, <2>3, <2>4, <2>5, <2>6, <2>7, <2>8, <2>9
<1>5. ASSUME Pick PROVE UNCHANGED sync
  BY <1>5 DEF Pick, PickStart, PickBindings, PickGroup, PickTarget, PickScoped,
     PickLookup, PickWrite, PickRefreshed, PickEnd
<1>6. ASSUME Manage PROVE UNCHANGED sync
  BY <1>6 DEF Manage, ReplaceBindings, CreateGroup, UpdateGroup, DeleteGroup
<1> HIDE DEF Good
<1>7. QED
  BY <1>3, <1>4, <1>5, <1>6 DEF Next, HostChange, PostItem, vars

\* What a target lends to a scope is made of identifiers.
LEMMA ScopeTyped ==
  ASSUME NEW t \in Targets, t.type # "group", NEW rows \in SUBSET Instances
  PROVE  AuthsOf(t, rows) \subseteq Ids /\ InstancesOf(t) \subseteq Providers \X Ids
BY DEF Targets, MemberTargets, AuthTarget, InstanceTarget, GroupTarget, AuthsOf,
   InstancesOf, InstanceRow, Instances

\* The pick in progress keeps its type.
LEMMA PickStep ==
  TypeOK /\ [Next]_vars =>
    /\ pick' \in PickType
    /\ pick'.pc # "idle" => pick'.key \in Keys
    /\ pick'.pc = "file" => pick'.row \in EntryType
    /\ pick'.pc = "instance" => pick'.row \in Instances
<1> DEFINE Good == /\ pick' \in PickType
                   /\ pick'.pc # "idle" => pick'.key \in Keys
                   /\ pick'.pc = "file" => pick'.row \in EntryType
                   /\ pick'.pc = "instance" => pick'.row \in Instances
<1> SUFFICES ASSUME TypeOK, [Next]_vars PROVE Good
  OBVIOUS
<1> USE DEF TypeOK
<1>1. ASSUME UNCHANGED pick PROVE Good
  BY <1>1
<1>2. NoPick \in PickType /\ NoPick.pc = "idle"
  BY DEF NoPick, PickType
<1>3. ASSUME Pick PROVE Good
  <2>1. ASSUME NEW k \in Keys, NEW C \in CandidateLists, PickStart(k, C) PROVE Good
    BY <2>1 DEF PickStart, PickType, Candidates
  <2>2. ASSUME PickBindings PROVE Good
    <3>1. CASE bindings[pick.key] = {}
      BY <1>2, <2>2, <3>1 DEF PickBindings
    <3>2. CASE bindings[pick.key] # {}
      BY <2>2, <3>2 DEF PickBindings, PickType
    <3>3. QED
      BY <2>2, <3>1, <3>2 DEF PickBindings
  <2>3. ASSUME NEW t \in Targets, PickGroup(t) PROVE Good
    <3>1. t.group \in Groups
      BY <2>3 DEF PickGroup, Targets, MemberTargets, AuthTarget, InstanceTarget, GroupTarget
    <3>2. members[t.group] \subseteq Targets
      BY <3>1 DEF Targets
    <3>3. QED
      BY <2>3, <3>2 DEF PickGroup, PickType
  <2>4. ASSUME NEW t \in Targets, PickTarget(t) PROVE Good
    BY <2>4, ScopeTyped DEF PickTarget, PickType
  <2>5. ASSUME PickScoped PROVE Good
    BY <2>5 DEF PickScoped, PickType
  <2>6. ASSUME NEW c \in Candidates, PickLookup(c) PROVE Good
    <3>0. pick.key \in Keys
      BY <2>6 DEF PickLookup
    <3>1. ASSUME NEW f \in FilesAnswering(c.auth),
                 pick' = [pick EXCEPT !.pc = "file", !.left = @ \ {c},
                                      !.row = [f EXCEPT !.provider = c.provider]]
          PROVE  Good
      <4>1. f \in EntryType /\ c.provider \in Providers
        BY InventoryAssumption DEF FilesAnswering, Instances
      <4>2. [f EXCEPT !.provider = c.provider] \in EntryType
        BY <4>1 DEF EntryType
      <4>3. QED
        BY <3>0, <3>1, <4>2 DEF PickType
    <3>2. ASSUME NEW url \in BOOLEAN,
                 pick' = [pick EXCEPT !.pc = "instance", !.left = @ \ {c},
                                      !.row = [c EXCEPT !.url = url]]
          PROVE  Good
      <4>1. [c EXCEPT !.url = url] \in Instances
        BY InventoryAssumption DEF Instances
      <4>2. QED
        BY <3>0, <3>2, <4>1 DEF PickType
    <3>3. (c.url \/ \E i \in InstanceRow(instances, c.provider, c.auth) : i.url) \in BOOLEAN
      BY InventoryAssumption DEF Instances
    <3>4. QED
      BY <2>6, <3>1, <3>2, <3>3 DEF PickLookup
  <2>7. ASSUME PickWrite \/ PickRefreshed PROVE Good
    BY <2>7 DEF PickWrite, PickRefreshed, PickType
  <2>8. ASSUME PickEnd PROVE Good
    BY <1>2, <2>8 DEF PickEnd
  <2>9. QED
    BY <1>3, <2>1, <2>2, <2>3, <2>4, <2>5, <2>6, <2>7, <2>8 DEF Pick
<1>4. ASSUME NEW a \in Admins, Post(a) PROVE UNCHANGED pick
  BY <1>4, PostCases DEF PostAuthFiles, SyncStart, SyncReadOld, SyncUpsert, SyncDropListed,
     SyncMigrate, SyncDropAll, SyncPrune, SyncCredential, SyncEnd, SyncFails
<1>5. ASSUME Manage PROVE UNCHANGED pick
  BY <1>5 DEF Manage, ReplaceBindings, CreateGroup, UpdateGroup, DeleteGroup
<1> HIDE DEF Good
<1>6. QED
  BY <1>1, <1>3, <1>4, <1>5 DEF Next, HostChange, PostItem, vars

\* The history variables keep their types.
LEMMA HistoryStep ==
  TypeOK /\ [Next]_vars =>
    /\ alone' \subseteq Admins
    /\ synced' \in BOOLEAN /\ steady' \in BOOLEAN /\ granted' \subseteq Candidates
<1> SUFFICES ASSUME TypeOK, [Next]_vars
             PROVE  /\ alone' \subseteq Admins
                    /\ synced' \in BOOLEAN /\ steady' \in BOOLEAN /\ granted' \subseteq Candidates
  OBVIOUS
<1> USE DEF TypeOK
<1>1. CASE UNCHANGED vars
  BY <1>1 DEF vars
<1>2. CASE Next
  <2>1. granted' \subseteq Candidates /\ alone' \subseteq Admins
    <3>1. (AllowedNow(pick.key))' \subseteq Candidates
      BY DEF AllowedNow
    <3>2. QED
      BY <1>2, <3>1 DEF Next
  <2>2. ASSUME NEW a \in Admins, Post(a) PROVE synced' \in BOOLEAN /\ steady' \in BOOLEAN
    BY <2>2, PostCases DEF PostAuthFiles, SyncStart, SyncReadOld, SyncUpsert, SyncDropListed,
       SyncMigrate, SyncDropAll, SyncPrune, SyncCredential, SyncEnd, SyncFails
  <2>3. ASSUME Pick PROVE synced' \in BOOLEAN /\ steady' \in BOOLEAN
    BY <2>3 DEF Pick, PickStart, PickBindings, PickGroup, PickTarget, PickScoped,
       PickLookup, PickWrite, PickRefreshed, PickEnd
  <2>4. ASSUME Manage PROVE synced' \in BOOLEAN /\ steady' \in BOOLEAN
    BY <2>4 DEF Manage, ReplaceBindings, CreateGroup, UpdateGroup, DeleteGroup
  <2>5. QED
    BY <1>2, <2>1, <2>2, <2>3, <2>4 DEF Next, HostChange, PostItem
<1>3. QED
  BY <1>1, <1>2

LEMMA InitTyped == Init => TypeOK
<1>1. {} \in Listings
  BY DEF Listings
<1>2. NoSync \in SyncType /\ NoSync.pc = "idle" /\ NoSync.todo = {}
  BY <1>1 DEF NoSync, SyncType
<1>3. NoPick \in PickType /\ NoPick.pc = "idle"
  BY DEF NoPick, PickType
<1>4. QED
  <2>1. ASSUME Init
        PROVE  /\ bindings \in [Keys -> SUBSET Targets] /\ groups \subseteq Groups
               /\ members \in [Groups -> SUBSET MemberTargets]
               /\ files \subseteq EntryType /\ \A e, f \in files : e.id = f.id => e = f
               /\ host \in Listings
               /\ alone \subseteq Admins
               /\ synced \in BOOLEAN /\ steady \in BOOLEAN /\ granted \subseteq Candidates
    BY <1>1, <2>1 DEF Init
  <2>2. ASSUME Init
        PROVE  /\ instances \subseteq Instances
               /\ \A i, j \in instances : i.provider = j.provider /\ i.auth = j.auth => i = j
    BY <2>2, InventoryAssumption DEF Init, Instances
  <2>3. ASSUME Init
        PROVE  /\ sync \in [Admins -> SyncType]
               /\ \A a \in Admins : sync[a] = NoSync
               /\ pick = NoPick
    BY <1>2, <2>3 DEF Init
  <2>4. QED
    BY <1>2, <1>3, <2>1, <2>2, <2>3 DEF TypeOK

LEMMA TypeNext == TypeOK /\ [Next]_vars => TypeOK'
BY AccessStep, RowsStep, HostStep, SyncStep, PickStep, HistoryStep DEF TypeOK

\* The tables, the calls and the pick always have their shape: one inventory row
\* for each id, and no group within a group.
THEOREM TypeCorrect == Spec => []TypeOK
BY InitTyped, TypeNext, PTL DEF Spec

\* migrateAuthFileReferences gives no key a file it could not reach, and takes
\* none away that it could, but for files that share an alias.
THEOREM MigrationIsFaithful == Spec => MigrationKeepsAccess
<1> DEFINE Kept(a, k, e) ==
      LET before == Flat(bindings[k], members)
          after == Flat(bindings'[k], members')
          shared == \E f \in sync[a].snap \ {e} :
                       f.provider = e.provider /\ Aliases(f) \cap Aliases(e) # {}
      IN /\ Reaches(after, e) => Reaches(before, e)
         /\ Reaches(before, e) /\ ~shared => Reaches(after, e)
<1>1. ASSUME TypeOK, NEW a \in Admins, SyncMigrate(a), NEW k \in Keys, NEW e \in sync[a].snap
      PROVE  Kept(a, k, e)
  <2> DEFINE S == sync[a].snap
             T == Flat(bindings[k], members)
  <2>1. S \in Listings
    BY <1>1 DEF TypeOK, SyncType
  <2>2. T \in SUBSET Targets
    BY <1>1 DEF TypeOK, Flat, Targets, MemberTargets, AuthTarget, InstanceTarget, GroupTarget
  <2>3. PICK owner \in Owners(S) :
          /\ bindings'[k] = Migrated(bindings[k], S, owner)
          /\ members' = [g \in Groups |-> Migrated(members[g], S, owner)]
    BY <1>1 DEF SyncMigrate
  <2>4. Flat(bindings'[k], members') = Migrated(T, S, owner)
    <3>1. bindings[k] \in SUBSET Targets /\ members \in [Groups -> SUBSET MemberTargets]
      BY <1>1 DEF TypeOK
    <3>2. QED
      BY <2>3, <3>1, FlatMigrated
  <2> HIDE DEF S, T
  <2>5. e \in S
    BY DEF S
  <2>6. Reaches(Migrated(T, S, owner), e) => Reaches(T, e)
    BY <2>1, <2>2, <2>3, <2>5, NoNewFile
  <2>7. Reaches(T, e) /\ (\A f \in S \ {e} : f.provider = e.provider => Aliases(f) \cap Aliases(e) = {})
          => Reaches(Migrated(T, S, owner), e)
    BY <2>1, <2>2, <2>3, <2>5, NoFileLost
  <2>8. QED
    BY <2>4, <2>6, <2>7 DEF S, T
<1>2. TypeOK => \A a \in Admins : SyncMigrate(a) => \A k \in Keys, e \in sync[a].snap : Kept(a, k, e)
  BY <1>1
<1>3. TypeOK /\ [Next]_vars =>
        [\A a \in Admins : SyncMigrate(a) => \A k \in Keys, e \in sync[a].snap : Kept(a, k, e)]_vars
  BY <1>2
<1>4. QED
  BY TypeCorrect, <1>3, PTL DEF Spec, MigrationKeepsAccess
-----------------------------------------------------------------------------
(* A sync that runs alone leaves the files the host has.                    *)

\* A row of a file has the id and the name of a file there is.
Named(r) == \E e \in Entries : e.id = r.id /\ e.name = r.name
FilesNamed ==
    /\ \A f \in files : Named(f)
    /\ pick.pc = "file" => Named(pick.row)

NoneInferred == \A i \in instances : i.url \/ i.auth \notin AliasesOf(files)

AloneIsAlone ==
    \A a \in alone :
        /\ sync[a].pc # "idle" /\ pick.pc = "idle"
        /\ \A b \in Admins \ {a} : sync[b].pc = "idle"

\* How far a sync that runs alone has come: the files listed and not to do are there,
\* the others were there before, and after the last deletion nothing is inferred.
Progress(a) ==
    LET s == sync[a]
    IN /\ s.pc \in {"upsert", "migrate", "dropAll", "prune"} /\ s.full =>
            /\ s.snap \subseteq files \cup s.todo
            /\ \A f \in files : f \in s.snap \/ Aliases(f) \subseteq s.aliases
       /\ s.pc \in {"migrate", "dropAll", "prune"} => s.full /\ s.todo = {}
       /\ s.pc = "prune" => NoneInferred

\* Since the last sync ended, no call is writing what it read before.
Settled ==
    synced =>
        /\ {f.id : f \in files} = {e.id : e \in host}
        /\ NoneInferred
        /\ \A a \in Admins : sync[a].pc \in {"idle", "credentials"}
        /\ pick.pc = "file" => \E f \in files : f.id = pick.row.id /\ f.name = pick.row.name
        /\ pick.pc = "instance" => pick.row.url \/ pick.row.auth \notin AliasesOf(files)

\* What is to do is listed; a sync that has not read the rows has written nothing.
TodoListed ==
    \A a \in Admins : /\ sync[a].pc = "old" => sync[a].todo = sync[a].snap
                      /\ sync[a].pc = "upsert" => sync[a].todo \subseteq sync[a].snap
SyncInv ==
    TypeOK /\ FilesNamed /\ AloneIsAlone /\ TodoListed /\ (\A a \in alone : Progress(a)) /\ Settled

LEMMA AliasesMember ==
  ASSUME NEW S, NEW x
  PROVE  x \in AliasesOf(S) <=> \E e \in S : x = e.id \/ x = e.name
BY DEF AliasesOf, Aliases

LEMMA PickCases ==
  ASSUME Pick
  PROVE  \/ \E k \in Keys, C \in CandidateLists : PickStart(k, C)
         \/ PickBindings \/ (\E t \in Targets : PickGroup(t)) \/ (\E t \in Targets : PickTarget(t))
         \/ PickScoped \/ (\E c \in Candidates : PickLookup(c))
         \/ PickWrite \/ PickRefreshed \/ PickEnd
BY DEF Pick

\* What the calls leave alone.
LEMMA Frames ==
  /\ Manage => UNCHANGED <<inventory, host, sync, pick, synced>>
  /\ \A e \in Entries : HostChange(e) => UNCHANGED <<access, inventory, sync, pick, steady>> /\ ~synced'
  /\ \A i \in Configured : PostItem(i) => UNCHANGED <<access, files, host, sync, pick, steady>> /\ ~synced'
  /\ \A a \in Admins : Post(a) => UNCHANGED <<groups, host, pick, steady>>
  /\ Pick => UNCHANGED <<access, host, sync, synced>>
<1>1. Manage => UNCHANGED <<inventory, host, sync, pick, synced>>
  BY DEF Manage, ReplaceBindings, CreateGroup, UpdateGroup, DeleteGroup
<1>2. /\ \A e \in Entries : HostChange(e) => UNCHANGED <<access, inventory, sync, pick, steady>> /\ ~synced'
      /\ \A i \in Configured : PostItem(i) => UNCHANGED <<access, files, host, sync, pick, steady>> /\ ~synced'
  BY DEF HostChange, PostItem
<1>3. ASSUME NEW a \in Admins, Post(a) PROVE UNCHANGED <<groups, host, pick, steady>>
  BY <1>3, PostCases DEF PostAuthFiles, SyncStart, SyncReadOld, SyncUpsert, SyncDropListed,
     SyncMigrate, SyncDropAll, SyncPrune, SyncCredential, SyncEnd, SyncFails, access, inventory
<1>4. ASSUME Pick PROVE UNCHANGED <<access, host, sync, synced>>
  BY <1>4, PickCases DEF PickStart, PickBindings, PickGroup, PickTarget, PickScoped,
     PickLookup, PickWrite, PickRefreshed, PickEnd, inventory
<1> QED
  BY <1>1, <1>2, <1>3, <1>4

\* The files of the inventory keep the ids and names of files there are.
LEMMA FilesNamedNext == TypeOK /\ FilesNamed /\ [Next]_vars => FilesNamed'
<1> SUFFICES ASSUME TypeOK, FilesNamed, [Next]_vars PROVE FilesNamed'
  OBVIOUS
<1>1. ASSUME files' \subseteq files, UNCHANGED pick PROVE FilesNamed'
  BY <1>1 DEF FilesNamed, Named
<1>2. ASSUME NEW a \in Admins, Post(a) PROVE FilesNamed'
  <2>1. ASSUME NEW e \in Entries, SyncUpsert(a, e) PROVE FilesNamed'
    BY <2>1 DEF SyncUpsert, FilesNamed, Named, PutFile
  <2>2. ASSUME ~\E e \in Entries : SyncUpsert(a, e) PROVE files' \subseteq files
    BY <1>2, <2>2, PostCases DEF PostAuthFiles, SyncStart, SyncReadOld, SyncDropListed,
       SyncMigrate, SyncDropAll, SyncPrune, SyncCredential, SyncEnd, SyncFails, inventory
  <2> QED
    BY <1>1, <1>2, <2>1, <2>2, Frames
<1>3. ASSUME Pick PROVE FilesNamed'
  <2>1. ASSUME NEW c \in Candidates, PickLookup(c) PROVE FilesNamed'
    <3>1. UNCHANGED files /\ pick \in PickType
      BY <2>1 DEF PickLookup, inventory, TypeOK
    <3>2. ASSUME NEW f \in FilesAnswering(c.auth),
                 pick' = [pick EXCEPT !.pc = "file", !.left = @ \ {c},
                                      !.row = [f EXCEPT !.provider = c.provider]]
          PROVE  FilesNamed'
      <4>1. f \in files /\ f \in EntryType
        BY DEF FilesAnswering, TypeOK
      <4>2. pick'.row.id = f.id /\ pick'.row.name = f.name
        BY <3>1, <3>2, <4>1 DEF PickType, EntryType
      <4>3. Named(pick'.row)
        BY <4>1, <4>2 DEF FilesNamed, Named
      <4> QED
        BY <3>1, <4>3 DEF FilesNamed
    <3>3. pick'.pc = "file" => \E f \in FilesAnswering(c.auth) :
                pick' = [pick EXCEPT !.pc = "file", !.left = @ \ {c},
                                     !.row = [f EXCEPT !.provider = c.provider]]
      BY <2>1, <3>1 DEF PickLookup, PickType
    <3> QED
      BY <3>1, <3>2, <3>3 DEF FilesNamed
  <2>2. CASE PickWrite
    <3>1. pick'.pc = "refresh"
      BY <2>2 DEF PickWrite, TypeOK, PickType
    <3> QED
      BY <2>2, <3>1 DEF PickWrite, FilesNamed, Named, PutFile
  <2>3. ASSUME ~PickWrite, ~\E c \in Candidates : PickLookup(c)
        PROVE  UNCHANGED files /\ pick'.pc # "file"
    <3>1. pick \in PickType /\ NoPick.pc = "idle"
      BY DEF TypeOK, NoPick
    <3>2. CASE PickBindings \/ PickScoped \/ PickRefreshed \/ PickEnd
      BY <3>1, <3>2 DEF PickBindings, PickScoped, PickRefreshed, PickEnd, inventory, PickType
    <3>3. ASSUME NEW k \in Keys, NEW C \in CandidateLists, PickStart(k, C)
          PROVE  UNCHANGED files /\ pick'.pc # "file"
      BY <3>1, <3>3 DEF PickStart, inventory, PickType
    <3>4. ASSUME NEW t \in Targets, PickGroup(t) \/ PickTarget(t)
          PROVE  UNCHANGED files /\ pick'.pc # "file"
      BY <3>1, <3>4 DEF PickGroup, PickTarget, inventory, PickType
    <3> QED
      BY <1>3, <2>3, <3>2, <3>3, <3>4, PickCases
  <2> QED
    BY <2>1, <2>2, <2>3 DEF FilesNamed
<1> QED
  BY <1>1, <1>2, <1>3, Frames DEF Next, inventory, vars

\* Configured credentials are never inferred from a file.
LEMMA CredentialPut ==
  ASSUME FilesNamed, NoneInferred, NEW i \in Configured
  PROVE  \A j \in PutInstance(instances, i) : j.url \/ j.auth \notin AliasesOf(files)
<1>1. AliasesOf(files) \subseteq AliasesOf(Entries)
  BY AliasesMember DEF FilesNamed, Named
<1> QED
  BY <1>1, CredentialAssumption DEF NoneInferred, PutInstance

\* The history variable says what its name says.
LEMMA AloneNext == AloneIsAlone /\ [Next]_vars => AloneIsAlone'
<1>1. CASE UNCHANGED vars
  BY <1>1 DEF vars, AloneIsAlone
<1>2. CASE Next
  <2>1. \A a \in alone' : /\ a \in Admins /\ sync'[a].pc # "idle" /\ pick'.pc = "idle"
                          /\ \A b \in Admins \ {a} : sync'[b].pc = "idle"
    BY <1>2 DEF Next
  <2> QED
    BY <2>1 DEF AloneIsAlone
<1> QED
  BY <1>1, <1>2

\* An idle call starts as an upload of files or as a sync.
LEMMA Begins ==
  ASSUME TypeOK, NEW a \in Admins, Post(a), sync[a].pc = "idle"
  PROVE  /\ UNCHANGED <<files, instances>> /\ ~synced'
         /\ sync'[a].pc \in {"old", "upsert"}
         /\ sync'[a].todo = sync'[a].snap
         /\ sync'[a].pc = "upsert" => ~sync'[a].full
         /\ \A b \in Admins \ {a} : sync'[b] = sync[b]
<1>1. (\E S \in Listings : PostAuthFiles(a, S)) \/ SyncStart(a)
  BY PostCases DEF SyncReadOld, SyncUpsert, SyncDropListed, SyncMigrate, SyncDropAll,
     SyncPrune, SyncCredential, SyncEnd, SyncFails
<1>2. sync \in [Admins -> SyncType]
  BY DEF TypeOK
<1>3. ASSUME NEW S, PostAuthFiles(a, S)
      PROVE  sync' = [sync EXCEPT ![a] = [NoSync EXCEPT !.pc = "upsert", !.snap = S, !.todo = S]]
  BY <1>3 DEF PostAuthFiles
<1>4. ASSUME SyncStart(a)
      PROVE  sync' = [sync EXCEPT ![a] = [NoSync EXCEPT !.pc = "old", !.snap = host,
                                                        !.todo = host, !.full = TRUE]]
  BY <1>4 DEF SyncStart
<1>5. UNCHANGED <<files, instances>> /\ ~synced'
  BY <1>1 DEF PostAuthFiles, SyncStart, inventory
<1>6. ASSUME NEW r, sync' = [sync EXCEPT ![a] = r]
      PROVE  sync'[a] = r /\ \A b \in Admins \ {a} : sync'[b] = sync[b]
  BY <1>2, <1>6
<1>7. CASE \E S \in Listings : PostAuthFiles(a, S)
  <2>1. PICK S \in Listings : PostAuthFiles(a, S)
    BY <1>7
  <2> DEFINE r == [NoSync EXCEPT !.pc = "upsert", !.snap = S, !.todo = S]
  <2>2. r.pc = "upsert" /\ r.todo = r.snap /\ ~r.full
    BY DEF NoSync
  <2> HIDE DEF r
  <2>3. sync' = [sync EXCEPT ![a] = r]
    BY <1>3, <2>1 DEF r
  <2> QED
    BY <1>5, <1>6, <2>2, <2>3
<1>8. CASE SyncStart(a)
  <2> DEFINE r == [NoSync EXCEPT !.pc = "old", !.snap = host, !.todo = host, !.full = TRUE]
  <2>1. r.pc = "old" /\ r.todo = r.snap
    BY DEF NoSync
  <2> HIDE DEF r
  <2>2. sync' = [sync EXCEPT ![a] = r]
    BY <1>4, <1>8 DEF r
  <2> QED
    BY <1>5, <1>6, <2>1, <2>2
<1> QED
  BY <1>1, <1>7, <1>8

\* Only the call itself changes what it has to do.
LEMMA OneCall ==
  ASSUME TypeOK, NEW a \in Admins, Post(a)
  PROVE  \A b \in Admins \ {a} : sync'[b] = sync[b]
<1>1. sync \in [Admins -> SyncType]
  BY DEF TypeOK
<1> QED
  BY <1>1, PostCases DEF PostAuthFiles, SyncStart, SyncReadOld, SyncUpsert, SyncDropListed,
     SyncMigrate, SyncDropAll, SyncPrune, SyncCredential, SyncEnd, SyncFails

LEMMA TodoListedNext == TypeOK /\ TodoListed /\ [Next]_vars => TodoListed'
<1> SUFFICES ASSUME TypeOK, TodoListed, [Next]_vars PROVE TodoListed'
  OBVIOUS
<1>1. ASSUME UNCHANGED sync PROVE TodoListed'
  BY <1>1 DEF TodoListed
<1>2. ASSUME NEW a \in Admins, Post(a) PROVE TodoListed'
  <2>1. CASE sync[a].pc = "idle"
    BY <1>2, <2>1, Begins DEF TodoListed
  <2>2. CASE sync[a].pc # "idle"
    <3>0. sync \in [Admins -> SyncType] /\ sync[a] \in SyncType /\ NoSync.pc = "idle"
      BY DEF TypeOK, NoSync
    <3>1. /\ sync'[a].pc # "old"
          /\ sync'[a].pc = "upsert" => sync'[a].todo \subseteq sync'[a].snap
      <4>1. CASE SyncDropListed(a) \/ SyncMigrate(a) \/ SyncDropAll(a)
        BY <3>0, <4>1 DEF SyncDropListed, SyncMigrate, SyncDropAll, SyncType
      <4>2. CASE SyncPrune(a) \/ SyncEnd(a) \/ SyncFails(a)
        BY <3>0, <4>2 DEF SyncPrune, SyncEnd, SyncFails, NoSync
      <4>3. CASE SyncReadOld(a)
        BY <3>0, <4>3 DEF SyncReadOld, TodoListed, SyncType
      <4>4. ASSUME NEW x, SyncUpsert(a, x)
            PROVE  /\ sync'[a].pc # "old"
                   /\ sync'[a].todo \subseteq sync'[a].snap
        BY <3>0, <4>4 DEF SyncUpsert, TodoListed, SyncType
      <4>5. ASSUME NEW x, SyncCredential(a, x) PROVE sync'[a].pc = "credentials"
        BY <3>0, <4>5 DEF SyncCredential, SyncType
      <4> QED
        BY <1>2, <2>2, <4>1, <4>2, <4>3, <4>4, <4>5, PostCases DEF PostAuthFiles, SyncStart
    <3> QED
      BY <1>2, <3>1, OneCall DEF TodoListed
  <2> QED
    BY <2>1, <2>2
<1> QED
  BY <1>1, <1>2, Frames DEF Next, vars

\* A sync that runs alone goes on.
LEMMA OwnStep ==
  ASSUME SyncInv, NEW a \in alone, Post(a), sync'[a].pc # "idle"
  PROVE  Progress(a)'
<1> DEFINE s == sync[a]
<1>0. /\ a \in Admins /\ s.pc # "idle" /\ Progress(a)
      /\ s \in SyncType /\ sync \in [Admins -> SyncType]
      /\ \A e, f \in s.snap : e.id = f.id => e = f
  <2>1. a \in Admins /\ sync \in [Admins -> SyncType]
    BY DEF SyncInv, TypeOK
  <2>2. s.snap \in Listings
    BY <2>1 DEF SyncType
  <2> QED
    BY <2>1, <2>2, ListingIds DEF SyncInv, AloneIsAlone
<1>1. ASSUME SyncReadOld(a) PROVE Progress(a)'
  <2>1. sync'[a] = [s EXCEPT !.pc = "upsert", !.aliases = AliasesOf(files)] /\ UNCHANGED files
    BY <1>0, <1>1 DEF SyncReadOld, inventory
  <2>2. s.snap = s.todo
    BY <1>0, <1>1 DEF SyncReadOld, SyncInv, TodoListed
  <2>3. \A f \in files : Aliases(f) \subseteq AliasesOf(files)
    BY DEF AliasesOf
  <2> QED
    BY <1>0, <2>1, <2>2, <2>3 DEF Progress, SyncType
<1>2. ASSUME NEW e \in Entries, SyncUpsert(a, e) PROVE Progress(a)'
  <2>1. /\ sync'[a] = [s EXCEPT !.todo = @ \ {e}] /\ s.pc = "upsert" /\ e \in s.todo
        /\ files' = PutFile(files, e)
    BY <1>0, <1>2 DEF SyncUpsert
  <2>2. /\ sync'[a].pc = "upsert" /\ sync'[a].full = s.full /\ sync'[a].snap = s.snap
        /\ sync'[a].todo = s.todo \ {e} /\ sync'[a].aliases = s.aliases
    BY <1>0, <2>1 DEF SyncType
  <2>3. ASSUME s.full
        PROVE  /\ s.snap \subseteq files' \cup (s.todo \ {e})
               /\ \A f \in files' : f \in s.snap \/ Aliases(f) \subseteq s.aliases
    <3>1. /\ s.snap \subseteq files \cup s.todo
          /\ \A f \in files : f \in s.snap \/ Aliases(f) \subseteq s.aliases
      BY <1>0, <2>1, <2>3 DEF Progress
    <3>2. e \in s.snap
      BY <1>0, <2>1 DEF SyncInv, TodoListed
    <3> QED
      BY <1>0, <2>1, <3>1, <3>2 DEF PutFile
  <2> QED
    BY <2>2, <2>3 DEF Progress
<1>3. ASSUME SyncDropListed(a) PROVE Progress(a)'
  <2>1. s.full /\ sync'[a] = [s EXCEPT !.pc = "migrate"] /\ s.pc = "upsert" /\ s.todo = {}
    BY <1>0, <1>3 DEF SyncDropListed, NoSync
  <2>2. UNCHANGED files
    BY <1>3 DEF SyncDropListed
  <2> QED
    BY <1>0, <2>1, <2>2 DEF Progress, SyncType
<1>4. ASSUME SyncMigrate(a) PROVE Progress(a)'
  <2>1. sync'[a] = [s EXCEPT !.pc = "dropAll"] /\ s.pc = "migrate" /\ UNCHANGED files
    BY <1>0, <1>4 DEF SyncMigrate, inventory
  <2> QED
    BY <1>0, <2>1 DEF Progress, SyncType
<1>5. ASSUME SyncDropAll(a) PROVE Progress(a)'
  <2>1. /\ sync'[a] = [s EXCEPT !.pc = "prune"] /\ s.pc = "dropAll" /\ UNCHANGED files
        /\ instances' = WithoutInferred(instances, s.aliases \cup AliasesOf(s.snap))
    BY <1>0, <1>5 DEF SyncDropAll
  <2>2. AliasesOf(files) \subseteq s.aliases \cup AliasesOf(s.snap)
    BY <1>0, <2>1 DEF Progress, AliasesOf
  <2>3. NoneInferred'
    BY <2>1, <2>2 DEF NoneInferred, WithoutInferred
  <2> QED
    BY <1>0, <2>1, <2>3 DEF Progress, SyncType
<1>6. ASSUME SyncPrune(a) PROVE Progress(a)'
  <2>1. sync'[a].pc = "credentials"
    BY <1>0, <1>6 DEF SyncPrune, NoSync
  <2> QED
    BY <2>1 DEF Progress
<1>7. ASSUME NEW i \in Configured, SyncCredential(a, i) PROVE Progress(a)'
  <2>1. sync'[a].pc = "credentials"
    BY <1>0, <1>7 DEF SyncCredential, SyncType
  <2> QED
    BY <2>1 DEF Progress
<1>8. ~SyncEnd(a) /\ ~SyncFails(a)
  BY <1>0 DEF SyncEnd, SyncFails, NoSync
<1> QED
  BY <1>0, <1>1, <1>2, <1>3, <1>4, <1>5, <1>6, <1>7, <1>8, PostCases
     DEF PostAuthFiles, SyncStart

\* A sync that stays alone makes its progress, and nobody undoes it.
LEMMA ProgressNext ==
  ASSUME SyncInv, [Next]_vars, AloneIsAlone', NEW a \in alone'
  PROVE  Progress(a)'
<1>0. a \in Admins /\ TypeOK
  <2>1. alone' \subseteq Admins
    BY HistoryStep DEF SyncInv
  <2> QED
    BY <2>1 DEF SyncInv
<1>1. CASE UNCHANGED vars
  BY <1>1 DEF vars, SyncInv, Progress, NoneInferred
<1>2. CASE Next /\ a \notin alone
  <2>1. sync[a].pc = "idle" /\ sync'[a].pc # "idle"
    BY <1>2 DEF Next
  <2>2. Post(a)
    <3>1. sync' # sync
      BY <2>1
    <3>2. PICK b \in Admins : Post(b)
      BY <1>2, <3>1, Frames DEF Next
    <3>3. a = b
      <4>1. sync'[a] # sync[a]
        BY <2>1
      <4>2. \A c \in Admins \ {b} : sync'[c] = sync[c]
        BY <1>0, <3>2, OneCall
      <4> QED
        BY <1>0, <4>1, <4>2
    <3> QED
      BY <3>2, <3>3
  <2>3. /\ sync'[a].pc \in {"old", "upsert"}
        /\ sync'[a].pc = "upsert" => ~sync'[a].full
    <3> a \in Admins /\ TypeOK /\ Post(a) /\ sync[a].pc = "idle"
      BY <1>0, <2>1, <2>2
    <3> QED
      BY Begins
  <2> QED
    BY <2>3 DEF Progress
<1>3. CASE Next /\ a \in alone
  <2>1. /\ pick.pc = "idle" /\ pick'.pc = "idle" /\ Progress(a) /\ sync'[a].pc # "idle"
        /\ \A b \in Admins \ {a} : sync[b].pc = "idle" /\ sync'[b].pc = "idle"
    BY <1>0, <1>3 DEF SyncInv, AloneIsAlone
  <2>2. CASE Post(a)
    BY <1>3, <2>1, <2>2, OwnStep
  <2>3. ASSUME NEW b \in Admins \ {a}, Post(b) PROVE FALSE
    BY <1>0, <2>1, <2>3, Begins
  <2>4. CASE Pick
    <3>1. PICK k \in Keys, C \in CandidateLists : PickStart(k, C)
      BY <2>1, <2>4, PickCases DEF PickBindings, PickGroup, PickTarget, PickScoped,
         PickLookup, PickWrite, PickRefreshed, PickEnd
    <3>2. pick'.pc = "bindings"
      BY <1>0, <3>1 DEF PickStart, TypeOK, PickType
    <3> QED
      BY <2>1, <3>2
  <2>5. ASSUME NEW i \in Configured, PostItem(i) PROVE Progress(a)'
    <3>1. NoneInferred => NoneInferred'
      <4>1. instances' = PutInstance(instances, i) /\ UNCHANGED files
        BY <2>5 DEF PostItem
      <4> QED
        BY <2>5, <4>1, CredentialPut DEF SyncInv, NoneInferred
    <3>2. UNCHANGED <<files, sync>>
      BY <2>5, Frames
    <3> QED
      BY <2>1, <3>1, <3>2 DEF Progress
  <2>6. CASE Manage \/ \E e \in Entries : HostChange(e)
    <3>1. UNCHANGED <<files, instances, sync>>
      BY <2>6, Frames DEF inventory
    <3> QED
      BY <2>1, <3>1 DEF Progress, NoneInferred
  <2> QED
    BY <1>3, <2>2, <2>3, <2>4, <2>5, <2>6 DEF Next
<1> QED
  BY <1>1, <1>2, <1>3

\* The prune of a sync that ran alone settles the inventory.
LEMMA PruneSettles ==
  ASSUME SyncInv, NEW a \in Admins, SyncPrune(a), synced'
  PROVE  Settled'
<1> DEFINE s == sync[a]
<1>1. /\ a \in alone /\ s.pc = "prune" /\ s.snap = host
      /\ files' = {f \in files : f.id \in {e.id : e \in s.snap}}
      /\ UNCHANGED <<instances, host, pick>>
  BY DEF SyncPrune
<1>2. /\ pick.pc = "idle" /\ \A b \in Admins \ {a} : sync[b].pc = "idle"
      /\ s.snap \subseteq files /\ NoneInferred
  <2>1. Progress(a)
    BY <1>1 DEF SyncInv
  <2> QED
    BY <1>1, <2>1 DEF SyncInv, AloneIsAlone, Progress
<1>3. {f.id : f \in files'} = {e.id : e \in host'}
  BY <1>1, <1>2
<1>4. NoneInferred'
  <2>1. AliasesOf(files') \subseteq AliasesOf(files)
    BY <1>1, AliasesMember
  <2> QED
    BY <1>1, <1>2, <2>1 DEF NoneInferred
<1>5. \A b \in Admins : sync'[b].pc \in {"idle", "credentials"}
  <2>1. sync \in [Admins -> SyncType]
    BY DEF SyncInv, TypeOK
  <2>2. PICK C \in SUBSET Configured :
          sync' = [sync EXCEPT ![a] = [NoSync EXCEPT !.pc = "credentials", !.todo = C]]
    BY DEF SyncPrune
  <2>3. sync'[a].pc = "credentials"
    BY <2>1, <2>2 DEF NoSync
  <2> QED
    BY <1>2, <2>1, <2>2, <2>3
<1> QED
  BY <1>1, <1>2, <1>3, <1>4, <1>5 DEF Settled

\* What a pick does to a settled inventory.
LEMMA PickSettled ==
  ASSUME SyncInv, Settled, synced, Pick
  PROVE  Settled'
<1>0. /\ pick \in PickType /\ NoPick.pc = "idle"
      /\ \A f \in files : f \in EntryType
      /\ pick.pc = "file" => pick.row \in EntryType
  BY DEF SyncInv, TypeOK, NoPick
<1>1. UNCHANGED <<host, sync>> /\ synced'
  BY Frames
<1>2. /\ {f.id : f \in files} = {e.id : e \in host}
      /\ NoneInferred
      /\ \A a \in Admins : sync[a].pc \in {"idle", "credentials"}
  BY DEF Settled
<1>3. ASSUME UNCHANGED <<files, instances>>, pick'.pc \notin {"file", "instance"}
      PROVE  Settled'
  BY <1>1, <1>2, <1>3 DEF Settled, NoneInferred
<1>4. CASE PickBindings \/ PickScoped \/ PickRefreshed \/ PickEnd
  BY <1>0, <1>3, <1>4 DEF PickBindings, PickScoped, PickRefreshed, PickEnd, inventory, PickType
<1>5. ASSUME NEW k \in Keys, NEW C \in CandidateLists, PickStart(k, C) PROVE Settled'
  BY <1>0, <1>3, <1>5 DEF PickStart, inventory, PickType
<1>6. ASSUME NEW t \in Targets, PickGroup(t) \/ PickTarget(t) PROVE Settled'
  BY <1>0, <1>3, <1>6 DEF PickGroup, PickTarget, inventory, PickType
<1>7. ASSUME NEW c \in Candidates, PickLookup(c) PROVE Settled'
  <2>1. UNCHANGED <<files, instances>>
    BY <1>7 DEF PickLookup, inventory
  <2>2. ASSUME NEW f \in FilesAnswering(c.auth),
               pick' = [pick EXCEPT !.pc = "file", !.left = @ \ {c},
                                    !.row = [f EXCEPT !.provider = c.provider]]
        PROVE  Settled'
    <3>1. f \in files
      BY DEF FilesAnswering
    <3>2. pick'.pc = "file" /\ pick'.row.id = f.id /\ pick'.row.name = f.name
      BY <1>0, <2>2, <3>1 DEF PickType, EntryType
    <3> QED
      BY <1>1, <1>2, <2>1, <3>1, <3>2 DEF Settled, NoneInferred
  <2>3. ASSUME FilesAnswering(c.auth) = {}, NEW url,
               pick' = [pick EXCEPT !.pc = "instance", !.left = @ \ {c},
                                    !.row = [c EXCEPT !.url = url]]
        PROVE  Settled'
    <3>1. c.auth \notin AliasesOf(files)
      BY <2>3, AliasesMember DEF FilesAnswering
    <3>2. pick'.pc = "instance" /\ pick'.row.auth = c.auth
      BY <1>0, <2>3, InventoryAssumption DEF PickType, Instances
    <3> QED
      BY <1>1, <1>2, <2>1, <3>1, <3>2 DEF Settled, NoneInferred
  <2> QED
    BY <1>7, <2>2, <2>3 DEF PickLookup
<1>8. CASE PickWrite
  <2>1. pick'.pc = "refresh"
    BY <1>0, <1>8 DEF PickWrite, PickType
  <2>2. CASE pick.pc = "file" /\ files' = PutFile(files, pick.row) /\ UNCHANGED instances
    <3>1. PICK f \in files : f.id = pick.row.id /\ f.name = pick.row.name
      BY <2>2 DEF Settled
    <3>2. {g.id : g \in files'} = {g.id : g \in files}
      BY <2>2, <3>1 DEF PutFile
    <3>3. AliasesOf(files') \subseteq AliasesOf(files)
      BY <2>2, <3>1, AliasesMember DEF PutFile
    <3> QED
      BY <1>1, <1>2, <2>1, <2>2, <3>2, <3>3 DEF Settled, NoneInferred
  <2>3. CASE pick.pc = "instance" /\ instances' = PutInstance(instances, pick.row) /\ UNCHANGED files
    <3>1. pick.row.url \/ pick.row.auth \notin AliasesOf(files)
      BY <2>3 DEF Settled
    <3>2. NoneInferred'
      BY <1>2, <2>3, <3>1 DEF NoneInferred, PutInstance
    <3> QED
      BY <1>1, <1>2, <2>1, <2>3, <3>2 DEF Settled
  <2> QED
    BY <1>8, <2>2, <2>3 DEF PickWrite
<1> QED
  BY <1>4, <1>5, <1>6, <1>7, <1>8, PickCases

LEMMA SettledNext == SyncInv /\ [Next]_vars => Settled'
<1> SUFFICES ASSUME SyncInv, [Next]_vars, synced' PROVE Settled'
  BY DEF Settled
<1>0. Settled /\ TypeOK
  BY DEF SyncInv
<1>1. CASE UNCHANGED vars
  BY <1>0, <1>1 DEF vars, Settled, NoneInferred
<1>2. CASE Manage
  <2>1. UNCHANGED <<files, instances, host, sync, pick, synced>>
    BY <1>2, Frames DEF inventory
  <2> QED
    BY <1>0, <2>1 DEF Settled, NoneInferred
<1>3. ASSUME NEW a \in Admins, Post(a) PROVE Settled'
  <2>1. CASE SyncPrune(a)
    BY <2>1, PruneSettles
  <2>2. CASE ~SyncPrune(a)
    <3>1. sync[a].pc # "idle"
      BY <1>0, <1>3, Begins
    <3>2. synced
      BY <1>3, <2>2, <3>1, PostCases DEF PostAuthFiles, SyncStart, SyncReadOld, SyncUpsert,
         SyncDropListed, SyncMigrate, SyncDropAll, SyncCredential, SyncEnd, SyncFails
    <3>3. sync[a].pc = "credentials" /\ UNCHANGED <<host, pick>>
      BY <1>0, <1>3, <3>1, <3>2, Frames DEF Settled
    <3>4. \/ \E i \in Configured : SyncCredential(a, i)
          \/ SyncEnd(a) \/ SyncFails(a)
      BY <1>3, <3>3, PostCases DEF PostAuthFiles, SyncStart, SyncReadOld, SyncUpsert,
         SyncDropListed, SyncMigrate, SyncDropAll, SyncPrune
    <3>5. UNCHANGED files /\ NoneInferred'
      <4>1. ASSUME NEW i \in Configured, SyncCredential(a, i) PROVE UNCHANGED files /\ NoneInferred'
        <5>1. instances' = PutInstance(instances, i) /\ UNCHANGED files
          BY <4>1 DEF SyncCredential
        <5>2. FilesNamed /\ NoneInferred
          BY <1>0, <3>2 DEF SyncInv, Settled
        <5> QED
          BY <5>1, <5>2, CredentialPut DEF NoneInferred
      <4>2. CASE SyncEnd(a) \/ SyncFails(a)
        BY <1>0, <3>2, <4>2 DEF SyncEnd, SyncFails, inventory, Settled, NoneInferred
      <4> QED
        BY <3>4, <4>1, <4>2
    <3>6. sync'[a].pc \in {"idle", "credentials"}
      <4>1. sync \in [Admins -> SyncType] /\ NoSync.pc = "idle"
        BY <1>0 DEF TypeOK, NoSync
      <4> QED
        BY <3>3, <3>4, <4>1 DEF SyncCredential, SyncEnd, SyncFails, SyncType
    <3>7. \A b \in Admins \ {a} : sync'[b] = sync[b]
      BY <1>0, <1>3, OneCall
    <3> QED
      BY <1>0, <3>2, <3>3, <3>5, <3>6, <3>7 DEF Settled
  <2> QED
    BY <2>1, <2>2
<1>4. CASE Pick
  <2>1. synced
    BY <1>4, Frames
  <2> QED
    BY <1>0, <1>4, <2>1, PickSettled
<1> QED
  BY <1>1, <1>2, <1>3, <1>4, Frames DEF Next

\* SyncAuthFiles makes the inventory the host's files, whatever was there and whatever
\* earlier calls left half done: a sync beside which no other inventory call and no pick
\* runs leaves the ids the host has, and no instance inferred from one of their aliases.
THEOREM SyncLeavesHostFiles == Spec => []SyncComplete
<1>1. Init => SyncInv
  <2> SUFFICES ASSUME Init
               PROVE  FilesNamed /\ AloneIsAlone /\ TodoListed /\ (\A a \in alone : Progress(a)) /\ Settled
    BY InitTyped DEF SyncInv
  <2>1. files = {} /\ alone = {} /\ ~synced /\ pick.pc = "idle" /\ \A a \in Admins : sync[a].pc = "idle"
    BY DEF Init, NoPick, NoSync
  <2> QED
    BY <2>1 DEF FilesNamed, AloneIsAlone, TodoListed, Settled
<1>2. SyncInv /\ [Next]_vars => SyncInv'
  <2> SUFFICES ASSUME SyncInv, [Next]_vars PROVE SyncInv'
    OBVIOUS
  <2>1. TypeOK' /\ FilesNamed' /\ AloneIsAlone' /\ TodoListed' /\ Settled'
    BY TypeNext, FilesNamedNext, AloneNext, TodoListedNext, SettledNext DEF SyncInv
  <2>2. \A a \in alone' : Progress(a)'
    BY <2>1, ProgressNext
  <2> QED
    BY <2>1, <2>2 DEF SyncInv
<1>3. SyncInv => SyncComplete
  BY DEF SyncInv, Settled, SyncComplete, NoneInferred
<1> QED
  BY <1>1, <1>2, <1>3, PTL DEF Spec
-----------------------------------------------------------------------------
(* A pick answers with what its key was allowed.                            *)

Known == Configured \cup Inferred \cup Candidates
InKnown(i) == \E j \in Known : j.provider = i.provider /\ j.auth = i.auth

\* Instance rows are those of known credentials and candidates.
RowsKnown ==
    /\ \A i \in instances : InKnown(i)
    /\ pick.pc = "instance" => InKnown(pick.row)

\* A pick starts with nothing, and what its key is allowed now has been granted.
PickFresh ==
    /\ pick.pc = "idle" => pick = NoPick
    /\ pick.pc = "bindings" => pick.auths = {} /\ pick.insts = {}
    /\ pick.pc # "idle" => AllowedNow(pick.key) \subseteq granted

\* With one provider for each account, a target allows these two ways only.
TargetAllows(t, c) == t \in {AuthTarget(c.auth), InstanceTarget(c.provider, c.auth)}
Lends(t) == \A c \in Candidates : TargetAllows(t, c) => c \in granted

\* What the scope lends was granted, and so is what its targets to do will lend; a
\* group to do is still bound.
ScopeGranted ==
    pick.pc # "idle" /\ steady =>
        /\ \A c \in Candidates : Allows(pick.auths, pick.insts, c) => c \in granted
        /\ pick.pc = "scope" =>
             \A t \in pick.todo : IF t.type = "group" THEN t \in bindings[pick.key] ELSE Lends(t)

PickInv == TypeOK /\ RowsKnown /\ PickFresh /\ ScopeGranted

LEMMA RowsKnownNext == TypeOK /\ RowsKnown /\ [Next]_vars => RowsKnown'
<1> SUFFICES ASSUME TypeOK, RowsKnown, [Next]_vars PROVE RowsKnown'
  OBVIOUS
<1>1. ASSUME NEW i, InKnown(i), instances' = PutInstance(instances, i)
      PROVE  \A j \in instances' : InKnown(j)
  BY <1>1 DEF RowsKnown, PutInstance
<1>2. ASSUME instances' \subseteq instances, UNCHANGED pick PROVE RowsKnown'
  BY <1>2 DEF RowsKnown, InKnown
<1>3. ASSUME NEW i \in Configured, instances' = PutInstance(instances, i), UNCHANGED pick
      PROVE  RowsKnown'
  <2>1. InKnown(i)
    BY DEF InKnown, Known
  <2> QED
    BY <1>1, <1>3, <2>1 DEF RowsKnown, InKnown
<1>4. ASSUME NEW a \in Admins, Post(a) PROVE RowsKnown'
  <2>1. ASSUME NEW i \in Configured, SyncCredential(a, i) PROVE RowsKnown'
    BY <1>3, <2>1 DEF SyncCredential
  <2>2. ASSUME ~\E i \in Configured : SyncCredential(a, i) PROVE instances' \subseteq instances
    BY <1>4, <2>2, PostCases DEF PostAuthFiles, SyncStart, SyncReadOld, SyncUpsert, SyncDropListed,
       SyncMigrate, SyncDropAll, SyncPrune, SyncEnd, SyncFails, inventory, WithoutInferred
  <2> QED
    BY <1>2, <1>4, <2>1, <2>2, Frames
<1>5. CASE Pick
  <2>0. pick \in PickType /\ NoPick.pc = "idle"
    BY DEF TypeOK, NoPick
  <2>1. ASSUME NEW c \in Candidates, PickLookup(c) PROVE RowsKnown'
    <3>1. UNCHANGED instances
      BY <2>1 DEF PickLookup, inventory
    <3>2. ASSUME NEW url, pick' = [pick EXCEPT !.pc = "instance", !.left = @ \ {c},
                                               !.row = [c EXCEPT !.url = url]]
          PROVE  RowsKnown'
      <4>1. pick'.row.provider = c.provider /\ pick'.row.auth = c.auth
        BY <2>0, <3>2, InventoryAssumption DEF PickType, Instances
      <4>2. InKnown(pick'.row)
        BY <4>1 DEF InKnown, Known
      <4> QED
        BY <3>1, <4>2 DEF RowsKnown, InKnown
    <3>3. ASSUME NEW f, pick' = [pick EXCEPT !.pc = "file", !.left = @ \ {c},
                                             !.row = [f EXCEPT !.provider = c.provider]]
          PROVE  RowsKnown'
      <4>1. pick'.pc = "file"
        BY <2>0, <3>3 DEF PickType
      <4> QED
        BY <3>1, <4>1 DEF RowsKnown, InKnown
    <3> QED
      BY <2>1, <3>2, <3>3 DEF PickLookup
  <2>2. CASE PickWrite
    <3>1. pick'.pc = "refresh"
      BY <2>0, <2>2 DEF PickWrite, PickType
    <3>2. \A j \in instances' : InKnown(j)
      BY <1>1, <2>2 DEF PickWrite, RowsKnown
    <3> QED
      BY <3>1, <3>2 DEF RowsKnown, InKnown
  <2>3. ASSUME UNCHANGED instances, pick'.pc # "instance" PROVE RowsKnown'
    BY <2>3 DEF RowsKnown, InKnown
  <2>4. CASE PickBindings \/ PickScoped \/ PickRefreshed \/ PickEnd
    BY <2>0, <2>3, <2>4 DEF PickBindings, PickScoped, PickRefreshed, PickEnd, inventory, PickType
  <2>5. ASSUME NEW k \in Keys, NEW C \in CandidateLists, PickStart(k, C) PROVE RowsKnown'
    BY <2>0, <2>3, <2>5 DEF PickStart, inventory, PickType
  <2>6. ASSUME NEW t \in Targets, PickGroup(t) \/ PickTarget(t) PROVE RowsKnown'
    BY <2>0, <2>3, <2>6 DEF PickGroup, PickTarget, inventory, PickType
  <2> QED
    BY <1>5, <2>1, <2>2, <2>4, <2>5, <2>6, PickCases
<1>6. ASSUME NEW i \in Configured, PostItem(i) PROVE RowsKnown'
  BY <1>3, <1>6 DEF PostItem
<1>7. CASE Manage \/ (\E e \in Entries : HostChange(e)) \/ UNCHANGED vars
  BY <1>2, <1>7, Frames DEF inventory, vars
<1> QED
  BY <1>4, <1>5, <1>6, <1>7 DEF Next

\* What the bindings of the picking key come to now has been granted.
LEMMA LentNow ==
  ASSUME TypeOK, PickFresh, pick.pc # "idle",
         NEW t \in Flat(bindings[pick.key], members), t.type # "group"
  PROVE  Lends(t)
<1> SUFFICES ASSUME NEW c \in Candidates, TargetAllows(t, c)
             PROVE  c \in AllowedNow(pick.key)
  BY DEF Lends, PickFresh
<1> DEFINE T == Flat(bindings[pick.key], members)
<1>1. \/ c.auth \in UNION {AuthsOf(u, instances) : u \in T}
      \/ <<c.provider, c.auth>> \in UNION {InstancesOf(u) : u \in T}
  <2>1. CASE t = AuthTarget(c.auth)
    <3>1. c.auth \in AuthsOf(t, instances)
      BY <2>1 DEF AuthTarget, AuthsOf
    <3> QED
      BY <3>1
  <2>2. CASE t = InstanceTarget(c.provider, c.auth)
    <3>1. <<c.provider, c.auth>> \in InstancesOf(t)
      BY <2>2 DEF InstanceTarget, InstancesOf
    <3> QED
      BY <3>1
  <2> QED
    BY <2>1, <2>2 DEF TargetAllows
<1> QED
  BY <1>1 DEF AllowedNow, Allows

\* A target lends nothing but what it allows.
LEMMA LendsOnly ==
  ASSUME OneProviderPerAuth, TypeOK, RowsKnown, NEW t \in Targets, t.type # "group",
         NEW c \in Candidates, Allows(AuthsOf(t, instances), InstancesOf(t), c)
  PROVE  TargetAllows(t, c)
<1>1. CASE t.type = "auth"
  <2>1. AuthsOf(t, instances) = {t.id} /\ InstancesOf(t) = {}
    BY <1>1 DEF AuthsOf, InstancesOf
  <2>2. t = AuthTarget(t.id)
    BY <1>1 DEF Targets, MemberTargets, AuthTarget, InstanceTarget, GroupTarget
  <2> QED
    BY <2>1, <2>2 DEF Allows, TargetAllows
<1>2. CASE t.type = "instance"
  <2>1. t = InstanceTarget(t.provider, t.id)
    BY <1>2 DEF Targets, MemberTargets, AuthTarget, InstanceTarget, GroupTarget
  <2>2. CASE c.auth \in AuthsOf(t, instances)
    <3>1. PICK i \in instances : i.provider = t.provider /\ i.auth = t.id /\ c.auth = i.auth
      BY <1>2, <2>2 DEF AuthsOf, InstanceRow
    <3>2. PICK j \in Known : j.provider = i.provider /\ j.auth = i.auth
      BY <3>1 DEF RowsKnown, InKnown
    <3>3. c.provider = t.provider
      BY <3>1, <3>2 DEF OneProviderPerAuth, Known
    <3> QED
      BY <2>1, <3>1, <3>3 DEF TargetAllows
  <2>3. CASE <<c.provider, c.auth>> \in InstancesOf(t)
    <3>1. c.provider = t.provider /\ c.auth = t.id
      BY <1>2, <2>3 DEF InstancesOf
    <3> QED
      BY <2>1, <3>1 DEF TargetAllows
  <2> QED
    BY <2>2, <2>3 DEF Allows
<1> QED
  BY <1>1, <1>2 DEF Targets, MemberTargets, AuthTarget, InstanceTarget, GroupTarget

\* As long as the pick goes on, nothing granted is taken back.
LEMMA GrantedGrows ==
  ASSUME Next, pick'.pc # "idle"
  PROVE  granted \subseteq granted' /\ (AllowedNow(pick.key))' \subseteq granted'
BY DEF Next

\* A step beside the pick takes no group from the bindings of its key, unless an admin
\* saves the key.
LEMMA GroupsStayBound ==
  ASSUME TypeOK, Next, ~Pick, pick.pc # "idle", steady',
         NEW t \in bindings[pick.key], t.type = "group"
  PROVE  steady /\ UNCHANGED pick /\ t \in bindings'[pick.key]
<1>0. pick.key \in Keys /\ bindings \in [Keys -> SUBSET Targets]
  BY DEF TypeOK
<1>1. CASE Manage
  <2>1. ASSUME NEW k \in Keys, NEW S, ReplaceBindings(k, S)
        PROVE  steady /\ UNCHANGED pick /\ t \in bindings'[pick.key]
    BY <1>0, <2>1 DEF ReplaceBindings
  <2>2. ASSUME NEW g \in Groups, NEW S, CreateGroup(g, S) \/ UpdateGroup(g, S) \/ DeleteGroup(g)
        PROVE  UNCHANGED <<bindings, pick, steady>>
    BY <2>2 DEF CreateGroup, UpdateGroup, DeleteGroup
  <2> QED
    BY <1>1, <2>1, <2>2 DEF Manage
<1>2. ASSUME NEW a \in Admins, Post(a)
      PROVE  steady /\ UNCHANGED pick /\ t \in bindings'[pick.key]
  <2>1. UNCHANGED <<pick, steady>>
    BY <1>2, Frames
  <2>2. CASE SyncMigrate(a)
    <3>1. PICK owner \in Owners(sync[a].snap) :
            bindings' = [k \in Keys |-> Migrated(bindings[k], sync[a].snap, owner)]
      BY <2>2 DEF SyncMigrate
    <3>2. ~IsLegacy(t, sync[a].snap)
      BY DEF IsLegacy
    <3> QED
      BY <1>0, <2>1, <3>1, <3>2, MigratedMember
  <2>3. CASE ~SyncMigrate(a)
    <3>1. UNCHANGED bindings
      BY <1>2, <2>3, PostCases DEF PostAuthFiles, SyncStart, SyncReadOld, SyncUpsert,
         SyncDropListed, SyncDropAll, SyncPrune, SyncCredential, SyncEnd, SyncFails, access
    <3> QED
      BY <2>1, <3>1
  <2> QED
    BY <2>2, <2>3
<1>3. ASSUME (\E e \in Entries : HostChange(e)) \/ (\E i \in Configured : PostItem(i))
      PROVE  UNCHANGED <<bindings, pick, steady>>
  BY <1>3 DEF HostChange, PostItem, access
<1> QED
  BY <1>1, <1>2, <1>3 DEF Next

\* Other calls leave the pick as it is, and steady only ends.
LEMMA BesidePick ==
  ASSUME TypeOK, Next, ~Pick
  PROVE  UNCHANGED pick /\ (steady' => steady)
<1>1. CASE Manage
  BY <1>1 DEF Manage, ReplaceBindings, CreateGroup, UpdateGroup, DeleteGroup, TypeOK
<1>2. CASE ~Manage
  BY <1>2, Frames DEF Next
<1> QED
  BY <1>1, <1>2

LEMMA PickFreshNext == TypeOK /\ PickFresh /\ [Next]_vars => PickFresh'
<1> SUFFICES ASSUME TypeOK, PickFresh, [Next]_vars PROVE PickFresh'
  OBVIOUS
<1> DEFINE Local(p) == /\ p.pc = "idle" => p = NoPick
                       /\ p.pc = "bindings" => p.auths = {} /\ p.insts = {}
<1>1. CASE UNCHANGED vars
  BY <1>1 DEF vars, PickFresh, AllowedNow
<1>2. CASE Next
  <2>1. Local(pick) /\ pick \in PickType
    BY DEF PickFresh, TypeOK
  <2>2. ASSUME UNCHANGED pick PROVE Local(pick')
    BY <2>1, <2>2
  <2>3. ASSUME pick' = NoPick \/ pick'.pc \notin {"idle", "bindings"} PROVE Local(pick')
    BY <2>3 DEF NoPick
  <2>4. ASSUME NEW k \in Keys, NEW C \in CandidateLists, PickStart(k, C) PROVE Local(pick')
    BY <2>1, <2>4 DEF PickStart, NoPick
  <2>5. ASSUME PickBindings \/ PickScoped \/ PickRefreshed \/ PickWrite PROVE Local(pick')
    <3>1. pick' = NoPick \/ pick'.pc \notin {"idle", "bindings"}
      BY <2>1, <2>5 DEF PickBindings, PickScoped, PickRefreshed, PickWrite, PickType
    <3> QED
      BY <2>3, <3>1
  <2>6. ASSUME NEW t \in Targets, PickGroup(t) \/ PickTarget(t) PROVE Local(pick')
    <3>1. pick'.pc = "scope"
      BY <2>1, <2>6 DEF PickGroup, PickTarget, PickType
    <3> QED
      BY <2>3, <3>1
  <2>7. ASSUME NEW c \in Candidates, PickLookup(c) PROVE Local(pick')
    <3>1. pick'.pc \in {"file", "instance"}
      BY <2>1, <2>7 DEF PickLookup, PickType
    <3> QED
      BY <2>3, <3>1
  <2>8. ASSUME PickEnd PROVE Local(pick')
    BY <2>3, <2>8 DEF PickEnd
  <2>9. Local(pick')
    <3>1. CASE Pick
      BY <2>4, <2>5, <2>6, <2>7, <2>8, <3>1, PickCases
    <3>2. CASE ~Pick
      BY <1>2, <2>2, <3>2, BesidePick
    <3> QED
      BY <3>1, <3>2
  <2> QED
    BY <1>2, <2>9, GrantedGrows DEF PickFresh
<1> QED
  BY <1>1, <1>2

\* A step of the pick widens its scope by what was granted only.
LEMMA PickKeepsScope ==
  ASSUME OneProviderPerAuth, PickInv, Next, Pick
  PROVE  ScopeGranted'
<1> SUFFICES ASSUME pick'.pc # "idle", steady'
             PROVE  /\ \A c \in Candidates : Allows(pick'.auths, pick'.insts, c) => c \in granted'
                    /\ pick'.pc = "scope" =>
                         \A t \in pick'.todo : IF t.type = "group" THEN t \in bindings'[pick'.key]
                                                                   ELSE Lends(t)'
  BY DEF ScopeGranted
<1>0. /\ TypeOK /\ RowsKnown /\ PickFresh /\ ScopeGranted /\ pick \in PickType
      /\ granted \subseteq granted' /\ \A t : Lends(t) => Lends(t)'
      /\ UNCHANGED <<bindings, members>>
  <2>1. granted \subseteq granted'
    BY GrantedGrows
  <2>2. UNCHANGED access
    BY Frames
  <2> QED
    BY <2>1, <2>2 DEF PickInv, TypeOK, Lends, TargetAllows, access
<1>1. ASSUME NEW k \in Keys, NEW C \in CandidateLists, PickStart(k, C)
      PROVE  pick'.pc = "bindings" /\ pick'.auths = {} /\ pick'.insts = {}
  BY <1>0, <1>1 DEF PickStart, PickFresh, NoPick
<1>2. ASSUME PickBindings
      PROVE  /\ pick'.auths = {} /\ pick'.insts = {}
             /\ \A t \in pick'.todo : IF t.type = "group" THEN t \in bindings'[pick'.key]
                                                          ELSE Lends(t)'
  <2>1. /\ pick' = [pick EXCEPT !.pc = "scope", !.todo = bindings[pick.key]]
        /\ pick.pc = "bindings"
    BY <1>2 DEF PickBindings, NoPick
  <2>2. pick'.todo = bindings[pick.key] /\ pick'.key = pick.key
        /\ pick'.auths = {} /\ pick'.insts = {}
    BY <1>0, <2>1 DEF PickType, PickFresh
  <2>3. ASSUME NEW t \in bindings[pick.key], t.type # "group" PROVE Lends(t)
    <3>1. t \in Flat(bindings[pick.key], members)
      BY <2>3 DEF Flat
    <3> QED
      BY <1>0, <2>1, <2>3, <3>1, LentNow
  <2> QED
    BY <1>0, <2>2, <2>3
<1>3. ASSUME NEW t \in Targets, PickGroup(t)
      PROVE  /\ pick'.auths = pick.auths /\ pick'.insts = pick.insts
             /\ pick.pc # "idle" /\ steady
             /\ \A u \in pick'.todo : IF u.type = "group" THEN u \in bindings'[pick'.key]
                                                          ELSE Lends(u)'
  <2>1. /\ pick' = [pick EXCEPT !.todo = (@ \ {t}) \cup members[t.group]]
        /\ pick.pc = "scope" /\ t \in pick.todo /\ t.type = "group" /\ steady
    BY <1>3 DEF PickGroup
  <2>2. /\ pick'.todo = (pick.todo \ {t}) \cup members[t.group] /\ pick'.key = pick.key
        /\ pick'.auths = pick.auths /\ pick'.insts = pick.insts
    BY <1>0, <2>1 DEF PickType
  <2>3. t \in bindings[pick.key] /\ t.group \in Groups
    BY <1>0, <2>1 DEF ScopeGranted, Targets, MemberTargets, AuthTarget, InstanceTarget, GroupTarget
  <2>4. ASSUME NEW u \in members[t.group] PROVE u.type # "group" /\ Lends(u)
    <3>1. u \in MemberTargets
      BY <1>0, <2>3, <2>4 DEF TypeOK
    <3>2. u.type # "group"
      BY <3>1 DEF MemberTargets, AuthTarget, InstanceTarget
    <3>3. u \in Flat(bindings[pick.key], members)
      BY <2>1, <2>3, <2>4 DEF Flat
    <3> QED
      BY <1>0, <2>1, <3>2, <3>3, LentNow
  <2> QED
    BY <1>0, <2>1, <2>2, <2>4 DEF ScopeGranted
<1>4. ASSUME NEW t \in Targets, PickTarget(t)
      PROVE  /\ \A c \in Candidates : Allows(pick'.auths, pick'.insts, c) => c \in granted'
             /\ \A u \in pick'.todo : IF u.type = "group" THEN u \in bindings'[pick'.key]
                                                          ELSE Lends(u)'
  <2>1. /\ pick' = [pick EXCEPT !.todo = @ \ {t},
                                !.auths = @ \cup AuthsOf(t, instances),
                                !.insts = @ \cup InstancesOf(t)]
        /\ pick.pc = "scope" /\ t \in pick.todo /\ t.type # "group" /\ steady
    BY <1>4 DEF PickTarget
  <2>2. /\ pick'.todo = pick.todo \ {t} /\ pick'.key = pick.key
        /\ pick'.auths = pick.auths \cup AuthsOf(t, instances)
        /\ pick'.insts = pick.insts \cup InstancesOf(t)
    BY <1>0, <2>1 DEF PickType
  <2>3. ASSUME NEW c \in Candidates, Allows(pick'.auths, pick'.insts, c) PROVE c \in granted
    <3>1. CASE Allows(pick.auths, pick.insts, c)
      BY <1>0, <2>1, <3>1 DEF ScopeGranted
    <3>2. CASE Allows(AuthsOf(t, instances), InstancesOf(t), c)
      <4>1. TargetAllows(t, c)
        BY <1>0, <2>1, <3>2, LendsOnly
      <4>2. Lends(t)
        BY <1>0, <2>1 DEF ScopeGranted
      <4> QED
        BY <4>1, <4>2 DEF Lends
    <3> QED
      BY <2>2, <2>3, <3>1, <3>2 DEF Allows
  <2> QED
    BY <1>0, <2>1, <2>2, <2>3 DEF ScopeGranted
<1>5. ASSUME \/ PickScoped \/ PickWrite \/ PickRefreshed \/ (\E c \in Candidates : PickLookup(c))
      PROVE  /\ pick'.auths = pick.auths /\ pick'.insts = pick.insts
             /\ pick.pc # "idle" /\ steady /\ pick'.pc # "scope"
  <2>1. CASE PickScoped \/ PickWrite \/ PickRefreshed
    BY <1>0, <2>1 DEF PickScoped, PickWrite, PickRefreshed, PickType
  <2>2. ASSUME NEW c \in Candidates, PickLookup(c)
        PROVE  /\ pick'.auths = pick.auths /\ pick'.insts = pick.insts
               /\ pick.pc # "idle" /\ steady /\ pick'.pc # "scope"
    BY <1>0, <2>2 DEF PickLookup, PickType
  <2> QED
    BY <1>5, <2>1, <2>2
<1>6. ~PickEnd
  <2>1. NoPick.pc = "idle"
    BY DEF NoPick
  <2> QED
    BY <2>1 DEF PickEnd
<1>7. \A c : ~Allows({}, {}, c)
  BY DEF Allows
<1> QED
  BY <1>0, <1>1, <1>2, <1>3, <1>4, <1>5, <1>6, <1>7, PickCases DEF ScopeGranted

LEMMA PickInvNext ==
  ASSUME OneProviderPerAuth
  PROVE  PickInv /\ [Next]_vars => PickInv'
<1> SUFFICES ASSUME PickInv, [Next]_vars PROVE ScopeGranted'
  BY TypeNext, RowsKnownNext, PickFreshNext DEF PickInv
<1>1. CASE UNCHANGED vars
  BY <1>1 DEF vars, PickInv, ScopeGranted, Lends, TargetAllows
<1>2. CASE Next /\ Pick
  BY <1>2, PickKeepsScope
<1>3. CASE Next /\ ~Pick
  <2>1. SUFFICES ASSUME pick'.pc # "idle", steady'
                 PROVE  /\ \A c \in Candidates : Allows(pick.auths, pick.insts, c) => c \in granted'
                        /\ pick.pc = "scope" =>
                             \A t \in pick.todo : IF t.type = "group" THEN t \in bindings'[pick.key]
                                                                      ELSE Lends(t)'
    BY <1>3, BesidePick DEF ScopeGranted, PickInv
  <2>2. pick.pc # "idle" /\ steady /\ granted \subseteq granted'
    BY <1>3, <2>1, BesidePick, GrantedGrows DEF PickInv
  <2>3. \A t : Lends(t) => Lends(t)'
    BY <2>2 DEF Lends, TargetAllows
  <2>4. \A t \in bindings[pick.key] : t.type = "group" => t \in bindings'[pick.key]
    BY <1>3, <2>1, <2>2, GroupsStayBound DEF PickInv
  <2> QED
    BY <2>2, <2>3, <2>4 DEF PickInv, ScopeGranted
<1> QED
  BY <1>1, <1>2, <1>3

\* Although a pick reads bindings, members and inventory rows one by one, it answers
\* with a candidate that its key was allowed at some instant of the call, for any number
\* of concurrent inventory calls, as long as no admin saves the key meanwhile and an
\* account has one provider.
THEOREM PickIsAuthorized ==
    ASSUME OneProviderPerAuth
    PROVE  Spec => []PickAuthorized
<1>1. Init => PickInv
  <2> SUFFICES ASSUME Init PROVE RowsKnown /\ PickFresh /\ ScopeGranted
    BY InitTyped DEF PickInv
  <2>1. pick = NoPick /\ instances \subseteq Inferred
    BY DEF Init
  <2> QED
    BY <2>1 DEF RowsKnown, InKnown, Known, PickFresh, ScopeGranted, NoPick
<1>2. PickInv => PickAuthorized
  <2> SUFFICES ASSUME PickInv, pick.pc = "answer", steady, NEW c \in Answers
               PROVE  c \in granted
    BY DEF PickAuthorized
  <2>1. c \in Candidates /\ Allows(pick.auths, pick.insts, c)
    BY DEF Answers, PickInv, TypeOK, PickType
  <2> QED
    BY <2>1 DEF PickInv, ScopeGranted
<1> QED
  BY <1>1, <1>2, PickInvNext, PTL DEF Spec
=============================================================================
