\* One inventory call at a time over files that appear, go and are renamed,
\* beside the management of a key and a group; no pick.
CONSTANTS
    Keys = {k1}
    Groups = {"g"}
    Ids <- MCIds
    Providers <- MCProviders
    NoProvider = ""
    Entries <- FilesOfTwoNames
    Configured <- MCConfigured
    Inferred <- MCInferred
    CandidateLists <- Nothing
    Admins = {a1}
    BindingChoices <- BindSync
    MemberChoices <- MembersSync
    None = None
SPECIFICATION Spec
INVARIANTS TypeOK SyncComplete
PROPERTIES NeverUnrestricted MigrationKeepsAccess
