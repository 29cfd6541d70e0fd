\* One pick beside inventory calls and the management of keys and groups.
CONSTANTS
    Keys = {k1}
    Groups = {"g"}
    Ids <- MCIds
    Providers <- MCProviders
    NoProvider = ""
    Entries <- OneFile
    Configured <- Nothing
    Inferred <- Nothing
    CandidateLists <- CandidatesPick
    Admins = {a1}
    BindingChoices <- BindPick
    MemberChoices <- MembersPick
    None = None
SPECIFICATION Spec
INVARIANTS PickAuthorized SyncComplete
