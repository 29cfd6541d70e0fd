----------------------------- MODULE MCInventory -----------------------------
(***************************************************************************)
(* Instances of Inventory for TLC.  Two auth files share a name, "n"; an   *)
(* instance was inferred from the name, another one, of a different        *)
(* provider, bears the same identifier; "k" is a configured credential.    *)
(***************************************************************************)
EXTENDS Inventory

MCIds == {"f1", "f2", "n", "k"}
MCProviders == {"codex", "claude"}
File1 == [id |-> "f1", name |-> "n", provider |-> "codex"]
File2 == [id |-> "f2", name |-> "n", provider |-> "codex"]
File2Alone == [id |-> "f2", name |-> "f2", provider |-> ""]

MCConfigured == {Instance("codex", "k", TRUE)}
MCInferred == {Instance("codex", "n", FALSE)}

\* A file that may be renamed, another with the same name, or without a provider.
FilesOfTwoNames == {File1, [File1 EXCEPT !.name = "f1"], File2, File2Alone}
OneFile == {File1}

\* Bindings and members an admin saves.
BindSync ==
    {{InstanceTarget("codex", "n")}, {InstanceTarget("claude", "n"), GroupTarget("g")}}
MembersSync ==
    {{InstanceTarget("codex", "n")}, {AuthTarget("f2"), InstanceTarget("codex", "f1")}}

BindPick == {{InstanceTarget("codex", "n")}, {GroupTarget("g")}}
MembersPick == {{AuthTarget("f1")}, {InstanceTarget("codex", "n")}}

Nothing == {}
CandidatesPick ==
    {{Instance("codex", "f1", FALSE), Instance("codex", "n", FALSE)}}
=============================================================================
