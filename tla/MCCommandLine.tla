--------------------------- MODULE MCCommandLine ----------------------------
(* The state that commands keep on a user's machine, one part at a time: the *)
(* repository, the resources and metadata saved with secrets, the secret     *)
(* store, the catalog of contexts, the session of prompted credentials and,  *)
(* beyond it, what the orchestrator does to a managed service. Each part     *)
(* starts as its own specification says and the others rest; the parts share *)
(* no state, so this explores what six runs would.                           *)
EXTENDS Workspace, SecretSave, Orchestrator, PromptAuth

CONSTANTS
    Parts,      \* the parts to explore
    Provider, Spelling, Payloads, Paths, KeyTexts, Arguments, Values, Contents, MaxEntries,
    ProxyURLs, Names, Drafts, Currents, Imports, Shells, MaxCommands, TrialBlocks, FlagForms, MaxFlags

VARIABLES
    part,                                                               \* the part that moves
    vault, names, origin, said,                                         \* SecretCommands
    file, shell, jobs, issued, trial                                    \* ContextCatalog

Secrets == INSTANCE MCSecretCommands
Contexts == INSTANCE MCContextCatalog

(***************************************************************************)
(* Values of the constants.                                                *)
(***************************************************************************)

WalkedResources == <<"a", "b">>
Plain == [git |-> FALSE, remote |-> FALSE, autoInit |-> TRUE, autoSync |-> FALSE]
LocalGit == [Plain EXCEPT !.git = TRUE, !.autoInit = FALSE]
RemoteGit == [Plain EXCEPT !.git = TRUE, !.remote = TRUE]
KindsOfStore == {Plain, LocalGit, [RemoteGit EXCEPT !.autoSync = TRUE]}

\* All detected attributes, or one by name.
NamedAttributes == {{}, {"token"}}

\* Two names with one session key, and a credential whose user is literal.
Both == {"username", "password"}
AskedFields == [c \in {"a-b", "a_b", "c"} |-> IF c = "c" THEN {"password"} ELSE Both]
Sanitized == [c \in {"a-b", "a_b", "c"} |-> IF c = "c" THEN "C" ELSE "A_B"]
NothingExported == <<>>

\* A service that can be listed and whose metadata declare identities, one that
\* uses the alias as identifier, one that can do neither, and one whose list the
\* metadata filter.
TwoSerials == <<"s1", "s2">>
Kind(byName, unique, listable, identity) ==
    [byName |-> byName, unique |-> unique, listable |-> listable, identity |-> identity, jq |-> FALSE]
DeclaredServices == {Kind(FALSE, FALSE, TRUE, TRUE), Kind(TRUE, TRUE, TRUE, FALSE)}
BareServices == {Kind(FALSE, TRUE, FALSE, FALSE)}
FilteredServices == {[Kind(FALSE, TRUE, TRUE, TRUE) EXCEPT !.jq = TRUE]}

\* The rest come from instances in which the constants they replace are empty.
SecretsValues == INSTANCE MCSecretCommands WITH Spelling <- <<>>, Payloads <- {}, Paths <- {}, KeyTexts <- {},
                                                Arguments <- {}, Contents <- {}
SpelledKeys == SecretsValues!Spelled
GivenPayloads == SecretsValues!SomePayloads
GivenPaths == SecretsValues!TwoPaths
GivenKeys == SecretsValues!SomeKeys
GivenArguments == SecretsValues!SomeArguments
SavedContents == SecretsValues!SomeContents

ContextsValues == INSTANCE MCContextCatalog WITH Drafts <- {}, Imports <- {}, Shells <- {}, TrialBlocks <- {}
WrittenDrafts == ContextsValues!PlainDrafts
ImportedCatalogs == ContextsValues!OneImport
UserShells == ContextsValues!TrialShells
ProxyBlocks == ContextsValues!Blocks

(***************************************************************************)
(* The parts.                                                              *)
(***************************************************************************)

partVars == <<part, workspaceVars, saveVars, Secrets!secretVars,
              Contexts!catalogVars, promptVars, orchestratorVars>>

\* A part that rests has one of its initial states.
Init ==
    /\ part \in Parts
    /\ IF part = "repository" THEN TRUE ELSE store = Plain
    /\ IF part = "saving" THEN TRUE
       ELSE kind = "file" /\ collMeta = [p \in Processes |-> [set |-> TRUE, attrs |-> {}, whole |-> FALSE]]
    /\ IF part = "contexts" THEN TRUE ELSE shell = Contexts!Shell("u", Contexts!NoProxyBlock)
    /\ WorkspaceInit /\ SaveInit /\ Secrets!SecretsInit
    /\ IF part = "applying" THEN TRUE
       ELSE /\ service = CHOOSE k \in Services : TRUE
            /\ local = [n \in Aliases |-> [value |-> None, id |-> None]]
    /\ Contexts!CatalogInit /\ PromptInit /\ OrchestratorInit

RepositoryRests == UNCHANGED workspaceVars
SavingRests == UNCHANGED saveVars
SecretsRest == UNCHANGED <<vault, names, origin, said>>
ContextsRest == UNCHANGED <<file, shell, jobs, issued, trial>>
PromptsRest == UNCHANGED promptVars
ApplyingRests == UNCHANGED orchestratorVars

MoveRepository ==
    /\ part = "repository" /\ UNCHANGED part
    /\ WorkspaceNext
    /\ SavingRests /\ SecretsRest /\ ContextsRest /\ PromptsRest /\ ApplyingRests

MoveSaving ==
    /\ part = "saving" /\ UNCHANGED part
    /\ SaveNext
    /\ RepositoryRests /\ SecretsRest /\ ContextsRest /\ PromptsRest /\ ApplyingRests

MoveSecrets ==
    /\ part = "secrets" /\ UNCHANGED part
    /\ Secrets!SecretsNext
    /\ RepositoryRests /\ SavingRests /\ ContextsRest /\ PromptsRest /\ ApplyingRests

MoveContexts ==
    /\ part = "contexts" /\ UNCHANGED part
    /\ Contexts!CatalogNext
    /\ RepositoryRests /\ SavingRests /\ SecretsRest /\ PromptsRest /\ ApplyingRests

MovePrompts ==
    /\ part = "prompts" /\ UNCHANGED part
    /\ PromptNext
    /\ RepositoryRests /\ SavingRests /\ SecretsRest /\ ContextsRest /\ ApplyingRests

MoveApplying ==
    /\ part = "applying" /\ UNCHANGED part
    /\ OrchestratorNext
    /\ RepositoryRests /\ SavingRests /\ SecretsRest /\ ContextsRest /\ PromptsRest

Next == MoveRepository \/ MoveSaving \/ MoveSecrets \/ MoveContexts \/ MovePrompts \/ MoveApplying

Spec == Init /\ [][Next]_partVars

(***************************************************************************)
(* What each part promises; the conjuncts are stated in its module.        *)
(***************************************************************************)

\* Every part is well formed: payload files and commits, saved metadata and
\* secrets, store keys, catalogs, session entries and commands on the service.
TypeOK ==
    /\ part = "repository" => WorkspaceTypeOK
    /\ part = "saving" => SaveTypeOK
    /\ part = "secrets" => Secrets!SecretsTypeOK
    /\ part = "contexts" => Contexts!CatalogTypeOK
    /\ part = "prompts" => PromptTypeOK
    /\ part = "applying" => OrchestratorTypeOK

\* Masking, normalising, resolving and encoding change no meaning: a masked or
\* normalised payload resolves to what it did, nothing is left to detect in a
\* masked one, nothing that is sent holds a placeholder, and a resource saved as a
\* secret comes back as it was (package secrets).
MeaningKept ==
    part = "secrets" =>
        /\ Secrets!MaskKeepsMeaning /\ Secrets!NothingLeftToDetect /\ Secrets!NormalizeKeepsMeaning
        /\ Secrets!NoPlaceholderSent /\ Secrets!WholeComesBack

\* The secret commands agree with each other: what "secret list" shows can be
\* read, all of it is shown, no flag or argument is ignored, and two spellings of
\* a key are detected alike (secret command, Vault walk, secret_detection.go).
CommandsAgree ==
    part = "secrets" =>
        /\ Secrets!ListedIsReadable /\ Secrets!ListIsComplete
        /\ Secrets!NothingIgnored /\ Secrets!SpelledAlike

\* A catalog that was written loads, a completed dialog is not refused for what
\* it asked, and a resolved context has the proxies, the one metadata source and
\* the services of the context the command runs in (catalog and bootstrap).
CatalogUsable ==
    part = "contexts" =>
        /\ Contexts!SavedLoads /\ Contexts!DialogAccepted /\ Contexts!ProxyPrecedence
        /\ Contexts!OneMetadataSource /\ Contexts!SessionIsCommands

\* Whoever writes the catalog can use every context of it in the same shell,
\* leaves the other contexts and credentials alone, and never leaves a current
\* context that is not there (context_service.go, edit and rename commands).
CatalogKept == Contexts!SavedResolves /\ Contexts!OthersKept /\ Contexts!CurrentFollows
=============================================================================
