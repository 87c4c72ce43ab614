--------------------------- MODULE ContextCatalog ---------------------------
(* The context catalog: one YAML file that every "declarest context"        *)
(* command loads, changes and replaces by renaming a temporary file over    *)
(* it, without a lock; the interactive dialog that writes a new context;    *)
(* and the choice of the context a command runs with.                       *)
EXTENDS ContextModel, TLC

LOCAL INSTANCE SequencesExt

CONSTANTS
    Processes,      \* shells in which commands run
    Names,          \* names the commands use
    Drafts,         \* contexts a user writes, without a name
    Currents,       \* what an edit writes as currentContext, beside the names
    Imports,        \* catalogs a user imports
    Shells,         \* environments: values of the variables, and the proxy
    MaxCommands,    \* commands of one behaviour
    TrialBlocks,    \* proxy blocks of the tried updates
    FlagForms,      \* ways to write the context flag
    MaxFlags        \* how often it is written

VARIABLES
    file,           \* the catalog on disk
    shell,          \* the environment
    jobs,           \* the command of each process
    issued,         \* commands issued
    trial           \* a computation tried on its own: a dialog, an update,
                    \* a resolution or an invocation

catalogVars == <<file, shell, jobs, issued, trial>>

EmptyCatalog == [contexts |-> <<>>, current |-> "", creds |-> <<>>]
Idle == [stage |-> "idle"]
NoTrial == [kind |-> "none"]

(***************************************************************************)
(* The service (context_service.go): what each operation makes of a        *)
(* loaded catalog.                                                         *)
(***************************************************************************)

\* compactContextCatalogForPersistence
CompactForPersistence(catalog) ==
    [catalog EXCEPT !.contexts = [i \in DOMAIN @ |-> CompactContext(@[i])]]

Refused(catalog) == [ok |-> FALSE, catalog |-> catalog]
Changed(catalog) == [ok |-> TRUE, catalog |-> catalog]

Create(catalog, op) ==
    IF \/ ~ValidateResolvedConfig(op.context, shell.vars)
       \/ FindContextIndex(catalog.contexts, op.context.name) > 0
       \/ ConflictingCredentials(catalog.creds, op.creds)
    THEN Refused(catalog)
    ELSE Changed([contexts |-> Append(catalog.contexts, op.context),
                  current |-> FirstNonEmpty(catalog.current, op.context.name),
                  creds |-> MergeContextCredentials(catalog.creds, op.creds)])

Update(catalog, op) ==
    LET index == FindContextIndex(catalog.contexts, op.context.name)
        kept == PreserveProxyOmissions(op.context, catalog.contexts[index])
    IN IF index = 0 \/ ~ValidateResolvedConfig(kept, shell.vars) THEN Refused(catalog)
       ELSE Changed([catalog EXCEPT !.contexts[index] = kept])

Delete(catalog, op) ==
    LET index == FindContextIndex(catalog.contexts, op.name)
        left == RemoveAt(catalog.contexts, index)
    IN IF index = 0 THEN Refused(catalog)
       ELSE Changed([catalog EXCEPT !.contexts = left,
              !.current = IF @ # op.name THEN @
                          ELSE IF left = <<>> THEN "" ELSE left[1].name])

\* Mutant of Rename: the renamed context becomes current.
RenameUses(catalog, op) ==
    LET index == FindContextIndex(catalog.contexts, op.name)
    IN IF op.to = "" \/ index = 0 \/ FindContextIndex(catalog.contexts, op.to) > 0
       THEN Refused(catalog)
       ELSE Changed([catalog EXCEPT !.contexts[index].name = op.to, !.current = op.to])

Rename(catalog, op) ==
    LET index == FindContextIndex(catalog.contexts, op.name)
    IN IF op.to = "" \/ index = 0 \/ FindContextIndex(catalog.contexts, op.to) > 0
       THEN Refused(catalog)
       ELSE Changed([catalog EXCEPT !.contexts[index].name = op.to,
              !.current = IF @ = op.name THEN op.to ELSE @])

SetCurrent(catalog, op) ==
    IF FindContextIndex(catalog.contexts, op.name) = 0 THEN Refused(catalog)
    ELSE Changed([catalog EXCEPT !.current = op.name])

\* Mutant of ApplySingleContextEditView: the first context becomes current.
EditViewFirst(catalog, op) ==
    LET index == FindContextIndex(catalog.contexts, op.name)
        next == [catalog.contexts EXCEPT ![index] = op.context]
    IN IF index = 0 THEN Refused(catalog)
       ELSE Changed([contexts |-> next, creds |-> op.creds,
              current |-> IF catalog.current = op.name THEN next[1].name ELSE catalog.current])

\* applySingleContextEditView
ApplySingleContextEditView(catalog, op) ==
    LET index == FindContextIndex(catalog.contexts, op.name)
    IN IF index = 0 THEN Refused(catalog)
       ELSE Changed([contexts |-> [catalog.contexts EXCEPT ![index] = op.context],
              creds |-> op.creds,
              current |-> IF catalog.current = op.name /\ op.context.name # ""
                          THEN op.context.name ELSE catalog.current])

Operations == {"create", "update", "delete", "rename", "use", "editOne", "replace"}

Performed(catalog, op) ==
    CASE op.op = "create" -> Create(catalog, op)
      [] op.op = "update" -> Update(catalog, op)
      [] op.op = "delete" -> Delete(catalog, op)
      [] op.op = "rename" -> Rename(catalog, op)
      [] op.op = "use" -> SetCurrent(catalog, op)
      [] op.op = "editOne" -> ApplySingleContextEditView(catalog, op)
      [] op.op = "replace" -> Changed(op.catalog)

\* Mutant of SaveCatalog: what an editor returns is written as it is.
SaveUnchecked(result) ==
    [ok |-> result.ok, catalog |-> CompactForPersistence(result.catalog)]

\* Mutant of SaveCatalog: placeholders are not expanded.
SaveUnexpanded(result) ==
    LET compacted == CompactForPersistence(result.catalog)
    IN [ok |-> result.ok /\ ValidateCatalog(compacted), catalog |-> compacted]

\* saveCatalog: nothing is written unless the expanded catalog is valid.
SaveCatalog(result) ==
    LET compacted == CompactForPersistence(result.catalog)
    IN [ok |-> result.ok /\ ValidateResolvedCatalog(compacted, shell.vars), catalog |-> compacted]

(***************************************************************************)
(* The commands (internal/cli/config).                                     *)
(***************************************************************************)

Op(op, name, to, context, creds, catalog) ==
    [op |-> op, name |-> name, to |-> to, context |-> context, creds |-> creds, catalog |-> catalog]
On(op, name) == Op(op, name, "", EmptyContext, <<>>, EmptyCatalog)
Of(op, context, creds) == Op(op, context.name, "", context, creds, EmptyCatalog)
Named(draft, name) == [draft EXCEPT !.name = name]

\* loadCatalog: the file is validated without the environment.
LoadCatalog == ValidateCatalog(file)

Running == [stage |-> "load", ops |-> <<>>, seen |-> EmptyCatalog]
Issue(p, ops) ==
    /\ jobs' = [jobs EXCEPT ![p] = [Running EXCEPT !.ops = ops]]
    /\ issued' = issued + 1
    /\ UNCHANGED <<file, shell, trial>>

MayIssue(p) == trial = NoTrial /\ jobs[p] = Idle /\ issued < MaxCommands

\* context add, of one context.
Add(p) ==
    /\ MayIssue(p)
    /\ \E draft \in Drafts, name \in Names, setCurrent \in BOOLEAN :
         LET context == Named(draft, name)
         IN Issue(p, <<Of("create", context, <<>>)>> \o
                     IF setCurrent THEN <<On("use", name)>> ELSE <<>>)

\* selectContextsForAdd: of a catalog the contexts are taken, one or all.
SelectContextsForAdd(import, name) ==
    SelectSeq(import.contexts, LAMBDA c : name = "" \/ c.name = name)

\* validateAddTargets: before the first context is created.
ValidateAddTargets(contexts) ==
    /\ contexts # <<>> /\ LoadCatalog
    /\ {contexts[i].name : i \in DOMAIN contexts} \cap ContextNames(file) = {}
    /\ Cardinality({contexts[i].name : i \in DOMAIN contexts}) = Len(contexts)

\* context add, of a catalog: the contexts are created one after the other.
Import(p) ==
    /\ MayIssue(p)
    /\ \E import \in Imports, name \in {""} \cup Names :
         LET contexts == SelectContextsForAdd(import, name)
         IN /\ ValidateAddTargets(contexts)
            /\ Issue(p, [i \in DOMAIN contexts |-> Of("create", contexts[i], <<>>)])

\* context update, delete, rename, use, and migrate.
Change(p) ==
    /\ MayIssue(p)
    /\ \/ \E draft \in Drafts, name \in Names : Issue(p, <<Of("update", Named(draft, name), <<>>)>>)
       \/ \E name \in Names, op \in {"delete", "use"} : Issue(p, <<On(op, name)>>)
       \/ \E name, to \in Names : Issue(p, <<[On("rename", name) EXCEPT !.to = to]>>)

\* context edit: the editor opens what was loaded.
Edit(p) ==
    /\ MayIssue(p)
    /\ \/ Issue(p, <<On("replace", "")>>)
       \/ \E name \in Names : Issue(p, <<On("editOne", name)>>)

Load(p) ==
    /\ jobs[p] # Idle /\ jobs[p].stage = "load"
    /\ jobs' = [jobs EXCEPT ![p] = IF LoadCatalog THEN [@ EXCEPT !.stage = "apply", !.seen = file]
                                   ELSE Idle]
    /\ UNCHANGED <<file, shell, issued, trial>>

\* What a user makes of the credentials, the contexts and currentContext.
EditedCreds(creds) == {creds, <<>>} \cup {Append(creds, [name |-> "c", value |-> "v"])}
Edited(op, seen) ==
    CASE op.op = "replace" ->
           {[op EXCEPT !.catalog = [seen EXCEPT !.current = c]] : c \in Names \cup Currents}
           \cup {[op EXCEPT !.catalog = [seen EXCEPT !.creds = c]] : c \in EditedCreds(seen.creds)}
      [] op.op = "editOne" ->
           {[op EXCEPT !.context = Named(d, n), !.creds = seen.creds] : d \in Drafts, n \in Names}
           \cup {[op EXCEPT !.context = Named(EmptyContext, op.name), !.creds = <<>>]}
      [] OTHER -> {op}

Apply(p) ==
    /\ jobs[p] # Idle /\ jobs[p].stage = "apply"
    /\ \E op \in Edited(Head(jobs[p].ops), jobs[p].seen) :
         LET saved == SaveCatalog(Performed(jobs[p].seen, op))
         IN /\ file' = IF saved.ok THEN saved.catalog ELSE file
            /\ jobs' = [jobs EXCEPT ![p] = IF saved.ok /\ Len(@.ops) > 1
                           THEN [Running EXCEPT !.ops = Tail(jobs[p].ops)] ELSE Idle]
    /\ UNCHANGED <<shell, issued, trial>>

Kill(p) ==
    /\ jobs[p] # Idle
    /\ jobs' = [jobs EXCEPT ![p] = Idle]
    /\ UNCHANGED <<file, shell, issued, trial>>

OtherShell ==
    /\ trial = NoTrial
    /\ \E s \in Shells : s # shell /\ shell' = s
    /\ UNCHANGED <<file, jobs, issued, trial>>

(***************************************************************************)
(* The dialog of an interactive "context add" (interactive.go).  A draft   *)
(* is the context so far and the credentials entered for it; each prompt   *)
(* leads to the set of drafts its answers allow.                           *)
(***************************************************************************)

DialogNames == {"c", "k"}

\* Mutant of PromptCredentialRef: the credential is not remembered.
PromptCredentialRefOnly(d) ==
    {[ref |-> n, creds |-> d.creds] : n \in DialogNames}

\* promptCredentialRef: a name already entered is used again.
PromptCredentialRef(d) ==
    {[ref |-> n, creds |-> IF n \in CredentialNames(d.creds) THEN d.creds
                           ELSE Append(d.creds, [name |-> n, value |-> v])] :
        n \in DialogNames, v \in {"v", "w"}}

\* promptHTTPProxy: at least one URL.
PromptHTTPProxy(d) ==
    {[d EXCEPT !.context.proxy["server"] = ProxyBlock(h, n, "")] :
        h \in ProxyURLs \cup {"malformed"}, n \in {"", "n"}}
    \cup {[context |-> [d.context EXCEPT !.proxy["server"] = ProxyBlock(h, "", r.ref)],
           creds |-> r.creds] : h \in ProxyURLs, r \in PromptCredentialRef(d)}

\* One method of a section: a basic method refers to a credential.
PromptAuth(d, section, basic, others) ==
    {[d EXCEPT !.context.auth[section] = {m}] : m \in others}
    \cup {[context |-> [d.context EXCEPT !.auth[section] = {basic}, !.ref[section] = r.ref],
           creds |-> r.creds] : r \in PromptCredentialRef(d)}

PromptGitAuth(d) == PromptAuth(d, "remote", "basic", {"ssh", "accessKey"})
PromptHTTPAuth(d) == PromptAuth(d, "server", "basic", {"oauth2", "customHeaders"})
PromptVaultAuth(d) == PromptAuth(d, "vault", "password", {"token", "appRole"})

Section(d, section) ==
    [d EXCEPT !.context.parts = @ \cup {section}, !.context.url[section] = "u"]

PromptGitRemote(d) ==
    LET remote == Section(d, "remote") IN {remote} \cup PromptGitAuth(remote)

PromptRepositoryConfig(d) ==
    LET git == [d EXCEPT !.context.repo = "git", !.context.base = "d"]
    IN {[d EXCEPT !.context.repo = "filesystem", !.context.base = "d"], git}
       \cup PromptGitRemote(git)

PromptManagedService(d) ==
    LET server == Section(d, "server")
    IN UNION {PromptHTTPAuth(e) : e \in {server} \cup PromptHTTPProxy(server)}

PromptFileSecretStore(d) ==
    {[d EXCEPT !.context.parts = @ \cup {"file"}, !.context.keys = {k}] :
        k \in {"key", "keyFile", "passphrase", "passphraseFile"}}

PromptVaultSecretStore(d) == PromptVaultAuth(Section(d, "vault"))

PromptSecretStore(d) == {d} \cup PromptFileSecretStore(d) \cup PromptVaultSecretStore(d)

\* promptCreateContext; metadata.baseDir defaults to the repository's.
PromptCreateContext(name) ==
    LET start == [context |-> [EmptyContext EXCEPT !.name = name], creds |-> <<>>]
        repository == {[d EXCEPT !.context.metadata["baseDir"] = m] :
                          d \in PromptRepositoryConfig(start), m \in {"d", "m"}}
        server == UNION {PromptManagedService(d) : d \in repository}
    IN UNION {PromptSecretStore(d) : d \in server}

OnItsOwn == trial = NoTrial /\ issued = 0

TryDialog ==
    /\ OnItsOwn
    /\ \E d \in PromptCreateContext("a"), known \in {<<>>, <<[name |-> "c", value |-> "v"]>>} :
         LET saved == SaveCatalog(Create([EmptyCatalog EXCEPT !.creds = known],
                                         Of("create", d.context, d.creds)))
         IN trial' = [kind |-> "dialog", draft |-> d, known |-> known, saved |-> saved]
    /\ UNCHANGED <<file, shell, jobs, issued>>

(***************************************************************************)
(* Updates of a context with proxies, and its resolution.                  *)
(***************************************************************************)

ProxiedContext(blocks) ==
    [EmptyContext EXCEPT !.name = "a", !.repo = "git", !.base = "d",
        !.parts = {"server", "remote"}, !.url = [s \in Sections |-> "u"],
        !.auth["server"] = {"oauth2"},
        !.proxy = [t \in DOMAIN @ |-> IF t \in DOMAIN blocks THEN blocks[t] ELSE NoProxyBlock]]

ProxiedCatalog(context) ==
    [contexts |-> <<context>>, current |-> "a", creds |-> <<[name |-> "c", value |-> "v"]>>]

Resolved(context, overrides) ==
    ResolveContext(ProxiedCatalog(context), "", overrides, shell)

Proxied == {"server", "remote", "metadata"}

TryUpdate ==
    /\ OnItsOwn
    /\ \E blocks \in [Proxied -> TrialBlocks], before \in [Proxied -> {NoProxyBlock, ProxyBlock("q", "", "")}] :
         LET context == ProxiedContext(blocks)
             kept == PreserveProxyOmissions(context, ProxiedContext(before))
         IN trial' = [kind |-> "update", context |-> context, before |-> ProxiedContext(before),
                      kept |-> kept]
    /\ UNCHANGED <<file, shell, jobs, issued>>

TryOverrides ==
    /\ OnItsOwn
    /\ \E keys \in SUBSET ToSet(OverrideOrder), source \in MetadataSources \cup {"none"} :
         \E values \in [keys -> {"", "p"}] :
           LET context == [ProxiedContext([t \in {} |-> NoProxyBlock]) EXCEPT
                             !.metadata = [s \in MetadataSources |-> IF s = source THEN "s" ELSE ""]]
           IN trial' = [kind |-> "overrides", overrides |-> values,
                        resolved |-> Resolved(context, values)]
    /\ UNCHANGED <<file, shell, jobs, issued>>

(***************************************************************************)
(* The context of an invocation (cmd/declarest).  main chooses a context   *)
(* for the services before the flags are parsed; the command chooses one   *)
(* after that.                                                             *)
(***************************************************************************)

\* contextNameFromExplicitContextFlag: the first flag in a form it knows.
KnownForms == {"--context v", "--context=v", "-c v"}
ExplicitContextFlag(flags) == SelectSeq(flags, LAMBDA f : f.form \in KnownForms)

\* Mutant of ContextNameFromArgs: the environment comes first.
EnvironmentFirst(inv) ==
    IF inv.env # "" THEN inv.env
    ELSE IF ExplicitContextFlag(inv.flags) # <<>> THEN Head(ExplicitContextFlag(inv.flags)).value
    ELSE inv.positional

\* contextNameFromArgs
ContextNameFromArgs(inv) ==
    IF ExplicitContextFlag(inv.flags) # <<>> THEN Head(ExplicitContextFlag(inv.flags)).value
    ELSE IF inv.env # "" THEN inv.env
    ELSE inv.positional

\* The flag parser takes the last flag in any form, or the environment's
\* default; a positional name must agree with it (resolveCreateContextName).
FlagContext(inv) == IF inv.flags = <<>> THEN inv.env ELSE Last(inv.flags).value
ContextNameConflict(inv) ==
    inv.positional # "" /\ FlagContext(inv) # "" /\ inv.positional # FlagContext(inv)
CommandContext(inv) == FirstNonEmpty(inv.positional, FlagContext(inv))

TryInvocation ==
    /\ OnItsOwn
    /\ \E n \in 0..MaxFlags :
       \E flags \in [1..n -> [form : FlagForms, value : Names]],
          env \in {""} \cup Names, positional \in {""} \cup Names :
         LET inv == [flags |-> flags, env |-> env, positional |-> positional]
         IN /\ ~ContextNameConflict(inv)
            /\ trial' = [kind |-> "invocation", session |-> ContextNameFromArgs(inv),
                         command |-> CommandContext(inv)]
    /\ UNCHANGED <<file, shell, jobs, issued>>

CatalogInit ==
    /\ file = EmptyCatalog
    /\ shell \in Shells
    /\ jobs = [p \in Processes |-> Idle]
    /\ issued = 0
    /\ trial = NoTrial

CatalogNext ==
    \/ \E p \in Processes :
         \/ Add(p) \/ Import(p) \/ Change(p) \/ Edit(p)
         \/ Load(p) \/ Apply(p) \/ Kill(p)
    \/ OtherShell
    \/ TryDialog \/ TryUpdate \/ TryOverrides \/ TryInvocation

CatalogSpec == CatalogInit /\ [][CatalogNext]_catalogVars

(***************************************************************************)
(* Properties.                                                             *)
(***************************************************************************)

\* The catalog on disk is of its type, and no two contexts have one name.
CatalogTypeOK ==
    /\ file.current \in {""} \cup Names \cup Currents
    /\ Cardinality(ContextNames(file)) = Len(file.contexts)
    /\ \A i \in DOMAIN file.contexts : DOMAIN file.contexts[i] = DOMAIN EmptyContext
    /\ \A i \in DOMAIN file.creds : DOMAIN file.creds[i] = {"name", "value"}
    /\ issued \in 0..MaxCommands

\* A catalog a command has written can be loaded by the next command.
SavedLoads == LoadCatalog

\* Whoever writes the catalog can use every context of it in the same shell.
SavedResolves ==
    [][file' # file => \A i \in DOMAIN file'.contexts :
          ResolveContext(file', Expand(file'.contexts[i].name, shell.vars), <<>>, shell).ok]_catalogVars

ContextNamed(catalog, n) == catalog.contexts[FindContextIndex(catalog.contexts, n)]

\* A command on one context leaves the others, their credentials and - unless
\* it is about the current context - the choice of the current one alone.
OthersKept ==
    [][\A p \in Processes :
        (jobs[p] # Idle /\ jobs[p].stage = "apply" /\ file' # file
           /\ Head(jobs[p].ops).op # "replace" /\ jobs'[p] # jobs[p])
        => LET op == Head(jobs[p].ops)
           IN /\ \A n \in ContextNames(file) \ {op.name} :
                   /\ n \in ContextNames(file')
                   /\ ContextNamed(file', n) = ContextNamed(file, n)
              /\ op.op # "editOne" => ToSet(file.creds) \subseteq ToSet(file'.creds)
              /\ (op.op # "use" /\ file.current \notin {"", op.name}) => file'.current = file.current]_catalogVars

\* The current context is never one that is not there, and one is chosen as
\* soon as there is a context; a renamed current context stays current.
CurrentFollows ==
    [][(file' # file /\ file.current # "" /\ Len(file'.contexts) = Len(file.contexts)
          /\ \A p \in Processes : jobs[p] # Idle /\ jobs'[p] # jobs[p] =>
                Head(jobs[p].ops).op \notin {"use", "replace"})
       => FindContextIndex(file'.contexts, file'.current)
            = FindContextIndex(file.contexts, file.current)]_catalogVars

\* A dialog that was completed is refused only for a malformed proxy URL or a
\* credential the catalog has with another content.
DialogAccepted ==
    trial.kind = "dialog" =>
        (trial.saved.ok <=> /\ BuildsProxy(trial.draft.context.proxy["server"])
                            /\ ~ConflictingCredentials(trial.known, trial.draft.creds))

\* Every component ends with the proxy agents/reference/context-config.md,
\* rule 25, gives it: none if it disabled it; its own fields over the
\* environment's; and what the others share if it has no block.
ProxyPrecedence ==
    trial.kind = "update" =>
        LET own == trial.context.proxy
            found == ApplyProxyDefaults(trial.context, shell.proxy).proxy
            shared == {t \in Proxied : own[t].set /\ ~IsExplicitDisable(own[t])}
        IN \A t \in Proxied :
             /\ IsExplicitDisable(own[t]) => found[t] = Disabled
             /\ t \in shared => /\ own[t].http # "" => found[t].http = own[t].http
                                /\ own[t].http = "" => found[t].http = shell.proxy.http
             /\ ~own[t].set => /\ \/ found[t] \in {found[u] : u \in shared}
                                  \/ found[t] = FromEnvironment(shell.proxy) \/ ~found[t].set
                               /\ (\E u \in shared : HasURLs(found[u])) => HasURLs(found[t])

\* A context that was updated resolves to the proxies the update asked for.
UpdateKeepsProxies ==
    trial.kind = "update" =>
        ApplyProxyDefaults(trial.kept, shell.proxy) = ApplyProxyDefaults(trial.context, shell.proxy)

\* A resolved context with a repository has exactly one metadata source, and
\* the one an override names if there is one.
OneMetadataSource ==
    (trial.kind = "overrides" /\ trial.resolved.ok) =>
        LET sources == {s \in MetadataSources : trial.resolved.context.metadata[s] # ""}
            asked == {s \in MetadataSources \cap DOMAIN trial.overrides : trial.overrides[s] # ""}
        IN Cardinality(sources) = 1 /\ (asked # {} => sources \subseteq asked)

\* The services are those of the context the command takes itself to run in.
SessionIsCommands == trial.kind = "invocation" => trial.session = trial.command

\* A context that was imported uses the credentials it was imported with.
ImportedCredentials ==
    \A import \in Imports, i \in DOMAIN file.contexts :
        file.contexts[i] \in ToSet(import.contexts) =>
            ToSet(import.creds) \subseteq ToSet(file.creds)

\* An import creates all of its contexts or none.
ImportedTogether ==
    (\A p \in Processes : jobs[p] = Idle) =>
        \A import \in Imports :
            \/ ContextNames(import) \subseteq ContextNames(file)
            \/ ToSet(import.contexts) \cap ToSet(file.contexts) = {}

\* Every stored context has a managed service (agents/reference/cli.md,
\* rule 53).
ServiceRequired ==
    \A i \in DOMAIN file.contexts : "server" \in file.contexts[i].parts
=============================================================================
