---------------------------- MODULE ContextModel ----------------------------
(* Contexts, credentials and proxies: what a context of the catalog         *)
(* contains, when it is valid, and what it resolves to.  Texts are "" when  *)
(* empty; a placeholder "$x" stands for ${X} and is replaced by the value   *)
(* of the environment.                                                      *)
EXTENDS Naturals, Sequences, FiniteSets

LOCAL INSTANCE SequencesExt

CONSTANTS
    ProxyURLs       \* the texts that are http or https URLs

(***************************************************************************)
(* Proxies (internal/proxy).  The https field behaves as the http field.   *)
(***************************************************************************)

NoProxyBlock == [set |-> FALSE, http |-> "", noProxy |-> "", auth |-> ""]
ProxyBlock(http, noProxy, auth) == [set |-> TRUE, http |-> http, noProxy |-> noProxy, auth |-> auth]
Disabled == ProxyBlock("", "", "")

HasURLs(p) == p.set /\ p.http # ""

IsExplicitDisable(p) == p.set /\ ~HasURLs(p) /\ p.noProxy = "" /\ p.auth = ""

EqualProxies(a, b) == a = b

FirstNonEmpty(a, b) == IF a # "" THEN a ELSE b

\* Mutant of MergeProxy: the environment wins.
MergeProxyEnvironment(base, override) ==
    ProxyBlock(FirstNonEmpty(base.http, override.http),
               FirstNonEmpty(base.noProxy, override.noProxy), override.auth)

\* Merge: field by field; an explicit disable disables everything.
MergeProxy(base, override) ==
    IF IsExplicitDisable(override) THEN Disabled
    ELSE IF ~base.set /\ ~override.set THEN NoProxyBlock
    ELSE ProxyBlock(FirstNonEmpty(override.http, base.http),
                    FirstNonEmpty(override.noProxy, base.noProxy),
                    FirstNonEmpty(override.auth, base.auth))

\* FromEnvironment: an environment without a value has no proxy.
FromEnvironment(p) == IF IsExplicitDisable(p) THEN NoProxyBlock ELSE p

\* parseProxyURL, through Build: an URL is absent or well formed.
BuildsProxy(p) == p.http = "" \/ p.http \in ProxyURLs

(***************************************************************************)
(* Contexts.  parts tells which optional sections are there; auth is the   *)
(* set of methods a section configures and ref its credentialsRef.         *)
(***************************************************************************)

Sections == {"server", "remote", "vault"}
MetadataSources == {"baseDir", "bundle", "bundleFile"}
NoneOf(S) == [s \in S |-> ""]
Targets == <<"server", "remote", "vault", "metadata">>

EmptyContext == [name |-> "", repo |-> "none", base |-> "", parts |-> {},
    url |-> NoneOf(Sections), auth |-> [s \in Sections |-> {}], complete |-> TRUE,
    ref |-> NoneOf(Sections), keys |-> {}, metadata |-> NoneOf(MetadataSources),
    proxy |-> [t \in ToSet(Targets) |-> NoProxyBlock]]

BuildProxyTargets(c) ==
    SelectSeq(Targets, LAMBDA t : t = "metadata" \/ t \in c.parts)

\* ExpandExactEnvPlaceholders
Expand(t, vars) == IF t \in DOMAIN vars THEN vars[t] ELSE t
ExpandContext(c, vars) ==
    [c EXCEPT !.name = Expand(@, vars), !.base = Expand(@, vars),
        !.url = [s \in Sections |-> Expand(c.url[s], vars)],
        !.ref = [s \in Sections |-> Expand(c.ref[s], vars)],
        !.metadata = [s \in MetadataSources |-> Expand(c.metadata[s], vars)],
        !.proxy = [t \in DOMAIN c.proxy |->
            [c.proxy[t] EXCEPT !.http = Expand(@, vars), !.noProxy = Expand(@, vars),
                               !.auth = Expand(@, vars)]]]

ContextRepositoryBaseDir(c) == IF c.repo = "none" THEN "" ELSE c.base

\* CompactContext: what equals the default is not persisted.
CompactContext(c) ==
    IF c.metadata["bundle"] # "" \/ c.metadata["bundleFile"] # ""
         \/ (c.metadata["baseDir"] # "" /\ c.metadata["baseDir"] = ContextRepositoryBaseDir(c))
    THEN [c EXCEPT !.metadata["baseDir"] = ""] ELSE c

(***************************************************************************)
(* Validation (catalog_validate.go).  With strict FALSE a reference to a   *)
(* credential need not be defined.                                         *)
(***************************************************************************)

CountSet(S) == Cardinality(S)

ValidateCredentialRef(ref, names, strict) == ref # "" /\ (strict => ref \in names)

ValidateProxyAuth(p, names, strict) == p.auth # "" => ValidateCredentialRef(p.auth, names, strict)

ValidateProxy(p, names, strict) ==
    (p.set /\ ~IsExplicitDisable(p)) => ValidateProxyAuth(p, names, strict) /\ BuildsProxy(p)

BasicRefOK(c, s, method, names, strict) ==
    method \in c.auth[s] => ValidateCredentialRef(c.ref[s], names, strict)

ValidateRepository(c, names, strict) ==
    /\ c.repo # "none" => c.base # ""
    /\ "remote" \in c.parts =>
         /\ c.repo = "git" /\ c.url["remote"] # ""
         /\ CountSet(c.auth["remote"]) <= 1
         /\ BasicRefOK(c, "remote", "basic", names, strict)
         /\ ValidateProxy(c.proxy["remote"], names, strict)

ValidateManagedService(c, names, strict) ==
    "server" \in c.parts =>
        /\ c.url["server"] # "" /\ CountSet(c.auth["server"]) = 1 /\ c.complete
        /\ BasicRefOK(c, "server", "basic", names, strict)
        /\ ValidateProxy(c.proxy["server"], names, strict)

ValidateSecretStore(c, names, strict) ==
    /\ CountSet(c.parts \cap {"file", "vault"}) <= 1
    /\ "file" \in c.parts => CountSet(c.keys) = 1
    /\ "vault" \in c.parts =>
         /\ c.url["vault"] # "" /\ CountSet(c.auth["vault"]) = 1
         /\ BasicRefOK(c, "vault", "password", names, strict)
         /\ ValidateProxy(c.proxy["vault"], names, strict)

\* The credential of metadata.proxy is not looked up.
ValidateMetadata(c) ==
    /\ CountSet({s \in MetadataSources : c.metadata[s] # ""}) <= 1
    /\ ValidateProxy(c.proxy["metadata"], {}, FALSE)

ValidateConfig(c, names, strict) ==
    /\ c.name # ""
    /\ c.repo # "none" \/ "server" \in c.parts
    /\ ValidateRepository(c, names, strict)
    /\ ValidateManagedService(c, names, strict)
    /\ ValidateSecretStore(c, names, strict)
    /\ ValidateMetadata(c)

ValidateResolvedConfig(c, vars) == ValidateConfig(ExpandContext(c, vars), {}, FALSE)

CredentialNames(creds) == {creds[i].name : i \in DOMAIN creds}

\* validateCredentials: names and values are there, no name twice.
ValidateCredentials(creds) ==
    /\ \A i \in DOMAIN creds : creds[i].name # "" /\ creds[i].value # ""
    /\ CountSet(CredentialNames(creds)) = Len(creds)

ContextNames(catalog) == {catalog.contexts[i].name : i \in DOMAIN catalog.contexts}

ValidateCatalog(catalog) ==
    /\ ValidateCredentials(catalog.creds)
    /\ IF catalog.contexts = <<>> THEN catalog.current = ""
       ELSE /\ CountSet(ContextNames(catalog)) = Len(catalog.contexts)
            /\ \A i \in DOMAIN catalog.contexts :
                 ValidateConfig(catalog.contexts[i], CredentialNames(catalog.creds), TRUE)
            /\ catalog.current \in ContextNames(catalog)

ExpandCatalog(catalog, vars) ==
    [contexts |-> [i \in DOMAIN catalog.contexts |-> ExpandContext(catalog.contexts[i], vars)],
     current |-> Expand(catalog.current, vars),
     creds |-> [i \in DOMAIN catalog.creds |->
                  [name |-> Expand(catalog.creds[i].name, vars),
                   value |-> Expand(catalog.creds[i].value, vars)]]]

ValidateResolvedCatalog(catalog, vars) == ValidateCatalog(ExpandCatalog(catalog, vars))

(***************************************************************************)
(* Resolution (catalog_normalize.go, catalog_credentials.go).              *)
(***************************************************************************)

\* Mutant of OverrideMetadata: an empty value clears every source.
OverrideMetadataReset(metadata, s, value) ==
    [t \in MetadataSources |-> IF t = s THEN value ELSE ""]

\* applyOverrides, in the order of the keys; ok is FALSE when the section an
\* override is for is not configured.
OverrideMetadata(metadata, s, value) ==
    IF value = "" THEN [metadata EXCEPT ![s] = ""]
    ELSE [t \in MetadataSources |-> IF t = s THEN value ELSE ""]

OverrideOne(c, key, value) ==
    CASE key = "serverURL" -> [c EXCEPT !.url["server"] = value]
      [] key = "serverProxy" -> [c EXCEPT !.proxy["server"].set = TRUE,
                                          !.proxy["server"].http = value]
      [] key = "base" -> [c EXCEPT !.base = value]
      [] OTHER -> [c EXCEPT !.metadata = OverrideMetadata(@, key, value)]

OverrideOrder == <<"serverProxy", "serverURL", "baseDir", "bundle", "bundleFile", "base">>

CanOverride(c, keys) ==
    /\ keys \cap {"serverURL", "serverProxy"} # {} => "server" \in c.parts
    /\ "base" \in keys => c.repo # "none"

ApplyOverrides(c, overrides) ==
    FoldLeft(LAMBDA d, key : IF key \in DOMAIN overrides
                             THEN OverrideOne(d, key, overrides[key]) ELSE d,
             c, OverrideOrder)

\* The first target, in order, that has an URL of its own or one merged with
\* the environment's fields; otherwise the environment.
CanonicalProxy(c, merged, env) ==
    LET concrete == SelectSeq(BuildProxyTargets(c), LAMBDA t : HasURLs(merged[t]))
    IN IF concrete # <<>> THEN merged[Head(concrete)]
       ELSE IF HasURLs(env) THEN env ELSE NoProxyBlock

\* applyProxyDefaults
ApplyProxyDefaults(c, env) ==
    LET merged == [t \in DOMAIN c.proxy |->
            IF ~c.proxy[t].set \/ IsExplicitDisable(c.proxy[t]) THEN c.proxy[t]
            ELSE MergeProxy(env, c.proxy[t])]
        canonical == CanonicalProxy(c, merged, env)
    IN [c EXCEPT !.proxy = [t \in DOMAIN c.proxy |->
            IF t \in ToSet(BuildProxyTargets(c)) /\ ~merged[t].set THEN canonical
            ELSE merged[t]]]

\* applyConfigDefaults
ApplyConfigDefaults(c, env) ==
    LET sourced == IF \A s \in MetadataSources : c.metadata[s] = ""
                   THEN [c EXCEPT !.metadata["baseDir"] = ContextRepositoryBaseDir(c)] ELSE c
    IN ApplyProxyDefaults(sourced, env)

\* injectContextCredentials: every credential that is used is defined.
InjectsCredentials(c, names) ==
    /\ \A s \in Sections \cap c.parts :
         ("basic" \in c.auth[s] \/ "password" \in c.auth[s]) => c.ref[s] \in names
    /\ \A t \in ToSet(BuildProxyTargets(c)) : c.proxy[t].auth # "" => c.proxy[t].auth \in names

FindContextIndex(contexts, name) ==
    IF \E i \in DOMAIN contexts : contexts[i].name = name
    THEN CHOOSE i \in DOMAIN contexts :
           contexts[i].name = name /\ \A j \in 1..(i - 1) : contexts[j].name # name
    ELSE 0

\* ResolveContext, of a catalog that could be loaded.
ResolveContext(catalog, name, overrides, shell) ==
    LET expanded == ExpandCatalog(catalog, shell.vars)
        names == CredentialNames(expanded.creds)
        index == FindContextIndex(expanded.contexts, FirstNonEmpty(name, expanded.current))
    IN IF index = 0 \/ ~ValidateCredentials(expanded.creds)
       THEN [ok |-> FALSE, context |-> EmptyContext]
       ELSE LET stored == expanded.contexts[index]
                resolved == ApplyConfigDefaults(ApplyOverrides(stored, overrides), shell.proxy)
            IN [ok |-> /\ CanOverride(stored, DOMAIN overrides)
                       /\ ValidateConfig(resolved, names, TRUE)
                       /\ InjectsCredentials(resolved, names),
                context |-> resolved]

\* preserveProxyOmissions: what equals the first concrete proxy and was not
\* configured before is taken for an inherited proxy.
PreserveProxyOmissions(c, baseline) ==
    LET concrete == SelectSeq(BuildProxyTargets(c), LAMBDA t : HasURLs(c.proxy[t]))
        inherited(t) ==
            /\ t \in ToSet(BuildProxyTargets(c)) \cap ToSet(BuildProxyTargets(baseline))
            /\ c.proxy[t].set /\ ~IsExplicitDisable(c.proxy[t])
            /\ ~baseline.proxy[t].set
            /\ EqualProxies(c.proxy[t], c.proxy[Head(concrete)])
    IN IF concrete = <<>> THEN c
       ELSE [c EXCEPT !.proxy = [t \in DOMAIN c.proxy |->
                IF inherited(t) THEN NoProxyBlock ELSE c.proxy[t]]]

\* mergeContextCredentials: new credentials are added, an equal one is kept,
\* a different one is refused.
ConflictingCredentials(creds, new) ==
    \E i \in DOMAIN creds, j \in DOMAIN new :
        creds[i].name = new[j].name /\ creds[i].value # new[j].value

MergeContextCredentials(creds, new) ==
    creds \o SelectSeq(new, LAMBDA n : n.name \notin CredentialNames(creds))
=============================================================================
