--------------------------- MODULE SecretCommands ---------------------------
(* The "secret" commands and the algorithms of package secrets: how a        *)
(* command names an entry of the store, which attributes of a payload look   *)
(* like secrets, masking, resolving and normalising placeholders, secrets    *)
(* that are a whole resource, and the listing of the store.                  *)
(*                                                                           *)
(* A text is a sequence of tokens: "/", ":", "." and words. A payload maps   *)
(* the keys that lead to each scalar to that scalar; a numeral is a list     *)
(* index. Escaping in JSON pointers is left out: a key is one token.         *)
EXTENDS Naturals, Sequences, SequencesExt, FiniteSets, TLC

CONSTANTS
    Provider,       \* "file", "kv1" or "kv2" (the two engines of a vault)
    Spelling,       \* how each key of a payload is spelled: a sequence of chunks
    Payloads,       \* the payloads given to commands
    Paths,          \* logical paths given to commands
    KeyTexts,       \* keys given to commands
    Arguments,      \* positional arguments given to commands
    Values,         \* values given to "secret set"
    Contents        \* contents saved as a whole secret

VARIABLES
    vault,          \* what the store holds: values by normalised key
    names,          \* the keys a vault of kv2 still lists
    origin,         \* the content each key was given, before it was encoded
    said            \* the last command and what it answered

secretVars == <<vault, names, origin, said>>

(***************************************************************************)
(* Texts and store keys.                                                   *)
(***************************************************************************)

HasPrefix(t, p) == Len(t) >= Len(p) /\ SubSeq(t, 1, Len(p)) = p
Rooted(t) == t # <<>> /\ t[1] = "/"

RECURSIVE TrimSlashes(_)
TrimSlashes(t) ==
    IF t = <<>> THEN t
    ELSE IF t[1] = "/" THEN TrimSlashes(Tail(t))
    ELSE IF t[Len(t)] = "/" THEN TrimSlashes(Front(t)) ELSE t

\* Mutant of ValidKey: empty segments are let through.
ValidKeyAny(t) == TrimSlashes(t) # <<>>

\* NormalizeKey: what it refuses, and what it answers.
ValidKey(t) ==
    LET k == TrimSlashes(t)
        Bounds == {0, Len(k) + 1} \cup {i \in DOMAIN k : k[i] = "/"}
        Segments == {SubSeq(k, i + 1, j - 1) : <<i, j>> \in
                        {p \in Bounds \X Bounds : p[1] < p[2] /\ \A b \in Bounds : b <= p[1] \/ b >= p[2]}}
    IN  k # <<>> /\ Segments \cap {<<>>, <<".">>, <<"..">>} = {}
StoreKey(t) == TrimSlashes(t)

\* The first colon of a text that is not its first token, or 0.
ColonAt(t) ==
    LET colons == {i \in DOMAIN t : t[i] = ":"}
        first == CHOOSE i \in colons : \A j \in colons : i <= j
    IN  IF colons = {} \/ first = 1 THEN 0 ELSE first
Before(t, i) == SubSeq(t, 1, i - 1)
After(t, i) == SubSeq(t, i + 1, Len(t))

\* joinAttributePath: an empty key starts the path again.
JoinAttributePath(prefix, key) == IF key = "" THEN <<>> ELSE prefix \o <<"/", key>>
AttributePath(steps) == FoldLeft(JoinAttributePath, <<>>, steps)

(***************************************************************************)
(* Which keys look like secrets (secret_detection.go).                     *)
(***************************************************************************)

Cores == {<<w>> : w \in {"password", "passphrase", "secret", "token"}}
PairPrefixes == {<<w>> : w \in {"api", "client", "access", "private", "bearer", "refresh"}}
Qualifiers == {<<w>> : w \in {"type", "policy", "url", "id", "name", "claim", "response", "enabled"}}
Pairs == {<<"api", "key">>, <<"client", "secret">>, <<"access", "key">>, <<"access", "token">>,
          <<"private", "key">>, <<"bearer", "token">>, <<"refresh", "token">>}
IsSecretCoreToken(w) == w \in Cores
IsSecretPairPrefixToken(w) == w \in PairPrefixes
IsNonSecretQualifierToken(w) == w \in Qualifiers

\* Mutant of SplitIdentifierTokens: only a separator ends a token.
SplitAtSeparators(chunks) ==
    LET Add(done, c) == IF c.case = "separator" THEN [done EXCEPT !.open = FALSE]
                        ELSE IF ~done.open THEN [open |-> TRUE, last |-> c.case, tokens |-> Append(done.tokens, <<c.word>>)]
                        ELSE [done EXCEPT !.last = c.case, !.tokens[Len(done.tokens)] = Append(@, c.word)]
    IN  FoldLeft(Add, [open |-> FALSE, last |-> "", tokens |-> <<>>], chunks).tokens

\* splitIdentifierTokens: a chunk is a word in lower case, Capitalised or in
\* UPPER case, or a separator; a capital starts a token after a lower letter.
SplitIdentifierTokens(chunks) ==
    LET Add(done, c) ==
            IF c.case = "separator" THEN [done EXCEPT !.open = FALSE]
            ELSE IF ~done.open \/ (c.case \in {"Capital", "UPPER"} /\ done.last # "UPPER")
            THEN [open |-> TRUE, last |-> c.case, tokens |-> Append(done.tokens, <<c.word>>)]
            ELSE [done EXCEPT !.last = c.case, !.tokens[Len(done.tokens)] = Append(@, c.word)]
    IN  FoldLeft(Add, [open |-> FALSE, last |-> "", tokens |-> <<>>], chunks).tokens

HasStrongSecretPair(w) ==
    \E i \in 1 .. Len(w) - 1 :
        /\ w[i] \o w[i + 1] \in Pairs /\ Len(w[i]) = 1
        /\ i = 1 \/ ~IsNonSecretQualifierToken(w[i - 1])
        /\ i + 1 = Len(w) \/ ~IsNonSecretQualifierToken(w[i + 2])

IsStandaloneSecretToken(w, i) ==
    /\ i = 1 \/ ~IsNonSecretQualifierToken(w[i - 1])
    /\ IF i = Len(w)
       THEN ~(i > 2 /\ IsNonSecretQualifierToken(w[i - 2])
              /\ (IsSecretCoreToken(w[i - 1]) \/ IsSecretPairPrefixToken(w[i - 1])))
       ELSE /\ ~IsNonSecretQualifierToken(w[i + 1])
            /\ \A n \in i + 2 .. Len(w) :
                  IsNonSecretQualifierToken(w[n]) => \E c \in i + 2 .. n - 1 : IsSecretCoreToken(w[c])

IsLikelySecretKey(key) ==
    LET w == SplitIdentifierTokens(Spelling[key])
    IN  \/ HasStrongSecretPair(w)
        \/ FlattenSeq(w) \in Pairs
        \/ \E i \in DOMAIN w : IsSecretCoreToken(w[i]) /\ IsStandaloneSecretToken(w, i)

(***************************************************************************)
(* Scalars of a payload, and placeholders (secret_placeholders.go).        *)
(***************************************************************************)

\* kind: plain, digits (also booleans as text), number, null, current ({{secret .}}),
\* explicit ({{secret key}}), malformed ({{secret}}), descriptor ({{payload_type .}})
\* or descriptor_malformed.
Scalar(kind, body, key) == [kind |-> kind, body |-> body, key |-> key]
Plain(body) == Scalar(IF body = "43200" THEN "digits" ELSE "plain", body, <<>>)
Current == Scalar("current", "", <<>>)
Explicit(key) == Scalar("explicit", "", key)
IsText(v) == v.kind \notin {"number", "null"}

\* parseSecretPlaceholder
IsPlaceholder(v) == v.kind \in {"current", "explicit", "malformed"}
Malformed(v) == v.kind = "malformed"

\* resolvePlaceholderAttribute
AttributeFails(v, at) == IF v.kind = "current" THEN at = <<>> ELSE v.key = <<>> \/ Rooted(v.key)
ResolvePlaceholderAttribute(v, at) == IF v.kind = "current" THEN at ELSE v.key

\* resolvePlaceholderStoreKey
ResolvePlaceholderStoreKey(v, at, path) ==
    IF path = <<>> THEN ResolvePlaceholderAttribute(v, at)
    ELSE path \o <<":">> \o ResolvePlaceholderAttribute(v, at)

Failed == [ok |-> FALSE, payload |-> (<<>> :> Plain(""))]
Answer(payload) == [ok |-> TRUE, payload |-> payload]

\* Mutant of NormalizePlaceholdersValue: every placeholder becomes {{secret .}}.
NormalizeAll(payload) == Answer([s \in DOMAIN payload |-> IF IsPlaceholder(payload[s]) THEN Current ELSE payload[s]])

\* NormalizePlaceholders, normalizePlaceholdersValue
NormalizePlaceholdersValue(payload) ==
    LET Of(s) == LET v == payload[s]  at == AttributePath(s)
                 IN  IF ~IsPlaceholder(v) THEN v
                     ELSE IF ResolvePlaceholderAttribute(v, at) = at THEN Current
                     ELSE Explicit(ResolvePlaceholderAttribute(v, at))
        fails == \E s \in DOMAIN payload : IsPlaceholder(payload[s])
                    /\ (Malformed(payload[s]) \/ AttributeFails(payload[s], AttributePath(s)))
    IN  IF fails THEN Failed ELSE Answer([s \in DOMAIN payload |-> Of(s)])

(***************************************************************************)
(* Detection and masking (secret_detection.go, secret_masking.go).         *)
(***************************************************************************)

\* isLikelySecretValue
IsLikelySecretValue(v) == v.kind # "digits"

\* The keys of a payload, those that hold an object or a list included.
Nodes(payload) == UNION {{SubSeq(s, 1, n) : n \in 1 .. Len(s)} : s \in DOMAIN payload}
SecretNodes(payload) == {s \in Nodes(payload) : IsLikelySecretKey(Last(s))}

\* DetectSecretCandidates, collectDetectedCandidates
DetectFails(payload) == \E s \in SecretNodes(payload) \cap DOMAIN payload : Malformed(payload[s])
DetectSecretCandidates(payload) ==
    {AttributePath(s) : s \in {t \in SecretNodes(payload) \cap DOMAIN payload :
        IsText(payload[t]) /\ ~IsPlaceholder(payload[t]) /\ IsLikelySecretValue(payload[t])}}

\* Mutant of CollectMaskCandidates: lists are not walked.
CollectOutsideLists(payload) ==
    {s \in SecretNodes(payload) \cap DOMAIN payload :
        IsText(payload[s]) /\ ~IsPlaceholder(payload[s]) /\ \A i \in DOMAIN s : s[i] # "0"}

\* collectMaskCandidates: what is masked, and when it refuses. A secret key
\* must hold a text or null, and one name may be masked at one place only.
CollectMaskCandidates(payload) ==
    {s \in SecretNodes(payload) \cap DOMAIN payload : IsText(payload[s]) /\ ~IsPlaceholder(payload[s])}
\* Mutant of MaskRefuses: two places of one name are taken.
MaskRefusesTypes(payload) ==
    \E s \in SecretNodes(payload) :
        IF s \in DOMAIN payload THEN payload[s].kind = "number" \/ Malformed(payload[s]) ELSE TRUE

MaskRefuses(payload) ==
    \/ \E s \in SecretNodes(payload) :
          IF s \in DOMAIN payload THEN payload[s].kind = "number" \/ Malformed(payload[s]) ELSE TRUE
    \/ \E s, t \in CollectMaskCandidates(payload) :
          s # t /\ (Last(s) = Last(t) \/ AttributePath(s) = AttributePath(t))

\* applyMask
ApplyMask(payload) ==
    [s \in DOMAIN payload |-> IF s \in CollectMaskCandidates(payload) THEN Current ELSE payload[s]]

(***************************************************************************)
(* Whole resources (whole_resource_secret.go). A stored value is the text  *)
(* of its content, or the encoding of it behind a prefix.                  *)
(***************************************************************************)

Content(body, utf8, prefixed) == [body |-> body, utf8 |-> utf8, prefixed |-> prefixed]
Text(body) == Content(body, TRUE, FALSE)
Stored(content, encoded) == [content |-> content, encoded |-> encoded]

\* Mutant of EncodeWholeResourceSecret: the prefix is not looked for.
EncodeUnlessBinary(c) == Stored(c, ~c.utf8)

EncodeWholeResourceSecret(c) == Stored(c, ~c.utf8 \/ c.prefixed)

\* DecodeWholeResourceSecret: a text with the prefix is decoded whoever wrote it.
DecodeFails(stored) == ~stored.encoded /\ stored.content.prefixed
DecodeWholeResourceSecret(stored) == stored.content.body

\* resolveWholeResourceSecretKey
WholeKeyFails(v) == v.kind = "explicit" /\ (v.key = <<>> \/ Rooted(v.key))
ResolveWholeResourceSecretKey(v, path) ==
    path \o <<":">> \o (IF v.kind = "current" THEN <<".">> ELSE v.key)

(***************************************************************************)
(* Resolution (secret_resolution.go) from the entries of a store.          *)
(***************************************************************************)

Holds(entries, key) == ValidKey(key) /\ StoreKey(key) \in DOMAIN entries

\* wholeResourcePlaceholderString, ResolveWholeResourcePlaceholderForResource
IsWholePlaceholder(payload) == DOMAIN payload = {<<>>} /\ IsText(payload[<<>>]) /\ IsPlaceholder(payload[<<>>])
ResolveWholeResourcePlaceholder(payload, path, entries) ==
    LET v == payload[<<>>]
        key == ResolveWholeResourceSecretKey(v, path)
    IN  IF Malformed(v) \/ WholeKeyFails(v) \/ ~Holds(entries, key) THEN Failed
        ELSE IF DecodeFails(entries[StoreKey(key)]) THEN Failed
        ELSE Answer(<<>> :> Plain(DecodeWholeResourceSecret(entries[StoreKey(key)])))

\* Mutant of ResolvePayloadValue: a key that is not in the store leaves its placeholder.
ResolveWhatIsThere(payload, path, entries) ==
    LET KeyOf(s) == ResolvePlaceholderStoreKey(payload[s], AttributePath(s), path)
        Of(s) == IF ~IsPlaceholder(payload[s]) \/ ~Holds(entries, KeyOf(s)) THEN payload[s]
                 ELSE Plain(entries[StoreKey(KeyOf(s))].content.body)
    IN  Answer([s \in DOMAIN payload |-> Of(s)])

\* ResolvePayload, ResolvePayloadForResource, resolvePayloadWithResourceScope,
\* resolvePayloadValue. Nothing writes to the store meanwhile, so the cache of
\* one call cannot be told.
ResolvePayloadValue(payload, path, entries) ==
    LET KeyOf(s) == ResolvePlaceholderStoreKey(payload[s], AttributePath(s), path)
        places == {s \in DOMAIN payload : IsPlaceholder(payload[s])}
        fails == \E s \in places : Malformed(payload[s]) \/ AttributeFails(payload[s], AttributePath(s))
                                       \/ ~Holds(entries, KeyOf(s))
    IN  IF fails THEN Failed
        ELSE Answer([s \in DOMAIN payload |->
                IF s \in places THEN Plain(entries[StoreKey(KeyOf(s))].content.body) ELSE payload[s]])

\* resolvePayloadDescriptorDirectivesValue, resolvePayloadDescriptorPlaceholder
DescriptorFails(payload) == \E s \in DOMAIN payload : payload[s].kind = "descriptor_malformed"
ResolvePayloadDescriptorDirectives(payload) ==
    [s \in DOMAIN payload |-> IF payload[s].kind = "descriptor" THEN Plain("descriptor") ELSE payload[s]]

ResolvePayloadDirectivesForResource(payload, path, entries) ==
    LET described == ResolvePayloadDescriptorDirectives(payload)
    IN  IF DescriptorFails(payload) THEN Failed
        ELSE IF IsWholePlaceholder(described) THEN ResolveWholeResourcePlaceholder(described, path, entries)
        ELSE ResolvePayloadValue(described, path, entries)

(***************************************************************************)
(* How a command names an entry (path_resolution.go): flags, positional    *)
(* arguments, or one argument path:key.                                    *)
(***************************************************************************)

NoTarget == [ok |-> FALSE, path |-> <<>>, key |-> <<>>]
Target(path, key) == [ok |-> TRUE, path |-> path, key |-> key]
Form(path, key, args) == [path |-> path, key |-> key, args |-> args]

\* normalizeSecretPathForInput, normalizeSecretPathFlag
PathFails(t) == ~Rooted(t)
NormalizePath(t) == <<"/">> \o TrimSlashes(t)
FlagPath(form) == IF form.path = <<>> THEN <<>> ELSE NormalizePath(form.path)
FlagsFail(form) == (form.path # <<>> /\ PathFails(form.path)) \/ (form.key # <<>> /\ form.path = <<>>)

\* splitSecretPathKeyArg
IsComposite(t) == Rooted(t) /\ ColonAt(t) > 0 /\ After(t, ColonAt(t)) # <<>>
SplitSecretPathKeyArg(t) == Target(NormalizePath(Before(t, ColonAt(t))), After(t, ColonAt(t)))

\* resolveSecretTargetFromSingleArg
FromSingleArg(form, arg) ==
    IF form.path # <<>>
    THEN IF form.key \notin {<<>>, arg} THEN NoTarget ELSE Target(FlagPath(form), arg)
    ELSE IF IsComposite(arg) THEN SplitSecretPathKeyArg(arg)
    ELSE IF Rooted(arg) THEN NoTarget ELSE Target(<<>>, arg)

\* Mutant of FromPathAndKeyArgs: the flags win over the arguments.
FlagsWin(form, path, key) ==
    IF PathFails(path) THEN NoTarget
    ELSE Target(IF form.path # <<>> THEN FlagPath(form) ELSE NormalizePath(path), IF form.key # <<>> THEN form.key ELSE key)

\* resolveSecretTargetFromPathAndKeyArgs, and the three arguments of "secret set"
FromPathAndKeyArgs(form, path, key) ==
    IF \/ PathFails(path)
       \/ (form.path # <<>> /\ FlagPath(form) # NormalizePath(path))
       \/ form.key \notin {<<>>, key}
    THEN NoTarget ELSE Target(NormalizePath(path), key)

\* resolveSecretTargetRequest
ResolveSecretTargetRequest(form) ==
    IF FlagsFail(form) THEN NoTarget
    ELSE CASE Len(form.args) = 0 -> IF form.path = <<>> \/ form.key = <<>> THEN NoTarget ELSE Target(FlagPath(form), form.key)
           [] Len(form.args) = 1 -> FromSingleArg(form, form.args[1])
           [] OTHER -> FromPathAndKeyArgs(form, form.args[1], form.args[2])

\* resolveSecretSetFromTwoArgs
SetFromTwoArgs(form, arg) == FromSingleArg(form, arg)

\* resolveSecretSetRequest: the value is the last argument and not among form.args.
ResolveSecretSetRequest(form) ==
    IF FlagsFail(form) THEN NoTarget
    ELSE CASE Len(form.args) = 0 -> IF form.path = <<>> \/ form.key = <<>> THEN NoTarget ELSE Target(FlagPath(form), form.key)
           [] Len(form.args) = 1 -> SetFromTwoArgs(form, form.args[1])
           [] OTHER -> FromPathAndKeyArgs(form, form.args[1], form.args[2])

\* secretTarget.ResolvedKey
ResolvedKey(target) == IF target.path = <<>> THEN target.key ELSE target.path \o <<":">> \o target.key

(***************************************************************************)
(* Listing (rendering.go, and List of the two stores).                     *)
(***************************************************************************)

SegmentEnd(t, n) ==
    LET slashes == {i \in DOMAIN t : t[i] = "/" /\ i > n}
    IN  IF slashes = {} THEN Len(t) + 1 ELSE CHOOSE i \in slashes : \A j \in slashes : i <= j

\* What a vault answers to LIST below a prefix: the next segment of each key,
\* with a slash when more follow.
Entries(keys, prefix) ==
    LET start == IF prefix = <<>> THEN 0 ELSE Len(prefix) + 1
        below == {k \in keys : prefix = <<>> \/ HasPrefix(k, prefix \o <<"/">>)}
    IN  {[name |-> SubSeq(k, start + 1, SegmentEnd(k, start) - 1), more |-> SegmentEnd(k, start) <= Len(k)] : k \in below}

\* joinVaultListPath
JoinVaultListPath(prefix, name) == IF prefix = <<>> THEN name ELSE prefix \o <<"/">> \o name

\* Mutant of VaultList: the keys of a prefix that is itself a key are not walked.
RECURSIVE VaultListFlat(_, _, _)
VaultListFlat(keys, pending, found) ==
    IF pending = {} THEN found
    ELSE LET prefix == CHOOSE p \in pending : TRUE
             entries == Entries(keys, prefix)
             names1 == {e.name : e \in {f \in entries : ~f.more}}
         IN  VaultListFlat(keys,
                 (pending \ {prefix}) \cup {JoinVaultListPath(prefix, e.name) : e \in {f \in entries : f.more /\ f.name \notin names1}},
                 found \cup {JoinVaultListPath(prefix, n) : n \in names1})

\* Store.List of the vault, listEntries: prefixes are walked until none is left.
RECURSIVE VaultList(_, _, _)
VaultList(keys, pending, found) ==
    IF pending = {} THEN found
    ELSE LET prefix == CHOOSE p \in pending : TRUE
             entries == Entries(keys, prefix)
         IN  VaultList(keys,
                 (pending \ {prefix}) \cup {JoinVaultListPath(prefix, e.name) : e \in {f \in entries : f.more}},
                 found \cup {JoinVaultListPath(prefix, e.name) : e \in {f \in entries : ~f.more}})

StoredNames == IF Provider = "file" THEN DOMAIN vault ELSE VaultList(names, {<<>>}, {})

\* splitStoredSecretPathKey
IsScoped(t) == ColonAt(t) > 0 /\ TrimSlashes(Before(t, ColonAt(t))) # <<>> /\ After(t, ColonAt(t)) # <<>>
StoredPath(t) == TrimSlashes(Before(t, ColonAt(t)))
StoredSuffix(t) == After(t, ColonAt(t))

\* renderAllSecretKeys, displaySecretKey
DisplaySecretKey(t) == IF IsScoped(t) THEN <<"/">> \o StoredPath(t) \o <<":">> \o StoredSuffix(t) ELSE t

\* Mutant of RenderPathScoped: descendants are shown without being asked for.
RenderDescendants(path, recursive, t) ==
    IF StoredPath(t) = path THEN {StoredSuffix(t)}
    ELSE IF HasPrefix(StoredPath(t), path) THEN {StoredSuffix(t)} ELSE {}

\* renderPathScopedSecretListKey: what is shown of a key, or nothing.
RenderPathScoped(path, recursive, t) ==
    IF path = <<>> THEN {DisplaySecretKey(t)}
    ELSE IF StoredPath(t) = path THEN {StoredSuffix(t)}
    ELSE IF recursive /\ HasPrefix(StoredPath(t), path \o <<"/">>)
    THEN {<<"/">> \o After(StoredPath(t), Len(path) + 1) \o <<":">> \o StoredSuffix(t)} ELSE {}

\* listSecretKeys; a path with nothing below it is not found.
ListSecretKeys(path, recursive) ==
    IF path = <<>> THEN {DisplaySecretKey(t) : t \in StoredNames}
    ELSE UNION {RenderPathScoped(TrimSlashes(path), recursive, t) : t \in {u \in StoredNames : IsScoped(u)}}

\* resolveSecretListRequest
ListFails(form) ==
    \/ FlagsFail(form) \/ Len(form.args) > 1
    \/ Len(form.args) = 1 /\ (IsComposite(form.args[1]) \/ PathFails(form.args[1])
                              \/ (form.path # <<>> /\ FlagPath(form) # NormalizePath(form.args[1])))
ResolveSecretListRequest(form) == IF Len(form.args) = 1 THEN NormalizePath(form.args[1]) ELSE FlagPath(form)

(***************************************************************************)
(* The commands (internal/cli/secret/command.go), one after the other.     *)
(***************************************************************************)

CONSTANT MaxEntries     \* entries the store holds at most

NoPayload == <<>> :> Plain("")
Silent == [cmd |-> "none", ok |-> FALSE, form |-> Form(<<>>, <<>>, <<>>), target |-> NoTarget, path |-> <<>>,
           recursive |-> FALSE, payload |-> NoPayload, answer |-> NoPayload, shown |-> {}]
Forms(lengths) == {Form(p, k, a) : p \in {<<>>} \cup Paths, k \in {<<>>} \cup KeyTexts,
                                   a \in UNION {[1 .. n -> Arguments] : n \in lengths}}
Keep(entries, key, value) == (key :> value) @@ entries
Without(entries, key) == [k \in DOMAIN entries \ {key} |-> entries[k]]

\* Store of the file and of the vault.
StoreEntry(key, value, was) ==
    /\ vault' = Keep(vault, key, value)
    /\ origin' = Keep(origin, key, was)
    /\ names' = names \cup {key}
    /\ Cardinality(DOMAIN vault') <= MaxEntries
Untouched == UNCHANGED <<vault, origin, names>>

Set(form, value) ==
    LET t == ResolveSecretSetRequest(form)
        key == ResolvedKey(t)
        ok == t.ok /\ ValidKey(key)
    IN  /\ said = Silent
        /\ said' = [Silent EXCEPT !.cmd = "set", !.ok = ok, !.form = form, !.target = t]
        /\ IF ok THEN StoreEntry(StoreKey(key), Stored(Text(value), FALSE), [whole |-> FALSE, body |-> value]) ELSE Untouched

Get(form) ==
    LET t == ResolveSecretTargetRequest(form)
    IN  /\ said = Silent
        /\ said' = [Silent EXCEPT !.cmd = "get", !.form = form, !.target = t, !.ok = t.ok /\ Holds(vault, ResolvedKey(t))]
        /\ Untouched

\* Delete: a key that is not there is no error; kv2 keeps the name of the entry.
Delete(form) ==
    LET t == ResolveSecretTargetRequest(form)
        key == ResolvedKey(t)
        ok == t.ok /\ ValidKey(key)
    IN  /\ said = Silent
        /\ said' = [Silent EXCEPT !.cmd = "delete", !.ok = ok, !.form = form, !.target = t]
        /\ vault' = IF ok THEN Without(vault, StoreKey(key)) ELSE vault
        /\ origin' = IF ok THEN Without(origin, StoreKey(key)) ELSE origin
        /\ names' = IF ok /\ Provider # "kv2" THEN names \ {StoreKey(key)} ELSE names

List(form, recursive) ==
    LET path == ResolveSecretListRequest(form)
        shown == IF ListFails(form) THEN {} ELSE ListSecretKeys(path, recursive)
    IN  /\ said = Silent
        /\ said' = [Silent EXCEPT !.cmd = "list", !.form = form, !.recursive = recursive, !.shown = shown,
                       !.path = IF ListFails(form) THEN <<>> ELSE path,
                       !.ok = ~ListFails(form) /\ (path = <<>> \/ shown # {})]
        /\ Untouched

\* MaskPayload: the values are stored one after the other, before the payload is
\* masked; a store that fails leaves those already stored.
Mask(payload, stored) ==
    LET candidates == CollectMaskCandidates(payload)
        valid == \A s \in stored : ValidKey(AttributePath(s))
        all == stored = candidates
        KeyOf(s) == StoreKey(AttributePath(s))
        At(k) == CHOOSE s \in stored : KeyOf(s) = k
        New == [k \in {KeyOf(s) : s \in stored} |-> Stored(Text(payload[At(k)].body), FALSE)]
    IN  /\ said = Silent /\ stored \subseteq candidates /\ valid
        /\ MaskRefuses(payload) => stored = {}
        /\ said' = [Silent EXCEPT !.cmd = "mask", !.payload = payload, !.ok = all /\ ~MaskRefuses(payload),
                       !.answer = IF all THEN ApplyMask(payload) ELSE NoPayload]
        /\ vault' = New @@ vault
        /\ origin' = [k \in DOMAIN New |-> [whole |-> FALSE, body |-> New[k].content.body]] @@ origin
        /\ names' = names \cup DOMAIN New
        /\ Cardinality(DOMAIN vault') <= MaxEntries

Transform(cmd, payload, path, answer) ==
    /\ said = Silent
    /\ said' = [Silent EXCEPT !.cmd = cmd, !.payload = payload, !.path = path, !.ok = answer.ok, !.answer = answer.payload]
    /\ Untouched

Resolve(payload) == said = Silent /\ Transform("resolve", payload, <<>>, ResolvePayloadValue(payload, <<>>, vault))
Normalize(payload) == said = Silent /\ Transform("normalize", payload, <<>>, NormalizePlaceholdersValue(payload))

Detect(payload) ==
    /\ said = Silent
    /\ said' = [Silent EXCEPT !.cmd = "detect", !.payload = payload, !.ok = ~DetectFails(payload),
                   !.shown = IF DetectFails(payload) THEN {} ELSE DetectSecretCandidates(payload)]
    /\ Untouched

\* "resource save --secret" stores a whole content, "resource apply" restores it.
SaveWhole(path, content) ==
    /\ said = Silent
    /\ said' = [Silent EXCEPT !.cmd = "save", !.ok = TRUE, !.path = path]
    /\ StoreEntry(StoreKey(path \o <<":", ".">>), EncodeWholeResourceSecret(content), [whole |-> TRUE, body |-> content.body])
Apply(path, payload) ==
    said = Silent /\ Transform("apply", payload, path, ResolvePayloadDirectivesForResource(payload, path, vault))

\* The prompt of the shell.
NextCommand == said # Silent /\ said' = Silent /\ Untouched

SecretsInit ==
    /\ vault = [k \in {} |-> Stored(Text(""), FALSE)]
    /\ origin = [k \in {} |-> [whole |-> FALSE, body |-> ""]]
    /\ names = {} /\ said = Silent

SecretsNext ==
    \/ /\ said = Silent
       /\ \/ \E form \in Forms(0 .. 2) : (\E v \in Values : Set(form, v)) \/ Get(form) \/ Delete(form)
          \/ \E form \in Forms(0 .. 1), r \in BOOLEAN : List(form, r)
          \/ \E p \in Payloads : (\E stored \in SUBSET DOMAIN p : Mask(p, stored)) \/ Resolve(p) \/ Normalize(p) \/ Detect(p)
          \/ \E path \in Paths : (\E c \in Contents : SaveWhole(path, c)) \/ (\E p \in Payloads : Apply(path, p))
    \/ NextCommand

SecretsSpec == SecretsInit /\ [][SecretsNext]_secretVars

(***************************************************************************)
(* Properties.                                                             *)
(***************************************************************************)

\* The store holds normalised keys only (NormalizeKey): no segment is empty,
\* whatever a user or an attribute path asked for, and what is held is named.
SecretsTypeOK ==
    /\ DOMAIN origin = DOMAIN vault /\ DOMAIN vault \subseteq names
    /\ \A k \in DOMAIN vault : k # <<>> /\ \A i \in DOMAIN k :
          k[i] = "/" => i > 1 /\ i < Len(k) /\ k[i + 1] # "/"
    /\ said.ok \in BOOLEAN

\* "secret mask" does not change what a payload means: with the store it leaves
\* behind, the masked payload resolves to what the given one does (MaskPayload,
\* resolvePayloadValue), for every attribute.
MaskKeepsMeaning ==
    said.cmd = "mask" /\ said.ok =>
        ResolvePayloadValue(said.answer, <<>>, vault) = ResolvePayloadValue(said.payload, <<>>, vault)

\* "secret detect" finds nothing in a payload that "secret mask" has masked: the
\* two walk the payload by themselves (collectDetectedCandidates,
\* collectMaskCandidates) and must not differ.
NothingLeftToDetect == said.cmd = "mask" /\ said.ok => DetectSecretCandidates(said.answer) = {}

\* Normalising placeholders (normalizePlaceholdersValue) changes what none of
\* them resolves to, in the scope of no resource and of any resource, and a
\* second time changes nothing.
NormalizeKeepsMeaning ==
    said.cmd = "normalize" /\ said.ok =>
        /\ \A path \in {<<>>} \cup Paths :
              ResolvePayloadValue(said.answer, path, vault) = ResolvePayloadValue(said.payload, path, vault)
        /\ NormalizePlaceholdersValue(said.answer).payload = said.answer

\* What "secret resolve" prints and "resource apply" sends holds no placeholder
\* any more: a key that is missing fails the command.
NoPlaceholderSent ==
    said.cmd \in {"resolve", "apply"} /\ said.ok => \A s \in DOMAIN said.answer : ~IsPlaceholder(said.answer[s])

\* A resource saved as a secret comes back as it was (EncodeWholeResourceSecret,
\* DecodeWholeResourceSecret), also a binary one and one whose text begins with
\* the prefix of the encoding, until someone sets or deletes its entry.
WholeComesBack ==
    LET key == StoreKey(said.path \o <<":", ".">>)
    IN  said.cmd = "apply" /\ said.payload = (<<>> :> Current) /\ key \in DOMAIN origin /\ origin[key].whole =>
            said.ok /\ said.answer[<<>>].body = origin[key].body

\* A command acts on an entry that agrees with every flag and argument it was
\* given (resolveSecretTargetRequest, resolveSecretSetRequest): it refuses two
\* that differ and never ignores one.
NothingIgnored ==
    said.cmd \in {"get", "set", "delete"} /\ said.ok =>
        /\ said.form.path # <<>> => FlagPath(said.form) = said.target.path
        /\ said.form.key # <<>> => said.form.key = said.target.key
        /\ \A i \in DOMAIN said.form.args :
              said.form.args[i] \in {said.target.path, said.target.key, ResolvedKey(said.target)}

\* What "secret list" shows can be read: "secret get" with the shown text, or
\* with the path asked for and the shown key, finds an entry (displaySecretKey,
\* renderPathScopedSecretListKey, splitSecretPathKeyArg).
ListedIsReadable ==
    said.cmd = "list" => \A t \in said.shown :
        LET found == ResolveSecretTargetRequest(Form(<<>>, <<>>, <<t>>))
        IN  IF said.path \in {<<>>, <<"/">>} THEN found.ok /\ Holds(vault, ResolvedKey(found))
            ELSE Holds(vault, said.path \o <<":">> \o t) \/ (said.recursive /\ Holds(vault, said.path \o t))

\* "secret list" of a path shows every secret of that path (listSecretKeys, and
\* the walk of the vault): each entry path:key of the store is shown as its key.
ListIsComplete ==
    said.cmd = "list" /\ said.path # <<>> =>
        \A k \in DOMAIN vault : \A p \in Paths :
            LET scope == TrimSlashes(p) \o <<":">>
            IN  said.path = NormalizePath(p) /\ HasPrefix(k, scope) =>
                    After(k, Len(scope)) \in said.shown \/ DisplaySecretKey(k) \in said.shown

\* Two spellings of the same words, camelCase or with separators, are judged
\* alike by "secret detect" (splitIdentifierTokens, isLikelySecretKey).
SpelledAlike ==
    said.cmd = "detect" /\ said.ok =>
        \A s, t \in DOMAIN said.payload :
            LET WordsOf(key) == LET c == SelectSeq(Spelling[key], LAMBDA chunk : chunk.case # "separator")
                                IN  [i \in DOMAIN c |-> c[i].word]
            IN  Len(s) = 1 /\ Len(t) = 1 /\ said.payload[s].kind = "plain" /\ said.payload[t].kind = "plain"
                /\ WordsOf(s[1]) = WordsOf(t[1]) =>
                    (AttributePath(s) \in said.shown <=> AttributePath(t) \in said.shown)

\* "Secret-candidate detection MUST ignore numeric-only and boolean-like
\* plaintext values": "secret mask" masks only what "secret detect" reports.
MaskedWasDetected ==
    said.cmd = "mask" /\ said.ok =>
        \A s \in DOMAIN said.payload :
            said.answer[s] # said.payload[s] => AttributePath(s) \in DetectSecretCandidates(said.payload)

\* "Placeholder normalization MUST run ... so that equivalent placeholders with
\* different key-naming conventions do not produce false drift": two placeholders
\* of one entry are the same after normalisation.
EquivalentNormalized ==
    said.cmd = "normalize" /\ said.ok =>
        \A s \in DOMAIN said.payload :
            IsPlaceholder(said.payload[s])
            /\ StoreKey(ResolvePlaceholderStoreKey(said.payload[s], AttributePath(s), <<>>)) = StoreKey(AttributePath(s)) =>
                said.answer[s] = Current
=============================================================================
