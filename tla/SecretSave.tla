----------------------------- MODULE SecretSave -----------------------------
(***************************************************************************)
(* Saving resources that hold secrets (internal/app/resource/save), with    *)
(* the detection and masking of secret attributes (secrets, app/secret),    *)
(* the metadata that declare them and the two secret stores: an encrypted   *)
(* file that every process reads once and then rewrites as a whole, and a   *)
(* Vault that stores key by key. Each process works on its own clone of     *)
(* the repository; the secret store is shared.                              *)
(***************************************************************************)
EXTENDS Integers, FiniteSets

CONSTANTS
  Processes,
  Items,         \* resources of one collection
  Attrs,         \* attributes of a payload
  Looks,         \* the attributes whose names look like those of secrets
  Plains,        \* plaintext values
  StoreKinds,    \* subset of {"file", "vault"}
  RequestSets,   \* values of --secret-attributes; {} stands for all detected
  MaxSaves,      \* bound: commands
  MaxBreaks      \* bound: failed calls and kills

ASSUME SaveAssumption ==
  /\ Looks \subseteq Attrs /\ "." \notin Attrs /\ RequestSets \subseteq SUBSET Attrs
  /\ Plains \cap {"absent", "mask", "none"} = {} /\ StoreKinds \subseteq {"file", "vault"}
  /\ MaxSaves \in Nat /\ MaxBreaks \in Nat

Keys == Items \X (Attrs \cup {"."})
PayloadType == [Attrs -> Plains \cup {"absent", "mask"}]
DocType == [kind: {"missing", "doc", "whole"}, attrs: PayloadType]
Blank == [a \in Attrs |-> "absent"]
Missing == [kind |-> "missing", attrs |-> Blank]
WholeDoc == [kind |-> "whole", attrs |-> Blank]
AsDoc(payload) == [kind |-> "doc", attrs |-> payload]

\* One level of metadata: whether it says anything of secret attributes, which,
\* and resource.secret.
LevelType == [set: BOOLEAN, attrs: SUBSET Attrs, whole: BOOLEAN]
NoLevel == [set |-> FALSE, attrs |-> {}, whole |-> FALSE]

VARIABLES
  kind,       \* the configured secret store
  docs,       \* each clone's resources
  itemMeta,   \* metadata of a resource
  collMeta,   \* metadata of the collection
  secret,     \* the secret store
  cache,      \* the file store's snapshot in each process
  task,       \* the command each process runs
  dropped,    \* keys removed by "secret delete"
  saveUsed

saveVars == <<kind, docs, itemMeta, collMeta, secret, cache, task, dropped, saveUsed>>

Stored == [Keys -> Plains \cup {"none"}]
Unread == [read |-> FALSE, map |-> [k \in Keys |-> "none"]]
TaskSteps == {"idle", "store", "check", "write", "whole", "wholeWrite", "wholeMeta"}
TaskType == [pc: TaskSteps, list: BOOLEAN, entries: [Items -> DocType], todo: SUBSET Keys,
             selected: SUBSET Attrs, unhandled: SUBSET Attrs, requested: SUBSET Attrs,
             enabled: BOOLEAN, allow: BOOLEAN, left: SUBSET Items]

SaveTypeOK ==
  /\ kind \in StoreKinds
  /\ docs \in [Processes -> [Items -> DocType]]
  /\ itemMeta \in [Processes -> [Items -> LevelType]]
  /\ collMeta \in [Processes -> LevelType]
  /\ secret \in Stored /\ dropped \subseteq Keys
  /\ cache \in [Processes -> [read: BOOLEAN, map: Stored]]
  /\ task \in [Processes -> TaskType]
  /\ saveUsed \in [saves: 0..MaxSaves, breaks: 0..MaxBreaks]

IdleTask == [pc |-> "idle", list |-> FALSE, entries |-> [i \in Items |-> Missing], todo |-> {},
             selected |-> {}, unhandled |-> {}, requested |-> {}, enabled |-> FALSE,
             allow |-> FALSE, left |-> {}]

SaveInit ==
  /\ kind \in StoreKinds
  /\ docs = [s \in Processes |-> [i \in Items |-> Missing]]
  /\ itemMeta = [s \in Processes |-> [i \in Items |-> NoLevel]]
  /\ \E A \in SUBSET Attrs :
       collMeta = [s \in Processes |-> [set |-> TRUE, attrs |-> A, whole |-> FALSE]]
  /\ secret = [k \in Keys |-> "none"] /\ dropped = {}
  /\ cache = [s \in Processes |-> Unread]
  /\ task = [s \in Processes |-> IdleTask]
  /\ saveUsed = [saves |-> 0, breaks |-> 0]

-----------------------------------------------------------------------------
(* Detection *)

\* ResolveForPath: the list of a resource replaces the one of its collection.
ResolveDeclaredAttributes(s, i) ==
  IF itemMeta[s][i].set THEN itemMeta[s][i].attrs ELSE collMeta[s].attrs

IsPlaceholderValue(v) == v = "mask"
IsPlain(v) == v \notin {"absent", "mask"}

\* DetectSecretCandidates, by name.
DetectHeuristic(payload) == {a \in Looks : IsPlain(payload[a])}
DetectMetadataSecretCandidates(payload, declared) == {a \in declared : IsPlain(payload[a])}
DetectSaveSecretCandidates(payload, declared) ==
  DetectHeuristic(payload) \cup DetectMetadataSecretCandidates(payload, declared)

\* detectSaveSecretCandidatesForCollection: computed once for all entries.
DetectForCollection(entries, declared) ==
  UNION {DetectSaveSecretCandidates(entries[i].attrs, declared) :
           i \in {j \in Items : entries[j].kind = "doc"}}

\* Mutant of IntersectSaveSecretCandidates: only what the names give away.
IntersectHeuristic(candidates, declared) == candidates \cap declared \cap Looks

IntersectSaveSecretCandidates(candidates, declared) == candidates \cap declared

\* Without a list of attributes all candidates are selected.
SelectSaveSecretCandidates(candidates, requested) ==
  IF requested = {} THEN candidates ELSE candidates \cap requested

\* Mutant of FilterSaveSecretCandidatesForSafety: the declared ones block instead.
FilterDeclared(candidates, declared, t) == IF t.allow THEN {} ELSE candidates \cap declared

FilterSaveSecretCandidatesForSafety(candidates, declared, t) ==
  IF t.allow THEN {} ELSE candidates \ declared

-----------------------------------------------------------------------------
(* The secret stores *)

\* What is stored for a plaintext value: the value.
EncodeSecret(v) == v

\* readSnapshotLocked: what a process believes the store to hold.
ReadSnapshot(s) == IF kind = "file" /\ cache[s].read THEN cache[s].map ELSE secret

\* writeSnapshotLocked, and the Vault's write of one key.
PutSecret(s, k, v) ==
  IF kind = "file"
  THEN /\ secret' = [ReadSnapshot(s) EXCEPT ![k] = EncodeSecret(v)]
       /\ cache' = [cache EXCEPT ![s] = [read |-> TRUE, map |-> secret']]
  ELSE secret' = [secret EXCEPT ![k] = EncodeSecret(v)] /\ UNCHANGED cache

-----------------------------------------------------------------------------
(* save *)

EndTask(s) ==
  /\ task' = [task EXCEPT ![s] = IdleTask]
  /\ cache' = [cache EXCEPT ![s] = Unread]

Break == saveUsed.breaks < MaxBreaks /\ saveUsed' = [saveUsed EXCEPT !.breaks = @ + 1]
Command == saveUsed.saves < MaxSaves /\ saveUsed' = [saveUsed EXCEPT !.saves = @ + 1]

\* A payload may hold a placeholder where the saved resource has one.
Plausible(s, i, payload) ==
  \A a \in Attrs : payload[a] = "mask" => docs[s][i].attrs[a] = "mask"

\* A list comes from the managed service and holds no placeholders.
RemoteLists == [Items -> [Attrs -> Plains \cup {"absent"}]]

\* ensureSaveTargetAllowed
TargetAllowed(s, i, force) == force \/ docs[s][i].kind = "missing"

\* saveResolvedPathPayload for one resource, without --secret.
SaveOne(s, i, payload, enabled, requested, allow, force) ==
  /\ task[s].pc = "idle" /\ Plausible(s, i, payload) /\ (enabled \/ requested = {})
  /\ TargetAllowed(s, i, force) /\ (enabled \/ ~itemMeta[s][i].whole)
  /\ LET declared == ResolveDeclaredAttributes(s, i)
         candidates == DetectSaveSecretCandidates(payload, declared)
         selected == IF enabled THEN SelectSaveSecretCandidates(candidates, requested)
                     ELSE IntersectSaveSecretCandidates(candidates, declared)
     IN /\ candidates # {} => requested \subseteq candidates
        /\ task' = [task EXCEPT ![s] =
             [IdleTask EXCEPT !.pc = "store", !.entries[i] = AsDoc(payload), !.left = {i},
                !.todo = {i} \X selected, !.selected = selected, !.unhandled = candidates \ selected,
                !.requested = requested, !.enabled = enabled, !.allow = allow]]
  /\ Command /\ UNCHANGED <<kind, docs, itemMeta, collMeta, secret, cache, dropped>>

\* saveResolvedPathPayload for a list of resources.
SaveItems(s, entries, enabled, requested, allow, force) ==
  /\ task[s].pc = "idle" /\ (enabled \/ requested = {})
  /\ \A i \in Items : Plausible(s, i, entries[i]) /\ TargetAllowed(s, i, force)
  /\ LET all == [i \in Items |-> AsDoc(entries[i])]
         declared == collMeta[s].attrs
         candidates == DetectForCollection(all, declared)
         selected == IF enabled THEN SelectSaveSecretCandidates(candidates, requested)
                     ELSE IntersectSaveSecretCandidates(candidates, declared)
     IN task' = [task EXCEPT ![s] =
          [IdleTask EXCEPT !.pc = "store", !.list = TRUE, !.entries = all, !.left = Items,
             !.todo = {k \in Items \X selected : IsPlain(entries[k[1]][k[2]])},
             !.selected = selected, !.unhandled = candidates \ selected,
             !.requested = requested, !.enabled = enabled, !.allow = allow]]
  /\ Command /\ UNCHANGED <<kind, docs, itemMeta, collMeta, secret, cache, dropped>>

\* storeAndMaskAttribute, one attribute after the other.
StoreAndMaskAttribute(s) ==
  /\ task[s].pc = "store" /\ task[s].todo # {}
  /\ \E k \in task[s].todo :
       \/ /\ PutSecret(s, k, task[s].entries[k[1]].attrs[k[2]])
          /\ task' = [task EXCEPT ![s].todo = @ \ {k}, ![s].entries[k[1]].attrs[k[2]] = "mask"]
          /\ dropped' = dropped \ {k}
          /\ UNCHANGED saveUsed
       \/ EndTask(s) /\ Break /\ UNCHANGED <<secret, dropped>>
  /\ UNCHANGED <<kind, docs, itemMeta, collMeta>>

\* MergeAttributes, into the list of one level.
MergeAttributes(level, detected) ==
  [level EXCEPT !.set = TRUE, !.attrs = level.attrs \cup detected]

\* persistSaveSecretAttributes: the level that is written knows nothing of the
\* list it hides.
PersistDetectedAttributes(s) ==
  /\ task[s].pc = "store" /\ task[s].todo = {}
  /\ LET t == task[s]
         Merge(l) == MergeAttributes(l, t.selected)
     IN \/ /\ t.enabled /\ t.selected # {}
           /\ IF t.list THEN /\ collMeta' = [collMeta EXCEPT ![s] = Merge(collMeta[s])]
                             /\ UNCHANGED itemMeta
              ELSE /\ itemMeta' = [itemMeta EXCEPT ![s] =
                     [i \in Items |-> IF i \in t.left THEN Merge(itemMeta[s][i]) ELSE itemMeta[s][i]]]
                   /\ UNCHANGED collMeta
           /\ task' = [task EXCEPT ![s].pc = "check"] /\ UNCHANGED <<cache, saveUsed>>
        \/ /\ t.enabled /\ t.selected # {} /\ EndTask(s) /\ Break
           /\ UNCHANGED <<itemMeta, collMeta>>
        \/ /\ ~(t.enabled /\ t.selected # {})
           /\ task' = [task EXCEPT ![s].pc = "check"]
           /\ UNCHANGED <<itemMeta, collMeta, cache, saveUsed>>
  /\ UNCHANGED <<kind, docs, secret, dropped>>

\* enforceSaveSecretSafety: by now the secrets are stored and declared.
EnforceSaveSecretSafety(s) ==
  /\ task[s].pc = "check"
  /\ LET t == task[s]
         declared == IF t.list THEN collMeta[s].attrs
                     ELSE UNION {ResolveDeclaredAttributes(s, i) : i \in t.left}
     IN IF FilterSaveSecretCandidatesForSafety(t.unhandled, declared, t) = {}
        THEN task' = [task EXCEPT ![s].pc = "write"] /\ UNCHANGED cache
        ELSE EndTask(s)
  /\ UNCHANGED <<kind, docs, itemMeta, collMeta, secret, dropped, saveUsed>>

\* orchestratorService.Save for each entry; the first that fails ends the command.
WriteEntry(s) ==
  /\ task[s].pc = "write"
  /\ \E i \in task[s].left :
       \/ /\ docs' = [docs EXCEPT ![s][i] = task[s].entries[i]]
          /\ IF task[s].left = {i} THEN EndTask(s)
             ELSE task' = [task EXCEPT ![s].left = @ \ {i}] /\ UNCHANGED cache
          /\ UNCHANGED saveUsed
       \/ EndTask(s) /\ Break /\ UNCHANGED docs
  /\ UNCHANGED <<kind, itemMeta, collMeta, secret, dropped>>

\* save --secret, or of a resource whose metadata say resource.secret.
SaveWhole(s, i, force) ==
  /\ task[s].pc = "idle" /\ TargetAllowed(s, i, force)
  /\ task' = [task EXCEPT ![s] = [IdleTask EXCEPT !.pc = "whole", !.left = {i}]]
  /\ Command /\ UNCHANGED <<kind, docs, itemMeta, collMeta, secret, cache, dropped>>

\* Mutant of WholeOrder: the placeholder is saved before the secret.
WholeOrderSwapped == <<"wholeWrite", "whole", "wholeMeta">>

\* saveResolvedPathAsSecret: the secret, the placeholder, the metadata.
WholeOrder == <<"whole", "wholeWrite", "wholeMeta">>

SaveResolvedPathAsSecret(s) ==
  /\ task[s].pc \in {"whole", "wholeWrite", "wholeMeta"}
  /\ \E i \in task[s].left, v \in Plains :
       LET n == CASE task[s].pc = "whole" -> 1 [] task[s].pc = "wholeWrite" -> 2 [] OTHER -> 3
           step == WholeOrder[n]
       IN \/ /\ IF step = "whole"
                THEN PutSecret(s, <<i, ".">>, v) /\ dropped' = dropped \ {<<i, ".">>}
                ELSE UNCHANGED <<secret, dropped>> /\ (n < 3 => UNCHANGED cache)
             /\ docs' = IF step = "wholeWrite" THEN [docs EXCEPT ![s][i] = WholeDoc] ELSE docs
             /\ itemMeta' = IF step = "wholeMeta"
                  THEN [itemMeta EXCEPT ![s][i] = [NoLevel EXCEPT !.whole = TRUE]] ELSE itemMeta
             /\ IF n = 3 THEN EndTask(s)
                ELSE task' = [task EXCEPT ![s].pc = <<"wholeWrite", "wholeMeta">>[n]]
             /\ UNCHANGED saveUsed
          \/ EndTask(s) /\ Break /\ UNCHANGED <<secret, dropped, docs, itemMeta>>
  /\ UNCHANGED <<kind, collMeta>>

KillSave(s) ==
  /\ task[s].pc # "idle" /\ EndTask(s) /\ Break
  /\ UNCHANGED <<kind, docs, itemMeta, collMeta, secret, dropped>>

-----------------------------------------------------------------------------
(* The secret commands *)

\* secret delete: one process, one change.
SecretDelete(s, k) ==
  /\ task[s].pc = "idle" /\ secret[k] # "none"
  /\ secret' = [secret EXCEPT ![k] = "none"] /\ dropped' = dropped \cup {k}
  /\ Command /\ UNCHANGED <<kind, docs, itemMeta, collMeta, cache, task>>

\* secret detect --fix, on the resources of the repository.
DetectFix(s) ==
  /\ task[s].pc = "idle"
  /\ \E i \in Items : docs[s][i].kind = "doc" /\ DetectHeuristic(docs[s][i].attrs) # {}
  /\ itemMeta' = [itemMeta EXCEPT ![s] = [i \in Items |->
       LET found == IF docs[s][i].kind = "doc" THEN DetectHeuristic(docs[s][i].attrs) ELSE {}
       IN IF found = {} THEN itemMeta[s][i] ELSE MergeAttributes(itemMeta[s][i], found)]]
  /\ Command /\ UNCHANGED <<kind, docs, collMeta, secret, cache, task, dropped>>

SaveNext ==
  \E s \in Processes :
    \/ /\ task[s].pc = "idle" /\ saveUsed.saves < MaxSaves
       /\ \/ \E i \in Items, p \in PayloadType, e, a, f \in BOOLEAN, r \in RequestSets :
               SaveOne(s, i, p, e, r, a, f)
          \/ \E es \in RemoteLists, e, a, f \in BOOLEAN, r \in RequestSets :
               SaveItems(s, es, e, r, a, f)
          \/ \E i \in Items, f \in BOOLEAN : SaveWhole(s, i, f)
          \/ \E k \in Keys : SecretDelete(s, k)
          \/ DetectFix(s)
    \/ StoreAndMaskAttribute(s) \/ PersistDetectedAttributes(s) \/ EnforceSaveSecretSafety(s)
    \/ WriteEntry(s) \/ SaveResolvedPathAsSecret(s) \/ KillSave(s)

SaveSpec == SaveInit /\ [][SaveNext]_saveVars

-----------------------------------------------------------------------------
(* Properties *)

\* Whatever is killed or fails on the way, a placeholder in the repository can be
\* resolved: its secret is in the store, unless it was deleted from there.
PlaceholderStored ==
  \A s \in Processes, i \in Items :
    /\ \A a \in Attrs : docs[s][i].attrs[a] = "mask" =>
         secret[<<i, a>>] # "none" \/ <<i, a>> \in dropped
    /\ docs[s][i].kind = "whole" => secret[<<i, ".">>] # "none" \/ <<i, ".">> \in dropped

\* What a write puts into the repository, and the attributes declared for the
\* path of the command that writes.
Writes(s, i) == task[s].pc = "write" /\ docs'[s][i] # docs[s][i]
DeclaredFor(s, i) ==
  IF task[s].list THEN collMeta[s].attrs ELSE ResolveDeclaredAttributes(s, i)

\* A save that names no attributes masks every attribute the metadata declare
\* secret, also with --allow-plaintext.
DeclaredMasked ==
  [][\A s \in Processes, i \in Items : Writes(s, i) /\ task[s].requested = {} =>
       \A a \in DeclaredFor(s, i) : ~IsPlain(docs'[s][i].attrs[a])]_saveVars

\* An attribute that looks like a secret, and that the metadata do not declare, is
\* saved in plaintext only with --allow-plaintext; naming other attributes to
\* handle does not let it through.
PlaintextAcknowledged ==
  [][\A s \in Processes, i \in Items : Writes(s, i) /\ ~task[s].allow =>
       \A a \in Looks \ DeclaredFor(s, i) : ~IsPlain(docs'[s][i].attrs[a])]_saveVars

\* Whatever is killed or fails on the way, a placeholder in the repository has
\* its secret in the store; what metadata declare secret is masked, also with
\* --allow-plaintext; and what only looks secret is saved in plaintext with that
\* flag alone (save workflow, as_secret.go, secret_helpers.go).
NoSecretLostOrShown == []PlaceholderStored /\ DeclaredMasked /\ PlaintextAcknowledged

\* No save leaves in plaintext what the metadata declare secret (secrets.md, rule 12:
\* "MUST automatically store and mask plaintext candidates declared by metadata").
DeclaredAlwaysMasked ==
  [][\A s \in Processes, i \in Items : Writes(s, i) =>
       \A a \in DeclaredFor(s, i) : ~IsPlain(docs'[s][i].attrs[a])]_saveVars

\* Detected attributes are merged into the metadata: what was declared secret for
\* a resource stays so (secrets.md, rules 14 and 23: "merge").
DeclaredStays ==
  [][\A s \in Processes, i \in Items :
       ResolveDeclaredAttributes(s, i) \subseteq ResolveDeclaredAttributes(s, i)'
         \/ itemMeta'[s][i].whole]_saveVars
=============================================================================
