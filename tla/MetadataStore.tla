---------------------------- MODULE MetadataStore ----------------------------
(* The metadata files of a context: two layers of directories, shared and   *)
(* repository-local, with one metadata file per selector and the defaults   *)
(* artifacts it includes; the resolution of a path through wildcards,       *)
(* literals and both layers; and the commands that change the files: those  *)
(* of "metadata" and of "resource defaults".  A command is the sequence of  *)
(* file operations it makes, and may be killed between any two of them.     *)
(* A metadata file is abstracted to one directive of its own, the           *)
(* descendants selector and the defaults block, whose objects have one key. *)
EXTENDS Integers, Sequences, FiniteSets

LOCAL INSTANCE SequencesExt

CONSTANTS
    Rank,          \* path segments and selector patterns -> their byte order
    Patterns,      \* selector patterns ("_" and globs) -> the segments they match
    Sites,         \* where metadata may be: [sel, kind], kind "coll" or "res"
    Targets,       \* what is resolved: [path, coll]
    LocalResources,\* paths that hold a resource in the repository
    Contents,      \* metadata that "metadata set" writes
    SharedStart,   \* what the shared layer may hold at first
    Writable,      \* the layer that is written: "shared" or "local"
    EditsInvalid,  \* whether an editor may leave an invalid defaults block
    Kills,         \* how often a command may be killed
    MaxCommands

VARIABLES
    layers,        \* layer -> its metadata files, artifacts and directories
    running,       \* the command that runs: its file operations still to do
    spent          \* commands and kills so far

metadataVars == <<layers, running, spent>>

LayerNames == {"shared", "local"}

(***************************************************************************)
(* Metadata, its defaults block, and how two of them merge.                *)
(***************************************************************************)

\* An entry of the defaults block: nothing, an inline object, an include of
\* an artifact with an extension, or something that is neither.
None == [is |-> "none", v |-> 0, ext |-> ""]
Inline(v) == [is |-> "inline", v |-> v, ext |-> ""]
IncludePlaceholder(ext) == [is |-> "include", v |-> 0, ext |-> ext]
Invalid == [is |-> "invalid", v |-> 0, ext |-> ""]

\* useProfiles left out is not the same as useProfiles that are empty.
NoDefaults == [mode |-> "", use |-> "unset", value |-> None, profile |-> None]
NoMetadata == [own |-> 0, desc |-> FALSE, defaults |-> NoDefaults]

HasDefaultsSpecDirectives(d) == d # NoDefaults

\* Mutant of HasResourceMetadataDirectives: the defaults block alone decides.
HasDefaultsOnly(md) == HasDefaultsSpecDirectives(md.defaults)

\* The selector is not among the directives.
HasResourceMetadataDirectives(md) ==
    md.own # 0 \/ HasDefaultsSpecDirectives(md.defaults)

ValidateDefaultsSpec(d) ==
    /\ d.mode \in {"", "inherit", "ignore", "replace"}
    /\ d.value # Invalid /\ d.profile # Invalid

\* validateResourceMetadata, validateSelectorSpec
ValidateResourceMetadata(kind, md) ==
    /\ ValidateDefaultsSpec(md.defaults)
    /\ md.desc => kind = "coll"

\* mergeDefaultsEntry, on objects of one key.
MergeDefaultsEntry(base, overlay) == IF overlay = None THEN base ELSE overlay

\* Mutant of MergeDefaultsSpec: the mode of the overlay is not looked at.
MergeDefaultsInherit(base, overlay) ==
    [overlay EXCEPT !.mode = IF overlay.mode = "" THEN base.mode ELSE overlay.mode,
                    !.use = IF overlay.use = "unset" THEN base.use ELSE overlay.use,
                    !.value = MergeDefaultsEntry(base.value, overlay.value),
                    !.profile = MergeDefaultsEntry(base.profile, overlay.profile)]

MergeDefaultsSpec(base, overlay) ==
    IF ~HasDefaultsSpecDirectives(overlay) THEN base ELSE
    LET dropped == overlay.mode \in {"ignore", "replace"}
        value == IF dropped THEN None ELSE base.value
        use == IF dropped THEN "unset" ELSE base.use
        profile == IF overlay.mode = "replace" THEN None ELSE base.profile
    IN [mode |-> IF overlay.mode # "" THEN overlay.mode
                 ELSE IF base.mode = "" THEN "inherit" ELSE base.mode,
        use |-> IF overlay.use = "unset" THEN use ELSE overlay.use,
        value |-> MergeDefaultsEntry(value, overlay.value),
        profile |-> MergeDefaultsEntry(profile, overlay.profile)]

MergeResourceMetadata(base, overlay) ==
    [own |-> IF overlay.own # 0 THEN overlay.own ELSE base.own,
     desc |-> FALSE,
     defaults |-> MergeDefaultsSpec(base.defaults, overlay.defaults)]

\* ResolveEffectiveDefaults: the value first, the selected profiles over it;
\* -1 stands for the error about a profile that is not there.
EffectiveDefaults(d) ==
    CASE d.use = "profile" /\ d.profile = None -> -1
      [] d.use = "profile" -> d.profile.v
      [] OTHER -> d.value.v

(***************************************************************************)
(* Files.                                                                  *)
(***************************************************************************)

\* metadataSelectorDirPath: collection metadata is in the directory "_".
DirOf(site) == IF site.kind = "coll" THEN site.sel \o <<"_">> ELSE site.sel

\* metadataFileCandidates, in their order of preference.
MetadataExtensions == <<"yaml", "json">>
DefaultsExtensions == {"yaml", "json"}

FileAt(site, ext) == [dir |-> DirOf(site), ext |-> ext]
ArtifactAt(site, profile, ext) == [dir |-> DirOf(site), profile |-> profile, ext |-> ext]

Upwards(dir) == {SubSeq(dir, 1, n) : n \in 1..Len(dir)}

\* tryReadMetadata: the first candidate that is there.
TryReadMetadata(layer, site) ==
    LET there == {i \in DOMAIN MetadataExtensions :
                     FileAt(site, MetadataExtensions[i]) \in DOMAIN layer.files}
    IN IF there = {} THEN [found |-> FALSE, md |-> NoMetadata]
       ELSE [found |-> TRUE, md |-> layer.files[FileAt(site,
               MetadataExtensions[CHOOSE i \in there : \A j \in there : i <= j])]]

\* cleanupEmptyParents: from a directory upwards, as long as they are empty.
Used(layer) == {f.dir : f \in DOMAIN layer.files} \cup {a.dir : a \in DOMAIN layer.artifacts}
CleanupEmptyParents(layer, dir) ==
    [layer EXCEPT !.dirs = {d \in layer.dirs : d \in Upwards(dir) =>
        \E e \in layer.dirs \cup Used(layer) : d \in Upwards(e) /\
            (e \in Used(layer) \/ e \notin Upwards(dir))}]

Without(f, x) == [y \in DOMAIN f \ {x} |-> f[y]]
With(f, x, v) == [y \in DOMAIN f \cup {x} |-> IF y = x THEN v ELSE f[y]]

\* Mutant of Perform: a directory that becomes empty stays.
PerformNoCleanup(layer, op) ==
    CASE op.do = "putFile" -> [layer EXCEPT !.files = With(@, op.at, op.md),
                                            !.dirs = @ \cup Upwards(op.at.dir)]
      [] op.do = "dropFile" -> [layer EXCEPT !.files = Without(@, op.at)]
      [] op.do = "putArtifact" -> [layer EXCEPT !.artifacts = With(@, op.at, op.v),
                                                !.dirs = @ \cup Upwards(op.at.dir)]
      [] op.do = "dropArtifact" -> [layer EXCEPT !.artifacts = Without(@, op.at)]
      [] OTHER -> layer

\* One file operation: a rename onto its place, or a removal.
Perform(layer, op) ==
    CASE op.do = "putFile" -> [layer EXCEPT !.files = With(@, op.at, op.md),
                                            !.dirs = @ \cup Upwards(op.at.dir)]
      [] op.do = "dropFile" -> [layer EXCEPT !.files = Without(@, op.at)]
      [] op.do = "putArtifact" -> [layer EXCEPT !.artifacts = With(@, op.at, op.v),
                                                !.dirs = @ \cup Upwards(op.at.dir)]
      [] op.do = "dropArtifact" -> [layer EXCEPT !.artifacts = Without(@, op.at)]
      [] op.do = "cleanup" -> CleanupEmptyParents(layer, op.at.dir)

OnFile(what, at, md) == [do |-> what, at |-> at, md |-> md, v |-> 0]
OnArtifact(what, at, v) == [do |-> what, at |-> at, md |-> NoMetadata, v |-> v]

\* writeMetadataFile: the file in its first form, then the other form goes.
WriteMetadataFile(site, md) ==
    <<OnFile("putFile", FileAt(site, "yaml"), md),
      OnFile("dropFile", FileAt(site, "json"), NoMetadata)>>

\* Set refuses before it writes.
Set(site, md) ==
    IF ValidateResourceMetadata(site.kind, md) THEN WriteMetadataFile(site, md) ELSE <<>>

\* Unset: every form goes, then the directories that became empty.
Unset(layer, site) ==
    LET there == SelectSeq(MetadataExtensions, LAMBDA e : FileAt(site, e) \in DOMAIN layer.files)
    IN IF there = <<>> THEN <<>>
       ELSE [i \in DOMAIN there |-> OnFile("dropFile", FileAt(site, there[i]), NoMetadata)]
            \o <<OnFile("cleanup", FileAt(site, "yaml"), NoMetadata)>>

\* WriteDefaultsArtifact: the file, then its other extensions go.
WriteDefaultsArtifact(site, profile, ext, v) ==
    <<OnArtifact("putArtifact", ArtifactAt(site, profile, ext), v)>>
    \o SetToSeq({OnArtifact("dropArtifact", ArtifactAt(site, profile, e), 0) :
                   e \in DefaultsExtensions \ {ext}})

DeleteDefaultsArtifact(site, profile, ext) ==
    <<OnArtifact("dropArtifact", ArtifactAt(site, profile, ext), 0),
      OnArtifact("cleanup", ArtifactAt(site, profile, ext), 0)>>

(***************************************************************************)
(* Resolution of a path.                                                   *)
(***************************************************************************)

Below(layer, sel) == {d[Len(sel) + 1] : d \in {e \in layer.dirs :
                        Len(e) = Len(sel) + 1 /\ SubSeq(e, 1, Len(sel)) = sel}}
Wild(name) == name \in DOMAIN Patterns

\* matchingCollectionCandidates: the directories below a selector that stand
\* for a segment; "_" stands for any.
MatchingCollectionCandidates(layer, parent, segment) ==
    {Append(parent, c) : c \in {c \in Below(layer, parent) :
        IF Wild(c) THEN segment \in Patterns[c] ELSE c = segment}}

\* matchingParentSelectors: the selectors of each depth of a path.
MatchingParentSelectors(layer, path) ==
    LET at[n \in 0..Len(path)] ==
          IF n = 0 THEN {<<>>}
          ELSE UNION {MatchingCollectionCandidates(layer, p, path[n]) : p \in at[n - 1]}
    IN at

\* sortedSelectorMatches: selectors of one depth by their bytes.
Before(s, t) == \E i \in DOMAIN s : /\ Rank[s[i]] < Rank[t[i]]
                                    /\ \A j \in 1..(i - 1) : s[j] = t[j]
SortedSelectorMatches(sels) == SetToSortSeq(sels, Before)

\* The order in which collection metadata is applied: by depth, and at each
\* depth the wildcards before the literals.
Order(layer, path) ==
    LET at == MatchingParentSelectors(layer, path)
        wild(n) == {s \in at[n] : Wild(s[n])}
        upTo[n \in 0..Len(path)] ==
          IF n = 0 THEN <<<<>>>>
          ELSE upTo[n - 1] \o SortedSelectorMatches(wild(n))
                           \o SortedSelectorMatches(at[n] \ wild(n))
    IN upTo[Len(path)]

CollectionOf(target) == IF target.coll THEN target.path
                        ELSE SubSeq(target.path, 1, Len(target.path) - 1)

\* Mutant of AppliesToTarget: every collection above the target applies.
AppliesToAll(target, depth, desc) == TRUE

\* collectionMetadataAppliesToTarget: the root, the collection itself, the
\* collection of the target, or one above it that allows descendants.
AppliesToTarget(target, depth, desc) ==
    \/ depth = 0
    \/ depth = Len(target.path)
    \/ depth = Len(CollectionOf(target))
    \/ desc /\ depth < Len(CollectionOf(target))

\* resolveDefaultsEntry: an include that cannot be read fails.
EntryFails(layer, site, profile, entry) ==
    entry.is = "include" /\ ArtifactAt(site, profile, entry.ext) \notin DOMAIN layer.artifacts

ResolveDefaultsEntry(layer, site, profile, entry) ==
    IF entry.is = "include" THEN Inline(layer.artifacts[ArtifactAt(site, profile, entry.ext)])
    ELSE entry

\* resolveMetadataDefaults
ResolveMetadataDefaults(layer, site, md) ==
    [md EXCEPT !.defaults.value = ResolveDefaultsEntry(layer, site, FALSE, @),
               !.defaults.profile = ResolveDefaultsEntry(layer, site, TRUE, @)]

NothingYet == [ok |-> TRUE, md |-> NoMetadata, root |-> -1]

\* Mutant of PreferDescendantContext: the first collection found is kept.
PreferFirst(current, next) == IF current >= 0 THEN current ELSE next

\* preferDescendantContext: the deepest collection that allows descendants.
PreferDescendantContext(current, next) == IF next >= current THEN next ELSE current

\* One step of resolveForPathWithContext; includes are read before it is
\* known whether the metadata applies to the target.
Apply(layer, target, found, site) ==
    LET read == TryReadMetadata(layer, site)
        d == read.md.defaults
    IN IF ~found.ok \/ ~read.found THEN found
       ELSE IF EntryFails(layer, site, FALSE, d.value) \/ EntryFails(layer, site, TRUE, d.profile)
         THEN [found EXCEPT !.ok = FALSE]
       ELSE IF site.kind = "coll" /\ ~AppliesToTarget(target, Len(site.sel), read.md.desc)
         THEN found
       ELSE [found EXCEPT
               !.md = MergeResourceMetadata(@, ResolveMetadataDefaults(layer, site, read.md)),
               !.root = IF site.kind = "coll" /\ read.md.desc
                        THEN PreferDescendantContext(@, Len(site.sel)) ELSE @]

\* resolveForPathWithContext: one layer.
ResolveForPath(layer, target) ==
    LET colls == Order(layer, target.path)
        sites == [i \in DOMAIN colls |-> [sel |-> colls[i], kind |-> "coll"]]
                 \o IF target.coll \/ target.path = <<>> THEN <<>>
                    ELSE <<[sel |-> target.path, kind |-> "res"]>>
        all == FoldLeft(LAMBDA found, site : Apply(layer, target, found, site), NothingYet, sites)
    IN [all EXCEPT !.ok = @ /\ EffectiveDefaults(all.md.defaults) # -1]

\* What the local layer resolves to, over what the shared one does.
Over(shared, local) ==
    [ok |-> shared.ok /\ local.ok, md |-> MergeResourceMetadata(shared.md, local.md),
     root |-> PreferDescendantContext(shared.root, local.root)]

\* LayeredMetadataService.resolveForPathWithContext: the shared layer, then
\* the local one over it; each must resolve by itself.
ResolveLayered(target) ==
    Over(ResolveForPath(layers["shared"], target), ResolveForPath(layers["local"], target))

\* targetForOperation: a list is about the path as a collection.
TargetForOperation(target, op) == [target EXCEPT !.coll = @ \/ op = "list"]

\* descendantSuffix
DescendantSuffix(root, path) == IF root < Len(path) THEN SubSeq(path, root + 1, Len(path)) ELSE <<>>

\* applyDescendantScope, at a root.
ScopeBelow(root, of) ==
    [root |-> root,
     collection |-> IF root < 0 THEN <<>> ELSE DescendantSuffix(root, CollectionOf(of)),
     path |-> IF root < 0 THEN <<>> ELSE DescendantSuffix(root, of.path)]

\* buildTemplateValue, applyDescendantScope: where the scope of a template
\* is rooted, and what lies between that root and the target.
TemplateScope(target, op) ==
    ScopeBelow(ResolveLayered(target).root, TargetForOperation(target, op))

\* ResolveCollectionChildren: the literal segments below a path, in both layers.
ResolveCollectionChildren(path) ==
    UNION {UNION {{c \in Below(layers[l], s) : ~Wild(c)} :
             s \in MatchingParentSelectors(layers[l], path)[Len(path)]} : l \in LayerNames}

\* HasCollectionWildcardChild
HasCollectionWildcardChild(path) ==
    \E l \in LayerNames : \E s \in MatchingParentSelectors(layers[l], path)[Len(path)] :
        \E c \in Below(layers[l], s) : Wild(c)

(***************************************************************************)
(* Commands.                                                               *)
(***************************************************************************)

Idle == [name |-> "", site |-> CHOOSE s \in Sites : TRUE, v |-> 0, plan |-> <<>>, killed |-> FALSE]

\* Get of the layered service reads the layer that is written.
Get(site) == TryReadMetadata(layers[Writable], site).md

Ready == running.plan = <<>> /\ spent.commands < MaxCommands

Start(name, site, v, plan) ==
    /\ running' = [running EXCEPT !.name = name, !.site = site, !.v = v, !.plan = plan]
    /\ spent' = [spent EXCEPT !.commands = @ + 1]
    /\ UNCHANGED layers

MetadataSet == Ready /\ \E site \in Sites, md \in Contents : Start("set", site, md.own, Set(site, md))

\* metadata edit: what the editor is given is the file of this layer.
MetadataEdit == Ready /\ \E site \in Sites, own \in 1..2 :
    Start("edit", site, own, Set(site, [Get(site) EXCEPT !.own = own]))

MetadataUnset == Ready /\ \E site \in Sites : Start("unset", site, 0, Unset(layers[Writable], site))

\* resolveScopeTarget: the metadata of a resource that is there, otherwise
\* of the collection; its payload type is asked of the metadata when no
\* resource tells it, and fails when that does not resolve.
ScopeTargets ==
    {site \in Sites : /\ site.sel # <<>> /\ ~\E i \in DOMAIN site.sel : Wild(site.sel[i])
                      /\ site.kind = "res" => site.sel \in LocalResources}
ScopeFails(site) ==
    /\ site.sel \notin LocalResources
    /\ ~\E p \in LocalResources : Len(p) = Len(site.sel) + 1 /\ SubSeq(p, 1, Len(site.sel)) = site.sel
    /\ ~ResolveLayered([path |-> site.sel, coll |-> TRUE]).ok

\* writeRawMetadataForPath
WriteRawMetadata(site, md) ==
    IF HasResourceMetadataDirectives(md) THEN Set(site, md) ELSE Unset(layers[Writable], site)

\* resolveManagedDefaultsFile: the extension an include has already.
ManagedDefaultsExtension(entry, fallback) == IF entry.is = "include" THEN entry.ext ELSE fallback

\* Mutant of SaveManagedDefaultsEntry: an artifact that exists is not written again.
SaveOnce(site, profile, ext, v) ==
    IF v = 0 THEN DeleteDefaultsArtifact(site, profile, ext)
    ELSE IF ArtifactAt(site, profile, ext) \in DOMAIN layers[Writable].artifacts THEN <<>>
    ELSE WriteDefaultsArtifact(site, profile, ext, v)

\* saveManagedDefaultsEntry: an empty object takes the artifact away.
SaveManagedDefaultsEntry(site, profile, ext, v) ==
    IF v = 0 THEN DeleteDefaultsArtifact(site, profile, ext)
    ELSE WriteDefaultsArtifact(site, profile, ext, v)

\* saveBaseline
SaveBaseline == Ready /\ \E site \in ScopeTargets, v \in 0..2, fallback \in DefaultsExtensions :
    LET raw == Get(site)
        ext == ManagedDefaultsExtension(raw.defaults.value, fallback)
        entry == IF v = 0 THEN None ELSE IncludePlaceholder(ext)
    IN Start("saveBaseline", site, v, IF ScopeFails(site) THEN <<>>
          ELSE SaveManagedDefaultsEntry(site, FALSE, ext, v)
               \o WriteRawMetadata(site, [raw EXCEPT !.defaults.value = entry]))

\* SaveProfile
SaveProfile == Ready /\ \E site \in ScopeTargets, v \in 0..1 :
    LET raw == Get(site)
        ext == ManagedDefaultsExtension(raw.defaults.profile, "yaml")
        entry == IF v = 0 THEN None ELSE IncludePlaceholder(ext)
    IN Start("saveProfile", site, v, IF ScopeFails(site) THEN <<>>
          ELSE SaveManagedDefaultsEntry(site, TRUE, ext, v)
               \o WriteRawMetadata(site, [raw EXCEPT !.defaults.profile = entry]))

\* Mutant of DeleteProfilePlan: only the artifact goes.
DeleteArtifactOnly(site, raw) ==
    IF raw.defaults.profile = None THEN <<>>
    ELSE IF raw.defaults.profile.is = "include"
         THEN DeleteDefaultsArtifact(site, TRUE, raw.defaults.profile.ext) ELSE <<>>

\* DeleteProfile: the artifact, then the entry.
DeleteProfilePlan(site, raw) ==
    IF raw.defaults.profile = None THEN <<>>
    ELSE (IF raw.defaults.profile.is = "include"
          THEN DeleteDefaultsArtifact(site, TRUE, raw.defaults.profile.ext) ELSE <<>>)
         \o WriteRawMetadata(site, [raw EXCEPT !.defaults.profile = None])

DeleteProfile == Ready /\ \E site \in ScopeTargets :
    Start("deleteProfile", site, 0,
          IF ScopeFails(site) THEN <<>> ELSE DeleteProfilePlan(site, Get(site)))

\* cleanupManagedDefaultsArtifacts: the artifacts the block no longer includes.
CleanupManagedDefaultsArtifacts(site, previous, next) ==
    (IF previous.value.is = "include" /\ next.value # previous.value
     THEN DeleteDefaultsArtifact(site, FALSE, previous.value.ext) ELSE <<>>)
    \o IF previous.profile.is = "include" /\ next.profile # previous.profile
       THEN DeleteDefaultsArtifact(site, TRUE, previous.profile.ext) ELSE <<>>

\* What the editor of "defaults config edit" may make of the block.
Edited(d) ==
    {[d EXCEPT !.value = e, !.use = u] : e \in {d.value, None, Inline(2)},
        u \in {d.use, "unset"} \cup (IF d.profile = None THEN {} ELSE {"profile"})}
    \cup IF EditsInvalid THEN {[d EXCEPT !.value = Invalid]} ELSE {}

\* SaveConfig: the artifacts go first, the block is validated by Set.
SaveConfig == Ready /\ \E site \in ScopeTargets : \E next \in Edited(Get(site).defaults) :
    LET raw == Get(site)
    IN Start("saveConfig", site, 0, IF ScopeFails(site) THEN <<>>
          ELSE CleanupManagedDefaultsArtifacts(site, raw.defaults, next)
               \o WriteRawMetadata(site, [raw EXCEPT !.defaults = next]))

\* The next file operation of the command.
Step ==
    /\ running.plan # <<>>
    /\ layers' = [layers EXCEPT ![Writable] = Perform(@, Head(running.plan))]
    /\ running' = [running EXCEPT !.plan = Tail(@)]
    /\ UNCHANGED spent

Kill ==
    /\ running.plan # <<>> /\ spent.kills < Kills
    /\ running' = [running EXCEPT !.plan = <<>>, !.killed = TRUE]
    /\ spent' = [spent EXCEPT !.kills = @ + 1]
    /\ UNCHANGED layers

EmptyLayer == [files |-> <<>>, artifacts |-> <<>>, dirs |-> {}]

MetadataInit ==
    /\ layers \in {[shared |-> s, local |-> EmptyLayer] : s \in SharedStart}
    /\ running = Idle
    /\ spent = [commands |-> 0, kills |-> 0]

MetadataNext ==
    \/ MetadataSet \/ MetadataEdit \/ MetadataUnset
    \/ SaveBaseline \/ SaveProfile \/ DeleteProfile \/ SaveConfig
    \/ Step \/ Kill

MetadataSpec == MetadataInit /\ [][MetadataNext]_metadataVars

(***************************************************************************)
(* Properties.                                                             *)
(***************************************************************************)

AtRest == running.plan = <<>>
Quiet == AtRest /\ ~running.killed

\* Every file and artifact lies in a directory that exists, entries are of
\* the forms the code writes, and no layer but the writable one is touched.
MetadataTypeOK ==
    /\ \A l \in LayerNames :
         /\ Used(layers[l]) \subseteq layers[l].dirs
         /\ \A d \in layers[l].dirs : Upwards(d) \subseteq layers[l].dirs
         /\ \A f \in DOMAIN layers[l].files :
               ValidateDefaultsSpec(layers[l].files[f].defaults)
    /\ \A i \in DOMAIN running.plan :
         /\ running.plan[i].at.dir \in {DirOf(site) : site \in Sites}
         /\ running.plan[i].v \in 0..2
    /\ spent.commands <= MaxCommands /\ spent.kills <= Kills

\* When no command runs and none was killed, what a metadata file includes
\* is there: a dangling include makes every path below it unresolvable.
IncludesResolve ==
    Quiet => \A l \in LayerNames, site \in Sites :
        LET d == TryReadMetadata(layers[l], site).md.defaults
        IN ~EntryFails(layers[l], site, FALSE, d.value) /\ ~EntryFails(layers[l], site, TRUE, d.profile)

\* How specific a site is for a target: its layer, its kind, its depth,
\* whether its last segment is a literal, and how many segments are.
Literals(sel) == Cardinality({i \in DOMAIN sel : ~Wild(sel[i])})
Applicable(target) ==
    {a \in {[layer |-> l, site |-> s] : l \in LayerNames, s \in Sites} :
        LET s == a.site
            md == TryReadMetadata(layers[a.layer], s).md
        IN /\ Len(s.sel) <= Len(target.path)
           /\ md # NoMetadata
           /\ \A i \in DOMAIN s.sel : IF Wild(s.sel[i]) THEN target.path[i] \in Patterns[s.sel[i]]
                                      ELSE s.sel[i] = target.path[i]
           /\ IF s.kind = "res" THEN ~target.coll /\ s.sel = target.path
              ELSE s.sel = <<>> \/ md.desc \/ Len(s.sel) >= Len(CollectionOf(target))}
MoreSpecific(a, b) ==
    LET key(x) == <<IF x.layer = "local" THEN 1 ELSE 0, IF x.site.kind = "res" THEN 1 ELSE 0,
                    Len(x.site.sel),
                    IF x.site.sel # <<>> /\ ~Wild(Last(x.site.sel)) THEN 1 ELSE 0,
                    Literals(x.site.sel)>>
    IN \E i \in 1..5 : key(a)[i] > key(b)[i] /\ \A j \in 1..(i - 1) : key(a)[j] = key(b)[j]

\* The directive a path resolves to is the one of the most specific metadata
\* that has it: the local layer before the shared one, the resource before
\* collections, the deeper before the higher, literals before wildcards.
MostSpecificWins ==
    AtRest => \A target \in Targets :
        LET found == ResolveLayered(target)
            with == {a \in Applicable(target) :
                       TryReadMetadata(layers[a.layer], a.site).md.own # 0}
        IN found.ok => found.md.own =
             IF with = {} THEN 0
             ELSE LET best == CHOOSE a \in with : \A b \in with \ {a} : ~MoreSpecific(b, a)
                  IN TryReadMetadata(layers[best.layer], best.site).md.own

\* A defaults block that ignores or replaces what it inherits, and is the
\* most specific one, leaves its own value and nothing else.
IgnoreMeansOwn ==
    AtRest => \A target \in Targets :
        LET with == {a \in Applicable(target) : HasDefaultsSpecDirectives(
                       TryReadMetadata(layers[a.layer], a.site).md.defaults)}
            last == CHOOSE a \in with : \A b \in with \ {a} : ~MoreSpecific(b, a)
            layer == layers[last.layer]
            d == ResolveMetadataDefaults(layer, last.site,
                    TryReadMetadata(layer, last.site).md).defaults
            found == ResolveLayered(target)
        IN (with # {} /\ found.ok) =>
             (d.mode \in {"ignore", "replace"} /\ d.use = "unset"
                => EffectiveDefaults(found.md.defaults) = d.value.v)

\* The scope of a template is rooted at a collection above the target, and
\* root and descendant parts together are the target.
ScopeIsTarget ==
    AtRest => \A target \in Targets, op \in {"get", "list"} : \A scope \in {TemplateScope(target, op)} :
        (ResolveLayered(target).ok /\ scope.root >= 0) =>
             /\ SubSeq(target.path, 1, scope.root) \o scope.path = target.path
             /\ \A s \in Sites, l \in LayerNames :
                   (/\ s.kind = "coll" /\ TryReadMetadata(layers[l], s).md.desc
                    /\ [layer |-> l, site |-> s] \in Applicable(target)) => Len(s.sel) <= scope.root

\* What completion offers below a path leads to metadata or an artifact.
ChildrenLead ==
    Quiet => \A target \in Targets : \A c \in ResolveCollectionChildren(target.path) :
        \E l \in LayerNames : \E u \in Used(layers[l]) :
            Len(u) > Len(target.path) /\ u[Len(target.path) + 1] = c

\* GetLocalBaseline: what "resource defaults get" shows for a scope.
LocalBaseline(site) ==
    LET raw == TryReadMetadata(layers[Writable], site).md
    IN IF EntryFails(layers[Writable], site, FALSE, raw.defaults.value) THEN -1
       ELSE ResolveDefaultsEntry(layers[Writable], site, FALSE, raw.defaults.value).v

\* Defaults that were saved are the defaults that are read, also when their
\* block was inline or included a file of another type before.
SavedIsRead ==
    [][(running.name = "saveBaseline" /\ running.plan # <<>> /\ Quiet')
         => LocalBaseline(running.site)' = running.v]_metadataVars

\* A command about defaults leaves the other directives of its file alone.
DefaultsOnly ==
    [][\A site \in Sites : (running.name \in {"saveBaseline", "saveProfile", "deleteProfile", "saveConfig"}
          /\ Len(running.plan) > 0)
         => TryReadMetadata(layers[Writable], site).md.own = TryReadMetadata(layers[Writable], site).md.own']_metadataVars

\* ... the selector too (metadata.md, rule on selectors): clearing the last
\* default removes a file that still selects descendants.
SelectorKept ==
    [][\A site \in Sites : (running.name \in {"saveBaseline", "saveProfile", "deleteProfile", "saveConfig"}
          /\ Len(running.plan) > 0)
         => TryReadMetadata(layers[Writable], site).md.desc = TryReadMetadata(layers[Writable], site).md.desc']_metadataVars

\* A selected profile applies before the block's own value, which wins
\* (metadata.md, rule 15).
ValueOverProfile ==
    \A target \in Targets : LET found == ResolveLayered(target) IN
        (found.ok /\ found.md.defaults.value # None /\ found.md.defaults.use = "profile")
            => EffectiveDefaults(found.md.defaults) = found.md.defaults.value.v

\* A profile of the shared layer can be selected by the local one
\* (metadata.md, rule 14).
SharedProfileUsable ==
    \A target \in Targets :
        LET shared == ResolveForPath(layers["shared"], target)
            local == ResolveForPath(layers["local"], target)
        IN (shared.ok /\ shared.md.defaults.profile # None) => local.ok
=============================================================================
