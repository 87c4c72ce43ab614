----------------------------- MODULE BundleCache -----------------------------
(* The cache of metadata bundles (internal/providers/metadata/bundle): a     *)
(* reference names a source and a cache directory; a directory with a ready  *)
(* marker is used as it is, and otherwise the archive is fetched into a      *)
(* temporary directory that is renamed into place.  Workers of one process   *)
(* take turns through a table of locks; processes do not.                    *)
EXTENDS Naturals, Sequences, FiniteSets, TLC

CONSTANTS
    Refs,           \* references: [form, place, name, version]
    FirstOffers,    \* what the sources offer at first
    Archives,       \* archives the sources may offer: sequences of entries
    Layers,         \* media types of the layers of an OCI artifact
    Workers,        \* goroutines that resolve
    ProcessOf,      \* the process of each
    MaxResolves,    \* resolutions of one behaviour
    MaxPublishes,   \* changes of what a source offers
    MaxKills,
    MaxEntries,     \* maxArchiveEntries
    MaxBytes,       \* maxTotalArchiveBytes
    MaxFile         \* maxArchiveFileSizeByte

VARIABLES
    cache,          \* the cache directories: what is in them
    offered,        \* what each source offers now
    history,        \* what each source has offered
    jobs,           \* the resolution of each worker
    locks,          \* bundleCacheLocks: the entries, and who holds them
    done,           \* how each reference resolved so far
    count           \* resolutions, publications and kills so far

ASSUME BundleAssumption ==
    /\ IsFiniteSet(Workers) /\ "nobody" \notin Workers
    /\ MaxResolves \in Nat /\ MaxPublishes \in Nat /\ MaxKills \in Nat
    /\ \A archive \in Archives : Len(archive) \in Nat
    /\ \A first \in FirstOffers : /\ DOMAIN first = Refs /\ first = [ref \in Refs |-> first[ref]]
                                  /\ \A ref \in Refs : Len(first[ref]) \in Nat

bundleVars == <<cache, offered, history, jobs, locks, done, count>>

Processes == {ProcessOf[w] : w \in Workers}

(***************************************************************************)
(* Sources (source.go).  A version is "" when the artifact's name carries  *)
(* none; "latest" is a tag that is not a version.                          *)
(***************************************************************************)

IsSemver(version) == version \notin {"", "latest"}

\* parseVersionedArtifactFileName: only names that end in .tar.gz.
ParseVersionedArtifactFileName(ref) == ref.form # "digest" /\ IsSemver(ref.version)

\* parseShorthandRef: a name and a version.
ParseShorthandRef(ref) == ref.form = "short" /\ IsSemver(ref.version)

\* cacheDirNameForSourceArtifact: a versioned artifact is cached under its
\* name and version, any other under a hash of the whole reference.
CacheDirName(ref) ==
    IF ParseVersionedArtifactFileName(ref)
    THEN [name |-> ref.name, version |-> ref.version, of |-> {}]
    ELSE [name |-> ref.name, version |-> "", of |-> {ref}]

\* parseOCIRef: a tag or a digest, a registry and a repository.
ParseOCIRef(ref) == ref.form \in {"oci", "digest"} /\ ref.version # "" /\ ref.place # ""
\* parseConfigMapRef: a namespace, a name and a key.
ParseConfigMapRef(ref) == ref.form = "configmap" /\ ref.place # "" /\ ref.name # ""

\* parseBundleSource: the forms in order; anything else is a local path.
ParseBundleSource(ref) ==
    LET kind == CASE ParseOCIRef(ref) -> "oci"
                  [] ParseConfigMapRef(ref) -> "configmap"
                  [] ParseShorthandRef(ref) -> "shorthand"
                  [] ref.form = "url" -> "url"
                  [] OTHER -> "local"
    IN [kind |-> kind, dir |-> CacheDirName(ref)]

Dirs == {CacheDirName(ref) : ref \in Refs}

(***************************************************************************)
(* Archives (extract.go).  An entry goes to the manifest, the metadata     *)
(* tree, an OpenAPI file, nowhere ("skip") or outside the destination.     *)
(***************************************************************************)

Files == {"manifest", "metadata", "openapi"}
NoFile == [name |-> "none"]
Empty == [f \in Files |-> NoFile]

\* ".", a blank name and a directory write no file.
ExtractEntry(state, entry) ==
    LET total == IF entry.type = "file" THEN state.bytes + entry.size ELSE state.bytes
        bad == \/ state.entries + 1 > MaxEntries
               \/ entry.to = "outside"
               \/ entry.to # "skip" /\ entry.type = "link"
               \/ entry.type = "file" /\ entry.to # "skip" /\ (entry.size > MaxFile \/ total > MaxBytes)
    IN IF ~state.ok THEN state
       ELSE IF bad THEN [state EXCEPT !.ok = FALSE]
       ELSE [ok |-> TRUE, entries |-> state.entries + 1,
             bytes |-> IF entry.to = "skip" THEN state.bytes ELSE total,
             files |-> IF entry.to \in Files /\ entry.type = "file"
                       THEN [state.files EXCEPT ![entry.to] = entry.body] ELSE state.files]

\* extractTarGz
ExtractTarGz(archive) ==
    LET after[n \in 0..Len(archive)] ==
            IF n = 0 THEN [ok |-> TRUE, entries |-> 0, bytes |-> 0, files |-> Empty]
            ELSE ExtractEntry(after[n - 1], archive[n])
    IN after[Len(archive)]

(***************************************************************************)
(* OCI (oci.go).                                                           *)
(***************************************************************************)

TarMediaTypes == {"declarest", "tar"}
HasBundleLayer == \E i \in DOMAIN Layers : Layers[i] = "declarest"

\* selectOCIBundleLayer: the first layer of any accepted media type.
SelectOCIBundleLayer(types) ==
    LET accepted == {i \in DOMAIN types : types[i] \in TarMediaTypes}
    IN {i \in accepted : \A j \in accepted : i <= j}

\* fetchOCIBundleManifest and the blob, where a tar layer beside the bundle's own
\* holds none of its files; the other forms offer the archive.
OpenBundleStream(ref, source) ==
    LET selected == SelectOCIBundleLayer(Layers)
        beside == \A i \in selected : Layers[i] = "tar" /\ HasBundleLayer
    IN [ok |-> source.kind = "oci" => selected # {},
        archive |-> IF source.kind = "oci" /\ beside THEN <<>> ELSE offered[ref]]

(***************************************************************************)
(* Manifests (manifest.go, resolver.go).  A manifest is [name, version,    *)
(* fields, openapi, compatible, template]; fields tells whether the fields *)
(* that stand alone are valid.                                             *)
(***************************************************************************)

\* DecodeBundleManifest and Validate.
DecodeBundleManifest(manifest) ==
    /\ manifest.name \notin {"", "none"} /\ manifest.fields
    /\ IsSemver(manifest.version)
    /\ manifest.template \in {"", manifest.name}

\* resolveBundleOpenAPISource: the declared file, then a bundled one.
ResolveBundleOpenAPISource(files) ==
    IF files["manifest"].openapi = "file" THEN files["openapi"] # NoFile ELSE TRUE

\* Mutant of BuildResolution: the shorthand is not compared.
BuildResolutionAny(files, ref, source) ==
    files["metadata"] # NoFile /\ ResolveBundleOpenAPISource(files)

\* buildResolution: what a shorthand asks for must be what it gets.
BuildResolution(files, ref, source) ==
    /\ source.kind = "shorthand" => /\ files["manifest"].name = ref.name
                                    /\ files["manifest"].version = ref.version
                                    /\ files["manifest"].template # ""
    /\ files["metadata"] # NoFile
    /\ ResolveBundleOpenAPISource(files)

\* Mutant of EnforceCompatibleDeclarest: the gate is left open.
EnforceNothing(manifest) == manifest # NoFile

\* enforceCompatibleDeclarest
EnforceCompatibleDeclarest(manifest) == manifest.compatible

\* A directory's content makes a bundle of the reference.
Usable(files, ref, source) ==
    /\ files["manifest"] # NoFile /\ DecodeBundleManifest(files["manifest"])
    /\ BuildResolution(files, ref, source)

(***************************************************************************)
(* The directories.  A directory is absent, or has a marker or not and     *)
(* files; .old is the directory moved aside.                               *)
(***************************************************************************)

Absent == [there |-> FALSE, marker |-> FALSE, files |-> Empty]
Directory(files, marker) == [there |-> TRUE, marker |-> marker, files |-> files]

\* loadCachedBundle: "hit", "miss", or "broken".
LoadCachedBundle(dir, ref, source) ==
    IF ~cache[dir].there \/ ~cache[dir].marker THEN "miss"
    ELSE IF Usable(cache[dir].files, ref, source) THEN "hit" ELSE "broken"

(***************************************************************************)
(* The locks (cache.go).  locks[p].entry maps a directory to the number of *)
(* its entry or 0; locks[p].refs and locks[p].held belong to the entries.  *)
(***************************************************************************)

Entries == 1..Cardinality(Workers)
Unheld == "nobody"
NoLocks == [entry |-> [d \in Dirs |-> 0], refs |-> [e \in Entries |-> 0],
            held |-> [e \in Entries |-> Unheld]]

NoJob == [at |-> "idle"]
UsedEntries(p) == {jobs[w].entry : w \in {v \in Workers : ProcessOf[v] = p /\ jobs[v] # NoJob}}

\* Mutant of RegisterLock: a second reference is not counted.
RegisterLockOnce(p, dir) ==
    LET found == locks[p].entry[dir]
        fresh == CHOOSE e \in Entries : e \notin UsedEntries(p)
        mine == IF found # 0 THEN found ELSE fresh
    IN [locks EXCEPT ![p].entry[dir] = mine, ![p].refs[mine] = 1]

\* acquireBundleCacheLock: find or make the entry, count the reference.
RegisterLock(p, dir) ==
    LET found == locks[p].entry[dir]
        fresh == CHOOSE e \in Entries : e \notin UsedEntries(p)
        mine == IF found # 0 THEN found ELSE fresh
    IN [locks EXCEPT ![p].entry[dir] = mine, ![p].refs[mine] = IF found # 0 THEN @ + 1 ELSE 1]

\* Mutant of ReleaseLock: the entry goes away with its first holder.
ReleaseLockForgets(p, dir, e) ==
    [locks EXCEPT ![p].held[e] = Unheld, ![p].refs[e] = @ - 1, ![p].entry[dir] = 0]

\* The release: the entry is dropped with its last reference.
ReleaseLock(p, dir, e) ==
    [locks EXCEPT ![p].held[e] = Unheld, ![p].refs[e] = @ - 1,
                  ![p].entry[dir] = IF locks[p].refs[e] = 1 THEN 0 ELSE @]

(***************************************************************************)
(* ResolveBundle, step by step.                                            *)
(***************************************************************************)

Job(w) == jobs[w]
At(w, at) == jobs[w] # NoJob /\ jobs[w].at = at
Goto(w, at) == jobs' = [jobs EXCEPT ![w].at = at]
Dir(w) == jobs[w].source.dir

\* The result of a resolution is remembered, and the lock is given up.
Return(w, ok, why) ==
    /\ done' = [done EXCEPT ![jobs[w].ref] = Append(@, [ok |-> ok, why |-> why,
                   files |-> IF ok THEN cache[Dir(w)].files ELSE Empty])]
    /\ locks' = ReleaseLock(ProcessOf[w], Dir(w), jobs[w].entry)
    /\ jobs' = [jobs EXCEPT ![w] = NoJob]

MayBegin(w) == jobs[w] = NoJob /\ count.resolves < MaxResolves

\* resolveLocalDirectory: an unpacked bundle is used where it is.
ResolveLocalDirectory(w) ==
    /\ MayBegin(w)
    /\ \E ref \in Refs :
         LET files == ExtractTarGz(offered[ref]).files
             ok == Usable(files, ref, ParseBundleSource(ref)) /\ EnforceCompatibleDeclarest(files["manifest"])
         IN /\ ref.form = "directory"
            /\ done' = [done EXCEPT ![ref] = Append(@, [ok |-> ok, why |-> "gate",
                   files |-> IF ok THEN files ELSE Empty])]
    /\ count' = [count EXCEPT !.resolves = @ + 1]
    /\ UNCHANGED <<cache, offered, history, jobs, locks>>

Begin(w) ==
    /\ MayBegin(w)
    /\ \E ref \in {r \in Refs : r.form # "directory"} :
         LET source == ParseBundleSource(ref)
             next == RegisterLock(ProcessOf[w], source.dir)
         IN /\ locks' = next
            /\ jobs' = [jobs EXCEPT ![w] = [at |-> "lock", ref |-> ref, source |-> source,
                   entry |-> next[ProcessOf[w]].entry[source.dir], tmp |-> Empty]]
    /\ count' = [count EXCEPT !.resolves = @ + 1]
    /\ UNCHANGED <<cache, offered, history, done>>

Lock(w) ==
    /\ At(w, "lock") /\ locks[ProcessOf[w]].held[Job(w).entry] = Unheld
    /\ locks' = [locks EXCEPT ![ProcessOf[w]].held[Job(w).entry] = w]
    /\ Goto(w, "load")
    /\ UNCHANGED <<cache, offered, history, done, count>>

\* Mutant of Load: what may have moved is fetched again.
LoadVersioned(w) ==
    /\ At(w, "load")
    /\ IF /\ LoadCachedBundle(Dir(w), Job(w).ref, Job(w).source) = "hit"
          /\ Dir(w).version # ""
       THEN /\ Return(w, EnforceCompatibleDeclarest(cache[Dir(w)].files["manifest"]), "gate")
            /\ UNCHANGED <<cache, offered, history, count>>
       ELSE /\ Goto(w, "fetch")
            /\ UNCHANGED <<cache, offered, history, locks, done, count>>

\* resolveBundleAt: a broken directory is removed.
Load(w) ==
    /\ At(w, "load")
    /\ LET found == LoadCachedBundle(Dir(w), Job(w).ref, Job(w).source)
       IN IF found = "hit"
          THEN /\ Return(w, EnforceCompatibleDeclarest(cache[Dir(w)].files["manifest"]), "gate")
               /\ UNCHANGED <<cache, offered, history, count>>
          ELSE /\ Goto(w, IF found = "broken" THEN "remove" ELSE "fetch")
               /\ UNCHANGED <<cache, offered, history, locks, done, count>>

\* os.RemoveAll: the marker and the files go in any order.
RemoveAll(w) ==
    /\ At(w, "remove")
    /\ \/ /\ cache[Dir(w)].marker
          /\ cache' = [cache EXCEPT ![Dir(w)].marker = FALSE]
          /\ UNCHANGED jobs
       \/ /\ \E f \in Files : /\ cache[Dir(w)].files[f] # NoFile
                              /\ cache' = [cache EXCEPT ![Dir(w)].files[f] = NoFile]
          /\ UNCHANGED jobs
       \/ /\ ~cache[Dir(w)].marker /\ cache[Dir(w)].files = Empty
          /\ cache' = [cache EXCEPT ![Dir(w)] = Absent]
          /\ Goto(w, "fetch")
    /\ UNCHANGED <<offered, history, locks, done, count>>

\* Mutant of Fetched: an archive that fails to extract is kept.
FetchedAnyway(ref, source) ==
    LET stream == OpenBundleStream(ref, source)
    IN [ok |-> stream.ok, files |-> ExtractTarGz(stream.archive).files]

\* extractBundleArchive, and the checks before the marker is written.
Fetched(ref, source) ==
    LET stream == OpenBundleStream(ref, source)
        extracted == ExtractTarGz(stream.archive)
    IN [ok |-> stream.ok /\ extracted.ok /\ Usable(extracted.files, ref, source),
        files |-> extracted.files]

\* installBundle, up to the marker; the transfer may fail.
Fetch(w) ==
    /\ At(w, "fetch")
    /\ LET fetched == Fetched(Job(w).ref, Job(w).source)
       IN \/ /\ fetched.ok
             /\ jobs' = [jobs EXCEPT ![w].at = "aside", ![w].tmp = fetched.files]
             /\ UNCHANGED <<cache, offered, history, locks, done, count>>
          \/ /\ Return(w, FALSE, IF fetched.ok THEN "transfer" ELSE "archive")
             /\ UNCHANGED <<cache, offered, history, count>>

\* What is in the directory's place is moved aside.
MoveAside(w) ==
    /\ At(w, "aside")
    /\ cache' = [cache EXCEPT ![Dir(w)] = Absent]
    /\ Goto(w, "finalize")
    /\ UNCHANGED <<offered, history, locks, done, count>>

\* The rename succeeds unless another process was faster.
Finalize(w) ==
    /\ At(w, "finalize")
    /\ IF cache[Dir(w)].there
       THEN /\ Return(w, FALSE, "rename")
            /\ UNCHANGED <<cache, offered, history, count>>
       ELSE /\ cache' = [cache EXCEPT ![Dir(w)] = Directory(Job(w).tmp, TRUE)]
            /\ Goto(w, "reload")
            /\ UNCHANGED <<offered, history, locks, done, count>>

\* loadCachedOrFail
Reload(w) ==
    /\ At(w, "reload")
    /\ IF LoadCachedBundle(Dir(w), Job(w).ref, Job(w).source) = "hit"
       THEN Return(w, EnforceCompatibleDeclarest(cache[Dir(w)].files["manifest"]), "gate")
       ELSE Return(w, FALSE, "reload")
    /\ UNCHANGED <<cache, offered, history, count>>

\* The process dies: its workers and locks are gone, the disk stays.
Kill(p) ==
    /\ count.kills < MaxKills /\ \E w \in Workers : ProcessOf[w] = p /\ jobs[w] # NoJob
    /\ jobs' = [w \in Workers |-> IF ProcessOf[w] = p THEN NoJob ELSE jobs[w]]
    /\ locks' = [locks EXCEPT ![p] = NoLocks]
    /\ count' = [count EXCEPT !.kills = @ + 1]
    /\ UNCHANGED <<cache, offered, history, done>>

\* A tag is moved, a ConfigMap is edited, a file is replaced.  An unpacked
\* directory is no archive that could break off.
Publish ==
    /\ count.publishes < MaxPublishes
    /\ \E ref \in Refs, archive \in Archives :
         /\ archive # offered[ref] /\ (ref.form = "directory" => ExtractTarGz(archive).ok)
         /\ offered' = [offered EXCEPT ![ref] = archive]
         /\ history' = [history EXCEPT ![ref] = @ \cup {archive}]
    /\ count' = [count EXCEPT !.publishes = @ + 1]
    /\ UNCHANGED <<cache, jobs, locks, done>>

BundleInit ==
    /\ cache = [d \in Dirs |-> Absent]
    /\ offered \in FirstOffers
    /\ \A ref \in Refs : ref.form = "directory" => ExtractTarGz(offered[ref]).ok
    /\ history = [ref \in Refs |-> {offered[ref]}]
    /\ jobs = [w \in Workers |-> NoJob]
    /\ locks = [p \in Processes |-> NoLocks]
    /\ done = [ref \in Refs |-> <<>>]
    /\ count = [resolves |-> 0, publishes |-> 0, kills |-> 0]

BundleNext ==
    \/ \E w \in Workers :
         \/ ResolveLocalDirectory(w) \/ Begin(w) \/ Lock(w) \/ Load(w) \/ RemoveAll(w)
         \/ Fetch(w) \/ MoveAside(w) \/ Finalize(w) \/ Reload(w)
    \/ \E p \in Processes : Kill(p)
    \/ Publish

BundleSpec == BundleInit /\ [][BundleNext]_bundleVars

(***************************************************************************)
(* Properties.                                                             *)
(***************************************************************************)

\* Every variable is of its type, and an entry of the lock table counts
\* exactly the workers that refer to it.
BundleTypeOK ==
    /\ \A d \in Dirs : DOMAIN cache[d].files = Files /\ cache[d].marker \in BOOLEAN
    /\ \A w \in Workers : jobs[w] # NoJob =>
         jobs[w].at \in {"lock", "load", "remove", "fetch", "aside", "finalize", "reload"}
    /\ \A p \in Processes, e \in Entries :
         locks[p].refs[e] = Cardinality({w \in Workers : ProcessOf[w] = p /\ jobs[w] # NoJob /\ jobs[w].entry = e})

\* Workers of one process never work in one cache directory at a time: an
\* entry of the lock table is not dropped while somebody waits for it.
TurnsTaken ==
    \A v, w \in Workers :
        (v # w /\ ProcessOf[v] = ProcessOf[w] /\ jobs[v] # NoJob /\ jobs[w] # NoJob
           /\ jobs[v].at # "lock" /\ jobs[w].at # "lock") => Dir(v) # Dir(w)

\* Two references that are cached under the same name and version.
SameArtifact(r, q) ==
    r = q \/ (r.name = q.name /\ r.version = q.version
               /\ ParseVersionedArtifactFileName(r) /\ ParseVersionedArtifactFileName(q))

Whole(files, ref) ==
    \E q \in {r \in Refs : SameArtifact(ref, r)} : \E a \in history[q] :
        ExtractTarGz(a).ok /\ files = ExtractTarGz(a).files

\* A directory with the ready marker holds all of an archive, unless it is
\* being removed or the process that removed it was killed.
ReadyIsWhole ==
    \A ref \in Refs :
        LET d == CacheDirName(ref)
        IN (cache[d].marker /\ count.kills = 0 /\ \A w \in Workers : At(w, "remove") => Dir(w) # d)
             => \E r \in Refs : CacheDirName(r) = d /\ Whole(cache[d].files, r)

\* What a resolution returns is a whole archive the reference's artifact has
\* been offered with, and what a shorthand asked for; after a kill, too, when
\* the archive has no file that a bundle can do without.
ReturnedIsOffered ==
    \A ref \in Refs, i \in 1..MaxResolves :
        (i \in DOMAIN done[ref] /\ done[ref][i].ok) =>
            /\ Whole(done[ref][i].files, ref)
            /\ ParseShorthandRef(ref) => /\ done[ref][i].files["manifest"].name = ref.name
                                         /\ done[ref][i].files["manifest"].version = ref.version

\* No resolution returns a bundle that asks for another version of the
\* program, whether it was fetched, cached or unpacked.
GateHolds ==
    \A ref \in Refs, i \in 1..MaxResolves :
        (i \in DOMAIN done[ref] /\ done[ref][i].ok) => done[ref][i].files["manifest"].compatible

\* A reference that was resolved needs its source no more - not even after a
\* kill - if no other reference is cached under its name.  (An unpacked directory
\* is its own source.)
OfflineAfterFirst ==
    \A ref \in Refs, i, j \in 1..MaxResolves :
        (/\ ref.form # "directory" /\ i < j /\ j \in DOMAIN done[ref] /\ done[ref][i].ok
         /\ \A r \in Refs : SameArtifact(ref, r) => r = ref) => done[ref][j].ok

\* Workers never meet in a cache directory; a directory that is marked ready is
\* whole; a resolution returns what its source offered, refuses what the version
\* gate excludes, and needs no network the second time (providers/metadata/bundle).
BundlesSafe == TurnsTaken /\ ReadyIsWhole /\ ReturnedIsOffered /\ GateHolds /\ OfflineAfterFirst

\* A reference never resolves to what only another source has offered.
ReturnedIsOwn ==
    \A ref \in Refs, i \in 1..MaxResolves :
        (i \in DOMAIN done[ref] /\ done[ref][i].ok) =>
            \E a \in history[ref] : done[ref][i].files = ExtractTarGz(a).files

\* A ConfigMap's bundle is read from the bytes that were handed over
\* (agents/reference/metadata-bundle.md, rule 1.2).
ConfigMapIsRead ==
    LET last(ref) == done[ref][Len(done[ref])]
    IN [][\A ref \in Refs : (ref.form = "configmap" /\ done'[ref] # done[ref] /\ last(ref)'.ok)
             => last(ref)'.files = ExtractTarGz(offered[ref]).files]_bundleVars

\* A bundle that the running version may not use is not extracted into the
\* cache (agents/reference/metadata-bundle.md, rule 15).
IncompatibleNotCached ==
    \A d \in Dirs : cache[d].marker =>
        (cache[d].files["manifest"] # NoFile => EnforceCompatibleDeclarest(cache[d].files["manifest"]))

\* The bundle layer of an artifact is found beside other tar layers
\* (agents/reference/metadata-bundle.md, rule 2).
BundleLayerFound ==
    \A ref \in Refs, i \in 1..MaxResolves :
        (/\ i \in DOMAIN done[ref] /\ done[ref][i].why = "archive"
         /\ ref.form = "oci" /\ HasBundleLayer)
        => \E a \in history[ref] : ~ExtractTarGz(a).ok \/ ~Usable(ExtractTarGz(a).files, ref, ParseBundleSource(ref))
=============================================================================
