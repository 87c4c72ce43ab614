---------------------------- MODULE ControlPlane ----------------------------
(***************************************************************************)
(* The custom resources of the operator, the admission webhooks that guard  *)
(* them (api/v1alpha1/webhook.go) and the controllers of ManagedService,    *)
(* SecretStore, MetadataBundle and RepositoryWebhook, with the overlap test *)
(* of the SyncPolicy controller as the second line of defence.              *)
(*                                                                          *)
(* Admission and controllers read the manager's cache, which follows the    *)
(* API server. A reconcile is one step on the cached copy: every write in   *)
(* it is refused when that copy is out of date, and every write to an       *)
(* object, the ones that add or remove a finalizer included, is admitted.   *)
(***************************************************************************)
EXTENDS Integers, FiniteSets, SequencesExt

CONSTANTS
  Objects,       \* names of custom resources
  Kind,          \* their kinds
  Paths,         \* normalised logical paths, sequences of segments
  Claims,        \* group and kind a CRDGenerator asks for
  NoClaim,       \* the claim of every other object
  SpecsOf,       \* per object, the specs users write
  MaxRequests,   \* bound: requests of users
  MaxFaults      \* bound: failed downloads, changes of the pull Secret

VARIABLES
  mode,      \* admission: "none" deployed, "serial" or "concurrent" requests
  store,     \* the API server
  cache,     \* the manager's cache
  pending,   \* requests admitted and not yet stored
  queued,    \* objects in the work queues of their controllers
  timer,     \* objects with a RequeueAfter or a backoff under way
  files,     \* services with a cache directory
  secret,    \* version of the bundles' pull Secret; 0: it does not exist
  refCache,  \* bundles that bundleRefCache maps the Secret to
  budget

vars == <<mode, store, cache, pending, queued, timer, files, secret, refCache, budget>>

Kinds == {"SyncPolicy", "ResourceRepository", "ManagedService", "SecretStore",
          "MetadataBundle", "CRDGenerator", "RepositoryWebhook"}
NoPath == <<>>

SpecType == [path: Paths \cup {NoPath}, refs: SUBSET Objects,
             claim: Claims \cup {NoClaim}, valid: BOOLEAN]
\* used: the version of the Secret that the status was computed with.
ObjType == [exists: BOOLEAN, deleting: BOOLEAN, finalizer: BOOLEAN, gen: Nat,
            spec: SpecType, ready: BOOLEAN, observed: Nat, used: Nat]
NoObj == [exists |-> FALSE, deleting |-> FALSE, finalizer |-> FALSE, gen |-> 0,
          spec |-> [path |-> NoPath, refs |-> {}, claim |-> NoClaim, valid |-> TRUE],
          ready |-> FALSE, observed |-> 0, used |-> 0]
RequestType == [op: {"write", "delete"}, obj: Objects, spec: SpecType]

\* The references of a service are its metadata bundles.
ASSUME ConstantsAssumption ==
  /\ \A o \in Objects : Kind[o] \in Kinds /\ SpecsOf[o] \subseteq SpecType
  /\ \A o \in Objects : Kind[o] = "ManagedService" =>
       \A s \in SpecsOf[o] : \A r \in s.refs : Kind[r] = "MetadataBundle"
  /\ NoPath \notin Paths /\ NoClaim \notin Claims
  /\ {MaxRequests, MaxFaults} \subseteq Nat

Finalized == {"SyncPolicy", "ManagedService", "SecretStore", "MetadataBundle"}
OfKind(k) == {o \in Objects : Kind[o] = k}
Live(o) == o.exists /\ ~o.deleting

TypeOK ==
  /\ mode \in {"none", "serial", "concurrent"}
  /\ store \in [Objects -> ObjType] /\ cache \in [Objects -> ObjType]
  /\ pending \subseteq RequestType
  /\ queued \subseteq Objects /\ timer \subseteq Objects
  /\ files \subseteq OfKind("ManagedService")
  /\ secret \in Nat /\ refCache \subseteq OfKind("MetadataBundle")
  /\ budget \in [{"requests", "faults"} -> Nat]
  /\ \A o \in Objects :
       /\ store[o].observed <= store[o].gen
       /\ store[o].deleting => store[o].exists /\ store[o].finalizer

Init ==
  /\ mode \in {"none", "serial", "concurrent"}
  /\ store = [o \in Objects |-> NoObj] /\ cache = store
  /\ pending = {} /\ queued = {} /\ timer = {} /\ files = {} /\ refCache = {}
  /\ secret = 1
  /\ budget = [requests |-> 0, faults |-> 0]

Spend(k, max) == budget[k] < max /\ budget' = [budget EXCEPT ![k] = @ + 1]

-----------------------------------------------------------------------------
(* Admission *)

\* Normalised paths overlap when one is a prefix of the other, by segments; a
\* path that does not normalise overlaps with nothing.
HasPathOverlap(a, b) ==
  a # NoPath /\ b # NoPath /\ (IsPrefix(a, b) \/ IsPrefix(b, a))

OverlapsWith(o, path, kinds) ==
  {p \in Objects \ {o} : /\ Kind[p] \in kinds /\ Live(cache[p])
                         /\ HasPathOverlap(cache[p].spec.path, path)}

ReferencedBy(o, kinds) ==
  {p \in Objects : Kind[p] \in kinds /\ Live(cache[p]) /\ o \in cache[p].spec.refs}

ValidatePolicy(o, s) == OverlapsWith(o, s.path, {"SyncPolicy", "CRDGenerator"}) = {}
ValidateGenerator(o, s) ==
  \A g \in OfKind("CRDGenerator") \ {o} : Live(cache[g]) => cache[g].spec.claim # s.claim
\* Mutant of ValidateReferences: an object that is being deleted will do.
ValidateReferencesExist(s) == \A r \in s.refs : cache[r].exists
ValidateReferences(s) == \A r \in s.refs : Live(cache[r])

\* ValidateCreate, and ValidateUpdate, which is the same.
ValidateWrite(o, s) ==
  /\ s.valid
  /\ CASE Kind[o] = "SyncPolicy" -> ValidatePolicy(o, s)
       [] Kind[o] = "CRDGenerator" -> ValidateGenerator(o, s)
       [] Kind[o] \in {"ManagedService", "RepositoryWebhook"} -> ValidateReferences(s)
       [] OTHER -> TRUE

ValidateDelete(o) ==
  CASE Kind[o] \in {"ResourceRepository", "ManagedService", "SecretStore"} ->
         ReferencedBy(o, {"SyncPolicy"}) = {}
    [] Kind[o] = "MetadataBundle" ->
         ReferencedBy(o, {"ManagedService", "CRDGenerator"}) = {}
    [] OTHER -> TRUE

Admits(r) == \/ mode = "none"
             \/ r.op = "write" /\ ValidateWrite(r.obj, r.spec)
             \/ r.op = "delete" /\ ValidateDelete(r.obj)

-----------------------------------------------------------------------------
(* The API server *)

Stored(r) ==
  LET o == store[r.obj]
  IN CASE r.op = "write" /\ ~o.exists ->
            [NoObj EXCEPT !.exists = TRUE, !.gen = o.gen + 1, !.spec = r.spec,
                          !.observed = o.observed]
       [] r.op = "write" /\ o.exists -> [o EXCEPT !.gen = @ + 1, !.spec = r.spec]
       [] r.op = "delete" /\ o.finalizer -> [o EXCEPT !.deleting = TRUE, !.gen = @ + 1]
       [] r.op = "delete" /\ ~o.finalizer -> [o EXCEPT !.exists = FALSE, !.ready = FALSE]

Meaningful(r) ==
  IF r.op = "write" THEN ~store[r.obj].exists \/ store[r.obj].spec # r.spec
  ELSE Live(store[r.obj])

RequestsOf(o) == {[op |-> "write", obj |-> o, spec |-> s] : s \in SpecsOf[o]}
                   \cup {[op |-> "delete", obj |-> o, spec |-> NoObj.spec]}

\* Requests that are served one after the other, on an idle cluster.
SerialRequest ==
  /\ mode # "concurrent"
  /\ cache = store
  /\ Spend("requests", MaxRequests)
  /\ \E o \in Objects : \E r \in RequestsOf(o) :
       /\ Meaningful(r) /\ Admits(r)
       /\ store' = [store EXCEPT ![o] = Stored(r)]
  /\ UNCHANGED <<mode, cache, pending, queued, timer, files, secret, refCache>>

\* Requests that overlap: admission looks at the cache before the object is
\* stored.
Admit ==
  /\ mode = "concurrent"
  /\ Spend("requests", MaxRequests)
  /\ \E o \in Objects : \E r \in RequestsOf(o) :
       Meaningful(r) /\ Admits(r) /\ pending' = pending \cup {r}
  /\ UNCHANGED <<mode, store, cache, queued, timer, files, secret, refCache>>

Store(r) ==
  /\ r \in pending
  /\ pending' = pending \ {r}
  /\ store' = IF Meaningful(r) THEN [store EXCEPT ![r.obj] = Stored(r)] ELSE store
  /\ UNCHANGED <<mode, cache, queued, timer, files, secret, refCache, budget>>

\* GenerationChangedPredicate, except for RepositoryWebhook.
CacheSync(o) ==
  /\ cache[o] # store[o]
  /\ cache' = [cache EXCEPT ![o] = store[o]]
  /\ queued' = IF \/ cache[o].exists # store[o].exists
                  \/ cache[o].gen # store[o].gen
                  \/ Kind[o] = "RepositoryWebhook"
               THEN queued \cup {o} ELSE queued
  /\ UNCHANGED <<mode, store, pending, timer, files, secret, refCache, budget>>

TimerFires(o) ==
  /\ o \in timer
  /\ timer' = timer \ {o} /\ queued' = queued \cup {o}
  /\ UNCHANGED <<mode, store, cache, pending, files, secret, refCache, budget>>

\* metadataBundlesForSecret: the Secret is created, rotated or deleted.
SecretChanges ==
  /\ Spend("faults", MaxFaults)
  /\ secret' \in {0, secret + 1} \ {secret}
  /\ queued' = queued \cup refCache
  /\ UNCHANGED <<mode, store, cache, pending, timer, files, refCache>>

-----------------------------------------------------------------------------
(* The controllers *)

Fresh(o) == cache[o] = store[o]
Begin(o, k) == o \in queued /\ Kind[o] = k /\ queued' = queued \ {o}

\* An error: the work queue retries with backoff.
Fails(o) == timer' = timer \cup {o} /\ UNCHANGED store

\* client.Update of the metadata: it passes through admission as an update.
UpdateMeta(o, new) ==
  IF Fresh(o) /\ (mode = "none" \/ ValidateWrite(o, new.spec))
  THEN store' = [store EXCEPT ![o] = new] /\ UNCHANGED timer
  ELSE Fails(o)

\* Status().Update and the result of the reconcile.
UpdateStatus(o, ready, used, requeue) ==
  IF Fresh(o)
  THEN /\ store' = [store EXCEPT ![o].ready = ready, ![o].observed = cache[o].gen,
                                 ![o].finalizer = Kind[o] \in Finalized,
                                 ![o].used = used]
       /\ timer' = IF requeue THEN timer \cup {o} ELSE timer
  ELSE Fails(o)

\* Mutant of SetNotReady: validation errors are not the only ones without a
\* requeue.
SetNotReadyForGood(o, reason) == UpdateStatus(o, FALSE, cache[o].used, FALSE)

\* setNotReady and returnAfterSetNotReady.
SetNotReady(o, reason) ==
  UpdateStatus(o, FALSE, cache[o].used,
               reason \notin {"SpecInvalid", "OverlappingPolicy"})

\* Mutant of Gone: a status of a deleted object is kept.
GoneHalf(o) == [cache[o] EXCEPT !.exists = FALSE, !.finalizer = FALSE]

Gone(o) == [cache[o] EXCEPT !.exists = FALSE, !.deleting = FALSE,
                            !.finalizer = FALSE, !.ready = FALSE]
\* A new object gets its finalizer before anything else; a refusal ends the
\* reconcile.
NeedsFinalizer(o) == ~cache[o].finalizer
FinalizerDenied(o) ==
  NeedsFinalizer(o) /\ ~(Fresh(o) /\ (mode = "none" \/ ValidateWrite(o, cache[o].spec)))

rest == <<mode, cache, pending, secret, budget>>

\* Not found in the cache, or no finalizer to be had.
ReconcileEnds(o) ==
  /\ o \in queued /\ Kind[o] \in Finalized
  /\ queued' = queued \ {o}
  /\ \/ ~cache[o].exists /\ UNCHANGED <<store, timer>>
     \/ cache[o].exists /\ FinalizerDenied(o) /\ Fails(o)
  /\ UNCHANGED <<rest, files, refCache>>

Proceeds(o) == cache[o].exists /\ ~FinalizerDenied(o)

\* Mutant of ReconcilePolicy: a policy that is known already is not tested.
ReconcilePolicyOnce(o) ==
  /\ Begin(o, "SyncPolicy") /\ Proceeds(o)
  /\ \/ cache[o].deleting /\ UpdateMeta(o, Gone(o))
     \/ ~cache[o].deleting /\ ~cache[o].spec.valid /\ SetNotReady(o, "SpecInvalid")
     \/ /\ ~cache[o].deleting /\ cache[o].spec.valid
        /\ IF cache[o].observed = 0 /\ OverlapsWith(o, cache[o].spec.path, {"SyncPolicy"}) # {}
           THEN SetNotReady(o, "OverlappingPolicy")
           ELSE UpdateStatus(o, TRUE, 0, FALSE)
  /\ UNCHANGED <<rest, files, refCache>>

\* The SyncPolicy controller up to the point at which it would sync; ready
\* stands for a sync of the whole scope.
ReconcilePolicy(o) ==
  /\ Begin(o, "SyncPolicy") /\ Proceeds(o)
  /\ \/ cache[o].deleting /\ UpdateMeta(o, Gone(o))
     \/ ~cache[o].deleting /\ ~cache[o].spec.valid /\ SetNotReady(o, "SpecInvalid")
     \/ /\ ~cache[o].deleting /\ cache[o].spec.valid
        /\ IF OverlapsWith(o, cache[o].spec.path, {"SyncPolicy"}) # {}
           THEN SetNotReady(o, "OverlappingPolicy")
           ELSE UpdateStatus(o, TRUE, 0, FALSE)
  /\ UNCHANGED <<rest, files, refCache>>

\* Mutant of ReconcileService: the directory is removed after the finalizer,
\* and only if there is a status to tell of it.
ReconcileServiceLate(o) ==
  /\ Begin(o, "ManagedService") /\ Proceeds(o)
  /\ \/ /\ cache[o].deleting
        /\ files' = IF cache[o].ready THEN files \ {o} ELSE files
        /\ UpdateMeta(o, Gone(o))
     \/ /\ ~cache[o].deleting /\ cache[o].spec.valid
        /\ files' = files \cup {o}
        /\ UpdateStatus(o, TRUE, 0, TRUE)
  /\ UNCHANGED <<rest, refCache>>

\* ManagedServiceReconciler: cached artifacts, polled.
ReconcileService(o) ==
  /\ Begin(o, "ManagedService") /\ Proceeds(o)
  /\ \/ /\ cache[o].deleting
        /\ files' = files \ {o}
        /\ UpdateMeta(o, Gone(o))
     \/ /\ ~cache[o].deleting /\ ~cache[o].spec.valid
        /\ SetNotReady(o, "SpecInvalid")
        /\ UNCHANGED files
     \/ /\ ~cache[o].deleting /\ cache[o].spec.valid
        /\ files' = files \cup {o}
        /\ UpdateStatus(o, TRUE, 0, TRUE)
  /\ UNCHANGED <<rest, refCache>>

\* downloadArtifact or the proxy's Secret fails; the directory may exist.
DownloadFails(o) ==
  /\ Begin(o, "ManagedService") /\ Proceeds(o)
  /\ ~cache[o].deleting /\ cache[o].spec.valid
  /\ Spend("faults", MaxFaults)
  /\ files' \in {files, files \cup {o}}
  /\ SetNotReady(o, "DependencyInvalid")
  /\ UNCHANGED <<mode, cache, pending, secret, refCache>>

\* SecretStoreReconciler: nothing but the spec is looked at.
ReconcileSecretStore(o) ==
  /\ Begin(o, "SecretStore") /\ Proceeds(o)
  /\ \/ cache[o].deleting /\ UpdateMeta(o, Gone(o))
     \/ ~cache[o].deleting /\ ~cache[o].spec.valid /\ SetNotReady(o, "SpecInvalid")
     \/ ~cache[o].deleting /\ cache[o].spec.valid /\ UpdateStatus(o, TRUE, 0, FALSE)
  /\ UNCHANGED <<rest, files, refCache>>

\* MetadataBundleReconciler.handleDeletion waits for live dependents to go.
DeleteBundle(o) ==
  /\ Begin(o, "MetadataBundle") /\ Proceeds(o) /\ cache[o].deleting
  /\ IF ReferencedBy(o, {"ManagedService", "CRDGenerator"}) # {}
     THEN SetNotReady(o, "Referenced") /\ UNCHANGED refCache
     ELSE /\ UpdateMeta(o, Gone(o))
          /\ refCache' = IF store'[o].exists THEN refCache ELSE refCache \ {o}
  /\ UNCHANGED <<rest, files>>

\* loadBundleSourceInputs and resolveBundle. A Secret that cannot be loaded is
\* not entered into the map, and one that was there is dropped.
ResolveBundle(o) ==
  /\ Begin(o, "MetadataBundle") /\ Proceeds(o) /\ ~cache[o].deleting
  /\ \/ /\ ~cache[o].spec.valid
        /\ SetNotReady(o, "SpecInvalid")
        /\ UNCHANGED refCache
     \/ /\ cache[o].spec.valid /\ secret = 0
        /\ refCache' = refCache \ {o}
        /\ SetNotReady(o, "DependencyInvalid")
     \/ /\ cache[o].spec.valid /\ secret > 0
        /\ refCache' = refCache \cup {o}
        /\ UpdateStatus(o, TRUE, secret, TRUE)
  /\ UNCHANGED <<rest, files>>

\* RepositoryWebhookReconciler has no finalizer; the event of its own status
\* write queues the object again.
ReconcileWebhook(o) ==
  /\ Begin(o, "RepositoryWebhook")
  /\ IF cache[o].exists
     THEN UpdateStatus(o, \A r \in cache[o].spec.refs : cache[r].exists, 0, FALSE)
     ELSE UNCHANGED <<store, timer>>
  /\ UNCHANGED <<rest, files, refCache>>

\* Generators and repositories have controllers of their own (modules
\* GeneratedResources and ResourceRepository).
OtherController(o) ==
  /\ o \in queued /\ Kind[o] \in {"CRDGenerator", "ResourceRepository"}
  /\ queued' = queued \ {o}
  /\ UNCHANGED <<rest, store, timer, files, refCache>>

Reconcile(o) ==
  \/ ReconcileEnds(o) \/ ReconcilePolicy(o) \/ ReconcileService(o)
  \/ ReconcileSecretStore(o) \/ DeleteBundle(o) \/ ResolveBundle(o)
  \/ ReconcileWebhook(o) \/ OtherController(o)

Next ==
  \/ SerialRequest \/ Admit \/ (\E r \in pending : Store(r)) \/ SecretChanges
  \/ \E o \in Objects : CacheSync(o) \/ TimerFires(o) \/ Reconcile(o) \/ DownloadFails(o)

Fairness == \A o \in Objects : /\ WF_vars(CacheSync(o)) /\ WF_vars(TimerFires(o))
                               /\ WF_vars(Reconcile(o))

Spec == Init /\ [][Next]_vars
FairSpec == Spec /\ Fairness

-----------------------------------------------------------------------------
(* Properties *)

Synced(p) == Live(store[p]) /\ store[p].ready /\ store[p].observed = store[p].gen

\* Two live policies never both sync overlapping scopes, even when admission is
\* not deployed or lets both in: validateNoOverlap of the reconcile reads a
\* cache in which one of the two is always the later.
ScopesExclusive ==
  \A p, q \in OfKind("SyncPolicy") :
    p # q /\ Synced(p) /\ Synced(q) => ~HasPathOverlap(store[p].spec.path, store[q].spec.path)

\* Serial admission: a live ManagedService always has its MetadataBundle.
BundleHeld ==
  mode = "serial" =>
    \A s \in OfKind("ManagedService") : Live(store[s]) =>
      \A b \in store[s].spec.refs : Live(store[b])

\* A ManagedService that is gone leaves no cache directory behind, whatever
\* failed or was refused on the way, and none comes back while the cache still
\* shows the service.
ServiceGoneIsClean ==
  \A s \in OfKind("ManagedService") : ~store[s].exists => s \notin files

\* Deletions come in order: what is referenced outlives who refers to it, and
\* what a service kept on disk does not outlive the service (ValidateDelete,
\* ManagedServiceReconciler).
DeletionInOrder == BundleHeld /\ ServiceGoneIsClean

\* A dependency that users may rely on ends up Ready for its generation, a
\* bundle with the pull Secret of the day: retries and polls make up for
\* refused writes, failed downloads and a Secret that came late.
EventuallyReady ==
  \A o \in Objects :
    Kind[o] \in {"ManagedService", "SecretStore", "MetadataBundle"} =>
      <>[](Live(store[o]) /\ ValidateWrite(o, store[o].spec) =>
             /\ store[o].observed = store[o].gen
             /\ store[o].ready \/ (Kind[o] = "MetadataBundle" /\ secret = 0)
             /\ Kind[o] = "MetadataBundle" /\ secret > 0 => store[o].used = secret)

\* Admission keeps scopes apart ("admission and reconcile MUST reject
\* overlapping logical source scopes").
LiveScopesApart ==
  mode # "none" =>
    \A p, q \in OfKind("SyncPolicy") :
      p # q /\ Live(store[p]) /\ Live(store[q]) =>
        ~HasPathOverlap(store[p].spec.path, store[q].spec.path)

\* A deleted object goes away. The update that removes its finalizer has to
\* pass admission once more.
EventuallyGone == \A o \in Objects : store[o].deleting ~> ~store[o].exists
=============================================================================
