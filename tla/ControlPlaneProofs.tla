-------------------------- MODULE ControlPlaneProofs --------------------------
(***************************************************************************)
(* Proofs about ControlPlane: overlapping policies never both sync, bundles *)
(* outlive the services that refer to them, and no cache directory outlives *)
(* its service, for every set of objects, specs and paths and every number  *)
(* of requests, refused writes and failures.                                *)
(***************************************************************************)
EXTENDS ControlPlane, TLAPS

\* Only kinds with a finalizer are ever marked as deleting.
FinalizerKinds ==
  \A o \in Objects : store[o].finalizer => Kind[o] \in Finalized

\* A policy that is synced was synced from what the cache has: the cache may
\* miss its status and its finalizer, never its spec.
SyncedIsCached ==
  \A p \in OfKind("SyncPolicy") :
    Synced(p) => Live(cache[p]) /\ cache[p].spec = store[p].spec

\* Whoever has seen a service with its finalizer and no deletion mark can rely
\* on it: the service is there and does not go without a reconcile.
Protected ==
  \A s \in OfKind("ManagedService") :
    cache[s].exists /\ cache[s].finalizer /\ ~cache[s].deleting =>
      store[s].exists /\ store[s].finalizer

\* A cache directory belongs to a service that has its finalizer.
FilesOwned == \A s \in files : store[s].exists /\ store[s].finalizer

\* A service refers to bundles only.
RefsAreBundles ==
  \A s \in OfKind("ManagedService") : \A b \in store[s].spec.refs :
    Kind[b] = "MetadataBundle"

\* Requests are ones that users make; without concurrency none waits.
PendingRequests ==
  /\ \A r \in pending : r.obj \in Objects /\ r \in RequestsOf(r.obj)
  /\ mode # "concurrent" => pending = {}

\* What admission keeps apart when requests come one at a time: the scopes of
\* policies and the claims of generators.
AdmittedApart ==
  mode = "serial" =>
    /\ \A p, q \in OfKind("SyncPolicy") :
         p # q /\ Live(store[p]) /\ Live(store[q]) =>
           ~HasPathOverlap(store[p].spec.path, store[q].spec.path)
    /\ \A g, h \in OfKind("CRDGenerator") :
         g # h /\ Live(store[g]) /\ Live(store[h]) =>
           store[g].spec.claim # store[h].spec.claim

\* The parts of TypeOK about the objects, and about everything else.
ObjectTypes ==
  /\ mode \in {"none", "serial", "concurrent"}
  /\ store \in [Objects -> ObjType] /\ cache \in [Objects -> ObjType]
  /\ files \subseteq OfKind("ManagedService")
  /\ \A o \in Objects :
       /\ store[o].observed <= store[o].gen
       /\ store[o].deleting => store[o].exists /\ store[o].finalizer

OtherTypes ==
  /\ pending \subseteq RequestType
  /\ queued \subseteq Objects /\ timer \subseteq Objects
  /\ secret \in Nat /\ refCache \subseteq OfKind("MetadataBundle")
  /\ budget \in [{"requests", "faults"} -> Nat]

ObjectInv ==
  /\ ObjectTypes /\ FinalizerKinds /\ SyncedIsCached /\ Protected
  /\ RefsAreBundles /\ ScopesExclusive /\ BundleHeld /\ AdmittedApart

IInv == ObjectInv /\ FilesOwned /\ OtherTypes /\ PendingRequests

-----------------------------------------------------------------------------
(* What is written *)

\* An object that does not exist satisfies the typing of objects.
LEMMA NoObjType == NoObj \in ObjType
BY DEF NoObj, ObjType, SpecType

\* What users may ask for.
LEMMA RequestFacts ==
  ASSUME NEW o \in Objects, NEW r \in RequestsOf(o)
  PROVE  /\ r \in RequestType /\ r.obj = o
         /\ r.op = "write" => r.spec \in SpecsOf[o]
<1>1. NoObj.spec \in SpecType
  BY NoObjType DEF ObjType
<1>2. SpecsOf[o] \subseteq SpecType
  BY ConstantsAssumption
<1>. QED BY <1>1, <1>2 DEF RequestsOf, RequestType

\* A request leaves an object that is not synced: its generation has moved, or
\* it is gone.
LEMMA StoredFacts ==
  ASSUME ObjectInv, NEW o \in Objects, NEW r \in RequestsOf(o), Meaningful(r)
  PROVE  /\ Stored(r) \in ObjType
         /\ Stored(r).observed <= Stored(r).gen
         /\ Stored(r).deleting => Stored(r).exists /\ Stored(r).finalizer
         /\ Stored(r).finalizer => store[o].finalizer
         /\ store[o].exists /\ store[o].finalizer =>
              Stored(r).exists /\ Stored(r).finalizer
         /\ ~(Stored(r).exists /\ Stored(r).ready
                /\ Stored(r).observed = Stored(r).gen)
         /\ Live(Stored(r)) => r.op = "write" /\ Stored(r).spec = r.spec
         /\ r.op = "write" /\ Live(store[o]) => Live(Stored(r))
         /\ Stored(r).spec.refs \subseteq store[o].spec.refs \cup r.spec.refs
<1>1. r \in RequestType /\ r.obj = o /\ r.spec \in SpecType
  BY RequestFacts DEF RequestType
<1>2. /\ store[o] \in ObjType
      /\ store[o].observed <= store[o].gen
      /\ store[o].deleting => store[o].exists /\ store[o].finalizer
  BY DEF ObjectInv, ObjectTypes
<1>a. store[o].gen \in Nat /\ store[o].observed \in Nat
  BY <1>2 DEF ObjType
<1>b. PICK n : n = store[o].gen + 1
  OBVIOUS
<1>c. n \in Nat /\ store[o].observed < n
  BY <1>2, <1>a, <1>b
<1>3. CASE r.op = "write" /\ ~store[o].exists
  <2>1. Stored(r) = [NoObj EXCEPT !.exists = TRUE, !.gen = n,
                            !.spec = r.spec, !.observed = store[o].observed]
    BY <1>1, <1>3, <1>b DEF Stored
  <2>2. Stored(r) \in ObjType
    BY <1>1, <1>a, <1>c, <2>1, NoObjType DEF ObjType
  <2>3. /\ Stored(r).gen = n /\ Stored(r).spec = r.spec
        /\ Stored(r).observed = store[o].observed /\ Stored(r).exists
        /\ ~Stored(r).deleting /\ ~Stored(r).finalizer
    BY <2>1 DEF NoObj
  <2>. QED BY <1>3, <1>a, <1>c, <2>2, <2>3 DEF Live
<1>4. CASE r.op = "write" /\ store[o].exists
  <2>1. Stored(r) = [store[o] EXCEPT !.gen = n, !.spec = r.spec]
    BY <1>1, <1>4, <1>b DEF Stored
  <2>2. Stored(r) \in ObjType
    BY <1>1, <1>2, <1>c, <2>1 DEF ObjType
  <2>3. /\ Stored(r).gen = n /\ Stored(r).spec = r.spec
        /\ Stored(r).observed = store[o].observed
        /\ Stored(r).exists = store[o].exists
        /\ Stored(r).deleting = store[o].deleting
        /\ Stored(r).finalizer = store[o].finalizer
    BY <1>2, <2>1 DEF ObjType
  <2>. QED BY <1>2, <1>4, <1>a, <1>c, <2>2, <2>3 DEF Live
<1>5. CASE r.op = "delete" /\ store[o].finalizer
  <2>1. Stored(r) = [store[o] EXCEPT !.deleting = TRUE, !.gen = n]
    BY <1>1, <1>5, <1>b DEF Stored
  <2>2. store[o].exists
    BY <1>1, <1>5 DEF Meaningful, Live
  <2>3. Stored(r) \in ObjType
    BY <1>1, <1>2, <1>c, <2>1 DEF ObjType
  <2>4. /\ Stored(r).gen = n /\ Stored(r).spec = store[o].spec
        /\ Stored(r).observed = store[o].observed
        /\ Stored(r).exists = store[o].exists /\ Stored(r).deleting
        /\ Stored(r).finalizer = store[o].finalizer
    BY <1>2, <2>1 DEF ObjType
  <2>. QED BY <1>2, <1>5, <1>a, <1>c, <2>2, <2>3, <2>4 DEF Live
<1>6. CASE r.op = "delete" /\ ~store[o].finalizer
  <2>1. Stored(r) = [store[o] EXCEPT !.exists = FALSE, !.ready = FALSE]
    BY <1>1, <1>6 DEF Stored
  <2>. QED BY <1>1, <1>2, <1>6, <2>1 DEF ObjType, Live
<1>. QED BY <1>1, <1>3, <1>4, <1>5, <1>6 DEF RequestType

\* How a write of one object may leave it: what requests, status updates and
\* the release of a finalizer have in common.
Admissible(o, new) ==
  /\ new \in ObjType
  /\ new.observed <= new.gen
  /\ new.deleting => new.exists /\ new.finalizer
  /\ new.finalizer => Kind[o] \in Finalized
  /\ Kind[o] = "ManagedService" =>
       \A b \in new.spec.refs : Kind[b] = "MetadataBundle"
  /\ Kind[o] = "SyncPolicy" /\ Live(new) /\ new.ready /\ new.observed = new.gen =>
       /\ Live(cache[o]) /\ cache[o].spec = new.spec
       /\ OverlapsWith(o, new.spec.path, {"SyncPolicy"}) = {} \/ Synced(o)
  /\ store[o].exists /\ store[o].finalizer =>
       (new.exists /\ new.finalizer) \/ cache[o].deleting
  /\ mode = "serial" =>
       /\ Live(new) => \/ Live(store[o]) /\ new.spec = store[o].spec
                       \/ cache = store /\ ValidateWrite(o, new.spec)
       /\ Live(store[o]) /\ ~Live(new) => cache = store /\ ValidateDelete(o)

\* Overlap does not depend on the order.
LEMMA OverlapSymmetric ==
  \A a, b : HasPathOverlap(a, b) <=> HasPathOverlap(b, a)
BY DEF HasPathOverlap

\* Such a write keeps everything that is promised of the objects.
LEMMA WriteKeepsObjects ==
  ASSUME ObjectInv, NEW o \in Objects, NEW new, Admissible(o, new),
         store' = [store EXCEPT ![o] = new], UNCHANGED <<mode, cache>>,
         files' \subseteq OfKind("ManagedService")
  PROVE  ObjectInv'
<1>1. /\ store \in [Objects -> ObjType] /\ cache \in [Objects -> ObjType]
      /\ new \in ObjType
  BY DEF ObjectInv, ObjectTypes, Admissible
<1>2. /\ store' \in [Objects -> ObjType] /\ store'[o] = new
      /\ \A x \in Objects : x # o => store'[x] = store[x]
  BY <1>1
<1>3. ObjectTypes'
  BY <1>1, <1>2 DEF ObjectInv, ObjectTypes, Admissible
<1>4. FinalizerKinds' /\ RefsAreBundles'
  BY <1>2 DEF ObjectInv, FinalizerKinds, RefsAreBundles, Admissible, OfKind
<1>5. SyncedIsCached'
  BY <1>2 DEF ObjectInv, SyncedIsCached, Admissible, OfKind, Synced
<1>6. Protected'
  BY <1>2 DEF ObjectInv, Protected, Admissible, OfKind
<1>7. ScopesExclusive'
  <2>. SUFFICES ASSUME NEW p \in OfKind("SyncPolicy"), NEW q \in OfKind("SyncPolicy"),
                       p # q, Synced(p)', Synced(q)'
                PROVE  ~HasPathOverlap(store'[p].spec.path, store'[q].spec.path)
    BY DEF ScopesExclusive, OfKind
  <2>. p \in Objects /\ q \in Objects /\ Kind[p] = "SyncPolicy" /\ Kind[q] = "SyncPolicy"
    BY DEF OfKind
  <2>1. ASSUME NEW x \in OfKind("SyncPolicy"), x # o, Synced(x)',
               Kind[o] = "SyncPolicy", Synced(o)'
        PROVE  ~HasPathOverlap(new.spec.path, store'[x].spec.path)
    <3>1. x \in Objects /\ Synced(x) /\ store'[x] = store[x] /\ Kind[x] = "SyncPolicy"
      BY <2>1, <1>2 DEF Synced, OfKind
    <3>2. Live(cache[x]) /\ cache[x].spec = store[x].spec
      BY <2>1, <3>1 DEF ObjectInv, SyncedIsCached
    <3>3. Live(new) /\ new.ready /\ new.observed = new.gen
      BY <2>1, <1>2 DEF Synced
    <3>4. CASE OverlapsWith(o, new.spec.path, {"SyncPolicy"}) = {}
      BY <2>1, <3>1, <3>2, <3>4, OverlapSymmetric DEF OverlapsWith
    <3>5. CASE Synced(o)
      <4>1. Live(cache[o]) /\ cache[o].spec = store[o].spec /\ cache[o].spec = new.spec
        BY <2>1, <3>3, <3>5 DEF ObjectInv, SyncedIsCached, Admissible, OfKind
      <4>2. ~HasPathOverlap(store[o].spec.path, store[x].spec.path)
        BY <2>1, <3>1, <3>5 DEF ObjectInv, ScopesExclusive, OfKind
      <4>. QED BY <4>1, <4>2, <3>1
    <3>. QED BY <2>1, <3>3, <3>4, <3>5 DEF Admissible
  <2>2. CASE p = o
    BY <2>1, <2>2, <1>2
  <2>3. CASE q = o
    BY <2>1, <2>3, <1>2, OverlapSymmetric
  <2>4. CASE p # o /\ q # o
    BY <2>4, <1>2 DEF ObjectInv, ScopesExclusive, Synced
  <2>. QED BY <2>2, <2>3, <2>4
<1>8. BundleHeld'
  <2>. SUFFICES ASSUME mode = "serial", NEW s \in OfKind("ManagedService"),
                       Live(store'[s]), NEW b \in store'[s].spec.refs
                PROVE  Live(store'[b])
    BY DEF BundleHeld, OfKind
  <2>1. /\ s \in Objects /\ Kind[s] = "ManagedService"
        /\ b \in Objects /\ Kind[b] = "MetadataBundle" /\ b # s
    BY <1>2, <1>4 DEF OfKind, RefsAreBundles, ObjType, SpecType
  <2>2. CASE s = o
    <3>1. store'[b] = store[b] /\ store'[s] = new
      BY <2>1, <2>2, <1>2
    <3>2. CASE Live(store[o]) /\ new.spec = store[o].spec
      BY <2>1, <2>2, <3>1, <3>2 DEF ObjectInv, BundleHeld
    <3>3. CASE cache = store /\ ValidateWrite(o, new.spec)
      <4>1. ValidateReferences(new.spec)
        BY <2>1, <2>2, <3>3 DEF ValidateWrite
      <4>. QED BY <4>1, <2>1, <3>1, <3>3 DEF ValidateReferences
    <3>. QED BY <2>2, <3>1, <3>2, <3>3 DEF Admissible
  <2>3. CASE s # o
    <3>1. store'[s] = store[s] /\ Live(store[b])
      BY <2>1, <2>3, <1>2 DEF ObjectInv, BundleHeld
    <3>2. CASE b # o
      BY <3>1, <3>2, <2>1, <1>2
    <3>3. CASE b = o
      <4>1. SUFFICES ASSUME ~Live(new) PROVE FALSE
        BY <1>2, <3>3
      <4>2. cache = store /\ ValidateDelete(o)
        BY <3>1, <3>3, <4>1 DEF Admissible
      <4>3. ReferencedBy(o, {"ManagedService", "CRDGenerator"}) = {}
        BY <4>2, <2>1, <3>3 DEF ValidateDelete
      <4>. QED BY <4>2, <4>3, <3>1, <3>3, <2>1 DEF ReferencedBy
    <3>. QED BY <3>2, <3>3
  <2>. QED BY <2>2, <2>3
<1>9. AdmittedApart'
  <2>. SUFFICES ASSUME mode = "serial" PROVE AdmittedApart'
    BY DEF AdmittedApart
  <2>1. ASSUME NEW p \in OfKind("SyncPolicy"), NEW q \in OfKind("SyncPolicy"),
               p # q, Live(store'[p]), Live(store'[q])
        PROVE  ~HasPathOverlap(store'[p].spec.path, store'[q].spec.path)
    <3>. p \in Objects /\ q \in Objects /\ Kind[p] = "SyncPolicy" /\ Kind[q] = "SyncPolicy"
      BY DEF OfKind
    <3>1. ASSUME NEW x \in OfKind("SyncPolicy"), x # o, Live(store'[x]),
                 Kind[o] = "SyncPolicy", Live(new)
          PROVE  ~HasPathOverlap(new.spec.path, store'[x].spec.path)
      <4>1. x \in Objects /\ Kind[x] = "SyncPolicy" /\ store'[x] = store[x]
        BY <3>1, <1>2 DEF OfKind
      <4>2. CASE Live(store[o]) /\ new.spec = store[o].spec
        BY <3>1, <4>1, <4>2 DEF ObjectInv, AdmittedApart, OfKind
      <4>3. CASE cache = store /\ ValidateWrite(o, new.spec)
        <5>1. OverlapsWith(o, new.spec.path, {"SyncPolicy", "CRDGenerator"}) = {}
          BY <3>1, <4>3 DEF ValidateWrite, ValidatePolicy
        <5>. QED BY <5>1, <3>1, <4>1, <4>3, OverlapSymmetric DEF OverlapsWith
      <4>. QED BY <3>1, <4>2, <4>3 DEF Admissible
    <3>2. CASE p = o
      BY <2>1, <3>1, <3>2, <1>2
    <3>3. CASE q = o
      BY <2>1, <3>1, <3>3, <1>2, OverlapSymmetric
    <3>4. CASE p # o /\ q # o
      BY <2>1, <3>4, <1>2 DEF ObjectInv, AdmittedApart
    <3>. QED BY <3>2, <3>3, <3>4
  <2>2. ASSUME NEW g \in OfKind("CRDGenerator"), NEW h \in OfKind("CRDGenerator"),
               g # h, Live(store'[g]), Live(store'[h])
        PROVE  store'[g].spec.claim # store'[h].spec.claim
    <3>. g \in Objects /\ h \in Objects /\ Kind[g] = "CRDGenerator" /\ Kind[h] = "CRDGenerator"
      BY DEF OfKind
    <3>1. ASSUME NEW x \in OfKind("CRDGenerator"), x # o, Live(store'[x]),
                 Kind[o] = "CRDGenerator", Live(new)
          PROVE  new.spec.claim # store'[x].spec.claim
      <4>1. x \in Objects /\ Kind[x] = "CRDGenerator" /\ store'[x] = store[x]
        BY <3>1, <1>2 DEF OfKind
      <4>2. CASE Live(store[o]) /\ new.spec = store[o].spec
        BY <3>1, <4>1, <4>2 DEF ObjectInv, AdmittedApart, OfKind
      <4>3. CASE cache = store /\ ValidateWrite(o, new.spec)
        <5>1. ValidateGenerator(o, new.spec)
          BY <3>1, <4>3 DEF ValidateWrite
        <5>. QED BY <5>1, <3>1, <4>1, <4>3 DEF ValidateGenerator
      <4>. QED BY <3>1, <4>2, <4>3 DEF Admissible
    <3>2. CASE g = o
      BY <2>2, <3>1, <3>2, <1>2
    <3>3. CASE h = o
      BY <2>2, <3>1, <3>3, <1>2
    <3>4. CASE g # o /\ h # o
      BY <2>2, <3>4, <1>2 DEF ObjectInv, AdmittedApart
    <3>. QED BY <3>2, <3>3, <3>4
  <2>. QED BY <2>1, <2>2 DEF AdmittedApart, OfKind
<1>. QED BY <1>3, <1>4, <1>5, <1>6, <1>7, <1>8, <1>9 DEF ObjectInv

-----------------------------------------------------------------------------
(* Requests *)

\* A request that is stored is such a write, when it was admitted on an idle
\* cluster or nothing is said of admission.
LEMMA RequestAdmissible ==
  ASSUME ObjectInv, NEW o \in Objects, NEW r \in RequestsOf(o), Meaningful(r),
         mode = "serial" => cache = store /\ Admits(r)
  PROVE  Admissible(o, Stored(r))
<1>1. r.obj = o /\ r.op \in {"write", "delete"} /\ (r.op = "write" => r.spec \in SpecsOf[o])
  BY RequestFacts DEF RequestType
<1>2. Kind[o] = "ManagedService" =>
        \A b \in Stored(r).spec.refs : Kind[b] = "MetadataBundle"
  <2>1. ASSUME Kind[o] = "ManagedService", NEW b \in Stored(r).spec.refs
        PROVE  Kind[b] = "MetadataBundle"
    <3>1. CASE b \in store[o].spec.refs
      BY <2>1, <3>1 DEF ObjectInv, RefsAreBundles, OfKind
    <3>2. CASE b \in r.spec.refs
      <4>1. r.op = "write" \/ r.spec.refs = {}
        BY <1>1 DEF RequestsOf, NoObj
      <4>. QED BY <2>1, <3>2, <4>1, <1>1, ConstantsAssumption
    <3>. QED BY <3>1, <3>2, StoredFacts
  <2>. QED BY <2>1
<1>3. mode = "serial" =>
        /\ Live(Stored(r)) => cache = store /\ ValidateWrite(o, Stored(r).spec)
        /\ Live(store[o]) /\ ~Live(Stored(r)) => cache = store /\ ValidateDelete(o)
  BY <1>1, StoredFacts DEF Admits
<1>4. Stored(r).finalizer => Kind[o] \in Finalized
  BY StoredFacts DEF ObjectInv, FinalizerKinds
<1>. QED BY <1>2, <1>3, <1>4, StoredFacts DEF Admissible, Live

-----------------------------------------------------------------------------
(* Controllers *)

\* A status update of an object that exists: it is refused, or the status is
\* for the copy at hand.
LEMMA StatusAdmissible ==
  ASSUME ObjectInv, NEW o \in Objects, NEW ready \in BOOLEAN, NEW used \in Nat,
         NEW requeue \in BOOLEAN, UpdateStatus(o, ready, used, requeue),
         timer \subseteq Objects, cache[o].exists,
         cache[o].deleting => Kind[o] \in Finalized,
         Kind[o] = "SyncPolicy" /\ ready =>
           OverlapsWith(o, cache[o].spec.path, {"SyncPolicy"}) = {}
  PROVE  /\ timer' \subseteq Objects
         /\ \/ ~Fresh(o) /\ UNCHANGED store
            \/ /\ Fresh(o)
               /\ \E new : /\ Admissible(o, new)
                           /\ store' = [store EXCEPT ![o] = new]
                           /\ new.exists
                           /\ Kind[o] \in Finalized => new.finalizer
<1>1. CASE ~Fresh(o)
  BY <1>1 DEF UpdateStatus, Fails
<1>2. CASE Fresh(o)
  <2>. DEFINE new == [store[o] EXCEPT !.ready = ready, !.observed = cache[o].gen,
                               !.finalizer = Kind[o] \in Finalized, !.used = used]
  <2>1. /\ store \in [Objects -> ObjType] /\ store[o] \in ObjType
        /\ cache[o] = store[o]
        /\ store[o].deleting => store[o].exists /\ store[o].finalizer
    BY <1>2 DEF ObjectInv, ObjectTypes, Fresh
  <2>2. store' = [store EXCEPT ![o] = new]
    BY <1>2, <2>1 DEF UpdateStatus
  <2>3. store[o].gen \in Nat
    BY <2>1 DEF ObjType
  <2>4. (Kind[o] \in Finalized) \in BOOLEAN
    OBVIOUS
  <2>5. new \in ObjType
    BY <2>1, <2>3, <2>4 DEF ObjType
  <2>6. /\ new.ready = ready /\ new.observed = store[o].gen /\ new.gen = store[o].gen
        /\ new.finalizer = (Kind[o] \in Finalized)
        /\ new.exists = store[o].exists /\ new.deleting = store[o].deleting
        /\ new.spec = store[o].spec
    BY <2>1 DEF ObjType
  <2>. HIDE DEF new
  <2>7. store[o].finalizer => Kind[o] \in Finalized
    BY DEF ObjectInv, FinalizerKinds
  <2>8. Kind[o] = "ManagedService" => \A b \in new.spec.refs : Kind[b] = "MetadataBundle"
    BY <2>6 DEF ObjectInv, RefsAreBundles, OfKind
  <2>9. new.observed <= new.gen
    BY <2>3, <2>6
  <2>10. Admissible(o, new)
    BY <2>1, <2>5, <2>6, <2>7, <2>8, <2>9 DEF Admissible, Live
  <2>11. timer' \subseteq Objects
    BY <1>2 DEF UpdateStatus
  <2>. QED BY <1>2, <2>1, <2>2, <2>6, <2>10, <2>11
<1>. QED BY <1>1, <1>2

\* The release of the finalizer of an object that is being deleted.
LEMMA GoneAdmissible ==
  ASSUME ObjectInv, NEW o \in Objects, UpdateMeta(o, Gone(o)),
         timer \subseteq Objects, cache[o].exists, cache[o].deleting
  PROVE  /\ timer' \subseteq Objects
         /\ \/ UNCHANGED store
            \/ \E new : Admissible(o, new) /\ store' = [store EXCEPT ![o] = new]
<1>1. CASE Fails(o)
  BY <1>1 DEF Fails
<1>2. CASE Fresh(o) /\ store' = [store EXCEPT ![o] = Gone(o)] /\ UNCHANGED timer
  <2>1. /\ store[o] \in ObjType /\ cache[o] = store[o]
        /\ store[o].observed <= store[o].gen
    BY <1>2 DEF ObjectInv, ObjectTypes, Fresh
  <2>2. Gone(o) \in ObjType
    BY <2>1 DEF Gone, ObjType
  <2>3. /\ Gone(o).exists = FALSE /\ Gone(o).deleting = FALSE
        /\ Gone(o).finalizer = FALSE /\ Gone(o).observed = store[o].observed
        /\ Gone(o).gen = store[o].gen /\ Gone(o).spec = store[o].spec
    BY <2>1 DEF Gone, ObjType
  <2>4. Kind[o] = "ManagedService" => \A b \in Gone(o).spec.refs : Kind[b] = "MetadataBundle"
    BY <2>3 DEF ObjectInv, RefsAreBundles, OfKind
  <2>5. Admissible(o, Gone(o))
    BY <2>1, <2>2, <2>3, <2>4 DEF Admissible, Live
  <2>. QED BY <1>2, <2>5
<1>. QED BY <1>1, <1>2 DEF UpdateMeta

-----------------------------------------------------------------------------
(* Objects and directories together *)

\* A step that leaves the objects alone.
LEMMA IdleKeepsObjects ==
  ASSUME ObjectInv, UNCHANGED <<mode, store, cache>>,
         files' \subseteq OfKind("ManagedService")
  PROVE  ObjectInv'
<1>1. \A o \in Objects : Synced(o)' <=> Synced(o)
  BY DEF Synced
<1>2. ObjectTypes' /\ FinalizerKinds' /\ Protected' /\ RefsAreBundles'
  BY DEF ObjectInv, ObjectTypes, FinalizerKinds, Protected, RefsAreBundles, OfKind
<1>3. SyncedIsCached' /\ ScopesExclusive'
  BY <1>1 DEF ObjectInv, SyncedIsCached, ScopesExclusive, OfKind
<1>4. BundleHeld' /\ AdmittedApart'
  BY DEF ObjectInv, BundleHeld, AdmittedApart, OfKind
<1>. QED BY <1>2, <1>3, <1>4 DEF ObjectInv

\* A stored request takes no directory's owner away.
LEMMA RequestKeeps ==
  ASSUME ObjectInv, FilesOwned, NEW o \in Objects, NEW r \in RequestsOf(o),
         Meaningful(r), mode = "serial" => cache = store /\ Admits(r),
         store' = [store EXCEPT ![o] = Stored(r)],
         UNCHANGED <<mode, cache, files>>
  PROVE  ObjectInv' /\ FilesOwned'
<1>1. files' \subseteq OfKind("ManagedService") /\ store \in [Objects -> ObjType]
  BY DEF ObjectInv, ObjectTypes
<1>2. ObjectInv'
  BY <1>1, RequestAdmissible, WriteKeepsObjects
<1>3. FilesOwned'
  BY <1>1, StoredFacts DEF FilesOwned, OfKind
<1>. QED BY <1>2, <1>3

\* A status update, with the directory of the service made before it.
LEMMA StatusKeeps ==
  ASSUME ObjectInv, FilesOwned, timer \subseteq Objects,
         NEW o \in Objects, NEW ready \in BOOLEAN, NEW used \in Nat,
         NEW requeue \in BOOLEAN, UpdateStatus(o, ready, used, requeue),
         cache[o].exists, cache[o].deleting => Kind[o] \in Finalized,
         Kind[o] = "SyncPolicy" /\ ready =>
           OverlapsWith(o, cache[o].spec.path, {"SyncPolicy"}) = {},
         UNCHANGED <<mode, cache>>,
         \/ files' = files
         \/ /\ files' = files \cup {o} /\ Kind[o] = "ManagedService"
            /\ Proceeds(o) /\ ~cache[o].deleting
  PROVE  ObjectInv' /\ FilesOwned' /\ timer' \subseteq Objects
<1>1. /\ files' \subseteq OfKind("ManagedService") /\ files \subseteq OfKind("ManagedService")
      /\ store \in [Objects -> ObjType]
  BY DEF ObjectInv, ObjectTypes, OfKind
<1>2. timer' \subseteq Objects
  BY StatusAdmissible
<1>3. CASE ~Fresh(o) /\ UNCHANGED store
  <2>1. ObjectInv'
    BY <1>1, <1>3, IdleKeepsObjects
  <2>2. ~(files' = files) => store[o].exists /\ store[o].finalizer
    BY <1>3 DEF Proceeds, FinalizerDenied, NeedsFinalizer, ObjectInv, Protected, OfKind
  <2>3. FilesOwned'
    BY <1>3, <2>2 DEF FilesOwned
  <2>. QED BY <1>2, <2>1, <2>3
<1>4. CASE \E new : /\ Admissible(o, new)
                    /\ store' = [store EXCEPT ![o] = new]
                    /\ new.exists
                    /\ Kind[o] \in Finalized => new.finalizer
  <2>. PICK new : /\ Admissible(o, new)
                  /\ store' = [store EXCEPT ![o] = new]
                  /\ new.exists
                  /\ Kind[o] \in Finalized => new.finalizer
    BY <1>4
  <2>1. ObjectInv'
    BY <1>1, WriteKeepsObjects
  <2>2. FilesOwned'
    BY <1>1 DEF FilesOwned, OfKind, Finalized
  <2>. QED BY <1>2, <2>1, <2>2
<1>. QED BY <1>3, <1>4, StatusAdmissible

\* The release of a finalizer, after the directory of a service is gone.
LEMMA GoneKeeps ==
  ASSUME ObjectInv, FilesOwned, timer \subseteq Objects,
         NEW o \in Objects, UpdateMeta(o, Gone(o)),
         cache[o].exists, cache[o].deleting, UNCHANGED <<mode, cache>>,
         \/ files' = files /\ Kind[o] # "ManagedService"
         \/ files' = files \ {o}
  PROVE  ObjectInv' /\ FilesOwned' /\ timer' \subseteq Objects
<1>1. /\ files' \subseteq OfKind("ManagedService") /\ files \subseteq OfKind("ManagedService")
      /\ store \in [Objects -> ObjType] /\ o \notin files'
  BY DEF ObjectInv, ObjectTypes, OfKind
<1>2. timer' \subseteq Objects
  BY GoneAdmissible
<1>3. CASE UNCHANGED store
  BY <1>1, <1>2, <1>3, IdleKeepsObjects DEF FilesOwned
<1>4. CASE \E new : Admissible(o, new) /\ store' = [store EXCEPT ![o] = new]
  <2>. PICK new : Admissible(o, new) /\ store' = [store EXCEPT ![o] = new]
    BY <1>4
  <2>1. ObjectInv'
    BY <1>1, WriteKeepsObjects
  <2>2. FilesOwned'
    BY <1>1 DEF FilesOwned, OfKind
  <2>. QED BY <1>2, <2>1, <2>2
<1>. QED BY <1>3, <1>4, GoneAdmissible

-----------------------------------------------------------------------------
(* The actions *)

\* The invariant holds initially.
LEMMA InitIInv == Init => IInv
<1>. SUFFICES ASSUME Init PROVE IInv
  OBVIOUS
<1>1. /\ store \in [Objects -> ObjType] /\ cache \in [Objects -> ObjType]
      /\ \A o \in Objects : store[o] = NoObj
  BY NoObjType DEF Init
<1>2. /\ NoObj.exists = FALSE /\ NoObj.deleting = FALSE /\ NoObj.finalizer = FALSE
      /\ NoObj.observed = 0 /\ NoObj.gen = 0 /\ NoObj.spec.refs = {}
  BY DEF NoObj
<1>3. ObjectTypes
  BY <1>1, <1>2 DEF Init, ObjectTypes, OfKind
<1>4. ObjectInv
  BY <1>1, <1>2, <1>3 DEF Init, ObjectInv, FinalizerKinds, SyncedIsCached,
     Synced, Live, Protected, RefsAreBundles, ScopesExclusive, BundleHeld,
     AdmittedApart, OfKind
<1>5. FilesOwned /\ OtherTypes /\ PendingRequests
  BY DEF Init, FilesOwned, OtherTypes, PendingRequests
<1>. QED BY <1>4, <1>5 DEF IInv

\* Spending stays in the natural numbers.
LEMMA SpendType ==
  ASSUME OtherTypes, NEW k \in {"requests", "faults"}, NEW max, Spend(k, max)
  PROVE  budget' \in [{"requests", "faults"} -> Nat]
BY DEF OtherTypes, Spend

\* Users' writes and deletions keep the invariant: admission lets only
\* writes through that are Admissible.
LEMMA RequestsKeepIInv ==
  IInv /\ (SerialRequest \/ Admit \/ \E r \in pending : Store(r)) => IInv'
<1>. SUFFICES ASSUME IInv, SerialRequest \/ Admit \/ \E r \in pending : Store(r)
              PROVE  IInv'
  OBVIOUS
<1>. USE DEF IInv
<1>1. files \subseteq OfKind("ManagedService")
  BY DEF ObjectInv, ObjectTypes
<1>2. CASE SerialRequest
  <2>. PICK o \in Objects : \E r \in RequestsOf(o) :
          /\ Meaningful(r) /\ Admits(r)
          /\ store' = [store EXCEPT ![o] = Stored(r)]
    BY <1>2 DEF SerialRequest
  <2>1. ObjectInv' /\ FilesOwned'
    BY <1>2, RequestKeeps DEF SerialRequest
  <2>2. OtherTypes' /\ PendingRequests'
    BY <1>2, SpendType DEF SerialRequest, OtherTypes, PendingRequests, OfKind, RequestsOf
  <2>. QED BY <2>1, <2>2
<1>3. CASE Admit
  <2>1. ObjectInv' /\ FilesOwned'
    BY <1>1, <1>3, IdleKeepsObjects DEF Admit, FilesOwned
  <2>. PICK o \in Objects : \E r \in RequestsOf(o) : pending' = pending \cup {r}
    BY <1>3 DEF Admit
  <2>2. PICK r \in RequestsOf(o) : pending' = pending \cup {r}
    OBVIOUS
  <2>3. r \in RequestType /\ r.obj = o
    BY <2>2, RequestFacts
  <2>4. OtherTypes' /\ PendingRequests'
    BY <1>3, <2>2, <2>3, SpendType DEF Admit, OtherTypes, PendingRequests, OfKind, RequestsOf
  <2>. QED BY <2>1, <2>4
<1>4. ASSUME NEW r \in pending, Store(r) PROVE IInv'
  <2>1. mode = "concurrent" /\ r.obj \in Objects /\ r \in RequestsOf(r.obj)
    BY DEF PendingRequests
  <2>2. ObjectInv' /\ FilesOwned'
    <3>1. CASE Meaningful(r)
      BY <1>4, <2>1, <3>1, RequestKeeps DEF Store
    <3>2. CASE ~Meaningful(r)
      BY <1>1, <1>4, <3>2, IdleKeepsObjects DEF Store, FilesOwned
    <3>. QED BY <3>1, <3>2
  <2>3. OtherTypes' /\ PendingRequests'
    BY <1>4, <2>1 DEF Store, OtherTypes, PendingRequests, OfKind, RequestsOf
  <2>. QED BY <2>2, <2>3
<1>. QED BY <1>2, <1>3, <1>4

\* Events: the cache catches up, a timer or the pull Secret wakes a controller.
LEMMA EventsKeepIInv ==
  ASSUME IInv, NEW o \in Objects, CacheSync(o) \/ TimerFires(o) \/ SecretChanges
  PROVE  IInv'
<1>. USE DEF IInv
<1>1. /\ files \subseteq OfKind("ManagedService") /\ store[o] \in ObjType
      /\ cache \in [Objects -> ObjType]
  BY DEF ObjectInv, ObjectTypes
<1>2. CASE CacheSync(o)
  <2>1. /\ cache' \in [Objects -> ObjType] /\ cache'[o] = store[o]
        /\ \A x \in Objects : x # o => cache'[x] = cache[x]
        /\ UNCHANGED <<mode, store, files, pending, timer, secret, refCache, budget>>
    BY <1>1, <1>2 DEF CacheSync
  <2>2. \A x \in Objects : Synced(x)' <=> Synced(x)
    BY <2>1 DEF Synced
  <2>3. ObjectTypes' /\ FinalizerKinds' /\ Protected' /\ RefsAreBundles'
    BY <2>1 DEF ObjectInv, ObjectTypes, FinalizerKinds, Protected, RefsAreBundles, OfKind
  <2>4. SyncedIsCached'
    BY <2>1, <2>2 DEF ObjectInv, SyncedIsCached, OfKind, Synced
  <2>5. ScopesExclusive'
    BY <2>1, <2>2 DEF ObjectInv, ScopesExclusive, OfKind
  <2>6. BundleHeld' /\ AdmittedApart'
    BY <2>1 DEF ObjectInv, BundleHeld, AdmittedApart, OfKind
  <2>7. FilesOwned' /\ OtherTypes' /\ PendingRequests'
    BY <1>2, <2>1 DEF CacheSync, FilesOwned, OtherTypes, PendingRequests, OfKind, RequestsOf
  <2>. QED BY <2>3, <2>4, <2>5, <2>6, <2>7 DEF ObjectInv
<1>3. CASE TimerFires(o)
  <2>1. ObjectInv' /\ FilesOwned'
    BY <1>1, <1>3, IdleKeepsObjects DEF TimerFires, FilesOwned
  <2>2. OtherTypes' /\ PendingRequests'
    BY <1>3 DEF TimerFires, OtherTypes, PendingRequests, OfKind, RequestsOf
  <2>. QED BY <2>1, <2>2
<1>4. CASE SecretChanges
  <2>1. ObjectInv' /\ FilesOwned'
    BY <1>1, <1>4, IdleKeepsObjects DEF SecretChanges, FilesOwned
  <2>2. secret' \in Nat
    BY <1>4 DEF SecretChanges, OtherTypes
  <2>3. OtherTypes' /\ PendingRequests'
    BY <1>4, <2>2, SpendType DEF SecretChanges, OtherTypes, PendingRequests, OfKind, RequestsOf
  <2>. QED BY <2>1, <2>3
<1>. QED BY <1>2, <1>3, <1>4

\* What a controller's step leaves to be shown of the other variables.
LEMMA ReconcileRest ==
  ASSUME IInv, NEW o \in Objects, queued' = queued \ {o}, timer' \subseteq Objects,
         refCache' \subseteq OfKind("MetadataBundle"), UNCHANGED <<mode, pending, secret>>,
         budget' \in [{"requests", "faults"} -> Nat], ObjectInv', FilesOwned'
  PROVE  IInv'
BY DEF IInv, OtherTypes, PendingRequests, OfKind, RequestsOf

\* The reconciles of the kinds with a finalizer, one by one.
LEMMA PolicyKeepsIInv ==
  ASSUME IInv, NEW o \in Objects, ReconcilePolicy(o)
  PROVE  IInv'
<1>. USE DEF IInv
<1>1. /\ queued' = queued \ {o} /\ Kind[o] = "SyncPolicy" /\ cache[o].exists
      /\ Proceeds(o)
      /\ UNCHANGED <<mode, cache, pending, secret, budget, files, refCache>>
      /\ timer \subseteq Objects /\ refCache' \subseteq OfKind("MetadataBundle")
      /\ budget' \in [{"requests", "faults"} -> Nat]
      /\ cache[o].used \in Nat
  BY DEF ReconcilePolicy, Begin, Proceeds, rest, OtherTypes, OfKind, ObjectInv, ObjectTypes, ObjType
<1>2. CASE cache[o].deleting /\ UpdateMeta(o, Gone(o))
  BY <1>1, <1>2, GoneKeeps, ReconcileRest
<1>3. CASE ~cache[o].deleting /\ UpdateStatus(o, FALSE, cache[o].used, FALSE)
  BY <1>1, <1>3, StatusKeeps, ReconcileRest
<1>4. CASE /\ ~cache[o].deleting /\ UpdateStatus(o, TRUE, 0, FALSE)
           /\ OverlapsWith(o, cache[o].spec.path, {"SyncPolicy"}) = {}
  BY <1>1, <1>4, StatusKeeps, ReconcileRest
<1>. QED BY <1>2, <1>3, <1>4 DEF ReconcilePolicy, SetNotReady

\* The ManagedService controller keeps the invariant.
LEMMA ServiceKeepsIInv ==
  ASSUME IInv, NEW o \in Objects, ReconcileService(o) \/ DownloadFails(o)
  PROVE  IInv'
<1>. USE DEF IInv
<1>1. /\ queued' = queued \ {o} /\ Kind[o] = "ManagedService" /\ cache[o].exists
      /\ Proceeds(o)
      /\ UNCHANGED <<mode, cache, pending, secret, refCache>>
      /\ timer \subseteq Objects /\ refCache' \subseteq OfKind("MetadataBundle")
      /\ cache[o].used \in Nat
  BY DEF ReconcileService, DownloadFails, Begin, Proceeds, rest, OtherTypes, OfKind, ObjectInv, ObjectTypes, ObjType
<1>2. budget' \in [{"requests", "faults"} -> Nat]
  BY SpendType DEF ReconcileService, DownloadFails, rest, OtherTypes
<1>3. CASE cache[o].deleting /\ UpdateMeta(o, Gone(o)) /\ files' = files \ {o}
  BY <1>1, <1>2, <1>3, GoneKeeps, ReconcileRest
<1>4. CASE /\ ~cache[o].deleting /\ files' \in {files, files \cup {o}}
           /\ \E requeue \in BOOLEAN : UpdateStatus(o, FALSE, cache[o].used, requeue)
  BY <1>1, <1>2, <1>4, StatusKeeps, ReconcileRest
<1>5. CASE ~cache[o].deleting /\ files' = files \cup {o} /\ UpdateStatus(o, TRUE, 0, TRUE)
  BY <1>1, <1>2, <1>5, StatusKeeps, ReconcileRest
<1>. QED BY <1>3, <1>4, <1>5 DEF ReconcileService, DownloadFails, SetNotReady

\* The SecretStore controller keeps the invariant.
LEMMA SecretStoreKeepsIInv ==
  ASSUME IInv, NEW o \in Objects, ReconcileSecretStore(o)
  PROVE  IInv'
<1>. USE DEF IInv
<1>1. /\ queued' = queued \ {o} /\ Kind[o] = "SecretStore" /\ cache[o].exists
      /\ UNCHANGED <<mode, cache, pending, secret, budget, files, refCache>>
      /\ timer \subseteq Objects /\ refCache' \subseteq OfKind("MetadataBundle")
      /\ budget' \in [{"requests", "faults"} -> Nat]
      /\ cache[o].used \in Nat
  BY DEF ReconcileSecretStore, Begin, Proceeds, rest, OtherTypes, OfKind, ObjectInv, ObjectTypes, ObjType
<1>2. CASE cache[o].deleting /\ UpdateMeta(o, Gone(o))
  BY <1>1, <1>2, GoneKeeps, ReconcileRest
<1>3. CASE ~cache[o].deleting /\ UpdateStatus(o, FALSE, cache[o].used, FALSE)
  BY <1>1, <1>3, StatusKeeps, ReconcileRest
<1>4. CASE ~cache[o].deleting /\ UpdateStatus(o, TRUE, 0, FALSE)
  BY <1>1, <1>4, StatusKeeps, ReconcileRest
<1>. QED BY <1>2, <1>3, <1>4 DEF ReconcileSecretStore, SetNotReady

\* The MetadataBundle controller keeps the invariant: it releases a bundle
\* only when no service or generator it knows of refers to it.
LEMMA BundleKeepsIInv ==
  ASSUME IInv, NEW o \in Objects, DeleteBundle(o) \/ ResolveBundle(o)
  PROVE  IInv'
<1>. USE DEF IInv
<1>1. /\ queued' = queued \ {o} /\ Kind[o] = "MetadataBundle" /\ cache[o].exists
      /\ UNCHANGED <<mode, cache, pending, secret, budget, files>>
      /\ timer \subseteq Objects
      /\ budget' \in [{"requests", "faults"} -> Nat]
      /\ cache[o].used \in Nat /\ secret \in Nat
  BY DEF DeleteBundle, ResolveBundle, Begin, Proceeds, rest, OtherTypes, OfKind, ObjectInv, ObjectTypes, ObjType
<1>2. refCache' \subseteq OfKind("MetadataBundle")
  BY <1>1 DEF DeleteBundle, ResolveBundle, OtherTypes, OfKind
<1>3. CASE cache[o].deleting /\ UpdateMeta(o, Gone(o))
  BY <1>1, <1>2, <1>3, GoneKeeps, ReconcileRest
<1>4. CASE \E requeue \in BOOLEAN : UpdateStatus(o, FALSE, cache[o].used, requeue)
  <2>. cache[o].deleting => Kind[o] \in Finalized
    BY <1>1 DEF Finalized
  <2>. QED BY <1>1, <1>2, <1>4, StatusKeeps, ReconcileRest
<1>5. CASE ~cache[o].deleting /\ UpdateStatus(o, TRUE, secret, TRUE)
  BY <1>1, <1>2, <1>5, StatusKeeps, ReconcileRest
<1>. QED BY <1>3, <1>4, <1>5 DEF DeleteBundle, ResolveBundle, SetNotReady

\* A webhook never has a finalizer, so it is never marked as deleting.
LEMMA WebhookKeepsIInv ==
  ASSUME IInv, NEW o \in Objects, ReconcileWebhook(o)
  PROVE  IInv'
<1>. USE DEF IInv
<1>1. /\ queued' = queued \ {o} /\ Kind[o] = "RepositoryWebhook"
      /\ UNCHANGED <<mode, cache, pending, secret, budget, files, refCache>>
      /\ timer \subseteq Objects /\ refCache' \subseteq OfKind("MetadataBundle")
      /\ budget' \in [{"requests", "faults"} -> Nat]
  BY DEF ReconcileWebhook, Begin, rest, OtherTypes, OfKind
<1>2. CASE cache[o].exists /\ ~Fresh(o)
  <2>1. UNCHANGED store /\ timer' \subseteq Objects
    BY <1>1, <1>2 DEF ReconcileWebhook, UpdateStatus, Fails
  <2>2. ObjectInv' /\ FilesOwned'
    BY <1>1, <2>1, IdleKeepsObjects DEF ObjectInv, ObjectTypes, OfKind, FilesOwned
  <2>. QED BY <1>1, <2>1, <2>2, ReconcileRest
<1>3. CASE cache[o].exists /\ Fresh(o)
  <2>1. ~cache[o].deleting
    BY <1>1, <1>3 DEF Fresh, ObjectInv, ObjectTypes, FinalizerKinds, Finalized
  <2>2. \E ready \in BOOLEAN : UpdateStatus(o, ready, 0, FALSE)
    BY <1>3 DEF ReconcileWebhook
  <2>. QED BY <1>1, <1>3, <2>1, <2>2, StatusKeeps, ReconcileRest
<1>4. CASE ~cache[o].exists
  <2>1. UNCHANGED <<store, timer>>
    BY <1>4 DEF ReconcileWebhook
  <2>2. ObjectInv' /\ FilesOwned'
    BY <1>1, <2>1, IdleKeepsObjects DEF ObjectInv, ObjectTypes, OfKind, FilesOwned
  <2>. QED BY <1>1, <2>1, <2>2, ReconcileRest
<1>. QED BY <1>2, <1>3, <1>4

\* A reconcile that ends early, and controllers modelled elsewhere.
LEMMA EndsKeepsIInv ==
  ASSUME IInv, NEW o \in Objects, ReconcileEnds(o) \/ OtherController(o)
  PROVE  IInv'
<1>. USE DEF IInv
<1>1. /\ queued' = queued \ {o} /\ UNCHANGED store /\ timer' \subseteq Objects
      /\ UNCHANGED <<mode, cache, pending, secret, budget, files, refCache>>
      /\ refCache' \subseteq OfKind("MetadataBundle")
      /\ budget' \in [{"requests", "faults"} -> Nat]
  BY DEF ReconcileEnds, OtherController, rest, Fails, OtherTypes, OfKind
<1>2. ObjectInv' /\ FilesOwned'
  BY <1>1, IdleKeepsObjects DEF ObjectInv, ObjectTypes, OfKind, FilesOwned
<1>. QED BY <1>1, <1>2, ReconcileRest

\* Every step of the specification keeps the invariant.
LEMMA NextKeepsIInv == IInv /\ [Next]_vars => IInv'
<1>. SUFFICES ASSUME IInv, [Next]_vars PROVE IInv'
  OBVIOUS
<1>1. CASE UNCHANGED vars
  <2>1. ObjectInv' /\ FilesOwned'
    BY <1>1, IdleKeepsObjects DEF vars, IInv, ObjectInv, ObjectTypes, OfKind, FilesOwned
  <2>. QED BY <1>1, <2>1 DEF vars, IInv, OtherTypes, PendingRequests, OfKind, RequestsOf
<1>2. CASE SerialRequest \/ Admit \/ \E r \in pending : Store(r)
  BY <1>2, RequestsKeepIInv
<1>3. CASE SecretChanges
  <2>1. CASE Objects = {}
    BY <1>3, <2>1, IdleKeepsObjects, SpendType DEF SecretChanges, IInv, OtherTypes, PendingRequests,
       OfKind, RequestsOf, FilesOwned, ObjectInv, ObjectTypes
  <2>2. CASE Objects # {}
    BY <1>3, <2>2, EventsKeepIInv
  <2>. QED BY <2>1, <2>2
<1>4. ASSUME NEW o \in Objects, CacheSync(o) \/ TimerFires(o)
      PROVE  IInv'
  BY <1>4, EventsKeepIInv
<1>5. ASSUME NEW o \in Objects, Reconcile(o) \/ DownloadFails(o)
      PROVE  IInv'
  BY <1>5, EndsKeepsIInv, PolicyKeepsIInv, ServiceKeepsIInv, SecretStoreKeepsIInv,
     BundleKeepsIInv, WebhookKeepsIInv DEF Reconcile
<1>. QED BY <1>1, <1>2, <1>3, <1>4, <1>5 DEF Next

-----------------------------------------------------------------------------
(* Theorems *)

\* The inductive invariant holds in every reachable state.
THEOREM Invariance == Spec => []IInv
BY InitIInv, NextKeepsIInv, PTL DEF Spec

\* Objects, requests and work queues keep their types, and an object that is
\* being deleted has the finalizer that keeps it.
THEOREM TypeCorrect == Spec => []TypeOK
<1>1. IInv => TypeOK
  BY DEF IInv, ObjectInv, ObjectTypes, OtherTypes, TypeOK
<1>. QED BY <1>1, Invariance, PTL

\* Two live policies never both sync overlapping scopes, whether admission is
\* deployed or not and however requests, events and reconciles interleave.
THEOREM OverlapsNeverSync == Spec => []ScopesExclusive
<1>1. IInv => ScopesExclusive
  BY DEF IInv, ObjectInv
<1>. QED BY <1>1, Invariance, PTL

\* With serial admission a live service has its bundles; no directory outlives
\* its service in any mode.
THEOREM DeletionsInOrder == Spec => []DeletionInOrder
<1>1. IInv => DeletionInOrder
  BY DEF IInv, ObjectInv, ObjectTypes, FilesOwned, DeletionInOrder, ServiceGoneIsClean
<1>. QED BY <1>1, Invariance, PTL

\* Admission alone keeps scopes and claims apart if requests do not overlap.
THEOREM SerialAdmissionSuffices == Spec => []AdmittedApart
<1>1. IInv => AdmittedApart
  BY DEF IInv, ObjectInv
<1>. QED BY <1>1, Invariance, PTL
=============================================================================
