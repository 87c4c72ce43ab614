---------------------- MODULE GeneratedResourcesProofs ----------------------
(***************************************************************************)
(* Proofs about GeneratedResources, for every number of resources,          *)
(* collections, payloads, workers and every bound on edits and faults.      *)
(*                                                                          *)
(* First the base invariant: typing, the lag of the informers, the          *)
(* exclusive hand-out of work items and the freshness of unmarked copies.   *)
(* Every action is shown to be StepOK, and StepOK to keep the base.         *)
(*                                                                          *)
(* Then what serving a resource promises, ServingInv and GoneClean, under   *)
(* OneServer.  Every action is shown to be StepServes, which keeps it.      *)
(* Without OneServer two workers may serve two versions of one resource,    *)
(* and the late apply of one recreates what the finalizer run by the other  *)
(* has removed: TLC shows the behaviour with two versions and two workers.  *)
(***************************************************************************)
EXTENDS GeneratedResources, TLAPS

\* Items of the event handlers: a sync item carries no path.
Items == {i \in ItemType : i.kind = "sync" => i.path = NoPath}

\* A worker past its read holds a copy of the resource.
PastRead == WorkerSteps \ {"idle", "read"}

\* The paths a resource can have: its name under some collection.
OwnPaths(c) == (Collections \X {c}) \cup {NoPath}

\* Typing of resource c when n edits are spent.
ObjOK(o, c, n) ==
  /\ o \in ObjType /\ o.gen <= n
  /\ o.ann \in OwnPaths(c) /\ o.removed \in OwnPaths(c)
  /\ o.exists => o.removed = NoPath /\ o.gen >= 1

\* Typing of a worker: past its read it serves an existing resource.
WorkerOK(k, n) ==
  /\ k \in WorkerType /\ k.item \in Items
  /\ k.pc \in PastRead =>
       /\ ObjOK(k.obj, k.item.cr, n) /\ k.obj.exists
       /\ k.item = SyncItem(k.item.cr, k.item.ver)
  /\ k.pc \in {"apply", "annotate"} => PathOf(k.obj, k.item.cr) # NoPath

\* The worker after somebody else wrote the resource it holds a copy of.
Outdated(k) == [k EXCEPT !.stale = TRUE]

\* A resource that was never created satisfies the typing of resources.
LEMMA NoObjOK == \A c \in CRs, n \in Nat : ObjOK(NoObj, c, n)
<1> DEFINE p == CHOOSE p \in Payloads : TRUE
<1>1. p \in Payloads BY ConstantsAssumption
<1>2. NoObj.spec \in SpecType BY <1>1 DEF NoObj, SpecType
<1> QED BY <1>2, ConstantsAssumption DEF NoObj, ObjOK, ObjType, OwnPaths

\* The work items the event handlers enqueue are well formed.
LEMMA ItemTypes ==
  \A c \in CRs, v \in Versions : SyncItem(c, v) \in Items /\ SyncItem(c, v) \in ItemType
BY DEF SyncItem, ItemType, Items

\* A worker between two items satisfies the typing of workers.
LEMMA IdleOK == \A n \in Nat : WorkerOK(IdleWorker, n)
<1>1. (CHOOSE c \in CRs : TRUE) \in CRs /\ (CHOOSE v \in Versions : TRUE) \in Versions
  BY ConstantsAssumption
<1>2. IdleWorker.item \in ItemType /\ IdleWorker.item \in Items BY <1>1, ItemTypes DEF IdleWorker
<1>3. NoObj \in ObjType BY <1>1, NoObjOK DEF ObjOK
<1> QED BY <1>2, <1>3 DEF IdleWorker, WorkerOK, WorkerType, WorkerSteps, PastRead

\* Learning that its copy is outdated changes nothing else about a worker.
LEMMA OutdatedOK ==
  ASSUME NEW n, NEW k, WorkerOK(k, n)
  PROVE  /\ WorkerOK(Outdated(k), n)
         /\ Outdated(k).pc = k.pc /\ Outdated(k).item = k.item /\ Outdated(k).obj = k.obj
         /\ Outdated(k).stale
<1>1. k \in WorkerType BY DEF WorkerOK
<1>2. Outdated(k) \in WorkerType BY <1>1 DEF Outdated, WorkerType
<1>3. Outdated(k).pc = k.pc /\ Outdated(k).item = k.item /\ Outdated(k).obj = k.obj
  BY <1>1 DEF Outdated, WorkerType
<1>4. Outdated(k).stale BY <1>1 DEF Outdated, WorkerType
<1> QED BY <1>2, <1>3, <1>4 DEF WorkerOK

\* Typings bounded by the edits spent survive further edits.
LEMMA MonotoneOK ==
  ASSUME NEW n \in Nat, NEW m \in Nat, n <= m
  PROVE  /\ \A o, c : ObjOK(o, c, n) => ObjOK(o, c, m)
         /\ \A k : WorkerOK(k, n) => WorkerOK(k, m)
<1>1. \A o, c : ObjOK(o, c, n) => ObjOK(o, c, m)
  BY DEF ObjOK, ObjType
<1> QED BY <1>1 DEF WorkerOK

\* one lemma per kind of write of a resource
LEMMA WrittenOK ==
  ASSUME NEW n \in Nat, NEW c \in CRs, NEW o, ObjOK(o, c, n)
  PROVE  /\ ObjOK([o EXCEPT !.finalizer = TRUE], c, n)
         /\ \A b \in BOOLEAN, g \in 0..(MaxEdits + 1) :
               ObjOK([o EXCEPT !.ready = b, !.observed = g], c, n)
         /\ \A p \in Collections \X {c} : ObjOK([o EXCEPT !.ann = p], c, n)
         /\ ObjOK(Deleted(o), c, n)
         /\ \A p \in OwnPaths(c) :
              ObjOK([o EXCEPT !.exists = FALSE, !.finalizer = FALSE,
                              !.ready = FALSE, !.removed = p], c, n)
<1>1. o \in ObjType BY DEF ObjOK
<1>2. ObjOK([o EXCEPT !.finalizer = TRUE], c, n) BY <1>1 DEF ObjOK, ObjType
<1>3. \A b \in BOOLEAN, g \in 0..(MaxEdits + 1) :
               ObjOK([o EXCEPT !.ready = b, !.observed = g], c, n)
   BY <1>1 DEF ObjOK, ObjType
<1>4. \A p \in Collections \X {c} : ObjOK([o EXCEPT !.ann = p], c, n)
   BY <1>1 DEF ObjOK, ObjType, OwnPaths, Paths
<1>5. ObjOK(Deleted(o), c, n)
   BY <1>1 DEF ObjOK, ObjType, Deleted
<1>6. \A p \in OwnPaths(c) :
              ObjOK([o EXCEPT !.exists = FALSE, !.finalizer = FALSE,
                              !.ready = FALSE, !.removed = p], c, n)
   BY <1>1 DEF ObjOK, ObjType, OwnPaths, Paths
<1> QED BY <1>2, <1>3, <1>4, <1>5, <1>6

\* The logical path of a resource is one of its own paths, or none.
LEMMA PathTypes ==
  ASSUME NEW o \in ObjType, NEW c \in CRs
  PROVE  /\ PathOf(o, c) \in OwnPaths(c)
         /\ OwnPaths(c) \subseteq Paths \cup {NoPath}
         /\ PathOf(o, c) # NoPath => PathOf(o, c) \in Collections \X {c}
         /\ o.spec.payload \in Payloads /\ o.gen \in 0..(MaxEdits + 1)
<1>1. o.spec \in SpecType /\ o.gen \in 0..(MaxEdits + 1) BY DEF ObjType
<1>2. o.spec.coll \in Collections \cup {Invalid} /\ o.spec.payload \in Payloads
  BY <1>1 DEF SpecType
<1> QED BY <1>1, <1>2 DEF PathOf, OwnPaths, Paths

-----------------------------------------------------------------------------
Holds(o) == o.exists /\ o.finalizer

\* TypeOK without the typing of resources and workers, which is stronger in
\* ObjsOK and WorkersOK.
Shape ==
  /\ generator \in GeneratorType /\ bundle \in BOOLEAN
  /\ crd \in {"absent", "establishing", "established", "terminating", "foreign"}
  /\ objs = [c \in CRs |-> objs[c]]
  /\ seen \in [Versions -> [CRs -> SeenType]]
  /\ watches \in [Versions -> WatchType]
  /\ queue \subseteq Items
  /\ workers = [w \in Workers |-> workers[w]]
  /\ index \in [tier1: SUBSET Paths, tier2: SUBSET Paths]
  /\ remote \in [Paths -> Payloads \cup {Absent}]
  /\ DOMAIN budget = DOMAIN Bounds
  /\ \A k \in DOMAIN Bounds : budget[k] \in 0..Bounds[k]

ObjsOK == \A c \in CRs : ObjOK(objs[c], c, budget.edits)
WorkersOK == \A w \in Workers : WorkerOK(workers[w], budget.edits)

\* Informers lag, they never lead.
SeenBehind == \A v \in Versions, c \in CRs : seen[v][c].gen <= objs[c].gen

\* The work queue hands an item to one worker at a time.
ItemsApart ==
  \A u, w \in Workers : u # w /\ workers[u].pc # "idle" /\ workers[w].pc # "idle"
                          => workers[u].item # workers[w].item

\* A copy not marked stale is what is stored: a write based on it succeeds
\* exactly then (optimistic concurrency).
Fresh ==
  \A w \in Workers : workers[w].pc \in PastRead /\ ~workers[w].stale =>
                       workers[w].obj = objs[workers[w].item.cr]

Base == Shape /\ ObjsOK /\ WorkersOK /\ SeenBehind /\ ItemsApart /\ Fresh

\* What any step may do to resource c: generations grow with every change of
\* spec and with every creation, a deletion mark stays, and a finalizer stays
\* while the resource exists.
ObjStep(c) ==
  /\ ObjOK(objs'[c], c, budget'.edits)
  /\ objs'[c].gen >= objs[c].gen
  /\ objs'[c].gen = objs[c].gen => /\ objs'[c].spec = objs[c].spec
                                   /\ objs'[c].exists => objs[c].exists
                                   /\ objs[c].deleting => objs'[c].deleting
  /\ Holds(objs[c]) /\ objs'[c].exists =>
       /\ Holds(objs'[c])
       /\ objs[c].deleting => objs'[c].deleting
  /\ ~objs[c].exists /\ ~objs'[c].exists => objs'[c].removed = objs[c].removed

\* Worker u does not step; if its resource changes, its copy is outdated.
Bystander(u) ==
  \/ workers'[u] = workers[u] /\ objs'[workers[u].item.cr] = objs[workers[u].item.cr]
  \/ workers'[u] = workers[u] /\ workers[u].pc = "idle"
  \/ workers'[u] = Outdated(workers[u])

\* Worker u steps: it keeps its item, or takes one that nobody holds.
Moved(u) ==
  /\ WorkerOK(workers'[u], budget'.edits)
  /\ workers'[u].pc # "idle" =>
       \/ workers[u].pc # "idle" /\ workers'[u].item = workers[u].item
       \/ /\ workers'[u].pc = "read"
          /\ \A x \in Workers \ {u} :
               /\ workers'[x] = workers[x]
               /\ workers[x].pc # "idle" => workers[x].item # workers'[u].item
  /\ workers'[u].pc \in PastRead /\ ~workers'[u].stale =>
       workers'[u].obj = objs'[workers'[u].item.cr]

\* What every action of the specification does.
StepOK ==
  /\ Shape'
  /\ budget'.edits >= budget.edits
  /\ \A c \in CRs : ObjStep(c)
  /\ \A v \in Versions, c \in CRs :
       seen'[v][c] = seen[v][c] \/ seen'[v][c].gen <= objs'[c].gen
  /\ \A u \in Workers : Bystander(u) \/ Moved(u)

\* A step of the environment: no worker moves.
EnvStepOK == StepOK /\ \A u \in Workers : Bystander(u)

\* A step of worker w: the others at most learn that their copy is outdated.
WorkerStepOK(w) ==
  /\ StepOK
  /\ \A u \in Workers : u # w => Bystander(u)
  /\ \A d \in CRs : d # Cr(w) => objs'[d] = objs[d]
  /\ \A d \in CRs : objs'[d].exists => objs[d].exists

\* The edits spent are a number within their bound.
LEMMA EditsNat == Shape => budget.edits \in Nat /\ budget.edits <= MaxEdits
<1> SUFFICES ASSUME Shape PROVE budget.edits \in Nat /\ budget.edits <= MaxEdits OBVIOUS
<1>1. "edits" \in DOMAIN Bounds /\ Bounds.edits = MaxEdits BY DEF Bounds
<1>2. budget["edits"] \in 0..Bounds["edits"] BY <1>1 DEF Shape
<1> QED BY <1>1, <1>2, ConstantsAssumption

\* The base invariant contains the type invariant the run checks.
LEMMA BaseTypes == Base => TypeOK
<1> SUFFICES ASSUME Base PROVE TypeOK OBVIOUS
<1>1. objs \in [CRs -> ObjType] BY DEF Base, Shape, ObjsOK, ObjOK
<1>2. workers \in [Workers -> WorkerType] BY DEF Base, Shape, WorkersOK, WorkerOK
<1> QED BY <1>1, <1>2 DEF Base, Shape, TypeOK, Items

\* A worker that is not the one stepping keeps place, item and copy.
LEMMA BystanderKept ==
  ASSUME Base, NEW u \in Workers, Bystander(u)
  PROVE  /\ workers'[u].pc = workers[u].pc /\ workers'[u].item = workers[u].item
         /\ workers'[u].obj = workers[u].obj
         /\ WorkerOK(workers'[u], budget.edits)
BY OutdatedOK DEF Bystander, Base, WorkersOK

\* The base invariant survives every step that is StepOK: each action is
\* reduced to StepOK below, and only this lemma argues about the invariant.
LEMMA StepKeepsBase ==
  ASSUME Base, StepOK
  PROVE  Base'
<1>0. "edits" \in DOMAIN Bounds /\ Bounds.edits = MaxEdits BY DEF Bounds
<1>1. budget.edits \in Nat /\ budget'.edits \in Nat
  <2>1. budget'["edits"] \in 0..Bounds["edits"] BY <1>0 DEF StepOK, Shape
  <2> QED BY <1>0, <2>1, EditsNat, ConstantsAssumption DEF Base
<1>2. ObjsOK' BY DEF StepOK, ObjStep, ObjsOK
<1>3. WorkersOK'
  BY <1>1, BystanderKept, MonotoneOK DEF StepOK, Moved, WorkersOK
<1>4. SeenBehind'
  <2> SUFFICES ASSUME NEW v \in Versions, NEW c \in CRs
               PROVE  seen'[v][c].gen <= objs'[c].gen
    BY DEF SeenBehind
  <2>1. objs[c].gen \in Nat /\ objs'[c].gen \in Nat
    BY <1>2, ConstantsAssumption DEF Base, ObjsOK, ObjOK, ObjType
  <2>2. seen[v][c] \in SeenType BY DEF Base, Shape
  <2>3. seen[v][c].gen \in Nat BY <2>2, ConstantsAssumption DEF SeenType
  <2> QED BY <2>1, <2>3 DEF StepOK, ObjStep, Base, SeenBehind
<1>5. ItemsApart'
  BY BystanderKept DEF StepOK, Moved, Base, ItemsApart
<1>6. Fresh'
  <2> SUFFICES ASSUME NEW u \in Workers, workers'[u].pc \in PastRead, ~workers'[u].stale
               PROVE  workers'[u].obj = objs'[workers'[u].item.cr]
    BY DEF Fresh
  <2>1. CASE Moved(u) BY <2>1 DEF Moved
  <2>2. CASE Bystander(u)
    <3>1. workers'[u] # Outdated(workers[u]) BY OutdatedOK DEF Base, WorkersOK
    <3>2. workers[u].pc # "idle" BY <2>2, BystanderKept DEF PastRead
    <3> QED BY <2>2, <3>1, <3>2 DEF Bystander, Base, Fresh
  <2> QED BY <2>1, <2>2 DEF StepOK
<1> QED BY <1>2, <1>3, <1>4, <1>5, <1>6 DEF Base, StepOK

\* Steps that write no resource meet ObjStep.
LEMMA StillStep ==
  ASSUME Base, objs' = objs, budget'.edits = budget.edits
  PROVE  \A c \in CRs : ObjStep(c)
<1>1. \A c \in CRs : objs[c].gen \in Nat
  BY ConstantsAssumption DEF Base, ObjsOK, ObjOK, ObjType
<1> QED BY <1>1 DEF Base, ObjsOK, ObjStep

\* What spending one unit of a budget does to the budgets.
LEMMA SpendFacts ==
  ASSUME Shape, NEW k \in {"edits", "faults", "admin"}, Spend(k)
  PROVE  /\ DOMAIN budget' = DOMAIN Bounds
         /\ \A j \in DOMAIN Bounds : budget'[j] \in 0..Bounds[j]
         /\ k # "edits" => budget'.edits = budget.edits
         /\ k = "edits" => budget'.edits = budget.edits + 1
<1>1. k \in DOMAIN Bounds /\ "edits" \in DOMAIN Bounds BY DEF Bounds
<1>2. budget' = [budget EXCEPT ![k] = budget[k] + 1] /\ budget[k] < Bounds[k]
  BY DEF Spend, CanSpend
<1>3. \A j \in DOMAIN Bounds : budget'[j] = IF j = k THEN budget[k] + 1 ELSE budget[j]
  BY <1>1, <1>2 DEF Shape
<1>4. DOMAIN budget' = DOMAIN Bounds BY <1>2 DEF Shape
<1>5. Bounds[k] \in Nat BY ConstantsAssumption DEF Bounds
<1>6. \A j \in DOMAIN Bounds : budget[j] \in 0..Bounds[j] BY DEF Shape
<1>7. \A j \in DOMAIN Bounds : budget'[j] \in 0..Bounds[j]
  BY <1>1, <1>2, <1>3, <1>5, <1>6
<1> QED BY <1>1, <1>3, <1>4, <1>7

\* Steps that touch neither resources nor workers make all workers bystanders.
LEMMA StillWorkers ==
  ASSUME Base, UNCHANGED <<objs, workers>>
  PROVE  \A u \in Workers : Bystander(u)
BY DEF Bystander

\* Steps of generator and informers, which leave resources and workers alone.
LEMMA QuietStep ==
  ASSUME Base, UNCHANGED <<objs, workers>>, Shape', budget'.edits = budget.edits,
         \A v \in Versions, c \in CRs :
           seen'[v][c] = seen[v][c] \/ seen'[v][c].gen <= objs[c].gen
  PROVE  StepOK
<1>1. budget.edits \in Nat BY EditsNat DEF Base
<1> QED BY <1>1, StillStep, StillWorkers DEF StepOK

\* Typing of the generator's fields and of its not-ready status writes.
LEMMA GeneratorFields ==
  ASSUME Shape
  PROVE  /\ \A r \in BOOLEAN : GeneratorNotReady(r) => generator' \in GeneratorType
         /\ generator.exists \in BOOLEAN /\ generator.deleting \in BOOLEAN
         /\ generator.finalizer \in BOOLEAN /\ generator.valid \in BOOLEAN
         /\ generator.queued \in BOOLEAN
<1>1. /\ generator.exists \in BOOLEAN /\ generator.deleting \in BOOLEAN
      /\ generator.finalizer \in BOOLEAN /\ generator.valid \in BOOLEAN
      /\ generator.queued \in BOOLEAN
  BY DEF Shape, GeneratorType
<1>2. \A q \in BOOLEAN : [generator EXCEPT !.pc = "idle", !.ready = FALSE,
                            !.finalizer = TRUE, !.queued = q] \in GeneratorType
  BY DEF Shape, GeneratorType
<1>3. ASSUME NEW r \in BOOLEAN, GeneratorNotReady(r) PROVE generator' \in GeneratorType
  <2>1. PICK q \in BOOLEAN : q = (r \/ generator.queued) BY <1>1
  <2>2. generator' = [generator EXCEPT !.pc = "idle", !.ready = FALSE,
                            !.finalizer = TRUE, !.queued = q]
    BY <1>3, <2>1 DEF GeneratorNotReady
  <2> QED BY <1>2, <2>2
<1> QED BY <1>1, <1>3

\* Unregistering keeps the ownership index well typed.
LEMMA IndexTypes ==
  ASSUME NEW ix \in [tier1: SUBSET Paths, tier2: SUBSET Paths], NEW p
  PROVE  UnregisterFrom(ix, p) \in [tier1: SUBSET Paths, tier2: SUBSET Paths]
BY DEF UnregisterFrom, EmptyIndex

\* The CRDGenerator reconcile up to its first call keeps the base invariant.
LEMMA ReconcileGeneratorStep == Base /\ ReconcileGenerator => StepOK
<1> SUFFICES ASSUME Base, ReconcileGenerator PROVE StepOK OBVIOUS
<1> USE DEF ReconcileGenerator, genRest
<1>1. Shape BY DEF Base
<1>2. generator' \in GeneratorType
  BY <1>1, GeneratorFields DEF Shape, GeneratorType
<1>3. Shape' BY <1>1, <1>2 DEF Shape
<1> QED BY <1>3, QuietStep

\* Writing the definition keeps the base invariant.
LEMMA ApplyCRDStep == Base /\ ApplyCRD => StepOK
<1> SUFFICES ASSUME Base, ApplyCRD PROVE StepOK OBVIOUS
<1> USE DEF ApplyCRD, genRest
<1>1. Shape BY DEF Base
<1>2. generator' \in GeneratorType
  BY <1>1, GeneratorFields DEF Shape, GeneratorType
<1>3. Shape' BY <1>1, <1>2 DEF Shape
<1> QED BY <1>3, QuietStep

\* Starting and stopping a watch keep its entry well typed.
LEMMA EnsureWatchTypes ==
  ASSUME Shape, NEW v \in Versions, NEW f \in BOOLEAN
  PROVE  EnsureWatch(v, f) \in WatchType /\ StopWatch(v) \in WatchType
BY DEF Shape, EnsureWatch, StopWatch, FailedWatch, WatchType

\* Starting the watches of all served versions keeps the base invariant.
LEMMA EnsureWatchesStep == Base /\ EnsureWatches => StepOK
<1> SUFFICES ASSUME Base, EnsureWatches PROVE StepOK OBVIOUS
<1>1. Shape BY DEF Base
<1>2. generator' \in GeneratorType
  BY <1>1 DEF EnsureWatches, Shape, GeneratorType
<1>3. watches' \in [Versions -> WatchType]
  BY <1>1, EnsureWatchTypes DEF EnsureWatches
<1>4. queue' \subseteq Items
  BY <1>1, ItemTypes DEF EnsureWatches, Listed, Shape
<1>5. /\ DOMAIN budget' = DOMAIN Bounds
      /\ \A j \in DOMAIN Bounds : budget'[j] \in 0..Bounds[j]
      /\ budget'.edits = budget.edits
  BY <1>1, SpendFacts DEF EnsureWatches, Shape
<1>6. UNCHANGED <<bundle, objs, seen, workers, remote, crd, index>>
  BY DEF EnsureWatches
<1>7. Shape' BY <1>1, <1>2, <1>3, <1>4, <1>5, <1>6 DEF Shape
<1> QED BY <1>5, <1>6, <1>7, QuietStep

\* A failed call of the CRDGenerator reconcile keeps the base invariant.
LEMMA GeneratorCallFailsStep == Base /\ GeneratorCallFails => StepOK
<1> SUFFICES ASSUME Base, GeneratorCallFails PROVE StepOK OBVIOUS
<1>1. Shape BY DEF Base
<1>2. generator' \in GeneratorType BY <1>1, GeneratorFields DEF GeneratorCallFails
<1>3. /\ DOMAIN budget' = DOMAIN Bounds
      /\ \A j \in DOMAIN Bounds : budget'[j] \in 0..Bounds[j]
      /\ budget'.edits = budget.edits
  BY <1>1, SpendFacts DEF GeneratorCallFails
<1>4. UNCHANGED <<genRest, crd, watches, index>> BY DEF GeneratorCallFails
<1>5. Shape' BY <1>1, <1>2, <1>3, <1>4 DEF Shape, genRest
<1> QED BY <1>3, <1>4, <1>5, QuietStep DEF genRest

\* The CRDGenerator finalizer keeps the base invariant.
LEMMA DeleteGeneratorStep == Base /\ DeleteGenerator => StepOK
<1> SUFFICES ASSUME Base, DeleteGenerator PROVE StepOK OBVIOUS
<1>1. Shape BY DEF Base
<1>2. generator' \in GeneratorType
  BY <1>1, GeneratorFields DEF DeleteGenerator, Shape, GeneratorType
<1>3. watches' \in [Versions -> WatchType]
  <2>1. \A v \in Versions : StopWatch(v) \in WatchType BY <1>1, EnsureWatchTypes
  <2>2. watches' = watches \/ watches' = [v \in Versions |-> StopWatch(v)]
    BY DEF DeleteGenerator
  <2> QED BY <1>1, <2>1, <2>2 DEF Shape
<1>4. index' \in [tier1: SUBSET Paths, tier2: SUBSET Paths]
  <2>1. index' = index \/ index' = UnregisterFrom(index, NoPath) BY DEF DeleteGenerator
  <2> QED BY <1>1, <2>1, IndexTypes DEF Shape
<1>5. UNCHANGED <<genRest, crd, budget>> BY DEF DeleteGenerator
<1>6. Shape' BY <1>1, <1>2, <1>3, <1>4, <1>5 DEF Shape, genRest
<1> QED BY <1>5, <1>6, QuietStep DEF genRest

\* An informer event keeps the base invariant.
LEMMA InformerSeesStep ==
  ASSUME Base, NEW c \in CRs, NEW v \in Versions, InformerSees(c, v)
  PROVE  StepOK
<1>1. Shape BY DEF Base
<1>2. objs[c] \in ObjType BY DEF Base, ObjsOK, ObjOK
<1>3. Summary(objs[c]) \in SeenType /\ Summary(objs[c]).gen = objs[c].gen
  BY <1>2 DEF Summary, SeenType, ObjType
<1>4. seen' = [seen EXCEPT ![v][c] = Summary(objs[c])] BY DEF InformerSees
<1>5. seen' \in [Versions -> [CRs -> SeenType]] BY <1>1, <1>3, <1>4 DEF Shape
<1>6. \A i \in EventItems(c, v) : i \in Items
  <2>1. objs[c].ann \in Paths \cup {NoPath} BY <1>2 DEF ObjType
  <2>2. \A p \in {NoPath, objs[c].ann} :
          [SyncItem(c, v) EXCEPT !.kind = "delete", !.path = p] \in Items
    BY <2>1 DEF SyncItem, ItemType, Items
  <2> QED BY <2>2, ItemTypes DEF EventItems
<1>7. queue' \subseteq Items BY <1>1, <1>6 DEF InformerSees, Shape
<1>8. UNCHANGED <<generator, bundle, crd, objs, watches, workers, index, remote, budget>>
  BY DEF InformerSees
<1>9. Shape' BY <1>1, <1>5, <1>7, <1>8 DEF Shape
<1>10. objs[c].gen \in Nat BY <1>2, ConstantsAssumption DEF ObjType
<1>11. \A x \in Versions, d \in CRs :
         seen'[x][d] = seen[x][d] \/ seen'[x][d].gen <= objs[d].gen
  <2> TAKE x \in Versions, d \in CRs
  <2>1. CASE x = v /\ d = c BY <2>1, <1>1, <1>3, <1>4, <1>10 DEF Shape
  <2>2. CASE x # v \/ d # c BY <2>2, <1>1, <1>4 DEF Shape
  <2> QED BY <2>1, <2>2
<1> QED BY <1>8, <1>9, <1>11, QuietStep

\* What administrators do to generator and bundle keeps the base invariant.
LEMMA AdministerStep == Base /\ Administer => StepOK
<1> SUFFICES ASSUME Base, Administer PROVE StepOK OBVIOUS
<1>1. Shape BY DEF Base
<1>2. generator' \in GeneratorType /\ bundle' \in BOOLEAN
  BY <1>1 DEF Administer, Shape, GeneratorType
<1>3. crd' \in {"absent", "establishing", "established", "terminating", "foreign"}
  BY <1>1 DEF Administer, Shape
<1>4. /\ DOMAIN budget' = DOMAIN Bounds
      /\ \A j \in DOMAIN Bounds : budget'[j] \in 0..Bounds[j]
      /\ budget'.edits = budget.edits
  BY <1>1, SpendFacts DEF Administer
<1>5. UNCHANGED <<envRest, objs, workers>> BY DEF Administer
<1>6. Shape' BY <1>1, <1>2, <1>3, <1>4, <1>5 DEF Shape, envRest
<1> QED BY <1>4, <1>5, <1>6, QuietStep DEF envRest

-----------------------------------------------------------------------------
\* Typing of one stored resource.
LEMMA ObjFacts ==
  ASSUME Base, NEW c \in CRs
  PROVE  /\ objs[c] \in ObjType /\ objs[c].gen \in Nat /\ objs[c].gen >= 0
         /\ ObjOK(objs[c], c, budget.edits)
BY ConstantsAssumption DEF Base, ObjsOK, ObjOK, ObjType

\* A write of one resource that changes neither spec nor generation meets ObjStep.
LEMMA ObjWrite ==
  ASSUME Base, NEW c \in CRs, NEW o, objs' = [objs EXCEPT ![c] = o],
         budget'.edits = budget.edits, ObjOK(o, c, budget.edits),
         o.gen = objs[c].gen, o.spec = objs[c].spec, o.exists => objs[c].exists,
         Holds(objs[c]) /\ o.exists => Holds(o), objs[c].deleting => o.deleting,
         ~objs[c].exists => o.removed = objs[c].removed
  PROVE  /\ \A d \in CRs : ObjStep(d)
         /\ objs' = [d \in CRs |-> objs'[d]]
         /\ objs'[c] = o
         /\ \A d \in CRs : d # c => objs'[d] = objs[d]
<1>1. objs = [d \in CRs |-> objs[d]] BY DEF Base, Shape
<1>2. objs'[c] = o /\ \A d \in CRs : d # c => objs'[d] = objs[d] BY <1>1
<1>3. objs' = [d \in CRs |-> objs'[d]] BY <1>1
<1>4. \A d \in CRs : ObjOK(objs[d], d, budget.edits) /\ objs[d].gen \in Nat
  BY ObjFacts
<1>5. ObjStep(c) BY <1>2, <1>4 DEF ObjStep
<1>6. \A d \in CRs : d # c => ObjStep(d) BY <1>2, <1>4 DEF ObjStep
<1> QED BY <1>2, <1>3, <1>5, <1>6

\* Typing of one worker.
LEMMA WorkerFacts ==
  ASSUME Base, NEW w \in Workers
  PROVE  /\ workers[w] \in WorkerType /\ workers[w].item \in ItemType
         /\ workers[w].item \in Items
         /\ Cr(w) \in CRs /\ workers[w].item.ver \in Versions
         /\ workers[w].obj \in ObjType /\ workers[w].stale \in BOOLEAN
         /\ WorkerOK(workers[w], budget.edits)
<1>1. WorkerOK(workers[w], budget.edits) BY DEF Base, WorkersOK
<1>2. workers[w] \in WorkerType /\ workers[w].item \in Items BY <1>1 DEF WorkerOK
<1>3. /\ workers[w].item \in ItemType /\ workers[w].obj \in ObjType
      /\ workers[w].stale \in BOOLEAN
  BY <1>2 DEF WorkerType
<1>4. workers[w].item.cr \in CRs /\ workers[w].item.ver \in Versions
  BY <1>3 DEF ItemType
<1> QED BY <1>1, <1>2, <1>3, <1>4 DEF Cr

\* After a write of c, every other worker serving c holds an outdated copy.
LEMMA OutdateFacts ==
  ASSUME Base, NEW w \in Workers, NEW c
  PROVE  /\ DOMAIN Outdate(c, w) = Workers
         /\ Outdate(c, w)[w] = workers[w]
         /\ \A u \in Workers : u # w =>
              \/ Outdate(c, w)[u] = Outdated(workers[u])
              \/ /\ Outdate(c, w)[u] = workers[u]
                 /\ workers[u].pc = "idle" \/ workers[u].item.cr # c
BY DEF Outdate, Outdated

\* A step of one worker: the others keep their copies, or hold outdated ones.
LEMMA WorkerMoves ==
  ASSUME Base, NEW w \in Workers, NEW k,
         \/ workers' = [workers EXCEPT ![w] = k] /\ objs' = objs
         \/ /\ workers' = [Outdate(Cr(w), w) EXCEPT ![w] = k]
            /\ \A d \in CRs : d # Cr(w) => objs'[d] = objs[d]
  PROVE  /\ workers' = [u \in Workers |-> workers'[u]]
         /\ workers'[w] = k
         /\ \A u \in Workers : u # w => Bystander(u)
<1>1. workers = [u \in Workers |-> workers[u]] BY DEF Base, Shape
<1>2. CASE workers' = [workers EXCEPT ![w] = k] /\ objs' = objs
  BY <1>1, <1>2 DEF Bystander
<1>3. CASE /\ workers' = [Outdate(Cr(w), w) EXCEPT ![w] = k]
           /\ \A d \in CRs : d # Cr(w) => objs'[d] = objs[d]
  <2> DEFINE W == Outdate(Cr(w), w)
  <2>1. DOMAIN W = Workers BY OutdateFacts
  <2>2. W = [u \in Workers |-> W[u]] BY DEF Outdate
  <2> HIDE DEF W
  <2>3. workers' = [W EXCEPT ![w] = k] BY <1>3 DEF W
  <2>4. workers' = [u \in Workers |-> workers'[u]] /\ workers'[w] = k
    BY <2>2, <2>3
  <2>5. \A u \in Workers : u # w => workers'[u] = W[u] BY <2>1, <2>2, <2>3
  <2>6. ASSUME NEW u \in Workers, u # w PROVE Bystander(u)
    <3>1. workers[u].item.cr \in CRs BY WorkerFacts DEF Cr
    <3>2. workers'[u] = Outdate(Cr(w), w)[u] BY <2>5, <2>6 DEF W
    <3> QED BY <1>3, <2>6, <3>1, <3>2, OutdateFacts DEF Bystander
  <2> QED BY <2>4, <2>6
<1> QED BY <1>2, <1>3

\* The worker after an intermediate step: place, copy and freshness change.
Advanced(k, pc, o, st) == [k EXCEPT !.pc = pc, !.obj = o, !.stale = st]

\* The fields of a worker after an intermediate step.
LEMMA AdvancedFacts ==
  ASSUME NEW k \in WorkerType, NEW pc \in WorkerSteps, NEW o \in ObjType,
         NEW st \in BOOLEAN
  PROVE  /\ Advanced(k, pc, o, st) \in WorkerType
         /\ Advanced(k, pc, o, st).pc = pc /\ Advanced(k, pc, o, st).obj = o
         /\ Advanced(k, pc, o, st).stale = st
         /\ Advanced(k, pc, o, st).item = k.item
BY DEF Advanced, WorkerType

\* Step(w, ...) is an intermediate step of worker w.
LEMMA StepAdvances ==
  ASSUME Base, NEW w \in Workers, NEW pc, NEW o, NEW st, Step(w, pc, o, st)
  PROVE  workers' = [workers EXCEPT ![w] = Advanced(workers[w], pc, o, st)]
BY DEF Step, Advanced, Base, Shape

\* A worker that becomes idle has moved properly.
LEMMA IdleFacts ==
  ASSUME Base, NEW w \in Workers, workers'[w] = IdleWorker,
         budget'.edits \in Nat
  PROVE  Moved(w)
<1>1. WorkerOK(IdleWorker, budget'.edits) BY IdleOK
<1>2. IdleWorker.pc = "idle" BY DEF IdleWorker
<1> QED BY <1>1, <1>2 DEF Moved, PastRead

\* Requeueing the item of a worker keeps the queue well typed.
LEMMA RequeuedTypes ==
  ASSUME Base, NEW w \in Workers
  PROVE  Requeued(w) \subseteq Items
BY WorkerFacts DEF Requeued, Base, Shape

\* Taking an item from the queue keeps the base invariant: no other worker
\* holds that item.
LEMMA TakeItemStep ==
  ASSUME Base, NEW w \in Workers, TakeItem(w)
  PROVE  WorkerStepOK(w)
<1>1. Shape BY DEF Base
<1>2. PICK i \in queue :
        /\ \A u \in Workers : workers[u].pc # "idle" => workers[u].item # i
        /\ queue' = queue \ {i}
        /\ workers' = [workers EXCEPT ![w].pc = "read", ![w].item = i]
  BY DEF TakeItem
<1> DEFINE k == [workers[w] EXCEPT !.pc = "read", !.item = i]
<1>3. workers' = [workers EXCEPT ![w] = k] BY <1>1, <1>2 DEF Shape
<1>4. UNCHANGED <<generator, bundle, crd, seen, watches, budget, objs, index, remote>>
  BY DEF TakeItem, objRest
<1>5. k \in WorkerType /\ k.pc = "read" /\ k.item = i /\ i \in Items
  BY <1>1, WorkerFacts DEF WorkerType, WorkerSteps, Shape, Items
<1> HIDE DEF k
<1>6. /\ workers' = [u \in Workers |-> workers'[u]] /\ workers'[w] = k
      /\ \A u \in Workers : u # w => Bystander(u)
  BY <1>3, <1>4, WorkerMoves
<1>7. Shape' BY <1>1, <1>2, <1>4, <1>6 DEF Shape
<1>8. \A u \in Workers \ {w} : workers'[u] = workers[u] BY <1>1, <1>3 DEF Shape
<1>9. Moved(w)
  BY <1>2, <1>5, <1>6, <1>8 DEF Moved, WorkerOK, PastRead
<1>10. budget'.edits = budget.edits /\ budget.edits \in Nat
  BY <1>1, <1>4, EditsNat
<1> QED BY <1>4, <1>6, <1>7, <1>9, <1>10, StillStep DEF StepOK, WorkerStepOK

\* A step of worker w that writes no resource.
LEMMA WorkerOnlyStep ==
  ASSUME Base, NEW w \in Workers, NEW k, workers' = [workers EXCEPT ![w] = k],
         k = IdleWorker \/
           /\ WorkerOK(k, budget.edits) /\ workers[w].pc # "idle"
           /\ k.item = workers[w].item
           /\ k.pc \in PastRead /\ ~k.stale => k.obj = objs[k.item.cr],
         queue' \subseteq Items,
         index' \in [tier1: SUBSET Paths, tier2: SUBSET Paths],
         remote' \in [Paths -> Payloads \cup {Absent}],
         DOMAIN budget' = DOMAIN Bounds,
         \A j \in DOMAIN Bounds : budget'[j] \in 0..Bounds[j],
         budget'.edits = budget.edits,
         UNCHANGED <<generator, bundle, crd, seen, watches, objs>>
  PROVE  WorkerStepOK(w)
<1>1. Shape BY DEF Base
<1>2. /\ workers' = [u \in Workers |-> workers'[u]] /\ workers'[w] = k
      /\ \A u \in Workers : u # w => Bystander(u)
  BY WorkerMoves
<1>3. Shape' BY <1>1, <1>2 DEF Shape
<1>4. budget.edits \in Nat BY <1>1, EditsNat
<1>5. Moved(w)
  <2>1. CASE k = IdleWorker BY <2>1, <1>2, <1>4, IdleFacts
  <2>2. CASE k # IdleWorker BY <2>2, <1>2 DEF Moved
  <2> QED BY <2>1, <2>2
<1> QED BY <1>2, <1>3, <1>4, <1>5, StillStep DEF StepOK, WorkerStepOK

\* A step of worker w that writes its resource.
LEMMA WorkerWriteStep ==
  ASSUME Base, NEW w \in Workers, NEW k, NEW o,
         workers' = [Outdate(Cr(w), w) EXCEPT ![w] = k],
         objs' = [objs EXCEPT ![Cr(w)] = o],
         ObjOK(o, Cr(w), budget.edits), o.gen = Stored(w).gen,
         o.spec = Stored(w).spec, o.exists => Stored(w).exists,
         Holds(Stored(w)) /\ o.exists => Holds(o), Stored(w).deleting => o.deleting,
         ~Stored(w).exists => o.removed = Stored(w).removed,
         k = IdleWorker \/
           /\ WorkerOK(k, budget.edits) /\ workers[w].pc # "idle"
           /\ k.item = workers[w].item /\ k.obj = o,
         queue' \subseteq Items,
         index' \in [tier1: SUBSET Paths, tier2: SUBSET Paths],
         remote' \in [Paths -> Payloads \cup {Absent}],
         DOMAIN budget' = DOMAIN Bounds,
         \A j \in DOMAIN Bounds : budget'[j] \in 0..Bounds[j],
         budget'.edits = budget.edits,
         UNCHANGED <<generator, bundle, crd, seen, watches>>
  PROVE  WorkerStepOK(w)
<1>1. Shape BY DEF Base
<1>2. Cr(w) \in CRs BY WorkerFacts
<1>3. /\ \A d \in CRs : ObjStep(d)
      /\ objs' = [d \in CRs |-> objs'[d]]
      /\ objs'[Cr(w)] = o
      /\ \A d \in CRs : d # Cr(w) => objs'[d] = objs[d]
  BY <1>2, ObjWrite DEF Stored
<1>4. /\ workers' = [u \in Workers |-> workers'[u]] /\ workers'[w] = k
      /\ \A u \in Workers : u # w => Bystander(u)
  BY <1>3, WorkerMoves
<1>5. Shape' BY <1>1, <1>3, <1>4 DEF Shape
<1>6. budget.edits \in Nat BY <1>1, EditsNat
<1>7. Moved(w)
  <2>1. CASE k = IdleWorker BY <2>1, <1>4, <1>6, IdleFacts
  <2>2. CASE k # IdleWorker BY <2>2, <1>3, <1>4 DEF Moved, Cr
  <2> QED BY <2>1, <2>2
<1> QED BY <1>3, <1>4, <1>5, <1>6, <1>7 DEF StepOK, WorkerStepOK, Stored

\* The parts of Shape that the worker steps change.
LEMMA ShapeKept ==
  ASSUME Base
  PROVE  /\ queue \subseteq Items
         /\ index \in [tier1: SUBSET Paths, tier2: SUBSET Paths]
         /\ remote \in [Paths -> Payloads \cup {Absent}]
         /\ DOMAIN budget = DOMAIN Bounds
         /\ \A j \in DOMAIN Bounds : budget[j] \in 0..Bounds[j]
BY DEF Base, Shape

\* Reading the resource keeps the base invariant.
LEMMA ReadStep ==
  ASSUME Base, NEW w \in Workers, Read(w)
  PROVE  WorkerStepOK(w)
<1>1. /\ UNCHANGED <<generator, bundle, crd, seen, watches, budget, objs, remote>>
      /\ workers[w].pc = "read"
  BY DEF Read, objRest, At
<1>2. index' \in [tier1: SUBSET Paths, tier2: SUBSET Paths]
  <2>1. index' = index \/ index' = UnregisterFrom(index, workers[w].item.path)
    BY DEF Read
  <2> QED BY <2>1, ShapeKept, IndexTypes
<1>3. queue' = queue BY DEF Read, Done, Step
<1>4. CASE Done(w)
  BY <1>1, <1>2, <1>3, <1>4, ShapeKept, WorkerOnlyStep DEF Done
<1>5. CASE ~Done(w)
  <2> DEFINE pc == IF Stored(w).deleting THEN "remove" ELSE "claim"
  <2>1. /\ workers[w].item.kind = "sync" /\ Stored(w).exists
        /\ Step(w, pc, Stored(w), FALSE)
    BY <1>5 DEF Read
  <2>2. pc \in PastRead /\ pc \in WorkerSteps /\ pc \notin {"apply", "annotate"}
    BY DEF PastRead, WorkerSteps
  <2> HIDE DEF pc
  <2> DEFINE k == Advanced(workers[w], pc, Stored(w), FALSE)
  <2>3. Cr(w) \in CRs /\ Stored(w) \in ObjType /\ ObjOK(Stored(w), Cr(w), budget.edits)
    BY WorkerFacts, ObjFacts DEF Stored
  <2>4. /\ k \in WorkerType /\ k.pc = pc /\ k.obj = Stored(w)
        /\ k.item = workers[w].item
    <3>1. workers[w] \in WorkerType BY WorkerFacts
    <3> QED BY <2>2, <2>3, <3>1 DEF Advanced, WorkerType
  <2>5. workers' = [workers EXCEPT ![w] = k] BY <2>1, StepAdvances
  <2> HIDE DEF k
  <2>6. workers[w].item = SyncItem(Cr(w), workers[w].item.ver)
    <3>1. workers[w].item \in ItemType /\ workers[w].item \in Items BY WorkerFacts
    <3>2. workers[w].item.path = NoPath BY <2>1, <3>1 DEF Items
    <3> QED BY <2>1, <3>1, <3>2 DEF SyncItem, ItemType, Cr
  <2>7. WorkerOK(k, budget.edits)
    BY <2>1, <2>2, <2>3, <2>4, <2>6, WorkerFacts DEF WorkerOK, Cr
  <2>8. k.obj = objs[k.item.cr] BY <2>4 DEF Stored, Cr
  <2> QED BY <1>1, <1>2, <1>3, <2>4, <2>5, <2>7, <2>8, ShapeKept, WorkerOnlyStep
<1> QED BY <1>4, <1>5

\* What a worker past its read knows of its copy.
LEMMA CopyFacts ==
  ASSUME Base, NEW w \in Workers, workers[w].pc \in PastRead
  PROVE  /\ ObjOK(Copy(w), Cr(w), budget.edits) /\ Copy(w).exists
         /\ Copy(w) \in ObjType /\ Copy(w).gen \in 0..(MaxEdits + 1)
         /\ workers[w].item = SyncItem(Cr(w), workers[w].item.ver)
         /\ workers[w].pc \in {"apply", "annotate"} => PathOf(Copy(w), Cr(w)) # NoPath
         /\ ~workers[w].stale => Copy(w) = Stored(w)
<1>1. WorkerOK(workers[w], budget.edits) BY WorkerFacts
<1>2. ObjOK(Copy(w), Cr(w), budget.edits) BY <1>1 DEF WorkerOK, Copy, Cr
<1>3. Copy(w) \in ObjType BY <1>2 DEF ObjOK
<1>4. Copy(w).gen \in 0..(MaxEdits + 1) BY <1>3 DEF ObjType
<1>5. ~workers[w].stale => Copy(w) = Stored(w) BY DEF Base, Fresh, Copy, Stored, Cr
<1> QED BY <1>1, <1>2, <1>3, <1>4, <1>5 DEF WorkerOK, Copy, Cr

\* Giving up and finishing keep the base invariant.
LEMMA RetryStep ==
  ASSUME Base, NEW w \in Workers, Retry(w) \/ Done(w),
         index' \in [tier1: SUBSET Paths, tier2: SUBSET Paths],
         UNCHANGED <<generator, bundle, crd, seen, watches, objs, budget, remote>>
  PROVE  WorkerStepOK(w)
<1>1. workers' = [workers EXCEPT ![w] = IdleWorker] /\ queue' \subseteq Items
  BY ShapeKept, RequeuedTypes DEF Retry, Done
<1> QED BY <1>1, ShapeKept, WorkerOnlyStep

\* The fields each kind of write leaves alone.
LEMMA FieldsKept ==
  ASSUME NEW o \in ObjType
  PROVE  /\ LET q == [o EXCEPT !.finalizer = TRUE]
            IN /\ q.gen = o.gen /\ q.spec = o.spec /\ q.exists = o.exists /\ q.finalizer
               /\ q.deleting = o.deleting /\ q.removed = o.removed /\ q.ann = o.ann
               /\ q.ready = o.ready /\ q.observed = o.observed
         /\ \A b, g : LET q == [o EXCEPT !.ready = b, !.observed = g]
            IN /\ q.gen = o.gen /\ q.spec = o.spec /\ q.exists = o.exists
               /\ q.deleting = o.deleting /\ q.removed = o.removed /\ q.ann = o.ann
               /\ q.finalizer = o.finalizer /\ q.ready = b /\ q.observed = g
         /\ \A p : LET q == [o EXCEPT !.ann = p]
            IN /\ q.gen = o.gen /\ q.spec = o.spec /\ q.exists = o.exists
               /\ q.deleting = o.deleting /\ q.removed = o.removed /\ q.ann = p
               /\ q.finalizer = o.finalizer
               /\ q.ready = o.ready /\ q.observed = o.observed
BY DEF ObjType

\* Finalizer, path claim and conflict check keep the base invariant.
LEMMA ClaimStep ==
  ASSUME Base, NEW w \in Workers, Claim(w)
  PROVE  WorkerStepOK(w)
<1> DEFINE c == Cr(w)
           patched == ~Copy(w).finalizer
           o == IF patched THEN [objs[c] EXCEPT !.finalizer = TRUE] ELSE Copy(w)
           old == IF o.ann = NoPath THEN index ELSE UnregisterFrom(index, o.ann)
<1>1. /\ workers[w].pc = "claim" /\ workers[w].pc \in PastRead
      /\ UNCHANGED <<generator, bundle, crd, seen, watches, budget, remote>>
  BY DEF Claim, At, objRest, PastRead, WorkerSteps
<1>2. c \in CRs /\ objs[c] \in ObjType /\ ObjOK(objs[c], c, budget.edits)
  BY WorkerFacts, ObjFacts
<1>3. ObjOK(Copy(w), c, budget.edits) /\ Copy(w).exists /\ Copy(w) \in ObjType
  BY <1>1, CopyFacts
<1>4. budget.edits \in Nat BY EditsNat DEF Base
<1>5. ObjOK(o, c, budget.edits) /\ o \in ObjType
  <2>1. CASE patched
    <3>1. ObjOK([objs[c] EXCEPT !.finalizer = TRUE], c, budget.edits)
      BY <1>2, <1>4, WrittenOK
    <3>2. o = [objs[c] EXCEPT !.finalizer = TRUE] BY <2>1
    <3> QED BY <3>1, <3>2 DEF ObjOK
  <2>2. CASE ~patched BY <2>2, <1>3
  <2> QED BY <2>1, <2>2
<1>6. ASSUME patched, ~Stored(w).exists, Retry(w), UNCHANGED <<objs, index>>
      PROVE  WorkerStepOK(w)
  BY <1>1, <1>6, ShapeKept, RetryStep
<1>7. ASSUME patched => Stored(w).exists, PathOf(o, c) = NoPath,
             workers' = [Outdate(c, w) EXCEPT ![w] = IdleWorker],
             queue' = Requeued(w),
             objs' = IF patched \/ ~workers[w].stale
                     THEN [objs EXCEPT ![c] = [o EXCEPT !.ready = FALSE,
                                                        !.observed = o.gen]]
                     ELSE objs,
             UNCHANGED index
      PROVE  WorkerStepOK(w)
  <2>1. CASE patched \/ ~workers[w].stale
    <3> DEFINE q == [o EXCEPT !.ready = FALSE, !.observed = o.gen]
    <3>1. o.gen \in 0..(MaxEdits + 1) BY <1>5 DEF ObjType
    <3>2. ObjOK(q, c, budget.edits) BY <1>2, <1>4, <1>5, <3>1, WrittenOK
    <3>3. /\ q.gen = o.gen /\ q.spec = o.spec /\ q.exists = o.exists
          /\ q.deleting = o.deleting /\ q.removed = o.removed
          /\ q.finalizer = o.finalizer
      BY <1>5 DEF ObjType
    <3>4. ~patched => o = objs[c] BY <2>1, <1>1, CopyFacts DEF Stored
    <3>5. patched => /\ o.gen = objs[c].gen /\ o.spec = objs[c].spec
                     /\ o.exists = objs[c].exists /\ o.deleting = objs[c].deleting
                     /\ o.removed = objs[c].removed /\ o.finalizer
      BY <1>2, FieldsKept
    <3>6. objs' = [objs EXCEPT ![Cr(w)] = q] BY <1>7, <2>1
    <3> HIDE DEF q, o, patched
    <3>7. /\ q.gen = Stored(w).gen /\ q.spec = Stored(w).spec
          /\ q.exists => Stored(w).exists
          /\ (Holds(Stored(w)) /\ q.exists => Holds(q)) /\ (Stored(w).deleting => q.deleting)
          /\ ~Stored(w).exists => q.removed = Stored(w).removed
      BY <3>3, <3>4, <3>5 DEF Stored, Holds
    <3> QED BY <1>1, <1>7, <3>2, <3>6, <3>7, ShapeKept, RequeuedTypes, WorkerWriteStep
  <2>2. CASE ~(patched \/ ~workers[w].stale)
    <3>1. objs' = [objs EXCEPT ![Cr(w)] = Stored(w)]
      BY <1>2, <1>7, <2>2 DEF Base, Shape, Stored
    <3>2. ObjOK(Stored(w), Cr(w), budget.edits) BY <1>2 DEF Stored
    <3> QED BY <1>1, <1>7, <3>1, <3>2, ShapeKept, RequeuedTypes, WorkerWriteStep
  <2> QED BY <2>1, <2>2
<1>8. ASSUME patched => Stored(w).exists, PathOf(o, c) # NoPath,
             objs' = IF patched THEN [objs EXCEPT ![c] = o] ELSE objs,
             index' = [old EXCEPT !.tier1 = @ \cup {PathOf(o, c)}],
             workers' = [(IF patched THEN Outdate(c, w) ELSE workers)
                            EXCEPT ![w].pc = "apply", ![w].obj = o,
                                   ![w].stale = ~patched /\ @],
             UNCHANGED queue
      PROVE  WorkerStepOK(w)
  <2>1. index' \in [tier1: SUBSET Paths, tier2: SUBSET Paths]
    <3>1. old \in [tier1: SUBSET Paths, tier2: SUBSET Paths] BY ShapeKept, IndexTypes
    <3>2. PathOf(o, c) \in Paths BY <1>2, <1>5, <1>8, PathTypes
    <3> HIDE DEF old, o
    <3> QED BY <1>8, <3>1, <3>2
  <2>2. /\ workers[w] \in WorkerType /\ workers[w].stale \in BOOLEAN
        /\ workers[w].item \in Items /\ "apply" \in WorkerSteps
    BY WorkerFacts DEF WorkerSteps
  <2>3. PICK st \in BOOLEAN : st = (~patched /\ workers[w].stale) BY <2>2
  <2> DEFINE k == Advanced(workers[w], "apply", o, st)
  <2>4. /\ k \in WorkerType /\ k.pc = "apply" /\ k.obj = o /\ k.stale = st
        /\ k.item = workers[w].item
    BY <1>5, <2>2, AdvancedFacts
  <2> HIDE DEF o, patched
  <2>5. workers[w].item = SyncItem(Cr(w), workers[w].item.ver) /\ o.exists
    <3>1. patched => o.exists BY <1>2, <1>8, FieldsKept DEF Stored, o, patched
    <3>2. ~patched => o.exists BY <1>3 DEF o
    <3> QED BY <3>1, <3>2, <1>1, CopyFacts
  <2>6. WorkerOK(k, budget.edits)
    BY <1>5, <1>8, <2>2, <2>4, <2>5 DEF WorkerOK, Cr
  <2>7. CASE patched
    <3>1. objs' = [objs EXCEPT ![Cr(w)] = o] BY <1>8, <2>7
    <3>2. workers' = [Outdate(Cr(w), w) EXCEPT ![w] = k]
      <4>1. /\ DOMAIN Outdate(c, w) = Workers /\ Outdate(c, w)[w] = workers[w]
        BY OutdateFacts
      <4>2. workers' = [Outdate(c, w) EXCEPT ![w].pc = "apply", ![w].obj = o,
                                             ![w].stale = FALSE]
        BY <1>8, <2>7
      <4>3. st = FALSE BY <2>3, <2>7
      <4> QED BY <4>1, <4>2, <4>3 DEF Advanced
    <3>3. /\ o.gen = Stored(w).gen /\ o.spec = Stored(w).spec
          /\ o.exists = Stored(w).exists /\ o.deleting = Stored(w).deleting
          /\ o.removed = Stored(w).removed /\ o.finalizer
      BY <1>2, <2>7, FieldsKept DEF o, Stored
    <3>4. (Holds(Stored(w)) /\ o.exists => Holds(o)) /\ (Stored(w).deleting => o.deleting)
      BY <3>3 DEF Holds
    <3>5. workers[w].pc # "idle" BY <1>1
    <3>6. queue' \subseteq Items BY <1>8, ShapeKept
    <3>7. /\ remote' \in [Paths -> Payloads \cup {Absent}]
          /\ DOMAIN budget' = DOMAIN Bounds /\ budget'.edits = budget.edits
          /\ \A j \in DOMAIN Bounds : budget'[j] \in 0..Bounds[j]
      BY <1>1, ShapeKept
    <3> HIDE DEF k
    <3> QED BY <1>1, <1>5, <2>1, <2>4, <2>6, <3>1, <3>2, <3>3, <3>4, <3>5, <3>6, <3>7,
               WorkerWriteStep
  <2>8. CASE ~patched
    <3>1. objs' = objs BY <1>8, <2>8
    <3>2. workers' = [workers EXCEPT ![w] = k]
      <4>1. DOMAIN workers = Workers BY DEF Base, Shape
      <4>2. workers' = [workers EXCEPT ![w].pc = "apply", ![w].obj = o,
                                       ![w].stale = st]
        BY <1>8, <2>3, <2>8, <4>1
      <4> QED BY <4>1, <4>2 DEF Advanced
    <3>3. ~k.stale => k.obj = objs[k.item.cr]
      BY <2>3, <2>4, <2>8, <1>1, CopyFacts DEF o, Stored, Cr
    <3> HIDE DEF k
    <3> QED BY <1>1, <1>8, <2>1, <2>4, <2>6, <3>1, <3>2, <3>3, ShapeKept, WorkerOnlyStep
  <2> QED BY <2>7, <2>8
<1> QED BY <1>6, <1>7, <1>8 DEF Claim

\* Intermediate steps of worker w that write no resource and keep its copy.
LEMMA AdvanceStep ==
  ASSUME Base, NEW w \in Workers, workers[w].pc \in PastRead,
         NEW pc \in {"annotate", "status", "release"},
         pc = "annotate" => PathOf(Copy(w), Cr(w)) # NoPath,
         Step(w, pc, Copy(w), workers[w].stale),
         index' \in [tier1: SUBSET Paths, tier2: SUBSET Paths],
         remote' \in [Paths -> Payloads \cup {Absent}],
         UNCHANGED <<generator, bundle, crd, seen, watches, budget, objs>>
  PROVE  WorkerStepOK(w)
<1> DEFINE k == Advanced(workers[w], pc, Copy(w), workers[w].stale)
<1>1. workers' = [workers EXCEPT ![w] = k] BY StepAdvances
<1>2. pc \in WorkerSteps /\ pc \in PastRead BY DEF WorkerSteps, PastRead
<1>3. workers[w] \in WorkerType /\ workers[w].stale \in BOOLEAN /\ workers[w].item \in Items
  BY WorkerFacts
<1>4. /\ ObjOK(Copy(w), Cr(w), budget.edits) /\ Copy(w).exists /\ Copy(w) \in ObjType
      /\ workers[w].item = SyncItem(Cr(w), workers[w].item.ver)
      /\ ~workers[w].stale => Copy(w) = Stored(w)
  BY CopyFacts
<1>5. /\ k \in WorkerType /\ k.pc = pc /\ k.obj = Copy(w)
      /\ k.stale = workers[w].stale /\ k.item = workers[w].item
  BY <1>2, <1>3, <1>4, AdvancedFacts
<1> HIDE DEF k
<1>6. WorkerOK(k, budget.edits) BY <1>3, <1>4, <1>5 DEF WorkerOK, Cr
<1>7. ~k.stale => k.obj = objs[k.item.cr] BY <1>4, <1>5 DEF Stored, Cr
<1>8. workers[w].pc # "idle" BY DEF PastRead
<1>9. queue' \subseteq Items BY ShapeKept DEF Step
<1> QED BY <1>1, <1>5, <1>6, <1>7, <1>8, <1>9, ShapeKept, WorkerOnlyStep

\* Applying to the managed service keeps the base invariant.
LEMMA ApplyResourceStep ==
  ASSUME Base, NEW w \in Workers, ApplyResource(w)
  PROVE  WorkerStepOK(w)
<1>1. /\ workers[w].pc = "apply" /\ workers[w].pc \in PastRead
      /\ Step(w, "annotate", Copy(w), workers[w].stale)
      /\ UNCHANGED <<generator, bundle, crd, seen, watches, budget, objs>>
  BY DEF ApplyResource, At, objRest, PastRead, WorkerSteps
<1>2. Copy(w) \in ObjType /\ PathOf(Copy(w), Cr(w)) # NoPath /\ Cr(w) \in CRs
  BY <1>1, CopyFacts, WorkerFacts
<1>3. PathOf(Copy(w), Cr(w)) \in Paths /\ Copy(w).spec.payload \in Payloads
  BY <1>2, PathTypes
<1>4. index' \in [tier1: SUBSET Paths, tier2: SUBSET Paths]
  BY <1>3, ShapeKept DEF ApplyResource, Register
<1>5. remote' \in [Paths -> Payloads \cup {Absent}]
  BY <1>3, ShapeKept DEF ApplyResource
<1> QED BY <1>1, <1>2, <1>4, <1>5, AdvanceStep

\* A failed apply keeps the base invariant.
LEMMA ApplyFailsStep ==
  ASSUME Base, NEW w \in Workers, ApplyFails(w)
  PROVE  WorkerStepOK(w)
<1>1. /\ workers[w].pc \in {"apply", "remove"} /\ workers[w].pc \in PastRead
      /\ UNCHANGED <<generator, bundle, crd, seen, watches, index>>
      /\ queue' = Requeued(w) /\ queue' \subseteq Items
  BY RequeuedTypes DEF ApplyFails, PastRead, WorkerSteps
<1>2. /\ DOMAIN budget' = DOMAIN Bounds /\ budget'.edits = budget.edits
      /\ \A j \in DOMAIN Bounds : budget'[j] \in 0..Bounds[j]
  BY SpendFacts DEF ApplyFails, Base
<1>3. /\ Copy(w) \in ObjType /\ Cr(w) \in CRs
      /\ workers[w].pc = "apply" => PathOf(Copy(w), Cr(w)) # NoPath
      /\ ~workers[w].stale => Copy(w) = Stored(w)
      /\ Copy(w).gen \in 0..(MaxEdits + 1)
  BY <1>1, CopyFacts, WorkerFacts
<1>4. /\ workers[w].pc = "apply" => PathOf(Copy(w), Cr(w)) \in Paths
      /\ Copy(w).spec.payload \in Payloads
  BY <1>3, PathTypes
<1>5. remote' \in [Paths -> Payloads \cup {Absent}]
  BY <1>4, ShapeKept DEF ApplyFails, At
<1>6. index' \in [tier1: SUBSET Paths, tier2: SUBSET Paths] BY <1>1, ShapeKept
<1>7. ObjOK(Stored(w), Cr(w), budget.edits) /\ budget.edits \in Nat /\ Stored(w) \in ObjType
  BY <1>3, ObjFacts, EditsNat DEF Base, Stored
<1>8. CASE At(w, "apply") /\ ~workers[w].stale
  <2> DEFINE q == [Stored(w) EXCEPT !.ready = FALSE, !.observed = Copy(w).gen]
  <2>1. objs' = [objs EXCEPT ![Cr(w)] = q]
    BY <1>3, <1>8 DEF ApplyFails, Stored, Base, Shape
  <2>2. workers' = [Outdate(Cr(w), w) EXCEPT ![w] = IdleWorker]
    BY <1>8 DEF ApplyFails
  <2>3. ObjOK(q, Cr(w), budget.edits) BY <1>3, <1>7, WrittenOK
  <2>4. /\ q.gen = Stored(w).gen /\ q.spec = Stored(w).spec
        /\ q.exists = Stored(w).exists /\ q.deleting = Stored(w).deleting
        /\ q.removed = Stored(w).removed /\ q.finalizer = Stored(w).finalizer
    BY <1>7 DEF ObjType
  <2> HIDE DEF q
  <2>5. (Holds(Stored(w)) /\ q.exists => Holds(q)) /\ (Stored(w).deleting => q.deleting)
    BY <2>4 DEF Holds
  <2> QED BY <1>1, <1>2, <1>5, <1>6, <2>1, <2>2, <2>3, <2>4, <2>5, WorkerWriteStep
<1>9. CASE ~(At(w, "apply") /\ ~workers[w].stale)
  <2>1. objs' = objs /\ workers' = [workers EXCEPT ![w] = IdleWorker]
    BY <1>9 DEF ApplyFails
  <2> QED BY <1>1, <1>2, <1>5, <1>6, <2>1, WorkerOnlyStep
<1> QED BY <1>8, <1>9

\* Recording the applied path in the annotation keeps the base invariant.
LEMMA AnnotateStep ==
  ASSUME Base, NEW w \in Workers, Annotate(w)
  PROVE  WorkerStepOK(w)
<1> DEFINE c == Cr(w)
           p == PathOf(Copy(w), c)
<1>1. /\ workers[w].pc = "annotate" /\ workers[w].pc \in PastRead
      /\ UNCHANGED <<generator, bundle, crd, seen, watches, budget, index, remote>>
  BY DEF Annotate, At, objRest, PastRead, WorkerSteps
<1>2. /\ Copy(w) \in ObjType /\ c \in CRs /\ p # NoPath
      /\ workers[w].item = SyncItem(Cr(w), workers[w].item.ver)
  BY <1>1, CopyFacts, WorkerFacts
<1>3. p \in Collections \X {c} BY <1>2, PathTypes
<1>4. ASSUME Step(w, "status", Copy(w), workers[w].stale), UNCHANGED objs
      PROVE  WorkerStepOK(w)
  BY <1>1, <1>4, ShapeKept, AdvanceStep
<1>5. ASSUME Retry(w), UNCHANGED objs PROVE WorkerStepOK(w)
  BY <1>1, <1>5, ShapeKept, RetryStep
<1>6. ASSUME Stored(w).exists, objs' = [objs EXCEPT ![c].ann = p],
             workers' = [Outdate(c, w) EXCEPT ![w].pc = "status", ![w].stale = FALSE,
                                              ![w].obj = [objs[c] EXCEPT !.ann = p]],
             UNCHANGED queue
      PROVE  WorkerStepOK(w)
  <2> HIDE DEF p
  <2> DEFINE q == [Stored(w) EXCEPT !.ann = p]
             k == Advanced(workers[w], "status", q, FALSE)
  <2>1. ObjOK(Stored(w), c, budget.edits) /\ budget.edits \in Nat /\ Stored(w) \in ObjType
    BY <1>2, ObjFacts, EditsNat DEF Base, Stored
  <2>2. ObjOK(q, c, budget.edits) BY <1>2, <1>3, <2>1, WrittenOK
  <2>3. /\ q.gen = Stored(w).gen /\ q.spec = Stored(w).spec
        /\ q.exists = Stored(w).exists /\ q.deleting = Stored(w).deleting
        /\ q.removed = Stored(w).removed /\ q.finalizer = Stored(w).finalizer
    BY <2>1 DEF ObjType
  <2>4. objs' = [objs EXCEPT ![Cr(w)] = q] BY <1>2, <1>6 DEF Stored, Base, Shape
  <2>5. q \in ObjType BY <2>2 DEF ObjOK
  <2> HIDE DEF q
  <2>6. workers' = [Outdate(Cr(w), w) EXCEPT ![w] = k]
    <3>1. /\ DOMAIN Outdate(c, w) = Workers /\ Outdate(c, w)[w] = workers[w]
      BY OutdateFacts
    <3>2. workers' = [Outdate(c, w) EXCEPT ![w].pc = "status", ![w].stale = FALSE,
                                           ![w].obj = q]
      BY <1>6 DEF q, Stored
    <3>3. workers' = [Outdate(c, w) EXCEPT ![w] =
                        [workers[w] EXCEPT !.pc = "status", !.stale = FALSE, !.obj = q]]
      BY <3>1, <3>2
    <3>4. workers[w] \in WorkerType BY WorkerFacts
    <3>5. k = [workers[w] EXCEPT !.pc = "status", !.stale = FALSE, !.obj = q]
      BY <3>4 DEF Advanced, WorkerType
    <3> QED BY <3>3, <3>5
  <2>7. /\ k \in WorkerType /\ k.pc = "status" /\ k.obj = q /\ k.item = workers[w].item
    <3>1. workers[w] \in WorkerType BY WorkerFacts
    <3> QED BY <2>5, <3>1 DEF Advanced, WorkerType, WorkerSteps
  <2> HIDE DEF k
  <2>8. workers[w].item \in Items BY WorkerFacts
  <2>9. WorkerOK(k, budget.edits)
    BY <1>2, <1>6, <2>2, <2>3, <2>7, <2>8 DEF WorkerOK, Cr
  <2>10. (Holds(Stored(w)) /\ q.exists => Holds(q)) /\ (Stored(w).deleting => q.deleting)
    BY <2>3 DEF Holds
  <2>11. workers[w].pc # "idle" BY <1>1
  <2>12. queue' \subseteq Items BY <1>6, ShapeKept
  <2> QED BY <1>1, <2>2, <2>3, <2>4, <2>6, <2>7, <2>9, <2>10, <2>11, <2>12, ShapeKept,
             WorkerWriteStep
<1> QED BY <1>4, <1>5, <1>6 DEF Annotate

\* The status write keeps the base invariant.
LEMMA MarkAppliedStep ==
  ASSUME Base, NEW w \in Workers, MarkApplied(w)
  PROVE  WorkerStepOK(w)
<1>1. /\ workers[w].pc = "status" /\ workers[w].pc \in PastRead
      /\ UNCHANGED <<generator, bundle, crd, seen, watches, budget, index, remote>>
  BY DEF MarkApplied, At, objRest, PastRead, WorkerSteps
<1>2. CASE Retry(w) /\ UNCHANGED objs BY <1>1, <1>2, ShapeKept, RetryStep
<1>3. CASE ~(Retry(w) /\ UNCHANGED objs)
  <2> DEFINE q == [Stored(w) EXCEPT !.ready = TRUE, !.observed = Copy(w).gen]
  <2>1. Copy(w).gen \in 0..(MaxEdits + 1) /\ Cr(w) \in CRs
    BY <1>1, CopyFacts, WorkerFacts
  <2>2. ObjOK(Stored(w), Cr(w), budget.edits) /\ budget.edits \in Nat /\ Stored(w) \in ObjType
    BY <2>1, ObjFacts, EditsNat DEF Base, Stored
  <2>3. objs' = [objs EXCEPT ![Cr(w)] = q]
    BY <1>3, <2>1 DEF MarkApplied, Stored, Base, Shape
  <2>4. workers' = [Outdate(Cr(w), w) EXCEPT ![w] = IdleWorker] /\ queue' = queue
    BY <1>3 DEF MarkApplied
  <2>5. ObjOK(q, Cr(w), budget.edits) BY <2>1, <2>2, WrittenOK
  <2>6. /\ q.gen = Stored(w).gen /\ q.spec = Stored(w).spec
        /\ q.exists = Stored(w).exists /\ q.deleting = Stored(w).deleting
        /\ q.removed = Stored(w).removed /\ q.finalizer = Stored(w).finalizer
    BY <2>2 DEF ObjType
  <2> HIDE DEF q
  <2>7. (Holds(Stored(w)) /\ q.exists => Holds(q)) /\ (Stored(w).deleting => q.deleting)
    BY <2>6 DEF Holds
  <2> QED BY <1>1, <2>3, <2>4, <2>5, <2>6, <2>7, ShapeKept, WorkerWriteStep
<1> QED BY <1>2, <1>3

\* The path the finalizer works on is one of the resource's own, or none.
LEMMA FinalPathType ==
  ASSUME Base, NEW w \in Workers, workers[w].pc \in PastRead
  PROVE  FinalPath(w) \in OwnPaths(Cr(w)) /\ FinalPath(w) \in Paths \cup {NoPath}
<1>1. Copy(w) \in ObjType /\ ObjOK(Copy(w), Cr(w), budget.edits) /\ Cr(w) \in CRs
  BY CopyFacts, WorkerFacts
<1>2. Copy(w).ann \in OwnPaths(Cr(w)) BY <1>1 DEF ObjOK
<1> QED BY <1>1, <1>2, PathTypes DEF FinalPath

\* Removing the remote resource keeps the base invariant.
LEMMA RemoveRemoteStep ==
  ASSUME Base, NEW w \in Workers, RemoveRemote(w)
  PROVE  WorkerStepOK(w)
<1>1. /\ workers[w].pc = "remove" /\ workers[w].pc \in PastRead
      /\ UNCHANGED <<generator, bundle, crd, seen, watches, budget, objs, index>>
  BY DEF RemoveRemote, At, objRest, PastRead, WorkerSteps
<1>2. CASE (Done(w) \/ Retry(w)) /\ UNCHANGED remote
  BY <1>1, <1>2, ShapeKept, RetryStep
<1>3. CASE ~((Done(w) \/ Retry(w)) /\ UNCHANGED remote)
  <2>1. Step(w, "release", Copy(w), workers[w].stale) BY <1>3 DEF RemoveRemote
  <2>2. remote' = remote \/ (/\ FinalPath(w) # NoPath
                             /\ remote' = [remote EXCEPT ![FinalPath(w)] = Absent])
    BY <1>3 DEF RemoveRemote
  <2>3. remote' \in [Paths -> Payloads \cup {Absent}]
    BY <1>1, <2>2, ShapeKept, FinalPathType
  <2> QED BY <1>1, <2>1, <2>3, ShapeKept, AdvanceStep
<1> QED BY <1>2, <1>3

\* What is left of a resource that is released.
Released(o, p) == [o EXCEPT !.exists = FALSE, !.finalizer = FALSE, !.ready = FALSE,
                            !.removed = p]

\* Removing the finalizer keeps the base invariant.
LEMMA ReleaseStep ==
  ASSUME Base, NEW w \in Workers, Release(w)
  PROVE  WorkerStepOK(w)
<1>1. /\ workers[w].pc = "release" /\ workers[w].pc \in PastRead
      /\ UNCHANGED <<generator, bundle, crd, seen, watches, budget, remote>>
      /\ index' = UnregisterFrom(index, FinalPath(w))
  BY DEF Release, At, objRest, PastRead, WorkerSteps
<1>2. index' \in [tier1: SUBSET Paths, tier2: SUBSET Paths]
  BY <1>1, ShapeKept, IndexTypes
<1>3. CASE Retry(w) /\ UNCHANGED objs BY <1>1, <1>2, <1>3, RetryStep
<1>4. CASE ~(Retry(w) /\ UNCHANGED objs)
  <2> DEFINE p == IF Copy(w).spec.policy = "Delete" THEN FinalPath(w) ELSE NoPath
             q == Released(Stored(w), p)
  <2>1. Cr(w) \in CRs /\ p \in OwnPaths(Cr(w))
    BY <1>1, FinalPathType, WorkerFacts DEF OwnPaths
  <2>2. ObjOK(Stored(w), Cr(w), budget.edits) /\ budget.edits \in Nat /\ Stored(w) \in ObjType
    BY <2>1, ObjFacts, EditsNat DEF Base, Stored
  <2>3. /\ objs' = [objs EXCEPT ![Cr(w)] = q] /\ Stored(w).exists
        /\ workers' = [Outdate(Cr(w), w) EXCEPT ![w] = IdleWorker] /\ queue' = queue
    BY <1>4, <2>1 DEF Release, Released, Stored, Base, Shape
  <2> HIDE DEF p
  <2>4. ObjOK(q, Cr(w), budget.edits) BY <2>1, <2>2, WrittenOK DEF Released
  <2>5. /\ q.gen = Stored(w).gen /\ q.spec = Stored(w).spec /\ ~q.exists
        /\ q.deleting = Stored(w).deleting
    BY <2>2 DEF ObjType, Released
  <2> HIDE DEF q
  <2> QED BY <1>1, <1>2, <2>3, <2>4, <2>5, ShapeKept, WorkerWriteStep
<1> QED BY <1>3, <1>4

-----------------------------------------------------------------------------
\* Creating and editing a resource keep the base invariant.
LEMMA CreateOrEditStep ==
  ASSUME Base, NEW c \in CRs, NEW s \in Specs, CreateOrEdit(c, s)
  PROVE  EnvStepOK
<1> DEFINE n == budget.edits
<1>1. /\ DOMAIN budget' = DOMAIN Bounds /\ budget'.edits = n + 1
      /\ \A j \in DOMAIN Bounds : budget'[j] \in 0..Bounds[j]
  BY SpendFacts DEF CreateOrEdit, Base
<1>2. n \in Nat /\ budget'.edits \in Nat /\ budget.edits < MaxEdits
  <2>1. Bounds.edits = MaxEdits BY DEF Bounds
  <2>2. budget.edits < MaxEdits BY <2>1 DEF CreateOrEdit, Spend, CanSpend
  <2> QED BY <1>1, <2>2, EditsNat DEF Base
<1>3. UNCHANGED <<seen, watches, queue, index, remote, generator, bundle, crd>>
  BY DEF CreateOrEdit, envRest
<1>4. s \in SpecType BY ConstantsAssumption
<1>5. objs[c] \in ObjType /\ objs[c].gen \in Nat /\ ObjOK(objs[c], c, n) /\ objs[c].gen <= n
  BY ObjFacts DEF ObjOK
<1>6. PICK g \in Nat : g = objs[c].gen + 1 BY <1>5
<1>7. g \in 0..(MaxEdits + 1) /\ g <= budget'.edits /\ g >= 1
  BY <1>1, <1>2, <1>5, <1>6, ConstantsAssumption
<1> HIDE DEF n
<1>8. \E o : /\ objs' = [objs EXCEPT ![c] = o] /\ ObjOK(o, c, budget'.edits)
             /\ o.gen = g /\ o.exists
             /\ objs[c].exists => o.finalizer = objs[c].finalizer /\ o.deleting = objs[c].deleting
  <2>1. CASE ~objs[c].exists
    <3> DEFINE o == [NoObj EXCEPT !.exists = TRUE, !.spec = s, !.gen = g]
    <3>1. NoObj \in ObjType /\ NoObj.ann = NoPath /\ NoObj.removed = NoPath
      BY <1>2, NoObjOK DEF ObjOK, NoObj
    <3>2. /\ o \in ObjType /\ o.gen = g /\ o.exists /\ o.ann = NoPath /\ o.removed = NoPath
      BY <1>4, <1>7, <3>1 DEF ObjType
    <3>3. objs' = [objs EXCEPT ![c] = o] BY <1>6, <2>1 DEF CreateOrEdit
    <3> HIDE DEF o
    <3>4. ObjOK(o, c, budget'.edits) BY <1>7, <3>2 DEF ObjOK, OwnPaths
    <3> QED BY <2>1, <3>2, <3>3, <3>4
  <2>2. CASE objs[c].exists
    <3> DEFINE o == [objs[c] EXCEPT !.spec = s, !.gen = g]
    <3>1. /\ o \in ObjType /\ o.gen = g /\ o.exists = objs[c].exists
          /\ o.ann = objs[c].ann /\ o.removed = objs[c].removed
          /\ o.finalizer = objs[c].finalizer /\ o.deleting = objs[c].deleting
      BY <1>4, <1>5, <1>7 DEF ObjType
    <3>2. objs' = [objs EXCEPT ![c] = o]
      BY <1>6, <2>2 DEF CreateOrEdit, Base, Shape
    <3> HIDE DEF o
    <3>3. ObjOK(o, c, budget'.edits) BY <1>5, <1>7, <3>1 DEF ObjOK
    <3> QED BY <2>2, <3>1, <3>2, <3>3
  <2> QED BY <2>1, <2>2
<1>9. PICK o : /\ objs' = [objs EXCEPT ![c] = o] /\ ObjOK(o, c, budget'.edits)
               /\ o.gen = g /\ o.exists
               /\ objs[c].exists => o.finalizer = objs[c].finalizer /\ o.deleting = objs[c].deleting
  BY <1>8
<1>10. /\ objs' = [d \in CRs |-> objs'[d]] /\ objs'[c] = o
       /\ \A d \in CRs : d # c => objs'[d] = objs[d]
  BY <1>9 DEF Base, Shape
<1>11. ObjStep(c) BY <1>5, <1>6, <1>9, <1>10 DEF ObjStep, Holds
<1>12. ASSUME NEW d \in CRs, d # c PROVE ObjStep(d)
  <2>1. ObjOK(objs[d], d, n) /\ objs[d].gen \in Nat BY ObjFacts DEF n
  <2>2. ObjOK(objs[d], d, budget'.edits) BY <1>1, <1>2, <2>1, MonotoneOK
  <2> QED BY <1>10, <1>12, <2>1, <2>2 DEF ObjStep
<1>13. workers' = [w \in Workers |-> workers'[w]] BY DEF CreateOrEdit
<1>14. ASSUME NEW w \in Workers PROVE Bystander(w)
  <2>1. Cr(w) \in CRs BY WorkerFacts
  <2>2. \/ workers'[w] = workers[w] /\ (workers[w].pc = "idle" \/ Cr(w) # c)
        \/ workers'[w] = Outdated(workers[w])
    BY DEF CreateOrEdit, Outdated
  <2> QED BY <1>10, <2>1, <2>2 DEF Bystander, Cr
<1>15. Shape' BY <1>1, <1>3, <1>10, <1>13 DEF Shape, Base
<1>16. budget'.edits >= budget.edits BY <1>1, <1>2 DEF n
<1> QED BY <1>3, <1>11, <1>12, <1>14, <1>15, <1>16 DEF StepOK, EnvStepOK

\* A deletion request for one resource meets ObjStep.
LEMMA DeletedFacts ==
  ASSUME Base, NEW c \in CRs, objs[c].exists, objs' = [objs EXCEPT ![c] = Deleted(@)],
         budget'.edits = budget.edits
  PROVE  /\ \A d \in CRs : ObjStep(d)
         /\ objs' = [d \in CRs |-> objs'[d]]
         /\ objs'[c] = Deleted(objs[c])
         /\ \A d \in CRs : d # c => objs'[d] = objs[d]
<1> DEFINE o == Deleted(objs[c])
<1>1. objs[c] \in ObjType /\ ObjOK(objs[c], c, budget.edits) BY ObjFacts
<1>2. ObjOK(o, c, budget.edits) BY <1>1, EditsNat, WrittenOK DEF Base
<1>3. /\ o.gen = objs[c].gen /\ o.spec = objs[c].spec
      /\ Holds(objs[c]) => Holds(o)
      /\ objs[c].deleting => o.deleting
  BY <1>1 DEF Deleted, ObjType, Holds
<1>4. objs' = [objs EXCEPT ![c] = o] BY DEF Base, Shape
<1> HIDE DEF o
<1>5. /\ \A d \in CRs : ObjStep(d)
      /\ objs' = [d \in CRs |-> objs'[d]]
      /\ objs'[c] = o
      /\ \A d \in CRs : d # c => objs'[d] = objs[d]
  BY <1>2, <1>3, <1>4, ObjWrite
<1> QED BY <1>5 DEF o

\* A deletion request keeps the base invariant.
LEMMA DeleteResourceStep ==
  ASSUME Base, NEW c \in CRs, DeleteResource(c)
  PROVE  EnvStepOK
<1>1. /\ DOMAIN budget' = DOMAIN Bounds /\ budget'.edits = budget.edits
      /\ \A j \in DOMAIN Bounds : budget'[j] \in 0..Bounds[j]
  BY SpendFacts DEF DeleteResource, Base
<1>2. UNCHANGED <<seen, watches, queue, index, remote, generator, bundle, crd>>
  BY DEF DeleteResource, envRest
<1>3. /\ \A d \in CRs : ObjStep(d)
      /\ objs' = [d \in CRs |-> objs'[d]]
      /\ \A d \in CRs : d # c => objs'[d] = objs[d]
  BY <1>1, DeletedFacts DEF DeleteResource
<1>4. workers' = [w \in Workers |-> workers'[w]] BY DEF DeleteResource
<1>5. ASSUME NEW w \in Workers PROVE Bystander(w)
  <2>1. Cr(w) \in CRs BY WorkerFacts
  <2>2. \/ workers'[w] = workers[w] /\ (workers[w].pc = "idle" \/ Cr(w) # c)
        \/ workers'[w] = Outdated(workers[w])
    BY DEF DeleteResource, Outdated
  <2> QED BY <1>3, <2>1, <2>2 DEF Bystander, Cr
<1>6. Shape' BY <1>1, <1>2, <1>3, <1>4 DEF Shape, Base
<1>7. budget.edits \in Nat BY EditsNat DEF Base
<1> QED BY <1>1, <1>2, <1>3, <1>5, <1>6, <1>7 DEF StepOK, EnvStepOK

\* What the API server does to the definition keeps the base invariant.
LEMMA CRDProgressStep == Base /\ CRDProgress => EnvStepOK
<1> SUFFICES ASSUME Base, CRDProgress PROVE EnvStepOK OBVIOUS
<1>1. /\ UNCHANGED <<seen, watches, queue, index, remote, generator, bundle, budget>>
      /\ crd' \in {"absent", "establishing", "established", "terminating", "foreign"}
  BY DEF CRDProgress, envRest
<1>2. CASE UNCHANGED <<objs, workers>>
  <2>1. Shape' BY <1>1, <1>2 DEF Shape, Base
  <2> QED BY <1>1, <1>2, <2>1, QuietStep, StillWorkers DEF EnvStepOK
<1>3. CASE ~UNCHANGED <<objs, workers>>
  <2>1. PICK c \in CRs : objs[c].exists /\ objs' = [objs EXCEPT ![c] = Deleted(@)]
    BY <1>3 DEF CRDProgress
  <2>2. /\ \A d \in CRs : ObjStep(d)
        /\ objs' = [d \in CRs |-> objs'[d]]
    BY <1>1, <2>1, DeletedFacts
  <2>3. workers' = [w \in Workers |-> IF workers[w].pc # "idle"
                       THEN [workers[w] EXCEPT !.stale = TRUE] ELSE workers[w]]
    BY <1>3 DEF CRDProgress
  <2>4. \A w \in Workers : Bystander(w) BY <2>3 DEF Bystander, Outdated
  <2>5. Shape' BY <1>1, <2>2, <2>3 DEF Shape, Base
  <2>6. budget.edits \in Nat BY EditsNat DEF Base
  <2> QED BY <1>1, <2>2, <2>4, <2>5, <2>6 DEF StepOK, EnvStepOK
<1> QED BY <1>2, <1>3

\* A restart of the operator keeps the base invariant: workers, informers,
\* queue and index start over.
LEMMA CrashStep == Base /\ Crash => StepOK
<1> SUFFICES ASSUME Base, Crash PROVE StepOK OBVIOUS
<1>1. /\ DOMAIN budget' = DOMAIN Bounds /\ budget'.edits = budget.edits
      /\ \A j \in DOMAIN Bounds : budget'[j] \in 0..Bounds[j]
  BY SpendFacts DEF Crash, Base
<1>2. budget.edits \in Nat BY EditsNat DEF Base
<1>3. generator' \in GeneratorType BY GeneratorFields DEF Crash, Base, Shape, GeneratorType
<1>4. Summary(NoObj) \in SeenType /\ Summary(NoObj).gen = 0
  BY ConstantsAssumption DEF Summary, NoObj, SeenType
<1>5. seen' = [v \in Versions |-> [c \in CRs |-> Summary(NoObj)]] BY DEF Crash
<1>6. watches' \in [Versions -> WatchType] BY DEF Crash, NoWatch, WatchType
<1>7. \A w \in Workers : Moved(w)
  <2>1. \A w \in Workers : workers'[w] = IdleWorker BY DEF Crash
  <2> QED BY <1>1, <1>2, <2>1, IdleFacts
<1>8. /\ queue' = {} /\ index' = EmptyIndex /\ UNCHANGED <<bundle, crd, objs, remote>>
      /\ workers' = [w \in Workers |-> workers'[w]]
  BY DEF Crash
<1>9. Shape'
  BY <1>1, <1>3, <1>4, <1>5, <1>6, <1>8 DEF Shape, Base, EmptyIndex
<1>10. \A c \in CRs : ObjStep(c) BY <1>1, <1>8, StillStep
<1>11. \A v \in Versions, c \in CRs : seen'[v][c].gen <= objs'[c].gen
  <2> TAKE v \in Versions, c \in CRs
  <2>1. seen'[v][c].gen = 0 BY <1>4, <1>5
  <2>2. objs'[c].gen >= 0 /\ objs'[c].gen \in Nat BY <1>8, ObjFacts
  <2> QED BY <2>1, <2>2
<1> QED BY <1>1, <1>2, <1>7, <1>9, <1>10, <1>11 DEF StepOK

\* Every action is StepOK.
LEMMA EveryStepOK == Base /\ Next => StepOK
<1> SUFFICES ASSUME Base, Next PROVE StepOK OBVIOUS
<1>1. CASE GeneratorStep
  BY <1>1, ReconcileGeneratorStep, ApplyCRDStep, EnsureWatchesStep, DeleteGeneratorStep
  DEF GeneratorStep
<1>2. ASSUME NEW w \in Workers, WorkerStep(w) PROVE StepOK
  BY <1>2, TakeItemStep, ReadStep, ClaimStep, ApplyResourceStep, AnnotateStep,
     MarkAppliedStep, RemoveRemoteStep, ReleaseStep DEF WorkerStep, WorkerStepOK
<1> QED
  BY <1>1, <1>2, GeneratorCallFailsStep, InformerSeesStep, ApplyFailsStep,
     DeleteResourceStep, CreateOrEditStep, CRDProgressStep, AdministerStep, CrashStep
  DEF Next, WorkerStepOK, EnvStepOK

\* The base invariant holds initially.
LEMMA InitBase == Init => Base
<1> SUFFICES ASSUME Init PROVE Base OBVIOUS
<1>1. Shape
  <2>1. \A k \in DOMAIN Bounds : Bounds[k] \in Nat BY ConstantsAssumption DEF Bounds
  <2>2. generator \in GeneratorType BY DEF Init, GeneratorType
  <2>3. Summary(NoObj) \in SeenType BY ConstantsAssumption DEF Summary, NoObj, SeenType
  <2>4. NoWatch \in WatchType BY DEF NoWatch, WatchType
  <2>5. DOMAIN budget = DOMAIN Bounds /\ \A k \in DOMAIN Bounds : budget[k] \in 0..Bounds[k]
    BY <2>1 DEF Init
  <2>6. seen \in [Versions -> [CRs -> SeenType]] BY <2>3 DEF Init
  <2> QED BY <2>2, <2>4, <2>5, <2>6 DEF Init, Shape, EmptyIndex
<1>2. budget.edits \in Nat BY <1>1, EditsNat
<1>3. ObjsOK BY <1>2, NoObjOK DEF Init, ObjsOK
<1>4. WorkersOK BY <1>2, IdleOK DEF Init, WorkersOK
<1>5. SeenBehind
  <2>1. NoObj.gen = 0 BY DEF NoObj
  <2> QED BY <2>1 DEF Init, SeenBehind, Summary
<1>6. ItemsApart /\ Fresh
  <2>1. \A w \in Workers : workers[w].pc = "idle" BY DEF Init, IdleWorker
  <2> QED BY <2>1 DEF ItemsApart, Fresh, PastRead
<1> QED BY <1>1, <1>3, <1>4, <1>5, <1>6 DEF Base

\* The base invariant survives stuttering.
LEMMA StutterBase == Base /\ UNCHANGED vars => Base'
BY DEF vars, Base, Shape, ObjsOK, WorkersOK, SeenBehind, ItemsApart, Fresh

\* The base invariant is an invariant of the specification, whatever the
\* numbers of resources, versions and workers.
THEOREM BaseInvariance == Spec => []Base
<1>1. Base /\ [Next]_vars => Base' BY EveryStepOK, StepKeepsBase, StutterBase
<1> QED BY <1>1, InitBase, PTL DEF Spec

\* The type invariant holds in every reachable state.
THEOREM TypeCorrect == Spec => []TypeOK
BY BaseInvariance, BaseTypes, PTL

-----------------------------------------------------------------------------
\* One served version, or one worker: then the work queue, whose items carry
\* the version (generatedWorkItem), lets one worker serve a resource at a time.
OneServer ==
  (\A v, x \in Versions : v = x) \/ (\A u, w \in Workers : u = w)

\* A worker that applies, annotates or reports works on a resource that holds
\* its finalizer; one that removes works on a resource that is being deleted,
\* and before the release the remote resource is gone.
HeldBy(w) ==
  /\ workers[w].pc \in {"apply", "annotate", "status"} => Holds(Stored(w))
  /\ workers[w].pc = "claim" /\ Copy(w).finalizer => Holds(Stored(w))
  /\ workers[w].pc = "release" => Holds(Stored(w)) /\ Stored(w).deleting
  /\ workers[w].pc = "remove" /\ Copy(w).finalizer =>
       Holds(Stored(w)) /\ Stored(w).deleting
  /\ workers[w].pc = "release" /\ Copy(w).spec.policy = "Delete" =>
       FinalPath(w) # NoPath /\ remote[FinalPath(w)] = Absent

Live(c) == objs[c].exists /\ ~objs[c].deleting

\* Some informer is behind, or the resource is in the queue.
Pending(c) == \E v \in Versions : seen[v][c].gen # objs[c].gen \/ SyncItem(c, v) \in queue

\* The managed service has the payload of the stored spec at its path.
Applied(c) == /\ PathOf(objs[c], c) # NoPath
              /\ remote[PathOf(objs[c], c)] = objs[c].spec.payload

\* The spec a worker is about to apply is the stored one, or there is more to do.
CurrentBy(w) ==
  workers[w].pc \in {"claim", "apply"} /\ Live(Cr(w)) =>
    Copy(w).spec = Stored(w).spec \/ Pending(Cr(w))

\* What a worker is about to report is applied, or there is more to do.
AppliedBy(w) ==
  workers[w].pc \in {"annotate", "status"} /\ Live(Cr(w)) =>
    Applied(Cr(w)) \/ Pending(Cr(w))

AboutToApply(w, c) ==
  Cr(w) = c /\ workers[w].item.kind = "sync" /\ workers[w].pc \in {"read", "claim", "apply"}

\* A ready status for the current generation is true, or will be made true.
StatusTrue(c) ==
  Live(c) /\ objs[c].ready /\ objs[c].observed = objs[c].gen =>
    Applied(c) \/ Pending(c) \/ \E w \in Workers : AboutToApply(w, c)

\* The remote resource a finalizer took along has not come back.
RemovedOf(c) == ~objs[c].exists /\ objs[c].removed # NoPath => remote[objs[c].removed] = Absent

\* The invariant of serving resources, worker by worker and resource by resource.
ServingInv ==
  /\ \A w \in Workers : HeldBy(w) /\ CurrentBy(w) /\ AppliedBy(w)
  /\ \A c \in CRs : StatusTrue(c) /\ RemovedOf(c)

RemoteSame(c) == \A p \in Collections \X {c} : remote'[p] = remote[p]

\* Work on c stays pending, and an edit makes it pending.
PendingKept(c) ==
  objs'[c].exists /\ (Pending(c) \/ objs'[c].gen # objs[c].gen) => Pending(c)'

\* The step leaves worker u's resource in place, there and remotely.
Safe(u) ==
  workers[u].pc \in PastRead =>
    RemoteSame(Cr(u)) /\ (Holds(Stored(u)) => objs'[Cr(u)].exists)

\* The step does not make c ready.
StatusKept(c) ==
  objs'[c].gen = objs[c].gen /\ objs'[c].ready =>
    objs[c].ready /\ objs'[c].observed = objs[c].observed

\* Worker u's part of ServingInv after the step.
Fine(u) ==
  /\ HeldBy(u)' /\ CurrentBy(u)' /\ AppliedBy(u)'
  /\ \A c \in CRs : AboutToApply(u, c) =>
       AboutToApply(u, c)' \/ ~Live(c)' \/ Pending(c)' \/ Applied(c)'

\* What every action but TakeItem does, in the terms of ServingInv.
StepServes ==
  /\ \A c \in CRs : PendingKept(c)
  /\ \A u \in Workers : (Bystander(u) /\ Safe(u)) \/ Fine(u)
  /\ \A c \in CRs : (RemoteSame(c) /\ StatusKept(c)) \/ StatusTrue(c)'
  /\ \A c \in CRs :
       \/ /\ RemoteSame(c)
          /\ objs[c].exists /\ ~objs'[c].exists => objs'[c].removed = NoPath
       \/ RemovedOf(c)'

\* A spec that is applied stays applied while neither the resource's
\* generation nor its remote resources change.
LEMMA AppliedKept ==
  ASSUME Base, StepOK, NEW c \in CRs, Applied(c), RemoteSame(c),
         objs'[c].gen = objs[c].gen
  PROVE  Applied(c)'
<1>1. objs'[c].spec = objs[c].spec BY DEF StepOK, ObjStep
<1>2. PathOf(objs[c], c) \in Collections \X {c}
  BY ObjFacts, PathTypes DEF Applied
<1>3. PathOf(objs'[c], c) = PathOf(objs[c], c) BY <1>1 DEF PathOf
<1> QED BY <1>1, <1>2, <1>3 DEF Applied, RemoteSame

\* A resource is live after a step only if it was, or was edited.
LEMMA LiveBefore ==
  ASSUME Base, StepOK, NEW c \in CRs, Live(c)', objs'[c].gen = objs[c].gen
  PROVE  Live(c)
BY DEF StepOK, ObjStep, Live

\* A bystander whose resource and remote resources are left in place keeps
\* its part of ServingInv.
LEMMA BystanderFine ==
  ASSUME Base, StepOK, ServingInv, NEW u \in Workers, Bystander(u), Safe(u),
         \A c \in CRs : PendingKept(c)
  PROVE  Fine(u)
<1>1. /\ workers'[u].pc = workers[u].pc /\ workers'[u].item = workers[u].item
      /\ workers'[u].obj = workers[u].obj
  BY BystanderKept
<1>2. Cr(u) \in CRs /\ Cr(u)' = Cr(u) /\ Copy(u)' = Copy(u) /\ FinalPath(u)' = FinalPath(u)
  BY <1>1, WorkerFacts DEF Cr, Copy, FinalPath
<1>3. \A c \in CRs : AboutToApply(u, c) => AboutToApply(u, c)'
  BY <1>1, <1>2 DEF AboutToApply
<1>4. HeldBy(u) /\ CurrentBy(u) /\ AppliedBy(u) BY DEF ServingInv
<1>5. Stored(u)' = objs'[Cr(u)] /\ Stored(u) = objs[Cr(u)] BY <1>2 DEF Stored
<1>6. ObjStep(Cr(u)) BY <1>2 DEF StepOK
<1>7. HeldBy(u)'
  <2>1. workers[u].pc \in PastRead /\ Holds(Stored(u)) =>
          Holds(Stored(u)') /\ (Stored(u).deleting => Stored(u)'.deleting)
    BY <1>5, <1>6 DEF Safe, ObjStep
  <2>2. workers[u].pc = "release" => workers[u].pc \in PastRead
    BY DEF PastRead, WorkerSteps
  <2>3. workers[u].pc = "release" /\ FinalPath(u) # NoPath =>
          remote'[FinalPath(u)] = remote[FinalPath(u)]
    BY <2>2, FinalPathType DEF Safe, RemoteSame, OwnPaths
  <2>4. workers[u].pc \in {"apply", "annotate", "status", "claim", "remove", "release"} =>
          workers[u].pc \in PastRead
    BY DEF PastRead, WorkerSteps
  <2> QED BY <1>1, <1>2, <1>4, <2>1, <2>3, <2>4 DEF HeldBy
<1>8. CurrentBy(u)'
  <2> SUFFICES ASSUME workers[u].pc \in {"claim", "apply"}, Live(Cr(u))', ~Pending(Cr(u))'
               PROVE  Copy(u).spec = Stored(u)'.spec
    BY <1>1, <1>2 DEF CurrentBy
  <2>1. objs'[Cr(u)].exists BY <1>2 DEF Live
  <2>2. ~Pending(Cr(u)) /\ objs'[Cr(u)].gen = objs[Cr(u)].gen
    BY <1>2, <2>1 DEF PendingKept
  <2>3. Live(Cr(u)) BY <1>2, <2>2, LiveBefore
  <2>4. Copy(u).spec = Stored(u).spec BY <1>4, <2>2, <2>3 DEF CurrentBy
  <2> QED BY <1>5, <1>6, <2>2, <2>4 DEF ObjStep
<1>9. AppliedBy(u)'
  <2> SUFFICES ASSUME workers[u].pc \in {"annotate", "status"}, Live(Cr(u))', ~Pending(Cr(u))'
               PROVE  Applied(Cr(u))'
    BY <1>1, <1>2 DEF AppliedBy
  <2>1. objs'[Cr(u)].exists BY <1>2 DEF Live
  <2>2. ~Pending(Cr(u)) /\ objs'[Cr(u)].gen = objs[Cr(u)].gen
    BY <1>2, <2>1 DEF PendingKept
  <2>3. Live(Cr(u)) BY <1>2, <2>2, LiveBefore
  <2>4. Applied(Cr(u)) BY <1>4, <2>2, <2>3 DEF AppliedBy
  <2>5. workers[u].pc \in PastRead BY DEF PastRead, WorkerSteps
  <2>6. RemoteSame(Cr(u)) BY <2>5 DEF Safe
  <2> QED BY <1>2, <2>2, <2>4, <2>6, AppliedKept
<1> QED BY <1>3, <1>7, <1>8, <1>9 DEF Fine

\* ServingInv survives every step that is StepServes: each action is
\* reduced to StepServes below.
LEMMA StepKeepsServing ==
  ASSUME Base, StepOK, ServingInv, StepServes
  PROVE  ServingInv'
<1>1. \A u \in Workers : Fine(u) BY BystanderFine DEF StepServes
<1>2. \A u \in Workers : HeldBy(u)' /\ CurrentBy(u)' /\ AppliedBy(u)' BY <1>1 DEF Fine
<1>3. ASSUME NEW c \in CRs PROVE StatusTrue(c)'
  <2> SUFFICES ASSUME RemoteSame(c), StatusKept(c), Live(c)', objs'[c].ready,
                      objs'[c].observed = objs'[c].gen, ~Applied(c)', ~Pending(c)'
               PROVE  \E w \in Workers : AboutToApply(w, c)'
    BY DEF StatusTrue, StepServes
  <2>1. objs'[c].exists BY DEF Live
  <2>2. ~Pending(c) /\ objs'[c].gen = objs[c].gen BY <2>1 DEF StepServes, PendingKept
  <2>3. Live(c) /\ objs[c].ready /\ objs[c].observed = objs[c].gen
    BY <2>2, LiveBefore DEF StatusKept
  <2>4. ~Applied(c) BY <2>2, AppliedKept
  <2>5. PICK w \in Workers : AboutToApply(w, c)
    BY <2>2, <2>3, <2>4 DEF ServingInv, StatusTrue
  <2> QED BY <1>1, <2>1, <2>5 DEF Fine
<1>4. ASSUME NEW c \in CRs PROVE RemovedOf(c)'
  <2> SUFFICES ASSUME RemoteSame(c),
                      objs[c].exists /\ ~objs'[c].exists => objs'[c].removed = NoPath,
                      ~objs'[c].exists, objs'[c].removed # NoPath
               PROVE  remote'[objs'[c].removed] = Absent
    BY DEF RemovedOf, StepServes
  <2>1. ~objs[c].exists /\ objs'[c].removed = objs[c].removed
    BY DEF StepOK, ObjStep
  <2>2. remote[objs[c].removed] = Absent BY <2>1 DEF ServingInv, RemovedOf
  <2>3. objs[c].removed \in Collections \X {c}
    BY <2>1, ObjFacts DEF ObjOK, OwnPaths
  <2> QED BY <2>1, <2>2, <2>3 DEF RemoteSame
<1> QED BY <1>2, <1>3, <1>4 DEF ServingInv

\* Pending work stays pending while informers see nothing and the queue
\* only grows.
LEMMA PendingMonotone ==
  ASSUME Base, StepOK, seen' = seen, queue \subseteq queue'
  PROVE  \A c \in CRs : PendingKept(c)
<1> SUFFICES ASSUME NEW c \in CRs, Pending(c) \/ objs'[c].gen # objs[c].gen
             PROVE  Pending(c)'
  BY DEF PendingKept
<1>1. CASE objs'[c].gen # objs[c].gen
  <2>1. PICK v \in Versions : TRUE BY ConstantsAssumption
  <2>2. seen[v][c].gen <= objs[c].gen BY DEF Base, SeenBehind
  <2>3. objs'[c].gen >= objs[c].gen BY DEF StepOK, ObjStep
  <2>4. objs[c].gen \in Nat /\ seen[v][c].gen \in Nat /\ objs'[c].gen \in Nat
    <3>1. seen[v][c] \in SeenType BY DEF Base, Shape
    <3>2. objs'[c] \in ObjType BY DEF StepOK, ObjStep, ObjOK
    <3> QED BY <3>1, <3>2, ObjFacts, ConstantsAssumption DEF SeenType, ObjType
  <2>5. seen[v][c].gen # objs'[c].gen BY <1>1, <2>2, <2>3, <2>4
  <2> QED BY <2>1, <2>5 DEF Pending
<1>2. CASE objs'[c].gen = objs[c].gen BY <1>2 DEF Pending
<1> QED BY <1>1, <1>2

\* A step that leaves resources and the managed service alone.
LEMMA QuietServes ==
  ASSUME Base, StepOK, ServingInv, UNCHANGED <<objs, remote>>,
         \A u \in Workers : Bystander(u) \/ Fine(u),
         \A c \in CRs : PendingKept(c)
  PROVE  StepServes
<1>1. \A u \in Workers : Safe(u) BY DEF Safe, RemoteSame, Holds, Stored
<1> QED BY <1>1 DEF StepServes, RemoteSame, StatusKept

\* A worker may become idle when what it was about to apply is applied,
\* pending or gone.
LEMMA IdleFine ==
  ASSUME NEW w \in Workers, workers'[w] = IdleWorker,
         \A c \in CRs : AboutToApply(w, c) => ~Live(c)' \/ Pending(c)' \/ Applied(c)'
  PROVE  Fine(w)
<1>1. workers'[w].pc = "idle" BY DEF IdleWorker
<1> QED BY <1>1 DEF Fine, HeldBy, CurrentBy, AppliedBy

\* A worker may give up once its item is back in the queue.
LEMMA RequeueFine ==
  ASSUME Base, NEW w \in Workers, workers'[w] = IdleWorker, queue' = Requeued(w)
  PROVE  /\ Fine(w)
         /\ workers[w].item.kind = "sync" => \A d : d = Cr(w) => Pending(d)'
<1>1. workers[w].item.kind = "sync" => workers[w].item = SyncItem(Cr(w), workers[w].item.ver)
  <2>1. workers[w].item \in ItemType /\ workers[w].item \in Items BY WorkerFacts
  <2> QED BY <2>1 DEF Items, ItemType, SyncItem, Cr
<1>2. workers[w].item.ver \in Versions BY WorkerFacts
<1>3. workers[w].item \in queue' BY DEF Requeued
<1>4. ASSUME workers[w].item.kind = "sync" PROVE \A d : d = Cr(w) => Pending(d)'
  BY <1>1, <1>2, <1>3, <1>4 DEF Pending
<1>5. Fine(w)
  BY <1>4, IdleFine DEF AboutToApply
<1> QED BY <1>4, <1>5

\* Under OneServer no two workers past their read serve one resource: the
\* items differ, and with one version items differ only in the resource.
LEMMA ServerUnique ==
  ASSUME Base, OneServer, NEW u \in Workers, NEW w \in Workers, u # w,
         workers[u].pc \in PastRead, workers[w].pc # "idle",
         workers[w].item = SyncItem(Cr(w), workers[w].item.ver)
  PROVE  Cr(u) # Cr(w)
<1>1. workers[u].item = SyncItem(Cr(u), workers[u].item.ver) BY CopyFacts
<1>2. workers[u].pc # "idle" BY DEF PastRead
<1>3. workers[u].item # workers[w].item BY <1>2 DEF Base, ItemsApart
<1>4. workers[u].item.ver = workers[w].item.ver BY WorkerFacts DEF OneServer
<1> QED BY <1>1, <1>3, <1>4

\* A step of worker w that only touches its own resource, there and remotely.
LEMMA WorkerServes ==
  ASSUME Base, OneServer, ServingInv, NEW w \in Workers, WorkerStepOK(w),
         workers[w].pc \in PastRead,
         \A d \in CRs : d # Cr(w) => RemoteSame(d),
         seen' = seen, queue \subseteq queue', Fine(w),
         NEW c, c = Cr(w),
         (RemoteSame(c) /\ StatusKept(c)) \/ StatusTrue(c)',
         (RemoteSame(c) /\ (objs[c].exists /\ ~objs'[c].exists => objs'[c].removed = NoPath))
           \/ RemovedOf(c)'
  PROVE  StepServes
<1>1. StepOK /\ \A d \in CRs : PendingKept(d)
  BY PendingMonotone DEF WorkerStepOK
<1>2. workers[w].item = SyncItem(Cr(w), workers[w].item.ver) /\ workers[w].pc # "idle"
  BY CopyFacts DEF PastRead
<1>3. ASSUME NEW u \in Workers, u # w PROVE Bystander(u) /\ Safe(u)
  <2>1. Bystander(u) BY <1>3 DEF WorkerStepOK
  <2>2. Cr(u) \in CRs BY WorkerFacts
  <2>3. workers[u].pc \in PastRead => Cr(u) # Cr(w) BY <1>2, <1>3, ServerUnique
  <2>4. workers[u].pc \in PastRead => objs'[Cr(u)] = objs[Cr(u)]
    BY <2>2, <2>3 DEF WorkerStepOK
  <2> QED BY <2>1, <2>2, <2>3, <2>4 DEF Safe, Holds, Stored
<1>4. \A d \in CRs : d # Cr(w) => StatusKept(d) /\ objs'[d] = objs[d]
  BY DEF WorkerStepOK, StatusKept
<1>5. c \in CRs BY WorkerFacts
<1> QED BY <1>1, <1>3, <1>4, <1>5 DEF StepServes

\* Resources exist only while the definition does, and a generator is gone
\* only when definition, watches and index entries are.
GoneClean ==
  /\ crd \in {"absent", "establishing", "foreign"} => \A c \in CRs : ~objs[c].exists
  /\ ~generator.exists =>
       /\ generator.pc = "idle" /\ crd = "absent"
       /\ \A v \in Versions : ~watches[v].registered
       /\ index = EmptyIndex

\* The environment: resources are edited and deleted, nothing else.
LEMMA EnvServes ==
  ASSUME Base, EnvStepOK, ServingInv, UNCHANGED <<remote, seen, queue>>,
         NEW c \in CRs, \A d \in CRs : d # c => objs'[d] = objs[d],
         StatusKept(c), Holds(objs[c]) => objs'[c].exists,
         objs[c].exists /\ ~objs'[c].exists => objs'[c].removed = NoPath
  PROVE  StepServes
<1>1. StepOK /\ \A d \in CRs : PendingKept(d) BY PendingMonotone DEF EnvStepOK
<1>2. \A u \in Workers : Cr(u) \in CRs BY WorkerFacts
<1>3. \A u \in Workers : Safe(u) BY <1>2 DEF Safe, RemoteSame, Holds, Stored
<1>4. \A d \in CRs : StatusKept(d) BY DEF StatusKept
<1> QED BY <1>1, <1>3, <1>4 DEF StepServes, RemoteSame, EnvStepOK

\* Creating and editing: the new generation is unseen, so work is pending.
LEMMA CreateOrEditServes ==
  ASSUME Base, ServingInv, NEW c \in CRs, NEW s \in Specs, CreateOrEdit(c, s)
  PROVE  StepServes
<1>1. EnvStepOK BY CreateOrEditStep
<1>2. UNCHANGED <<remote, seen, queue>> BY DEF CreateOrEdit, envRest
<1>3. DOMAIN objs = CRs BY DEF Base, Shape
<1>4. objs[c] \in ObjType /\ objs[c].gen \in Nat BY ObjFacts
<1>5. NoObj \in ObjType /\ 0 \in Nat BY NoObjOK DEF ObjOK
<1>6. objs'[c].exists /\ objs'[c].gen = objs[c].gen + 1
      /\ \A d \in CRs : d # c => objs'[d] = objs[d]
  <2>1. PICK g : g = objs[c].gen + 1 OBVIOUS
  <2>2. CASE ~objs[c].exists
    <3>1. objs' = [objs EXCEPT ![c] = [NoObj EXCEPT !.exists = TRUE, !.spec = s, !.gen = g]]
      BY <2>1, <2>2 DEF CreateOrEdit
    <3> QED BY <1>3, <1>5, <2>1, <3>1 DEF ObjType
  <2>3. CASE objs[c].exists
    <3>1. objs' = [objs EXCEPT ![c] = [objs[c] EXCEPT !.spec = s, !.gen = g]]
      BY <1>3, <2>1, <2>3 DEF CreateOrEdit
    <3> QED BY <1>3, <1>4, <2>1, <2>3, <3>1 DEF ObjType
  <2> QED BY <2>2, <2>3
<1>7. StatusKept(c) BY <1>4, <1>6 DEF StatusKept
<1> QED BY <1>1, <1>2, <1>6, <1>7, EnvServes

\* A deletion request takes away only resources without a finalizer.
LEMMA DeletedServes ==
  ASSUME Base, ServingInv, EnvStepOK, UNCHANGED <<remote, seen, queue>>,
         NEW c \in CRs, objs[c].exists, objs' = [objs EXCEPT ![c] = Deleted(@)]
  PROVE  StepServes
<1>1. DOMAIN objs = CRs BY DEF Base, Shape
<1>2. objs[c] \in ObjType /\ objs[c].removed = NoPath BY ObjFacts DEF ObjOK
<1>3. objs'[c] = Deleted(objs[c]) /\ \A d \in CRs : d # c => objs'[d] = objs[d] BY <1>1
<1>4. /\ Deleted(objs[c]).ready = objs[c].ready
      /\ Deleted(objs[c]).observed = objs[c].observed
      /\ Deleted(objs[c]).removed = objs[c].removed
      /\ Holds(objs[c]) => Deleted(objs[c]).exists
  BY <1>2 DEF Deleted, ObjType, Holds
<1>5. StatusKept(c) BY <1>3, <1>4 DEF StatusKept
<1> QED BY <1>2, <1>3, <1>4, <1>5, EnvServes

\* Users and API server keep ServingInv.
LEMMA EnvironmentServes ==
  ASSUME Base, ServingInv,
         CRDProgress \/ \E c \in CRs : DeleteResource(c) \/ (\E s \in Specs : CreateOrEdit(c, s))
  PROVE  StepServes
<1>1. ASSUME NEW c \in CRs, DeleteResource(c) PROVE StepServes
  BY <1>1, DeleteResourceStep, DeletedServes DEF DeleteResource, envRest
<1>2. CASE CRDProgress
  <2>1. EnvStepOK /\ UNCHANGED <<remote, seen, queue>>
    BY <1>2, CRDProgressStep DEF CRDProgress, envRest
  <2>2. CASE UNCHANGED objs
    <3>1. StepOK /\ \A c \in CRs : PendingKept(c) BY <2>1, PendingMonotone DEF EnvStepOK
    <3> QED BY <2>1, <2>2, <3>1, QuietServes DEF EnvStepOK
  <2>3. CASE ~UNCHANGED objs
    <3>1. PICK c \in CRs : objs[c].exists /\ objs' = [objs EXCEPT ![c] = Deleted(@)]
      BY <1>2, <2>3 DEF CRDProgress
    <3> QED BY <2>1, <3>1, DeletedServes
  <2> QED BY <2>2, <2>3
<1> QED BY <1>1, <1>2, CreateOrEditServes

\* The CRDGenerator controller keeps ServingInv.
LEMMA GeneratorServes ==
  ASSUME Base, ServingInv, GeneratorStep \/ GeneratorCallFails \/ Administer
  PROVE  StepServes
<1>1. StepOK
  BY ReconcileGeneratorStep, ApplyCRDStep, EnsureWatchesStep, DeleteGeneratorStep,
     GeneratorCallFailsStep, AdministerStep DEF GeneratorStep
<1>2. UNCHANGED <<objs, workers, remote, seen>> /\ queue \subseteq queue'
  BY DEF GeneratorStep, ReconcileGenerator, ApplyCRD, EnsureWatches, DeleteGenerator,
         GeneratorCallFails, Administer, genRest, envRest
<1> QED BY <1>1, <1>2, StillWorkers, PendingMonotone, QuietServes

\* An informer event keeps ServingInv: what it stops being behind on is
\* put into the queue.
LEMMA InformerServes ==
  ASSUME Base, ServingInv, NEW c \in CRs, NEW v \in Versions, InformerSees(c, v)
  PROVE  StepServes
<1>1. StepOK /\ UNCHANGED <<objs, workers, remote>>
  BY InformerSeesStep DEF InformerSees
<1>2. \A d \in CRs : PendingKept(d)
  <2> SUFFICES ASSUME NEW d \in CRs, objs[d].exists, Pending(d) PROVE Pending(d)'
    BY <1>1 DEF PendingKept
  <2>1. PICK x \in Versions : seen[x][d].gen # objs[d].gen \/ SyncItem(d, x) \in queue
    BY DEF Pending
  <2>2. queue \subseteq queue' BY DEF InformerSees
  <2>3. CASE SyncItem(d, x) \in queue BY <2>2, <2>3 DEF Pending
  <2>4. CASE seen[x][d].gen # objs[d].gen /\ (x # v \/ d # c)
    <3>1. seen'[x][d] = seen[x][d] BY <2>4 DEF InformerSees, Base, Shape
    <3> QED BY <1>1, <2>4, <3>1 DEF Pending
  <2>5. CASE seen[x][d].gen # objs[d].gen /\ x = v /\ d = c
    <3>1. Summary(objs[c]).exists /\ Summary(objs[c]).gen = objs[c].gen
      BY <2>5 DEF Summary
    <3>2. EventItems(c, v) = {SyncItem(c, v)} BY <2>5, <3>1 DEF EventItems
    <3>3. SyncItem(c, v) \in queue' BY <3>2 DEF InformerSees
    <3> QED BY <2>5, <3>3 DEF Pending
  <2> QED BY <2>1, <2>3, <2>4, <2>5
<1> QED BY <1>1, <1>2, StillWorkers, QuietServes

\* A restart keeps ServingInv: the informers start with nothing seen, so
\* all live resources are pending again.
LEMMA CrashServes ==
  ASSUME Base, ServingInv, Crash
  PROVE  StepServes
<1>1. StepOK /\ UNCHANGED <<objs, remote>> BY CrashStep DEF Crash
<1>2. \A d \in CRs : objs'[d].exists => Pending(d)'
  <2> SUFFICES ASSUME NEW d \in CRs, objs[d].exists PROVE Pending(d)' BY <1>1
  <2>1. PICK v \in Versions : TRUE BY ConstantsAssumption
  <2>2. seen'[v][d].gen = 0 BY DEF Crash, Summary, NoObj
  <2>3. objs[d].gen >= 1 /\ objs[d].gen \in Nat BY ObjFacts DEF ObjOK
  <2>4. seen'[v][d].gen # objs[d].gen BY <2>2, <2>3
  <2> QED BY <1>1, <2>4 DEF Pending
<1>3. \A d \in CRs : PendingKept(d) BY <1>2 DEF PendingKept
<1>4. \A u \in Workers : workers'[u] = IdleWorker BY DEF Crash
<1>5. \A u \in Workers : Fine(u) BY <1>2, <1>4, IdleFine DEF Live
<1> QED BY <1>1, <1>3, <1>5, QuietServes

-----------------------------------------------------------------------------
\* Taking an item: what was pending is now about to be applied.
LEMMA TakeItemKeepsServing ==
  ASSUME Base, OneServer, ServingInv, NEW w \in Workers, TakeItem(w)
  PROVE  ServingInv'
<1>1. /\ workers[w].pc = "idle"
      /\ UNCHANGED <<objs, remote, seen>>
  BY DEF TakeItem, At, objRest
<1>2. PICK i \in queue :
        /\ \A u \in Workers : workers[u].pc # "idle" => workers[u].item # i
        /\ queue' = queue \ {i}
        /\ workers' = [workers EXCEPT ![w].pc = "read", ![w].item = i]
  BY DEF TakeItem
<1>3. i \in Items /\ i \in ItemType /\ DOMAIN workers = Workers /\ workers[w] \in WorkerType
  BY WorkerFacts DEF Base, Shape, Items
<1>4. \A u \in Workers : u # w => workers'[u] = workers[u] BY <1>2, <1>3
<1>5. workers'[w].pc = "read" /\ workers'[w].item = i
  BY <1>2, <1>3 DEF WorkerType
<1>6. \A c \in CRs : Applied(c)' <=> Applied(c) BY <1>1 DEF Applied
<1>7. \A c \in CRs : Live(c)' <=> Live(c) BY <1>1 DEF Live
<1>8. ASSUME NEW c \in CRs, Pending(c), ~Pending(c)'
      PROVE  i.cr = c /\ i.kind = "sync" /\ i = SyncItem(c, i.ver)
  <2>1. PICK v \in Versions : seen[v][c].gen # objs[c].gen \/ SyncItem(c, v) \in queue
    BY <1>8 DEF Pending
  <2>2. SyncItem(c, v) = i BY <1>1, <1>2, <1>8, <2>1 DEF Pending
  <2> QED BY <2>2 DEF SyncItem
<1>9. ASSUME NEW u \in Workers PROVE HeldBy(u)' /\ CurrentBy(u)' /\ AppliedBy(u)'
  <2>1. CASE u = w BY <1>5, <2>1 DEF HeldBy, CurrentBy, AppliedBy
  <2>2. CASE u # w
    <3>1. workers'[u] = workers[u] BY <1>4, <2>2
    <3>2. /\ Cr(u)' = Cr(u) /\ Copy(u)' = Copy(u) /\ FinalPath(u)' = FinalPath(u)
          /\ Stored(u)' = Stored(u) /\ Cr(u) \in CRs
      BY <1>1, <3>1, WorkerFacts DEF Cr, Copy, FinalPath, Stored
    <3>3. HeldBy(u) /\ CurrentBy(u) /\ AppliedBy(u) BY DEF ServingInv
    <3>4. HeldBy(u)' BY <1>1, <3>1, <3>2, <3>3 DEF HeldBy
    <3>5. workers[u].pc \in PastRead /\ Pending(Cr(u)) => Pending(Cr(u))'
      <4> SUFFICES ASSUME workers[u].pc \in PastRead, NEW c \in CRs, c = Cr(u),
                          Pending(c), ~Pending(c)'
                   PROVE  FALSE
        BY <3>2
      <4>1. i.cr = c /\ i = SyncItem(c, i.ver) BY <1>8
      <4>2. workers[u].item = SyncItem(c, workers[u].item.ver) BY CopyFacts
      <4>3. workers[u].item # i BY <1>2 DEF PastRead
      <4>4. workers[u].item.ver \in Versions /\ i.ver \in Versions
        BY <1>3, WorkerFacts DEF ItemType
      <4>5. \A v, x \in Versions : v = x BY <2>2 DEF OneServer
      <4> QED BY <4>1, <4>2, <4>3, <4>4, <4>5
    <3>6. workers[u].pc \in {"claim", "apply", "annotate", "status"} =>
            workers[u].pc \in PastRead
      BY DEF PastRead, WorkerSteps
    <3>7. CurrentBy(u)' BY <1>7, <3>1, <3>2, <3>3, <3>5, <3>6 DEF CurrentBy
    <3>8. AppliedBy(u)' BY <1>6, <1>7, <3>1, <3>2, <3>3, <3>5, <3>6 DEF AppliedBy
    <3> QED BY <3>4, <3>7, <3>8
  <2> QED BY <2>1, <2>2
<1>10. ASSUME NEW c \in CRs PROVE StatusTrue(c)' /\ RemovedOf(c)'
  <2>1. StatusTrue(c) /\ RemovedOf(c) BY DEF ServingInv
  <2>2. RemovedOf(c)' BY <1>1, <2>1 DEF RemovedOf
  <2>3. Pending(c) => Pending(c)' \/ AboutToApply(w, c)'
    BY <1>5, <1>8 DEF AboutToApply, Cr
  <2>4. \A u \in Workers : AboutToApply(u, c) => AboutToApply(u, c)'
    BY <1>1, <1>4 DEF AboutToApply, Cr
  <2>5. StatusTrue(c)' BY <1>1, <1>6, <1>7, <2>1, <2>3, <2>4 DEF StatusTrue
  <2> QED BY <2>2, <2>5
<1> QED BY <1>9, <1>10 DEF ServingInv

\* Reading the resource keeps ServingInv.
LEMMA ReadServes ==
  ASSUME Base, ServingInv, GoneClean, NEW w \in Workers, Read(w)
  PROVE  StepServes
<1>1. /\ WorkerStepOK(w) /\ workers[w].pc = "read"
      /\ UNCHANGED <<objs, remote, seen, queue>>
  BY ReadStep DEF Read, At, objRest, Done, Step
<1>2. StepOK /\ \A c \in CRs : PendingKept(c)
  BY <1>1, PendingMonotone DEF WorkerStepOK
<1>3. DOMAIN workers = Workers /\ Cr(w) \in CRs BY WorkerFacts DEF Base, Shape
<1>4. Fine(w)
  <2>1. CASE Done(w)
    <3>1. workers'[w] = IdleWorker BY <1>3, <2>1 DEF Done
    <3>2. CASE workers[w].item.kind = "delete"
      <4>1. \A c \in CRs : ~AboutToApply(w, c) BY <3>2 DEF AboutToApply
      <4> QED BY <3>1, <4>1, IdleFine
    <3>3. CASE ~objs[Cr(w)].exists
      <4>1. \A c \in CRs : AboutToApply(w, c) => ~Live(c)'
        BY <1>1, <3>3 DEF AboutToApply, Live
      <4> QED BY <3>1, <4>1, IdleFine
    <3>4. CASE ~generator.exists /\ objs[Cr(w)].exists
      BY <1>3, <3>4 DEF GoneClean
    <3>5. CASE generator.exists /\ objs[Cr(w)].exists /\ workers[w].item.kind # "delete"
      <4>1. ~Stored(w).exists \/ Step(w, IF Stored(w).deleting THEN "remove" ELSE "claim",
                                      Stored(w), FALSE)
        BY <3>5 DEF Read
      <4>2. PICK pc : /\ Step(w, pc, Stored(w), FALSE) /\ pc \in {"remove", "claim"}
        BY <3>5, <4>1 DEF Stored
      <4>3. workers' = [workers EXCEPT ![w] = Advanced(workers[w], pc, Stored(w), FALSE)]
        BY <4>2, StepAdvances
      <4>4. workers[w] \in WorkerType BY WorkerFacts
      <4>5. workers'[w].pc = pc BY <1>3, <4>3, <4>4 DEF Advanced, WorkerType
      <4>6. workers'[w].pc = "idle" BY <3>1 DEF IdleWorker
      <4> QED BY <4>2, <4>5, <4>6
    <3> QED BY <3>2, <3>3, <3>4, <3>5
  <2>2. CASE ~Done(w)
    <3>1. PICK pc : /\ pc = IF Stored(w).deleting THEN "remove" ELSE "claim"
                    /\ Step(w, pc, Stored(w), FALSE) /\ Stored(w).exists
      BY <2>2 DEF Read
    <3>2. workers' = [workers EXCEPT ![w] = Advanced(workers[w], pc, Stored(w), FALSE)]
      <4>1. Step(w, pc, Stored(w), FALSE) BY <3>1
      <4> QED BY <4>1, StepAdvances
    <3>3. workers[w] \in WorkerType BY WorkerFacts
    <3>4. /\ workers'[w].pc = pc /\ workers'[w].obj = Stored(w)
          /\ workers'[w].item = workers[w].item
      BY <1>3, <3>2, <3>3 DEF Advanced, WorkerType
    <3>5. Cr(w)' = Cr(w) /\ Stored(w)' = Stored(w) /\ Copy(w)' = Stored(w)
      BY <1>1, <3>4 DEF Cr, Stored, Copy
    <3>6. HeldBy(w)' BY <3>1, <3>4, <3>5 DEF HeldBy, Holds
    <3>7. CurrentBy(w)' /\ AppliedBy(w)' BY <3>1, <3>4, <3>5 DEF CurrentBy, AppliedBy
    <3>8. \A c \in CRs : AboutToApply(w, c) => AboutToApply(w, c)' \/ ~Live(c)'
      BY <1>1, <3>1, <3>4, <3>5 DEF AboutToApply, Live, Stored
    <3> QED BY <3>6, <3>7, <3>8 DEF Fine
  <2> QED BY <2>1, <2>2
<1> QED BY <1>1, <1>2, <1>4, QuietServes DEF WorkerStepOK

\* Finalizer, path claim and conflict check keep ServingInv: a resource
\* goes on to the apply only with its finalizer stored.
LEMMA ClaimServes ==
  ASSUME Base, OneServer, ServingInv, NEW w \in Workers, Claim(w)
  PROVE  StepServes
<1> DEFINE patched == ~Copy(w).finalizer
           o == IF patched THEN [Stored(w) EXCEPT !.finalizer = TRUE] ELSE Copy(w)
<1>1. /\ WorkerStepOK(w) /\ workers[w].pc = "claim" /\ workers[w].pc \in PastRead
      /\ UNCHANGED <<remote, seen>>
  BY ClaimStep DEF Claim, At, objRest, PastRead, WorkerSteps
<1>2. PICK c \in CRs : c = Cr(w) BY WorkerFacts
<1>3. DOMAIN workers = Workers /\ DOMAIN objs = CRs BY DEF Base, Shape
<1>4. objs[c] \in ObjType /\ Stored(w) = objs[c] BY <1>2, ObjFacts DEF Stored
<1>5. \A d \in CRs : RemoteSame(d) BY <1>1 DEF RemoteSame
<1>6. HeldBy(w) /\ CurrentBy(w) BY DEF ServingInv
<1>7. /\ Copy(w) \in ObjType
      /\ workers[w].item = SyncItem(Cr(w), workers[w].item.ver)
      /\ ~workers[w].stale => Copy(w) = Stored(w)
  BY <1>1, CopyFacts
<1>8. /\ patched => /\ o.gen = objs[c].gen /\ o.spec = objs[c].spec
                    /\ o.exists = objs[c].exists /\ o.finalizer
                    /\ o.deleting = objs[c].deleting
                    /\ o.ready = objs[c].ready /\ o.observed = objs[c].observed
      /\ o \in ObjType
  <2>1. [objs[c] EXCEPT !.finalizer = TRUE] \in ObjType BY <1>4 DEF ObjType
  <2> QED BY <1>4, <1>7, <2>1, FieldsKept
<1>9. ASSUME Retry(w), UNCHANGED <<objs, index>> PROVE StepServes
  <2>1. workers'[w] = IdleWorker /\ queue' = Requeued(w) BY <1>3, <1>9 DEF Retry
  <2>2. Fine(w) BY <2>1, RequeueFine
  <2>3. queue \subseteq queue' BY <2>1 DEF Requeued
  <2>4. StepOK /\ \A d \in CRs : PendingKept(d)
    BY <1>1, <2>3, PendingMonotone DEF WorkerStepOK
  <2> QED BY <1>1, <1>9, <2>2, <2>4, QuietServes DEF WorkerStepOK
<1>10. ASSUME patched => Stored(w).exists,
              workers' = [Outdate(Cr(w), w) EXCEPT ![w] = IdleWorker],
              queue' = Requeued(w),
              objs' = IF patched \/ ~workers[w].stale
                      THEN [objs EXCEPT ![Cr(w)] = [o EXCEPT !.ready = FALSE,
                                                             !.observed = o.gen]]
                      ELSE objs
       PROVE  StepServes
  <2>1. workers'[w] = IdleWorker /\ queue \subseteq queue'
    BY <1>10, OutdateFacts DEF Requeued
  <2>2. Fine(w) BY <1>10, <2>1, RequeueFine
  <2>3. StatusKept(c) /\ (objs[c].exists => objs'[c].exists)
    <3>1. CASE patched \/ ~workers[w].stale
      <4> HIDE DEF o
      <4>1. objs'[c] = [o EXCEPT !.ready = FALSE, !.observed = o.gen]
        BY <1>2, <1>3, <1>10, <3>1
      <4>2. ~objs'[c].ready /\ objs'[c].exists = o.exists
        BY <1>8, <4>1 DEF ObjType
      <4>3. o.exists = objs[c].exists
        BY <1>2, <1>4, <1>7, <1>8, <3>1 DEF o
      <4> QED BY <4>2, <4>3 DEF StatusKept
    <3>2. CASE ~(patched \/ ~workers[w].stale) BY <1>10, <3>2 DEF StatusKept
    <3> QED BY <3>1, <3>2
  <2> QED BY <1>1, <1>2, <1>5, <2>1, <2>2, <2>3, WorkerServes
<1>11. ASSUME patched => Stored(w).exists, PathOf(o, Cr(w)) # NoPath,
              objs' = IF patched THEN [objs EXCEPT ![Cr(w)] = o] ELSE objs,
              workers' = [(IF patched THEN Outdate(Cr(w), w) ELSE workers)
                             EXCEPT ![w].pc = "apply", ![w].obj = o,
                                    ![w].stale = ~patched /\ @],
              UNCHANGED queue
       PROVE  StepServes
  <2> HIDE DEF o, patched
  <2>1. workers[w] \in WorkerType BY WorkerFacts
  <2>2. /\ workers'[w].pc = "apply" /\ workers'[w].obj = o
        /\ workers'[w].item = workers[w].item
    <3> DEFINE W == IF patched THEN Outdate(Cr(w), w) ELSE workers
    <3>1. DOMAIN W = Workers /\ W[w] = workers[w] BY <1>3, OutdateFacts
    <3> HIDE DEF W
    <3>2. workers' = [W EXCEPT ![w].pc = "apply", ![w].obj = o,
                               ![w].stale = ~patched /\ @]
      BY <1>11 DEF W
    <3> QED BY <2>1, <3>1, <3>2 DEF WorkerType
  <2>3. Cr(w)' = c /\ Copy(w)' = o /\ Stored(w)' = objs'[c]
    BY <1>2, <2>2 DEF Cr, Copy, Stored
  <2>4. /\ patched => objs'[c] = o
        /\ ~patched => objs' = objs
    BY <1>2, <1>3, <1>11
  <2>5. Holds(objs'[c])
    <3>1. CASE patched BY <1>4, <1>8, <1>11, <2>4, <3>1 DEF Holds
    <3>2. CASE ~patched BY <1>1, <1>4, <1>6, <2>4, <3>2 DEF HeldBy, patched
    <3> QED BY <3>1, <3>2
  <2>6. HeldBy(w)' BY <2>2, <2>3, <2>5 DEF HeldBy
  <2>7. \A d \in CRs : PendingKept(d)
    BY <1>1, <1>11, PendingMonotone DEF WorkerStepOK
  <2>8. CurrentBy(w)'
    <3>1. CASE patched BY <2>3, <2>4, <3>1 DEF CurrentBy
    <3>2. CASE ~patched
      <4>1. o = Copy(w) /\ objs' = objs BY <2>4, <3>2 DEF o
      <4>2. Live(c)' => Live(c) BY <4>1 DEF Live
      <4>3. Live(c) => Copy(w).spec = objs[c].spec \/ Pending(c)
        BY <1>1, <1>2, <1>4, <1>6 DEF CurrentBy
      <4>4. Pending(c) /\ Live(c) => Pending(c)' BY <2>7, <4>1 DEF PendingKept, Live
      <4>5. Live(Cr(w))' => Live(c)' BY <2>3 DEF Live
      <4>6. Pending(c)' => Pending(Cr(w))' BY <2>3 DEF Pending
      <4> QED BY <2>3, <4>1, <4>2, <4>3, <4>4, <4>5, <4>6 DEF CurrentBy
    <3> QED BY <3>1, <3>2
  <2>9. AppliedBy(w)' BY <2>2 DEF AppliedBy
  <2>10. \A d \in CRs : AboutToApply(w, d) => AboutToApply(w, d)'
    BY <1>2, <2>2, <2>3 DEF AboutToApply
  <2>11. Fine(w) BY <2>6, <2>8, <2>9, <2>10 DEF Fine
  <2>12. StatusKept(c)
    <3>1. CASE patched BY <1>8, <2>4, <3>1 DEF StatusKept
    <3>2. CASE ~patched BY <2>4, <3>2 DEF StatusKept
    <3> QED BY <3>1, <3>2
  <2> QED BY <1>1, <1>2, <1>5, <1>11, <2>5, <2>11, <2>12, WorkerServes DEF Holds
<1> QED BY <1>9, <1>10, <1>11 DEF Claim, Stored

\* What a step of worker w past its read leaves in place.
LEMMA ServerFacts ==
  ASSUME Base, ServingInv, NEW w \in Workers, workers[w].pc \in PastRead
  PROVE  /\ DOMAIN workers = Workers /\ DOMAIN objs = CRs /\ DOMAIN remote = Paths
         /\ Cr(w) \in CRs /\ Stored(w) = objs[Cr(w)] /\ objs[Cr(w)] \in ObjType
         /\ workers[w] \in WorkerType /\ Copy(w) \in ObjType
         /\ HeldBy(w) /\ CurrentBy(w) /\ AppliedBy(w)
         /\ StatusTrue(Cr(w)) /\ RemovedOf(Cr(w))
         /\ workers[w].item.kind = "sync"
<1>1. workers[w].item = SyncItem(Cr(w), workers[w].item.ver) /\ Copy(w) \in ObjType
  BY CopyFacts
<1>2. workers[w].item.kind = "sync" BY <1>1 DEF SyncItem
<1>3. Cr(w) \in CRs /\ objs[Cr(w)] \in ObjType /\ workers[w] \in WorkerType
  BY WorkerFacts, ObjFacts
<1> QED BY <1>1, <1>2, <1>3 DEF Base, Shape, ServingInv, Stored

\* The worker gives up or is done, and nothing else but the queue changes.
LEMMA GiveUpServes ==
  ASSUME Base, ServingInv, NEW w \in Workers, WorkerStepOK(w), workers[w].pc \in PastRead,
         \/ Retry(w)
         \/ Done(w) /\ workers[w].pc \notin {"claim", "apply"},
         UNCHANGED <<objs, remote, seen>>
  PROVE  StepServes
<1>1. workers'[w] = IdleWorker /\ queue \subseteq queue'
  BY ServerFacts DEF Retry, Done, Requeued
<1>2. StepOK /\ \A d \in CRs : PendingKept(d)
  BY <1>1, PendingMonotone DEF WorkerStepOK
<1>3. Fine(w)
  <2>1. CASE Retry(w) BY <1>1, <2>1, RequeueFine DEF Retry
  <2>2. CASE workers[w].pc \notin {"claim", "apply"}
    <3>1. \A c \in CRs : ~AboutToApply(w, c) BY <2>2 DEF AboutToApply, PastRead
    <3> QED BY <1>1, <3>1, IdleFine
  <2> QED BY <2>1, <2>2
<1> QED BY <1>2, <1>3, QuietServes DEF WorkerStepOK

\* The worker goes on with the copy it has.
LEMMA AdvanceFacts ==
  ASSUME Base, NEW w \in Workers, workers[w].pc \in PastRead, NEW pc,
         Step(w, pc, Copy(w), workers[w].stale), objs' = objs
  PROVE  /\ workers'[w].pc = pc /\ Cr(w)' = Cr(w) /\ Copy(w)' = Copy(w)
         /\ FinalPath(w)' = FinalPath(w) /\ Stored(w)' = Stored(w)
         /\ workers'[w].item = workers[w].item /\ queue' = queue
<1>1. workers[w] \in WorkerType /\ DOMAIN workers = Workers BY WorkerFacts DEF Base, Shape
<1>2. workers' = [workers EXCEPT ![w] = Advanced(workers[w], pc, Copy(w), workers[w].stale)]
  BY StepAdvances
<1>3. /\ workers'[w].pc = pc /\ workers'[w].item = workers[w].item
      /\ workers'[w].obj = Copy(w)
  BY <1>1, <1>2 DEF Advanced, WorkerType
<1> QED BY <1>3 DEF Cr, Copy, FinalPath, Stored, Step

\* The apply writes the payload of the copy, which is the stored one or
\* there is pending work.
LEMMA ApplyResourceServes ==
  ASSUME Base, OneServer, ServingInv, NEW w \in Workers, ApplyResource(w)
  PROVE  StepServes
<1>1. /\ WorkerStepOK(w) /\ workers[w].pc = "apply" /\ workers[w].pc \in PastRead
      /\ Step(w, "annotate", Copy(w), workers[w].stale) /\ UNCHANGED <<objs, seen>>
  BY ApplyResourceStep DEF ApplyResource, At, objRest, PastRead, WorkerSteps
<1>2. PICK c \in CRs : c = Cr(w) BY WorkerFacts
<1>3. /\ workers'[w].pc = "annotate" /\ Cr(w)' = c /\ Copy(w)' = Copy(w)
      /\ Stored(w)' = objs[c] /\ queue' = queue
  BY <1>1, <1>2, AdvanceFacts DEF Stored
<1>4. PICK p : p = PathOf(Copy(w), c) OBVIOUS
<1>5. p \in Collections \X {c} /\ p \in Paths /\ p # NoPath
  BY <1>1, <1>2, <1>4, CopyFacts, PathTypes DEF Paths
<1>6. /\ remote' = [remote EXCEPT ![p] = Copy(w).spec.payload] /\ DOMAIN remote = Paths
      /\ DOMAIN objs = CRs
  BY <1>1, <1>2, <1>4, ServerFacts DEF ApplyResource
<1>7. \A d \in CRs : d # c => RemoteSame(d) BY <1>5, <1>6 DEF RemoteSame
<1>8. remote'[p] = Copy(w).spec.payload BY <1>5, <1>6
<1>9. Holds(objs[c]) BY <1>1, <1>2, ServerFacts DEF HeldBy
<1>10. \A d \in CRs : PendingKept(d) BY <1>1, <1>3, PendingMonotone DEF WorkerStepOK
<1>11. Live(c)' => Applied(c)' \/ Pending(c)'
  <2> SUFFICES ASSUME Live(c), ~Pending(c)' PROVE Applied(c)' BY <1>1 DEF Live
  <2>1. ~Pending(c) BY <1>1, <1>10 DEF PendingKept, Live
  <2>2. Copy(w).spec = objs[c].spec
    BY <1>1, <1>2, <2>1, ServerFacts DEF CurrentBy
  <2>3. PathOf(objs[c], c) = p BY <1>4, <2>2 DEF PathOf
  <2> QED BY <1>1, <1>5, <1>8, <2>2, <2>3 DEF Applied
<1>12. HeldBy(w)' BY <1>3, <1>9 DEF HeldBy
<1>13. CurrentBy(w)' BY <1>3 DEF CurrentBy
<1>14. AppliedBy(w)'
  <2>1. /\ Live(Cr(w))' => Live(c)'
        /\ Applied(c)' => Applied(Cr(w))'
        /\ Pending(c)' => Pending(Cr(w))'
    BY <1>3 DEF Live, Applied, Pending
  <2> QED BY <1>11, <2>1 DEF AppliedBy
<1>15. Fine(w) BY <1>2, <1>11, <1>12, <1>13, <1>14 DEF Fine, AboutToApply
<1>16. StatusTrue(c)' BY <1>11 DEF StatusTrue
<1>17. RemovedOf(c)' BY <1>1, <1>9 DEF RemovedOf, Holds
<1> QED BY <1>1, <1>2, <1>3, <1>7, <1>15, <1>16, <1>17, WorkerServes

\* A failed apply is requeued, and its status write is not ready.
LEMMA ApplyFailsServes ==
  ASSUME Base, OneServer, ServingInv, NEW w \in Workers, ApplyFails(w)
  PROVE  StepServes
<1>1. /\ WorkerStepOK(w) /\ workers[w].pc \in {"apply", "remove"}
      /\ workers[w].pc \in PastRead /\ queue' = Requeued(w) /\ seen' = seen
  BY ApplyFailsStep DEF ApplyFails, PastRead, WorkerSteps
<1>2. PICK c \in CRs : c = Cr(w) BY WorkerFacts
<1>3. workers'[w] = IdleWorker /\ queue \subseteq queue'
  BY <1>1, ServerFacts, OutdateFacts DEF ApplyFails, Requeued
<1>4. Fine(w) /\ Pending(c)'
  BY <1>1, <1>2, <1>3, RequeueFine, ServerFacts
<1>5. StatusTrue(c)' BY <1>4 DEF StatusTrue
<1>6. /\ DOMAIN objs = CRs /\ objs[c] \in ObjType /\ DOMAIN remote = Paths
      /\ Stored(w) = objs[c]
  BY <1>1, <1>2, ServerFacts
<1>7. /\ objs'[c].exists = objs[c].exists
      /\ objs'[c].removed = objs[c].removed
  BY <1>2, <1>6 DEF ApplyFails, ObjType
<1>8. CASE remote' = remote
  <2>1. \A d \in CRs : RemoteSame(d) BY <1>8 DEF RemoteSame
  <2> QED BY <1>1, <1>2, <1>3, <1>4, <1>5, <1>7, <2>1, WorkerServes
<1>9. CASE remote' # remote
  <2>1. PICK p : p = PathOf(Copy(w), c) OBVIOUS
  <2>2. workers[w].pc = "apply" /\ remote' = [remote EXCEPT ![p] = Copy(w).spec.payload]
    BY <1>2, <1>9, <2>1 DEF ApplyFails, At
  <2>3. p \in Collections \X {c}
    BY <1>1, <1>2, <2>1, <2>2, CopyFacts, PathTypes
  <2>4. \A d \in CRs : d # c => RemoteSame(d) BY <1>6, <2>2, <2>3 DEF RemoteSame
  <2>5. objs[c].exists BY <1>1, <1>6, <2>2, ServerFacts DEF HeldBy, Holds
  <2>6. RemovedOf(c)' BY <1>7, <2>5 DEF RemovedOf
  <2> QED BY <1>1, <1>2, <1>3, <1>4, <1>5, <2>4, <2>6, WorkerServes
<1> QED BY <1>8, <1>9

\* The annotation write keeps ServingInv.
LEMMA AnnotateServes ==
  ASSUME Base, OneServer, ServingInv, NEW w \in Workers, Annotate(w)
  PROVE  StepServes
<1>1. /\ WorkerStepOK(w) /\ workers[w].pc = "annotate" /\ workers[w].pc \in PastRead
      /\ UNCHANGED <<remote, seen>>
  BY AnnotateStep DEF Annotate, At, objRest, PastRead, WorkerSteps
<1>2. PICK c \in CRs : c = Cr(w) BY WorkerFacts
<1>3. \A d \in CRs : RemoteSame(d) BY <1>1 DEF RemoteSame
<1>4. CASE Retry(w) /\ UNCHANGED objs BY <1>1, <1>4, GiveUpServes
<1>5. CASE ~(Retry(w) /\ UNCHANGED objs)
  <2>1. /\ DOMAIN objs = CRs /\ objs[c] \in ObjType /\ Stored(w) = objs[c]
        /\ Holds(objs[c])
        /\ Live(c) => Applied(c) \/ Pending(c)
    BY <1>1, <1>2, ServerFacts DEF HeldBy, AppliedBy
  <2>2. /\ workers'[w].pc = "status" /\ workers'[w].item = workers[w].item
        /\ queue' = queue
    <3>1. CASE Step(w, "status", Copy(w), workers[w].stale) /\ UNCHANGED objs
      BY <1>1, <3>1, AdvanceFacts
    <3>2. CASE ~(Step(w, "status", Copy(w), workers[w].stale) /\ UNCHANGED objs)
      <4>1. PICK q : workers' = [Outdate(Cr(w), w) EXCEPT ![w].pc = "status",
                                           ![w].stale = FALSE, ![w].obj = q]
        BY <1>5, <3>2 DEF Annotate
      <4>2. DOMAIN Outdate(Cr(w), w) = Workers /\ Outdate(Cr(w), w)[w] = workers[w]
        BY OutdateFacts
      <4>3. workers[w] \in WorkerType BY WorkerFacts
      <4>4. queue' = queue BY <1>5, <3>2 DEF Annotate
      <4> QED BY <4>1, <4>2, <4>3, <4>4 DEF WorkerType
    <3> QED BY <3>1, <3>2
  <2>3. /\ objs'[c].gen = objs[c].gen
        /\ objs'[c].exists = objs[c].exists /\ objs'[c].finalizer = objs[c].finalizer
        /\ objs'[c].ready = objs[c].ready /\ objs'[c].observed = objs[c].observed
    <3>1. objs' = objs \/ \E p : objs' = [objs EXCEPT ![c].ann = p]
      BY <1>2, <1>5 DEF Annotate, Step
    <3> QED BY <2>1, <3>1 DEF ObjType
  <2>4. Cr(w)' = c /\ Stored(w)' = objs'[c] BY <1>2, <2>2 DEF Cr, Stored
  <2>5. StepOK /\ \A d \in CRs : PendingKept(d)
    BY <1>1, <2>2, PendingMonotone DEF WorkerStepOK
  <2>6. HeldBy(w)' BY <2>1, <2>2, <2>3, <2>4 DEF HeldBy, Holds
  <2>7. CurrentBy(w)' BY <2>2 DEF CurrentBy
  <2>8. Live(c)' => Applied(c)' \/ Pending(c)'
    BY <1>3, <2>1, <2>3, <2>5, LiveBefore, AppliedKept DEF PendingKept, Live
  <2>9. AppliedBy(w)'
    <3>1. /\ Live(Cr(w))' => Live(c)'
          /\ Applied(c)' => Applied(Cr(w))'
          /\ Pending(c)' => Pending(Cr(w))'
      BY <2>4 DEF Live, Applied, Pending
    <3> QED BY <2>8, <3>1 DEF AppliedBy
  <2>10. Fine(w) BY <1>1, <2>6, <2>7, <2>9 DEF Fine, AboutToApply
  <2>11. StatusKept(c) BY <2>3 DEF StatusKept
  <2> QED BY <1>1, <1>2, <1>3, <2>2, <2>3, <2>10, <2>11, WorkerServes
<1> QED BY <1>4, <1>5

\* The status write reports as ready only what is applied or pending.
LEMMA MarkAppliedServes ==
  ASSUME Base, OneServer, ServingInv, NEW w \in Workers, MarkApplied(w)
  PROVE  StepServes
<1>1. /\ WorkerStepOK(w) /\ workers[w].pc = "status" /\ workers[w].pc \in PastRead
      /\ UNCHANGED <<remote, seen>>
  BY MarkAppliedStep DEF MarkApplied, At, objRest, PastRead, WorkerSteps
<1>2. PICK c \in CRs : c = Cr(w) BY WorkerFacts
<1>3. \A d \in CRs : RemoteSame(d) BY <1>1 DEF RemoteSame
<1>4. CASE Retry(w) /\ UNCHANGED objs BY <1>1, <1>4, GiveUpServes
<1>5. CASE ~(Retry(w) /\ UNCHANGED objs)
  <2>1. /\ DOMAIN objs = CRs /\ objs[c] \in ObjType
        /\ Live(c) => Applied(c) \/ Pending(c)
    BY <1>1, <1>2, ServerFacts DEF AppliedBy
  <2>2. /\ objs' = [objs EXCEPT ![c].ready = TRUE, ![c].observed = Copy(w).gen]
        /\ workers' = [Outdate(Cr(w), w) EXCEPT ![w] = IdleWorker] /\ queue' = queue
    BY <1>2, <1>5 DEF MarkApplied
  <2>3. objs'[c].gen = objs[c].gen /\ objs'[c].exists = objs[c].exists
    BY <2>1, <2>2 DEF ObjType
  <2>4. workers'[w] = IdleWorker BY <2>2, OutdateFacts
  <2>5. \A d \in CRs : ~AboutToApply(w, d) BY <1>1 DEF AboutToApply
  <2>6. Fine(w) BY <2>4, <2>5, IdleFine
  <2>7. StepOK /\ \A d \in CRs : PendingKept(d)
    BY <1>1, <2>2, PendingMonotone DEF WorkerStepOK
  <2>8. Live(c)' => Applied(c)' \/ Pending(c)'
    BY <1>3, <2>1, <2>3, <2>7, LiveBefore, AppliedKept DEF PendingKept, Live
  <2>9. StatusTrue(c)' BY <2>8 DEF StatusTrue
  <2> QED BY <1>1, <1>2, <1>3, <2>2, <2>3, <2>6, <2>9, WorkerServes
<1> QED BY <1>4, <1>5

\* The finalizer removes the remote resource of a resource that is being
\* deleted and that no other worker serves.
LEMMA RemoveRemoteServes ==
  ASSUME Base, OneServer, ServingInv, NEW w \in Workers, RemoveRemote(w)
  PROVE  StepServes
<1>1. /\ WorkerStepOK(w) /\ workers[w].pc = "remove" /\ workers[w].pc \in PastRead
      /\ UNCHANGED <<objs, seen>>
  BY RemoveRemoteStep DEF RemoveRemote, At, objRest, PastRead, WorkerSteps
<1>2. PICK c \in CRs : c = Cr(w) BY WorkerFacts
<1>3. CASE (Done(w) \/ Retry(w)) /\ UNCHANGED remote
  BY <1>1, <1>3, GiveUpServes
<1>4. CASE ~((Done(w) \/ Retry(w)) /\ UNCHANGED remote)
  <2>1. /\ Step(w, "release", Copy(w), workers[w].stale) /\ Copy(w).finalizer
        /\ \/ Copy(w).spec.policy = "Orphan" /\ remote' = remote
           \/ /\ FinalPath(w) # NoPath
              /\ remote' = [remote EXCEPT ![FinalPath(w)] = Absent]
    BY <1>4 DEF RemoveRemote
  <2>2. /\ workers'[w].pc = "release" /\ Cr(w)' = c /\ Copy(w)' = Copy(w)
        /\ FinalPath(w)' = FinalPath(w) /\ Stored(w)' = objs[c] /\ queue' = queue
    BY <1>1, <1>2, <2>1, AdvanceFacts DEF Stored
  <2>3. Holds(objs[c]) /\ objs[c].deleting
    BY <1>1, <1>2, <2>1, ServerFacts DEF HeldBy
  <2>4. /\ FinalPath(w) # NoPath => FinalPath(w) \in Collections \X {c}
        /\ Collections \X {c} \subseteq Paths /\ DOMAIN remote = Paths
    BY <1>1, <1>2, FinalPathType, ServerFacts DEF OwnPaths, Paths
  <2>5. ASSUME NEW d \in CRs, d # c PROVE RemoteSame(d)
    <3> SUFFICES ASSUME NEW q \in Collections \X {d} PROVE remote'[q] = remote[q]
      BY DEF RemoteSame
    <3>1. q \in Paths /\ q \notin Collections \X {c} BY <2>5 DEF Paths
    <3> QED BY <2>1, <2>4, <3>1
  <2>6. Copy(w).spec.policy = "Delete" =>
          FinalPath(w) # NoPath /\ remote'[FinalPath(w)] = Absent
    BY <2>1, <2>4
  <2>7. HeldBy(w)' BY <2>2, <2>3, <2>6 DEF HeldBy
  <2>8. CurrentBy(w)' /\ AppliedBy(w)' BY <2>2 DEF CurrentBy, AppliedBy
  <2>9. Fine(w) BY <1>1, <2>7, <2>8 DEF Fine, AboutToApply
  <2>10. StatusTrue(c)' /\ RemovedOf(c)'
    BY <1>1, <2>3 DEF StatusTrue, RemovedOf, Live, Holds
  <2> QED BY <1>1, <1>2, <2>2, <2>5, <2>9, <2>10, WorkerServes
<1> QED BY <1>3, <1>4

\* The finalizer goes only when the remote resource is gone, or is to stay.
LEMMA ReleaseServes ==
  ASSUME Base, OneServer, ServingInv, NEW w \in Workers, Release(w)
  PROVE  StepServes
<1>1. /\ WorkerStepOK(w) /\ workers[w].pc = "release" /\ workers[w].pc \in PastRead
      /\ UNCHANGED <<remote, seen>>
  BY ReleaseStep DEF Release, At, objRest, PastRead, WorkerSteps
<1>2. PICK c \in CRs : c = Cr(w) BY WorkerFacts
<1>3. \A d \in CRs : RemoteSame(d) BY <1>1 DEF RemoteSame
<1>4. CASE Retry(w) /\ UNCHANGED objs BY <1>1, <1>4, GiveUpServes
<1>5. CASE ~(Retry(w) /\ UNCHANGED objs)
  <2> DEFINE p == IF Copy(w).spec.policy = "Delete" THEN FinalPath(w) ELSE NoPath
  <2>1. /\ DOMAIN objs = CRs /\ objs[c] \in ObjType
        /\ p # NoPath => remote[p] = Absent
    BY <1>1, <1>2, ServerFacts DEF HeldBy
  <2>2. /\ objs' = [objs EXCEPT ![c] = Released(objs[c], p)] /\ queue' = queue
        /\ workers' = [Outdate(Cr(w), w) EXCEPT ![w] = IdleWorker]
    BY <1>2, <1>5, <2>1 DEF Release, Released
  <2> HIDE DEF p
  <2>3. ~objs'[c].exists /\ objs'[c].removed = p
    BY <2>1, <2>2 DEF ObjType, Released
  <2>4. workers'[w] = IdleWorker BY <2>2, OutdateFacts
  <2>5. \A d \in CRs : ~AboutToApply(w, d) BY <1>1 DEF AboutToApply
  <2>6. Fine(w) BY <2>4, <2>5, IdleFine
  <2>7. StatusTrue(c)' /\ RemovedOf(c)'
    BY <1>1, <2>1, <2>3 DEF StatusTrue, RemovedOf, Live
  <2> QED BY <1>1, <1>2, <1>3, <2>2, <2>6, <2>7, WorkerServes
<1> QED BY <1>4, <1>5

\* Every action keeps ServingInv.
LEMMA ServingKept ==
  ASSUME Base, OneServer, ServingInv, GoneClean, Next
  PROVE  ServingInv'
<1>1. StepOK BY EveryStepOK
<1>2. ASSUME NEW w \in Workers, WorkerStep(w) PROVE ServingInv'
  BY <1>1, <1>2, TakeItemKeepsServing, ReadServes, ClaimServes, ApplyResourceServes,
     AnnotateServes, MarkAppliedServes, RemoveRemoteServes, ReleaseServes,
     StepKeepsServing DEF WorkerStep
<1>3. CASE CRDProgress \/ \E c \in CRs : DeleteResource(c) \/ (\E s \in Specs : CreateOrEdit(c, s))
  BY <1>1, <1>3, EnvironmentServes, StepKeepsServing
<1>4. CASE GeneratorStep \/ GeneratorCallFails \/ Administer
  BY <1>1, <1>4, GeneratorServes, StepKeepsServing
<1>5. ASSUME NEW w \in Workers, ApplyFails(w) PROVE ServingInv'
  BY <1>1, <1>5, ApplyFailsServes, StepKeepsServing
<1>6. ASSUME NEW c \in CRs, NEW v \in Versions, InformerSees(c, v) PROVE ServingInv'
  BY <1>1, <1>6, InformerServes, StepKeepsServing
<1>7. CASE Crash BY <1>1, <1>7, CrashServes, StepKeepsServing
<1> QED BY <1>2, <1>3, <1>4, <1>5, <1>6, <1>7 DEF Next

-----------------------------------------------------------------------------
\* While no generator exists nothing claims a path.
LEMMA WorkerKeepsIndex ==
  ASSUME Base, ServingInv, GoneClean, NEW w \in Workers, WorkerStep(w) \/ ApplyFails(w),
         index = EmptyIndex, \A c \in CRs : ~objs[c].exists
  PROVE  index' = EmptyIndex
<1>1. \A p : UnregisterFrom(index, p) = EmptyIndex BY DEF UnregisterFrom, EmptyIndex
<1>2. ~Stored(w).exists BY WorkerFacts DEF Stored
<1>3. workers[w].pc # "apply" BY <1>2 DEF ServingInv, HeldBy, Holds
<1>4. workers[w].pc = "claim" => ~Copy(w).finalizer BY <1>2 DEF ServingInv, HeldBy, Holds
<1>5. CASE TakeItem(w) \/ Annotate(w) \/ MarkApplied(w) \/ RemoveRemote(w) \/ ApplyFails(w)
  BY <1>5 DEF TakeItem, Annotate, MarkApplied, RemoveRemote, ApplyFails
<1>6. CASE Read(w) \/ Release(w) BY <1>1, <1>6 DEF Read, Release
<1>7. CASE Claim(w) BY <1>2, <1>4, <1>7 DEF Claim, At
<1>8. CASE ApplyResource(w) BY <1>3, <1>8 DEF ApplyResource, At
<1> QED BY <1>5, <1>6, <1>7, <1>8 DEF WorkerStep

\* Every action keeps GoneClean.
LEMMA GoneCleanKept ==
  ASSUME Base, ServingInv, GoneClean, Next
  PROVE  GoneClean'
<1>1. generator \in GeneratorType BY DEF Base, Shape
<1>2. ASSUME NEW w \in Workers, WorkerStep(w) \/ ApplyFails(w) PROVE GoneClean'
  <2>1. WorkerStepOK(w)
    BY <1>2, TakeItemStep, ReadStep, ClaimStep, ApplyResourceStep, AnnotateStep,
       MarkAppliedStep, RemoveRemoteStep, ReleaseStep, ApplyFailsStep DEF WorkerStep
  <2>2. UNCHANGED <<generator, crd, watches>>
    BY <1>2 DEF WorkerStep, TakeItem, Read, Claim, ApplyResource, Annotate, MarkApplied,
                RemoveRemote, Release, ApplyFails, objRest
  <2>3. \A d \in CRs : objs'[d].exists => objs[d].exists BY <2>1 DEF WorkerStepOK
  <2>4. ~generator.exists => index' = EmptyIndex
    BY <1>2, WorkerKeepsIndex DEF GoneClean
  <2> QED BY <2>2, <2>3, <2>4 DEF GoneClean
<1>3. CASE ReconcileGenerator BY <1>1, <1>3 DEF ReconcileGenerator, GeneratorNotReady,
                                 genRest, GoneClean, GeneratorType
<1>4. CASE ApplyCRD BY <1>1, <1>4 DEF ApplyCRD, GeneratorNotReady, genRest, GoneClean,
                                      GeneratorType
<1>5. CASE EnsureWatches BY <1>1, <1>5 DEF EnsureWatches, GoneClean, GeneratorType
<1>6. CASE GeneratorCallFails
  BY <1>1, <1>6 DEF GeneratorCallFails, GeneratorNotReady, genRest, GoneClean, GeneratorType
<1>7. CASE DeleteGenerator
  <2>1. \A v \in Versions : StopWatch(v).registered = FALSE BY DEF StopWatch
  <2>2. UnregisterFrom(index, NoPath) = EmptyIndex BY DEF UnregisterFrom
  <2>3. UNCHANGED <<objs, crd>> BY <1>7 DEF DeleteGenerator, genRest
  <2>4. generator.exists BY <1>7 DEF DeleteGenerator
  <2>5. CASE generator'.exists BY <2>3, <2>5 DEF GoneClean
  <2>6. CASE ~generator'.exists
    <3>1. /\ crd = "absent" /\ watches' = [v \in Versions |-> StopWatch(v)]
          /\ index' = UnregisterFrom(index, NoPath)
          /\ generator.pc = "idle"
          /\ generator' = [generator EXCEPT !.exists = FALSE, !.ready = FALSE,
                                      !.finalizer = FALSE, !.queued = FALSE]
      BY <1>1, <1>7, <2>4, <2>6 DEF DeleteGenerator, GeneratorNotReady, GeneratorType
    <3>2. generator'.pc = "idle" BY <1>1, <3>1 DEF GeneratorType
    <3> QED BY <2>1, <2>2, <2>3, <3>1, <3>2 DEF GoneClean
  <2> QED BY <2>5, <2>6
<1>8. ASSUME NEW c \in CRs, NEW v \in Versions, InformerSees(c, v) PROVE GoneClean'
  BY <1>8 DEF InformerSees, GoneClean
<1>9. ASSUME NEW c \in CRs, NEW s \in Specs, CreateOrEdit(c, s) PROVE GoneClean'
  <2>1. UNCHANGED <<generator, crd, watches, index>> BY <1>9 DEF CreateOrEdit, envRest
  <2>2. objs[c].exists \/ crd = "established" BY <1>9 DEF CreateOrEdit
  <2> QED BY <2>1, <2>2 DEF GoneClean
<1>10. ASSUME NEW c \in CRs, objs[c].exists, objs' = [objs EXCEPT ![c] = Deleted(@)]
       PROVE  \A d \in CRs : objs'[d].exists => objs[d].exists
  BY <1>10 DEF Base, Shape
<1>11. ASSUME NEW c \in CRs, DeleteResource(c) PROVE GoneClean'
  <2>1. UNCHANGED <<generator, crd, watches, index>> BY <1>11 DEF DeleteResource, envRest
  <2>2. \A d \in CRs : objs'[d].exists => objs[d].exists
    BY <1>10, <1>11 DEF DeleteResource
  <2> QED BY <2>1, <2>2 DEF GoneClean
<1>12. CASE CRDProgress
  <2>1. UNCHANGED <<generator, watches, index>> BY <1>12 DEF CRDProgress, envRest
  <2>2. crd # "absent" BY <1>12 DEF CRDProgress
  <2>3. crd' \in {"absent", "establishing", "foreign"} => \A c \in CRs : ~objs'[c].exists
    BY <1>12 DEF CRDProgress, GoneClean
  <2> QED BY <2>1, <2>2, <2>3 DEF GoneClean
<1>13. CASE Administer
  BY <1>1, <1>13 DEF Administer, envRest, GoneClean, GeneratorType
<1>14. CASE Crash
  BY <1>1, <1>14 DEF Crash, GoneClean, GeneratorType, NoWatch, EmptyIndex
<1> QED BY <1>2, <1>3, <1>4, <1>5, <1>6, <1>7, <1>8, <1>9, <1>11, <1>12, <1>13, <1>14
        DEF Next, GeneratorStep

\* The inductive invariant.
IInv == Base /\ ServingInv /\ GoneClean

\* The invariant holds initially.
LEMMA InitIInv == Init => IInv
<1> SUFFICES ASSUME Init PROVE IInv OBVIOUS
<1>1. Base BY InitBase
<1>2. \A w \in Workers : workers[w].pc = "idle" BY DEF Init, IdleWorker
<1>3. \A c \in CRs : ~objs[c].exists /\ objs[c].removed = NoPath BY DEF Init, NoObj
<1>4. ServingInv
  BY <1>2, <1>3 DEF ServingInv, HeldBy, CurrentBy, AppliedBy, StatusTrue, RemovedOf, Live
<1>5. GoneClean BY <1>3 DEF GoneClean, Init
<1> QED BY <1>1, <1>4, <1>5 DEF IInv

\* The invariant survives stuttering.
LEMMA StutterIInv == IInv /\ UNCHANGED vars => IInv'
<1> SUFFICES ASSUME IInv, UNCHANGED vars PROVE IInv' OBVIOUS
<1>1. Base' BY StutterBase DEF IInv
<1>2. GoneClean' BY DEF IInv, GoneClean, vars
<1>3. ServingInv'
  <2>1. /\ \A w : /\ Cr(w)' = Cr(w) /\ Copy(w)' = Copy(w) /\ Stored(w)' = Stored(w)
                  /\ FinalPath(w)' = FinalPath(w)
        /\ UNCHANGED <<objs, seen, queue, workers, remote>>
    BY DEF vars, Cr, Copy, Stored, FinalPath
  <2>2. ASSUME NEW w \in Workers PROVE HeldBy(w)' /\ CurrentBy(w)' /\ AppliedBy(w)'
    <3>1. HeldBy(w)' BY <2>1 DEF HeldBy, IInv, ServingInv
    <3>2. CurrentBy(w)'
      BY <2>1 DEF CurrentBy, IInv, ServingInv, Live, Pending
    <3>3. AppliedBy(w)'
      BY <2>1 DEF AppliedBy, IInv, ServingInv, Live, Pending, Applied
    <3> QED BY <3>1, <3>2, <3>3
  <2>3. ASSUME NEW c \in CRs PROVE StatusTrue(c)' /\ RemovedOf(c)'
    BY <2>1 DEF StatusTrue, RemovedOf, IInv, ServingInv, AboutToApply, Live, Pending, Applied
  <2> QED BY <2>2, <2>3 DEF ServingInv
<1> QED BY <1>1, <1>2, <1>3 DEF IInv

\* The invariant holds in every reachable state when each resource is
\* served by one worker at a time.
THEOREM Invariance == ASSUME OneServer PROVE Spec => []IInv
<1>1. IInv /\ [Next]_vars => IInv'
  BY StutterIInv, EveryStepOK, StepKeepsBase, ServingKept, GoneCleanKept DEF IInv
<1> QED BY <1>1, InitIInv, PTL DEF Spec

\* The invariant contains ReadyIsApplied.
LEMMA IInvReady == IInv => ReadyIsApplied
<1> SUFFICES ASSUME IInv, NEW c \in CRs, AtRest(c), objs[c].exists, ~objs[c].deleting,
                    objs[c].ready, objs[c].observed = objs[c].gen
             PROVE  remote[PathOf(objs[c], c)] = objs[c].spec.payload
  BY DEF ReadyIsApplied
<1>1. StatusTrue(c) /\ Live(c) BY DEF IInv, ServingInv, Live
<1>2. ~Pending(c)
  <2>1. \A v \in Versions : seen[v][c].gen = objs[c].gen BY DEF AtRest, Summary
  <2>2. \A v : SyncItem(c, v).cr = c BY DEF SyncItem
  <2>3. \A v \in Versions : SyncItem(c, v) \notin queue BY <2>2 DEF AtRest
  <2> QED BY <2>1, <2>3 DEF Pending
<1>3. \A w \in Workers : ~AboutToApply(w, c) BY DEF AboutToApply, AtRest
<1> QED BY <1>1, <1>2, <1>3 DEF StatusTrue, Applied

\* The invariant contains NothingLeftBehind.
LEMMA IInvNothingLeft == IInv => NothingLeftBehind
BY DEF IInv, ServingInv, RemovedOf, GoneClean, NothingLeftBehind, DeletedIsRemoved,
       GeneratorGoneIsClean

\* A resource nobody is working on whose status says ready for its generation
\* is applied to the managed service, whatever edits, failures and restarts
\* came between the apply and the status write.
THEOREM StatusTellsTruth == ASSUME OneServer PROVE Spec => []ReadyIsApplied
BY Invariance, IInvReady, PTL

\* The remote resource that a finalizer removed has not come back, and a
\* generator that is gone leaves no resource, watch or index entry behind.
THEOREM NothingOutlives == ASSUME OneServer PROVE Spec => []NothingLeftBehind
BY Invariance, IInvNothingLeft, PTL
=============================================================================
