------------------------- MODULE GeneratedResources -------------------------
(***************************************************************************)
(* A CRDGenerator, the CustomResourceDefinition it owns and the resources   *)
(* of that definition: the CRDGenerator controller                          *)
(* (crdgenerator_controller.go), the metacontroller that watches and        *)
(* reconciles generated resources (generated_resource_reconciler.go) and    *)
(* the ownership index both keep for the SyncPolicy controller              *)
(* (conflict_index.go).                                                     *)
(*                                                                          *)
(* The logical path of a generated resource is its collection and its name, *)
(* so a path is a pair <<collection, resource>>.                            *)
(***************************************************************************)
EXTENDS Integers, FiniteSets

CONSTANTS
  CRs,            \* names of generated resources
  Collections,    \* valid collection paths
  Invalid,        \* a collectionPathOverride that does not normalise
  Payloads,       \* payloads of generated resources
  Specs,          \* specs that users write
  Absent,         \* nothing in the managed service
  NoPath,         \* no logical path: no annotation, or all paths
  Versions,       \* served versions of the generator
  Workers,        \* goroutines of the metacontroller
  MaxEdits,       \* bound: creations and edits of generated resources
  MaxFaults,      \* bound: failed calls and restarts of the operator
  MaxAdmin        \* bound: deletions of generated resources, and what happens
                  \*   to generator, bundle and definition

Paths == Collections \X CRs
SpecType == [coll: Collections \cup {Invalid}, payload: Payloads,
             policy: {"Orphan", "Delete"}]

ASSUME ConstantsAssumption ==
  /\ CRs # {} /\ Versions # {} /\ Payloads # {}
  /\ Invalid \notin Collections /\ NoPath \notin Paths /\ Absent \notin Payloads
  /\ Specs \subseteq SpecType
  /\ {MaxEdits, MaxFaults, MaxAdmin} \subseteq Nat

VARIABLES
  generator,   \* the CRDGenerator, its controller's progress included
  bundle,      \* whether the referenced MetadataBundle is Ready
  crd,         \* the CustomResourceDefinition
  objs,        \* the generated resources in the API server
  seen,        \* per version, what the informer knows of each resource
  watches,     \* per version, the entry of the watch map and the informer
  queue,       \* the work queue of the metacontroller
  workers,     \* its goroutines
  index,       \* ConflictIndex: tier1 by logical path, tier2 by remote id
  remote,      \* the managed service
  budget

vars == <<generator, bundle, crd, objs, seen, watches, queue, workers, index,
          remote, budget>>

-----------------------------------------------------------------------------

ObjType == [exists: BOOLEAN, deleting: BOOLEAN, finalizer: BOOLEAN,
            gen: 0..(MaxEdits + 1), spec: SpecType, ann: Paths \cup {NoPath},
            ready: BOOLEAN, observed: 0..(MaxEdits + 1),
            removed: Paths \cup {NoPath}]

\* removed: the path whose remote resource the finalizer took along.
NoObj == [exists |-> FALSE, deleting |-> FALSE, finalizer |-> FALSE, gen |-> 0,
          spec |-> [coll |-> Invalid, payload |-> CHOOSE p \in Payloads : TRUE,
                    policy |-> "Orphan"],
          ann |-> NoPath, ready |-> FALSE, observed |-> 0, removed |-> NoPath]

\* generatedWorkItem; a delete item knows a path only if it is a tombstone.
ItemType == [cr: CRs, ver: Versions, kind: {"sync", "delete"},
             path: Paths \cup {NoPath}]
SyncItem(c, v) == [cr |-> c, ver |-> v, kind |-> "sync", path |-> NoPath]

\* What the handlers compare: existence, generation and deletion mark.
SeenType == [exists: BOOLEAN, gen: 0..(MaxEdits + 1), deleting: BOOLEAN]
Summary(o) == [exists |-> o.exists, gen |-> o.gen, deleting |-> o.deleting]

WorkerSteps == {"idle", "read", "claim", "apply", "annotate", "status",
                "remove", "release"}
WorkerType == [pc: WorkerSteps, item: ItemType, obj: ObjType, stale: BOOLEAN]

WatchType == [registered: BOOLEAN, closed: BOOLEAN,
              informer: {"new", "running", "stopped"}]
NoWatch == [registered |-> FALSE, closed |-> FALSE, informer |-> "new"]

GeneratorType == [exists: BOOLEAN, deleting: BOOLEAN, finalizer: BOOLEAN,
                  valid: BOOLEAN, ready: BOOLEAN, queued: BOOLEAN,
                  pc: {"idle", "crd", "watch"}]

Bounds == [edits |-> MaxEdits, faults |-> MaxFaults, admin |-> MaxAdmin]

TypeOK ==
  /\ generator \in GeneratorType
  /\ bundle \in BOOLEAN
  /\ crd \in {"absent", "establishing", "established", "terminating", "foreign"}
  /\ objs \in [CRs -> ObjType]
  /\ seen \in [Versions -> [CRs -> SeenType]]
  /\ watches \in [Versions -> WatchType]
  /\ queue \subseteq ItemType
  /\ workers \in [Workers -> WorkerType]
  /\ index \in [tier1: SUBSET Paths, tier2: SUBSET Paths]
  /\ remote \in [Paths -> Payloads \cup {Absent}]
  /\ DOMAIN budget = DOMAIN Bounds
  /\ \A k \in DOMAIN Bounds : budget[k] \in 0..Bounds[k]

IdleWorker == [pc |-> "idle", obj |-> NoObj, stale |-> FALSE,
               item |-> SyncItem(CHOOSE c \in CRs : TRUE,
                                 CHOOSE v \in Versions : TRUE)]

EmptyIndex == [tier1 |-> {}, tier2 |-> {}]

Init ==
  /\ generator = [exists |-> TRUE, deleting |-> FALSE, finalizer |-> FALSE,
                  valid |-> TRUE, ready |-> FALSE, queued |-> TRUE, pc |-> "idle"]
  /\ bundle = TRUE
  /\ crd \in {"absent", "foreign"}
  /\ objs = [c \in CRs |-> NoObj]
  /\ seen = [v \in Versions |-> [c \in CRs |-> Summary(NoObj)]]
  /\ watches = [v \in Versions |-> NoWatch]
  /\ queue = {}
  /\ workers = [w \in Workers |-> IdleWorker]
  /\ index = EmptyIndex
  /\ remote = [p \in Paths |-> Absent]
  /\ budget = [k \in DOMAIN Bounds |-> 0]

CanSpend(k) == budget[k] < Bounds[k]
Spend(k) == CanSpend(k) /\ budget' = [budget EXCEPT ![k] = @ + 1]

-----------------------------------------------------------------------------
(* The ownership index *)

Register(p, withId) ==
  [tier1 |-> index.tier1 \cup {p},
   tier2 |-> IF withId THEN index.tier2 \cup {p} ELSE index.tier2]

\* Mutant of UnregisterFrom: an empty path matches nothing.
UnregisterFromExact(ix, p) == [tier1 |-> ix.tier1 \ {p}, tier2 |-> ix.tier2 \ {p}]

\* An empty path stands for every entry of the generator.
UnregisterFrom(ix, p) ==
  IF p = NoPath THEN EmptyIndex
  ELSE [tier1 |-> ix.tier1 \ {p}, tier2 |-> ix.tier2 \ {p}]

-----------------------------------------------------------------------------
(* The CRDGenerator controller *)

genRest == <<bundle, objs, seen, queue, workers, remote>>

GeneratorNotReady(requeue) ==
  generator' = [generator EXCEPT !.pc = "idle", !.ready = FALSE,
                                 !.finalizer = TRUE, !.queued = requeue \/ @]

\* Reconcile, from the finalizer to the definition.
ReconcileGenerator ==
  /\ generator.pc = "idle" /\ generator.exists /\ generator.queued
  /\ ~generator.deleting
  /\ \/ /\ ~generator.valid
        /\ generator' = [generator EXCEPT !.ready = FALSE, !.finalizer = TRUE,
                                          !.queued = FALSE]
     \/ /\ generator.valid /\ ~bundle
        /\ GeneratorNotReady(TRUE)
     \/ /\ generator.valid /\ bundle
        /\ generator' = [generator EXCEPT !.pc = "crd", !.finalizer = TRUE,
                                          !.queued = FALSE]
  /\ UNCHANGED <<genRest, crd, watches, index, budget>>

\* applyCRD: create it, refuse a foreign one, or update the own one; then
\* wait for Established.
ApplyCRD ==
  /\ generator.pc = "crd"
  /\ \/ /\ crd = "absent"
        /\ crd' = "establishing"
        /\ GeneratorNotReady(TRUE)
     \/ /\ crd \in {"foreign", "establishing"}
        /\ UNCHANGED crd
        /\ GeneratorNotReady(TRUE)
     \/ /\ crd \in {"established", "terminating"}
        /\ UNCHANGED crd
        /\ generator' = [generator EXCEPT !.pc = "watch"]
  /\ UNCHANGED <<genRest, watches, index, budget>>

\* The entry stays in the map when the list fails: stop is closed, and the
\* next EnsureWatch takes the entry for a watch.
FailedWatch(v) == [watches[v] EXCEPT !.registered = TRUE, !.closed = TRUE]

\* A stopped informer accepts no handler and does not run again.
EnsureWatch(v, listFails) ==
  IF watches[v].registered THEN watches[v]
  ELSE IF watches[v].informer = "stopped"
       THEN [watches[v] EXCEPT !.registered = TRUE]
  ELSE IF listFails THEN FailedWatch(v)
  ELSE [registered |-> TRUE, closed |-> FALSE, informer |-> "running"]

Listed(v) == IF watches'[v].informer = "running" /\ watches[v].informer = "new"
             THEN {SyncItem(c, v) : c \in {d \in CRs : objs[d].exists}} ELSE {}

\* Role, watches, status. Errors of EnsureWatch are only logged.
EnsureWatches ==
  /\ generator.pc = "watch"
  /\ \/ /\ watches' = [v \in Versions |-> EnsureWatch(v, FALSE)]
        /\ UNCHANGED budget
     \/ /\ Spend("faults")
        /\ watches' = [v \in Versions |-> EnsureWatch(v, TRUE)]
  /\ queue' = queue \cup UNION {Listed(v) : v \in Versions}
  /\ generator' = [generator EXCEPT !.pc = "idle", !.ready = TRUE]
  /\ UNCHANGED <<bundle, objs, seen, workers, remote, crd, index>>

\* A failed call of the reconcile: role, definition or status.
GeneratorCallFails ==
  /\ generator.pc # "idle"
  /\ Spend("faults")
  /\ GeneratorNotReady(TRUE)
  /\ UNCHANGED <<genRest, crd, watches, index>>

StopWatch(v) ==
  IF ~watches[v].registered THEN watches[v]
  ELSE [registered |-> FALSE, closed |-> FALSE,
        informer |-> IF watches[v].informer = "running" THEN "stopped"
                     ELSE watches[v].informer]

\* handleDeletion waits for the definition to go. Closing a channel that
\* EnsureWatch has closed panics; the panic is recovered and retried, with the
\* entry gone.
DeleteGenerator ==
  /\ generator.pc = "idle" /\ generator.exists /\ generator.queued
  /\ generator.deleting
  /\ \/ /\ crd # "absent"
        /\ GeneratorNotReady(TRUE)
        /\ UNCHANGED <<watches, index>>
     \/ /\ crd = "absent"
        /\ watches' = [v \in Versions |-> StopWatch(v)]
        /\ IF \E v \in Versions : watches[v].registered /\ watches[v].closed
           THEN UNCHANGED <<generator, index>>
           ELSE /\ index' = UnregisterFrom(index, NoPath)
                /\ generator' = [generator EXCEPT !.exists = FALSE, !.ready = FALSE,
                                      !.finalizer = FALSE, !.queued = FALSE]
  /\ UNCHANGED <<genRest, crd, budget>>

GeneratorStep == ReconcileGenerator \/ ApplyCRD \/ EnsureWatches \/ DeleteGenerator

-----------------------------------------------------------------------------
(* Informers *)

\* Mutant of EventItems: updates are told apart by their deletion mark only.
EventItemsDeletionOnly(c, v) ==
  LET old == seen[v][c]
      new == Summary(objs[c])
  IN IF ~new.exists THEN {[SyncItem(c, v) EXCEPT !.kind = "delete", !.path = p] :
                            p \in {NoPath, objs[c].ann}}
     ELSE IF old.exists /\ old.deleting = new.deleting
          THEN {} ELSE {SyncItem(c, v)}

\* informerItemFromObject and informerItemFromUpdate: an update that keeps
\* generation and deletion mark is dropped; a delete carries the last state
\* only when the informer missed the event itself.
EventItems(c, v) ==
  LET old == seen[v][c]
      new == Summary(objs[c])
  IN IF ~new.exists THEN {[SyncItem(c, v) EXCEPT !.kind = "delete", !.path = p] :
                            p \in {NoPath, objs[c].ann}}
     ELSE IF old.exists /\ old.gen = new.gen /\ old.deleting = new.deleting
          THEN {} ELSE {SyncItem(c, v)}

InformerSees(c, v) ==
  /\ watches[v].informer = "running"
  /\ seen[v][c] # Summary(objs[c])
  /\ seen' = [seen EXCEPT ![v][c] = Summary(objs[c])]
  /\ \/ EventItems(c, v) = {} /\ UNCHANGED queue
     \/ \E i \in EventItems(c, v) : queue' = queue \cup {i}
  /\ UNCHANGED <<generator, bundle, crd, objs, watches, workers, index, remote, budget>>

-----------------------------------------------------------------------------
(* Generated resources *)

\* Mutant of PathOf: the override is not validated.
PathOfUnchecked(o, c) == <<o.spec.coll, c>>

PathOf(o, c) == IF o.spec.coll = Invalid THEN NoPath ELSE <<o.spec.coll, c>>

At(w, pc) == workers[w].pc = pc
Cr(w) == workers[w].item.cr
Copy(w) == workers[w].obj
Stored(w) == objs[Cr(w)]

\* Mutant of Requeued: an item that failed is dropped.
RequeuedNever(w) == queue
Requeued(w) == queue \cup {workers[w].item}

\* Forget, or AddRateLimited: an item that is added again while it is being
\* processed is served once more.
Done(w) == workers' = [workers EXCEPT ![w] = IdleWorker] /\ UNCHANGED queue
Retry(w) == /\ workers' = [workers EXCEPT ![w] = IdleWorker]
            /\ queue' = Requeued(w)
Step(w, pc, o, stale) ==
  /\ workers' = [workers EXCEPT ![w].pc = pc, ![w].obj = o, ![w].stale = stale]
  /\ UNCHANGED queue

\* Copies that others hold are outdated by a write.
Outdate(c, w) ==
  [u \in Workers |-> IF u # w /\ workers[u].pc # "idle" /\ workers[u].item.cr = c
                     THEN [workers[u] EXCEPT !.stale = TRUE] ELSE workers[u]]

objRest == <<generator, bundle, crd, seen, watches, budget>>

\* queue.Get: an item is served by one worker at a time.
TakeItem(w) ==
  /\ At(w, "idle")
  /\ \E i \in queue :
       /\ \A u \in Workers : workers[u].pc # "idle" => workers[u].item # i
       /\ queue' = queue \ {i}
       /\ workers' = [workers EXCEPT ![w].pc = "read", ![w].item = i]
  /\ UNCHANGED <<objRest, objs, index, remote>>

\* Generator, version and resource are read.
Read(w) ==
  /\ At(w, "read")
  /\ \/ /\ ~generator.exists
        /\ Done(w)
        /\ UNCHANGED index
     \/ /\ generator.exists /\ workers[w].item.kind = "delete"
        /\ index' = UnregisterFrom(index, workers[w].item.path)
        /\ Done(w)
     \/ /\ generator.exists /\ workers[w].item.kind = "sync"
        /\ UNCHANGED index
        /\ \/ ~Stored(w).exists /\ Done(w)
           \/ /\ Stored(w).exists
              /\ Step(w, IF Stored(w).deleting THEN "remove" ELSE "claim",
                      Stored(w), FALSE)
  /\ UNCHANGED <<objRest, objs, remote>>

\* ensureGeneratedResourceMetadata, the paths, and the entry in the index. The
\* resource is read again if it was patched.
Claim(w) ==
  /\ At(w, "claim")
  /\ LET c == Cr(w)
         patched == ~Copy(w).finalizer
         o == IF patched THEN [objs[c] EXCEPT !.finalizer = TRUE] ELSE Copy(w)
         old == IF o.ann = NoPath THEN index ELSE UnregisterFrom(index, o.ann)
     IN \/ /\ patched /\ ~Stored(w).exists
           /\ Retry(w)
           /\ UNCHANGED <<objs, index>>
        \/ /\ patched => Stored(w).exists
           /\ PathOf(o, c) = NoPath
           /\ workers' = [Outdate(c, w) EXCEPT ![w] = IdleWorker]
           /\ queue' = Requeued(w)
           /\ objs' = IF patched \/ ~workers[w].stale
                      THEN [objs EXCEPT ![c] = [o EXCEPT !.ready = FALSE,
                                                         !.observed = o.gen]]
                      ELSE objs
           /\ UNCHANGED index
        \/ /\ patched => Stored(w).exists
           /\ PathOf(o, c) # NoPath
           /\ objs' = IF patched THEN [objs EXCEPT ![c] = o] ELSE objs
           /\ index' = [old EXCEPT !.tier1 = @ \cup {PathOf(o, c)}]
           /\ workers' = [(IF patched THEN Outdate(c, w) ELSE workers)
                            EXCEPT ![w].pc = "apply", ![w].obj = o,
                                   ![w].stale = ~patched /\ @]
           /\ UNCHANGED queue
  /\ UNCHANGED <<objRest, remote>>

ApplyResource(w) ==
  /\ At(w, "apply")
  /\ remote' = [remote EXCEPT ![PathOf(Copy(w), Cr(w))] = Copy(w).spec.payload]
  /\ index' = Register(PathOf(Copy(w), Cr(w)), TRUE)
  /\ Step(w, "annotate", Copy(w), workers[w].stale)
  /\ UNCHANGED <<objRest, objs>>

\* The apply fails, before or after it reached the service; so does, for a
\* resource that is being deleted, the removal.
ApplyFails(w) ==
  /\ workers[w].pc \in {"apply", "remove"}
  /\ Spend("faults")
  /\ LET c == Cr(w)
         p == PathOf(Copy(w), c)
     IN /\ \/ UNCHANGED remote
           \/ /\ At(w, "apply")
              /\ remote' = [remote EXCEPT ![p] = Copy(w).spec.payload]
        /\ IF At(w, "apply") /\ ~workers[w].stale
           THEN /\ objs' = [objs EXCEPT ![c].ready = FALSE, ![c].observed = Copy(w).gen]
                /\ workers' = [Outdate(c, w) EXCEPT ![w] = IdleWorker]
           ELSE /\ UNCHANGED objs
                /\ workers' = [workers EXCEPT ![w] = IdleWorker]
  /\ queue' = Requeued(w)
  /\ UNCHANGED <<generator, bundle, crd, seen, watches, index>>

\* patchGeneratedResourceOwnership: the annotations are merged into whatever is
\* stored, and the resource is read again.
Annotate(w) ==
  /\ At(w, "annotate")
  /\ LET c == Cr(w)
         p == PathOf(Copy(w), c)
     IN \/ /\ Copy(w).ann = p
           /\ Step(w, "status", Copy(w), workers[w].stale)
           /\ UNCHANGED objs
        \/ /\ Copy(w).ann # p /\ ~Stored(w).exists
           /\ Retry(w)
           /\ UNCHANGED objs
        \/ /\ Copy(w).ann # p /\ Stored(w).exists
           /\ objs' = [objs EXCEPT ![c].ann = p]
           /\ workers' = [Outdate(c, w) EXCEPT ![w].pc = "status", ![w].stale = FALSE,
                                               ![w].obj = [objs[c] EXCEPT !.ann = p]]
           /\ UNCHANGED queue
  /\ UNCHANGED <<objRest, index, remote>>

\* markGeneratedResourceApplied: refused when the copy is outdated.
MarkApplied(w) ==
  /\ At(w, "status")
  /\ \/ /\ workers[w].stale \/ ~Stored(w).exists
        /\ Retry(w)
        /\ UNCHANGED objs
     \/ /\ ~workers[w].stale /\ Stored(w).exists
        /\ objs' = [objs EXCEPT ![Cr(w)].ready = TRUE, ![Cr(w)].observed = Copy(w).gen]
        /\ workers' = [Outdate(Cr(w), w) EXCEPT ![w] = IdleWorker]
        /\ UNCHANGED queue
  /\ UNCHANGED <<objRest, index, remote>>

\* finalizeGeneratedResource uses the annotated path when the spec has none.
FinalPath(w) == IF PathOf(Copy(w), Cr(w)) # NoPath THEN PathOf(Copy(w), Cr(w))
                ELSE Copy(w).ann

\* Mutant of RemoveRemote: the remote resource is removed after the finalizer.
RemoveRemoteLater(w) ==
  /\ At(w, "remove")
  /\ Step(w, "release", Copy(w), workers[w].stale)
  /\ UNCHANGED <<objRest, objs, index, remote>>

RemoveRemote(w) ==
  /\ At(w, "remove")
  /\ \/ /\ ~Copy(w).finalizer
        /\ Done(w)
        /\ UNCHANGED remote
     \/ /\ Copy(w).finalizer
        /\ Copy(w).spec.policy = "Orphan"
        /\ Step(w, "release", Copy(w), workers[w].stale)
        /\ UNCHANGED remote
     \/ /\ Copy(w).finalizer
        /\ Copy(w).spec.policy = "Delete"
        /\ IF FinalPath(w) = NoPath
           THEN Retry(w) /\ UNCHANGED remote
           ELSE /\ remote' = [remote EXCEPT ![FinalPath(w)] = Absent]
                /\ Step(w, "release", Copy(w), workers[w].stale)
  /\ UNCHANGED <<objRest, objs, index>>

\* Ownership is given up, then the finalizer; the resource is gone.
Release(w) ==
  /\ At(w, "release")
  /\ index' = UnregisterFrom(index, FinalPath(w))
  /\ \/ /\ ~Stored(w).exists
        /\ Retry(w)
        /\ UNCHANGED objs
     \/ /\ Stored(w).exists
        /\ objs' = [objs EXCEPT
             ![Cr(w)] = [@ EXCEPT !.exists = FALSE, !.finalizer = FALSE,
                !.ready = FALSE,
                !.removed = IF Copy(w).spec.policy = "Delete" THEN FinalPath(w)
                            ELSE NoPath]]
        /\ workers' = [Outdate(Cr(w), w) EXCEPT ![w] = IdleWorker]
        /\ UNCHANGED queue
  /\ UNCHANGED <<objRest, remote>>

WorkerStep(w) ==
  \/ TakeItem(w) \/ Read(w) \/ Claim(w) \/ ApplyResource(w) \/ Annotate(w)
  \/ MarkApplied(w) \/ RemoveRemote(w) \/ Release(w)

-----------------------------------------------------------------------------
(* The environment *)

envRest == <<seen, watches, queue, index, remote>>

\* Users create, edit and delete generated resources; a resource without a
\* finalizer goes at once.
CreateOrEdit(c, s) ==
  /\ Spend("edits")
  /\ \/ /\ ~objs[c].exists /\ crd = "established"
        /\ objs' = [objs EXCEPT ![c] = [NoObj EXCEPT !.exists = TRUE, !.spec = s,
                                                     !.gen = objs[c].gen + 1]]
     \/ /\ objs[c].exists /\ objs[c].spec # s
        /\ objs' = [objs EXCEPT ![c].spec = s, ![c].gen = @ + 1]
  /\ workers' = [w \in Workers |->
                   IF workers[w].pc # "idle" /\ Cr(w) = c
                   THEN [workers[w] EXCEPT !.stale = TRUE] ELSE workers[w]]
  /\ UNCHANGED <<envRest, generator, bundle, crd>>

Deleted(o) == IF o.finalizer THEN [o EXCEPT !.deleting = TRUE]
              ELSE [o EXCEPT !.exists = FALSE]

DeleteResource(c) ==
  /\ objs[c].exists /\ ~objs[c].deleting
  /\ Spend("admin")
  /\ objs' = [objs EXCEPT ![c] = Deleted(@)]
  /\ workers' = [w \in Workers |->
                   IF workers[w].pc # "idle" /\ Cr(w) = c
                   THEN [workers[w] EXCEPT !.stale = TRUE] ELSE workers[w]]
  /\ UNCHANGED <<envRest, generator, bundle, crd>>

\* The API server: names accepted, definition established; a definition that
\* is deleted takes its resources along first.
CRDProgress ==
  /\ \/ crd = "establishing" /\ crd' = "established" /\ UNCHANGED <<objs, workers>>
     \/ /\ crd = "terminating"
        /\ IF \A c \in CRs : ~objs[c].exists
           THEN crd' = "absent" /\ UNCHANGED <<objs, workers>>
           ELSE /\ UNCHANGED crd
                /\ \E c \in CRs : /\ objs[c].exists /\ ~objs[c].deleting
                                  /\ objs' = [objs EXCEPT ![c] = Deleted(@)]
                /\ workers' = [w \in Workers |-> IF workers[w].pc # "idle"
                                 THEN [workers[w] EXCEPT !.stale = TRUE] ELSE workers[w]]
  /\ UNCHANGED <<envRest, generator, bundle, budget>>

\* An administrator deletes the definition or the generator, edits the
\* generator, or removes a foreign definition; the bundle changes.
Administer ==
  /\ Spend("admin")
  /\ \/ /\ crd \in {"established", "establishing"} /\ crd' = "terminating"
        /\ UNCHANGED <<generator, bundle>>
     \/ /\ crd = "foreign" /\ crd' = "absent"
        /\ UNCHANGED <<generator, bundle>>
     \/ /\ generator.exists /\ generator.finalizer /\ ~generator.deleting
        /\ generator' = [generator EXCEPT !.deleting = TRUE, !.queued = TRUE]
        /\ UNCHANGED <<crd, bundle>>
     \/ /\ generator.exists
        /\ generator' = [generator EXCEPT !.valid = ~@, !.queued = TRUE]
        /\ UNCHANGED <<crd, bundle>>
     \/ /\ bundle' = ~bundle
        /\ generator' = [generator EXCEPT !.queued = generator.exists]
        /\ UNCHANGED crd
  /\ UNCHANGED <<envRest, objs, workers>>

\* A restart: index, queue and watches live in memory.
Crash ==
  /\ Spend("faults")
  /\ generator' = [generator EXCEPT !.pc = "idle", !.queued = generator.exists]
  /\ seen' = [v \in Versions |-> [c \in CRs |-> Summary(NoObj)]]
  /\ watches' = [v \in Versions |-> NoWatch]
  /\ queue' = {}
  /\ workers' = [w \in Workers |-> IdleWorker]
  /\ index' = EmptyIndex
  /\ UNCHANGED <<bundle, crd, objs, remote>>

Next ==
  \/ GeneratorStep \/ GeneratorCallFails
  \/ \E c \in CRs, v \in Versions : InformerSees(c, v)
  \/ \E w \in Workers : WorkerStep(w) \/ ApplyFails(w)
  \/ \E c \in CRs : DeleteResource(c) \/ (\E s \in Specs : CreateOrEdit(c, s))
  \/ CRDProgress \/ Administer \/ Crash

Spec == Init /\ [][Next]_vars

\* The API server, the controller's queue, the informers and the workers run.
Fairness ==
  /\ WF_vars(GeneratorStep)
  /\ WF_vars(CRDProgress)
  /\ \A c \in CRs, v \in Versions : WF_vars(InformerSees(c, v))
  /\ \A w \in Workers : WF_vars(WorkerStep(w))

FairSpec == Spec /\ Fairness

-----------------------------------------------------------------------------
(* Properties *)

Watched == \A v \in Versions : watches[v].informer = "running"

\* Nothing is queued, served or under way for c.
AtRest(c) ==
  /\ Watched
  /\ \A v \in Versions : seen[v][c] = Summary(objs[c])
  /\ \A i \in queue : i.cr # c
  /\ \A w \in Workers : workers[w].pc # "idle" => Cr(w) # c

\* The status of a generated resource that nobody is working on tells the
\* truth: Ready for the current generation means that the service holds the
\* payload, although the status may be written for a newer generation than
\* was applied.
ReadyIsApplied ==
  \A c \in CRs :
    /\ AtRest(c) /\ objs[c].exists /\ ~objs[c].deleting
    /\ objs[c].ready /\ objs[c].observed = objs[c].gen
    => remote[PathOf(objs[c], c)] = objs[c].spec.payload

\* With deletionPolicy Delete the remote resource does not outlive the
\* generated one: no late apply brings it back.
DeletedIsRemoved ==
  \A c \in CRs : ~objs[c].exists /\ objs[c].removed # NoPath =>
                    remote[objs[c].removed] = Absent

\* A generator that is gone has left no resource, no watch and no ownership.
GeneratorGoneIsClean ==
  ~generator.exists =>
    /\ \A c \in CRs : ~objs[c].exists
    /\ \A v \in Versions : ~watches[v].registered
    /\ index = EmptyIndex

\* finalizeGeneratedResource leaves nothing behind of a resource, nor the generator of itself,
\* whichever reconcile, crash or retry comes between its steps.
NothingLeftBehind == DeletedIsRemoved /\ GeneratorGoneIsClean

\* ConflictIndex mirrors the live resources ("rebuilds this process-local
\* index from live generated CRs"): an applied resource at rest is owned, so
\* SyncPolicy leaves it alone.
AppliedIsOwned ==
  \A c \in CRs :
    /\ AtRest(c) /\ objs[c].exists /\ ~objs[c].deleting
    /\ objs[c].ready /\ objs[c].observed = objs[c].gen
    => PathOf(objs[c], c) \in index.tier1

\* While the generator is in force and its watches run, every generated
\* resource ends up applied or, when deleted, gone.
Serving == generator.exists /\ ~generator.deleting /\ Watched
EventuallyApplied ==
  <>[](Serving => \A c \in CRs : objs[c].exists /\ objs[c].spec.coll # Invalid =>
         ~objs[c].deleting /\ objs[c].ready /\ objs[c].observed = objs[c].gen)
=============================================================================
