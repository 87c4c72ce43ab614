------------------------------ MODULE SyncPolicy ------------------------------
(***************************************************************************)
(* The SyncPolicy controller of the declarest operator                      *)
(* (internal/operator/controllers/syncpolicy_controller.go): one SyncPolicy *)
(* object, its one reconcile worker (controller-runtime never runs two      *)
(* reconciles of one key), and everything the worker reads: the informer's  *)
(* copy of the policy, the dependencies, the fetched repository revision    *)
(* and the working tree it names, the referenced Secrets, the full-resync   *)
(* clock and the CRDGenerator ownership index.                              *)
(*                                                                          *)
(* Resources stand for logical paths; a payload is an element of Values.    *)
(* Content[rev][res] is what revision rev of the repository declares for    *)
(* res.  Revision 0 stands for "no revision" and for a missing tree.        *)
(***************************************************************************)
EXTENDS Integers, FiniteSets

CONSTANTS
  Resources,      \* logical paths
  Values,         \* payloads
  Absent,         \* no payload: undeclared in Git, or not present remotely
  Revisions,      \* the commits of the tracked branch, oldest first
  Content,        \* what each commit declares
  Specs,          \* the specs users write
  Dependencies,   \* the objects the policy references, "repository" included
  MaxGen,         \* bound: metadata.generation
  MaxSecret,      \* bound: versions of the referenced Secrets
  MaxTick,        \* bound: firings of spec.fullResyncCron
  MaxFaults,      \* bound: failed calls and operator crashes
  MaxFlaps,       \* bound: changes of a dependency's readiness
  MaxOverlaps,    \* bound: another policy starts or stops to overlap
  MaxHandovers,   \* bound: changes of CRDGenerator ownership
  FetchAnytime    \* may tree and repository status move on their own?

NoRev == 0

Payloads == Values \cup {Absent}
SpecType == [suspend: BOOLEAN, valid: BOOLEAN, recursive: BOOLEAN,
             prune: BOOLEAN, cron: BOOLEAN, scope: SUBSET Resources]

ASSUME ConstantsAssumption ==
  /\ Revisions \subseteq Nat \ {NoRev}
  /\ Content \in [Revisions -> [Resources -> Payloads]]
  /\ Specs \subseteq SpecType /\ Specs # {}
  /\ "repository" \in Dependencies
  /\ Absent \notin Values
  /\ {MaxGen, MaxSecret, MaxTick, MaxFaults, MaxFlaps, MaxOverlaps,
      MaxHandovers} \subseteq Nat
  /\ FetchAnytime \in BOOLEAN

VARIABLES
  policy,       \* the SyncPolicy object in the API server
  cached,       \* the copy the informer holds: what client Get returns
  cacheStale,   \* the API server's resourceVersion is ahead of the cache's
  deps,         \* what loading each dependency finds
  repoRev,      \* status.lastFetchedRevision of the ResourceRepository
  tree,         \* the revision checked out in its working tree
  secret,       \* resourceVersion of the referenced Secrets
  tick,         \* how often the full-resync cron has fired
  overlap,      \* another non-deleting policy overlaps this one's path
  owned,        \* resources the ConflictIndex gives to a CRDGenerator
  remote,       \* the managed service: resource -> payload
  refsKnown,    \* secretRefs maps the referenced Secrets to this policy
  queue,        \* the work queue: key added; delayed add outstanding
  worker,       \* the reconcile in progress
  fullSecret,   \* history: Secret version the last finished full sync used
  budget        \* environment changes spent, per bound

env  == <<deps, repoRev, tree, secret, tick, overlap, owned, budget>>
vars == <<policy, cached, cacheStale, remote, refsKnown, queue, worker,
          fullSecret, env>>

-----------------------------------------------------------------------------
(* State of the objects *)

StatusType == [observed: Nat, applied: Nat, attempted: Nat, secretHash: Nat,
               resynced: Int, ready: BOOLEAN, reconciling: BOOLEAN,
               stalled: BOOLEAN]

PolicyType == [exists: BOOLEAN, deleting: BOOLEAN, finalizer: BOOLEAN,
               gen: Nat, spec: SpecType, status: StatusType]

\* A policy nobody has reconciled yet: every status field has its zero value.
\* resynced = -1 is a nil lastFullResyncTime.
NewStatus == [observed |-> 0, applied |-> NoRev, attempted |-> NoRev,
              secretHash |-> 0, resynced |-> -1, ready |-> FALSE,
              reconciling |-> FALSE, stalled |-> FALSE]

NewPolicy(s) == [exists |-> TRUE, deleting |-> FALSE, finalizer |-> FALSE,
                 gen |-> 1, spec |-> s, status |-> NewStatus]

Gone(p) == [p EXCEPT !.exists = FALSE]

DependencyStates == {"Ready", "NotReady"}

\* The steps of one reconcile.
Syncing == {"plan", "list", "apply", "prune"}
Steps == {"idle", "finalizer", "validate", "load", "check", "build", "attempt"}
         \cup Syncing

\* syncPolicyReconciliation: obj is the in-memory copy, stale that its
\* resourceVersion is no longer the server's, rev the fetched revision read
\* with the repository, secret what the runtime context was built from, todo
\* and prunes the rest of the plan, failed a collected prune error.
WorkerType == [pc: Steps, obj: PolicyType, stale: BOOLEAN, rev: Nat,
               secret: Nat, full: BOOLEAN, todo: SUBSET Resources,
               prunes: SUBSET Resources, failed: BOOLEAN]

IdleWith(p) == [pc |-> "idle", obj |-> p, stale |-> FALSE, rev |-> NoRev,
                secret |-> 0, full |-> FALSE, todo |-> {}, prunes |-> {},
                failed |-> FALSE]

\* The worker after its reconcile returned.  The copy it leaves behind is
\* dead: the next reconcile reads a new one.
Idle == IdleWith(Gone(NewPolicy(CHOOSE s \in Specs : TRUE)))

BudgetType == [faults: 0..MaxFaults, flaps: 0..MaxFlaps,
               overlaps: 0..MaxOverlaps, handovers: 0..MaxHandovers]

TypeOK ==
  /\ policy \in PolicyType
  /\ cached \in PolicyType
  /\ cacheStale \in BOOLEAN
  /\ deps \in [Dependencies -> DependencyStates]
  /\ repoRev \in Revisions \cup {NoRev}
  /\ tree \in Revisions \cup {NoRev}
  /\ secret \in 1..(MaxSecret + 1)
  /\ tick \in 0..MaxTick
  /\ overlap \in BOOLEAN
  /\ owned \in SUBSET Resources
  /\ remote \in [Resources -> Payloads]
  /\ refsKnown \in BOOLEAN
  /\ queue \in [pending: BOOLEAN, timer: BOOLEAN]
  /\ worker \in WorkerType
  /\ fullSecret \in Nat
  /\ budget \in BudgetType
  /\ policy.status.observed <= policy.gen

\* Every dependency ready, but the repository in the given state.
DepsWith(state) ==
  [d \in Dependencies |-> IF d = "repository" THEN state ELSE "Ready"]

Init ==
  /\ \E s \in Specs : policy = NewPolicy(s)
  /\ cached = policy
  /\ cacheStale = FALSE
  /\ \E state \in DependencyStates : deps = DepsWith(state)
  /\ repoRev = NoRev
  /\ tree = NoRev
  /\ secret = 1
  /\ tick = 0
  /\ overlap = FALSE
  /\ owned = {}
  /\ remote = [r \in Resources |-> Absent]
  /\ refsKnown = FALSE
  /\ queue = [pending |-> TRUE, timer |-> FALSE]
  /\ worker = Idle
  /\ fullSecret = 0
  /\ budget = [faults |-> 0, flaps |-> 0, overlaps |-> 0, handovers |-> 0]

-----------------------------------------------------------------------------
(* What the code computes from the state *)

\* What the working tree declares for r; a missing tree declares nothing
\* (the local store lists a missing directory as empty).
Declared(rev, r) == IF rev = NoRev THEN Absent ELSE Content[rev][r]

LocalTargets(rev, scope) == {r \in scope : Declared(rev, r) # Absent}

\* shouldRunFullResync: a cron that never ran is due at once.
FullResyncDue(p) == p.spec.cron /\ p.status.resynced < tick

SecretHashChanged(p) == p.status.secretHash # secret

\* The test of checkSyncStatus for an early return.
AlreadyAtDesiredState(p, rev) ==
  /\ p.status.observed = p.gen
  /\ p.status.applied = rev
  /\ ~SecretHashChanged(p)
  /\ ~FullResyncDue(p)

\* buildSyncExecutionPlan: when the plan is full whatever the diff says.
MustBeFull(p, rev) ==
  \/ FullResyncDue(p)
  \/ SecretHashChanged(p)
  \/ p.status.observed # p.gen
  \/ p.status.applied = NoRev
  \/ p.status.applied # rev /\ ~p.spec.recursive

\* Mutant of ChangedBetween: a diff that overlooks removed resources.
ChangedBetweenNoRemovals(base, rev, scope) ==
  {r \in LocalTargets(rev, scope) : Declared(base, r) # Declared(rev, r)}

\* The repository diff restricted to the policy's scope.
ChangedBetween(base, rev, scope) ==
  {r \in scope : Declared(base, r) # Declared(rev, r)}

\* Mutant of NotReadyStatus: an off-by-one in the observed generation.
NotReadyStatusAhead(p) ==
  [p.status EXCEPT !.observed = p.gen + 1, !.ready = FALSE,
                   !.reconciling = FALSE, !.stalled = TRUE]

\* setNotReady: a failed reconcile records the generation as observed.
NotReadyStatus(p) ==
  [p.status EXCEPT !.observed = p.gen, !.ready = FALSE,
                   !.reconciling = FALSE, !.stalled = TRUE]

SuspendedStatus(p) ==
  [p.status EXCEPT !.observed = p.gen, !.ready = FALSE,
                   !.reconciling = FALSE, !.stalled = FALSE]

\* Mutant of AttemptStatus: Reconciling is not announced.
AttemptStatusQuiet(p, rev) ==
  [p.status EXCEPT !.observed = p.gen, !.attempted = rev]

AttemptStatus(p, rev) ==
  [p.status EXCEPT !.observed = p.gen, !.attempted = rev,
                   !.reconciling = TRUE]

SuccessStatus(p, rev, hash, full) ==
  [p.status EXCEPT !.applied = rev, !.secretHash = hash, !.ready = TRUE,
                   !.reconciling = FALSE, !.stalled = FALSE,
                   !.resynced = IF full THEN tick ELSE @]

-----------------------------------------------------------------------------
(* The reconcile *)

\* Mutant of Return: an error or RequeueAfter is swallowed.
ReturnNoRequeue(retry) ==
  /\ worker' = Idle
  /\ retry \in BOOLEAN
  /\ UNCHANGED queue

\* The reconcile returned: retry is a RequeueAfter or an error (backoff).
Return(retry) ==
  /\ worker' = Idle
  /\ queue' = [queue EXCEPT !.timer = @ \/ retry]

\* Mutant of StatusWrite: an unconditional write (no resourceVersion).
StatusWriteBlind(st) ==
  /\ policy' = [policy EXCEPT !.status = st]
  /\ cacheStale' = TRUE

\* Status().Update with the in-memory object: a resourceVersion that is no
\* longer the server's is refused and nothing is written.
StatusWrite(st) ==
  /\ ~worker.stale
  /\ policy' = [policy EXCEPT !.status = st]
  /\ cacheStale' = TRUE

\* Mutant of StatusRefused: the conflict is taken for done.
StatusRefusedQuiet ==
  /\ worker.stale
  /\ Return(FALSE)
  /\ UNCHANGED <<policy, cacheStale>>

StatusRefused ==
  /\ worker.stale
  /\ Return(TRUE)
  /\ UNCHANGED <<policy, cacheStale>>

\* failWithStatus and returnAfterSetNotReady.
FailWithStatus(retry) ==
  \/ StatusRefused
  \/ StatusWrite(NotReadyStatus(worker.obj)) /\ Return(retry)

\* Reconcile: take the key and read the policy from the informer's cache.
StartReconcile ==
  /\ worker.pc = "idle"
  /\ queue.pending
  /\ queue' = [queue EXCEPT !.pending = FALSE]
  /\ worker' = IF cached.exists
               THEN [Idle EXCEPT !.pc = "finalizer", !.obj = cached,
                                 !.stale = cacheStale]
               ELSE Idle
  /\ UNCHANGED <<policy, cached, cacheStale, remote, refsKnown, fullSecret, env>>

\* handleFinalizer: Update adds the finalizer; a deleting policy drops its
\* Secret references and its cache directory, then loses the finalizer.
HandleFinalizer ==
  /\ worker.pc = "finalizer"
  /\ refsKnown' = (refsKnown /\ ~worker.obj.deleting)
  /\ \/ /\ worker.obj.finalizer => worker.obj.deleting
        /\ StatusRefused
     \/ /\ ~worker.obj.finalizer
        /\ ~worker.obj.deleting
        /\ ~worker.stale
        /\ policy' = [policy EXCEPT !.finalizer = TRUE]
        /\ cacheStale' = TRUE
        /\ worker' = [worker EXCEPT !.pc = "validate", !.obj.finalizer = TRUE]
        /\ UNCHANGED queue
     \/ /\ worker.obj.deleting
        /\ ~worker.stale
        /\ policy' = [policy EXCEPT !.finalizer = FALSE, !.exists = FALSE]
        /\ cacheStale' = TRUE
        /\ Return(FALSE)
     \/ /\ worker.obj.finalizer
        /\ ~worker.obj.deleting
        /\ worker' = [worker EXCEPT !.pc = "validate"]
        /\ UNCHANGED <<policy, cacheStale, queue>>
  /\ UNCHANGED <<cached, remote, fullSecret, env>>

\* validatePrerequisites: neither an invalid spec, nor a suspended policy,
\* nor an overlapping one is requeued.
ValidatePrerequisites ==
  /\ worker.pc = "validate"
  /\ \/ /\ ~worker.obj.spec.valid
        /\ FailWithStatus(FALSE)
     \/ /\ worker.obj.spec.valid
        /\ worker.obj.spec.suspend
        /\ \/ StatusRefused
           \/ StatusWrite(SuspendedStatus(worker.obj)) /\ Return(FALSE)
     \/ /\ worker.obj.spec.valid
        /\ ~worker.obj.spec.suspend
        /\ overlap
        /\ FailWithStatus(FALSE)
     \/ /\ worker.obj.spec.valid
        /\ ~worker.obj.spec.suspend
        /\ ~overlap
        /\ worker' = [worker EXCEPT !.pc = "load"]
        /\ UNCHANGED <<policy, cacheStale, queue>>
  /\ UNCHANGED <<cached, remote, refsKnown, fullSecret, env>>

\* loadDependencies: any dependency that is missing, invalid or not ready
\* fails the reconcile (and is retried); otherwise the Secret references are
\* recorded and the repository's status is the snapshot the sync works from.
LoadDependencies ==
  /\ worker.pc = "load"
  /\ \/ /\ \E d \in Dependencies : deps[d] # "Ready"
        /\ FailWithStatus(TRUE)
        /\ UNCHANGED refsKnown
     \/ /\ \A d \in Dependencies : deps[d] = "Ready"
        /\ refsKnown' = TRUE
        /\ worker' = [worker EXCEPT !.pc = "check", !.rev = repoRev]
        /\ UNCHANGED <<policy, cacheStale, queue>>
  /\ UNCHANGED <<cached, remote, fullSecret, env>>

\* checkSyncStatus: the early return leaves every condition as it is.
CheckSyncStatus ==
  /\ worker.pc = "check"
  /\ \/ /\ worker.rev = NoRev
        /\ FailWithStatus(TRUE)
     \/ /\ worker.rev # NoRev
        /\ AlreadyAtDesiredState(worker.obj, worker.rev)
        /\ Return(TRUE)
        /\ UNCHANGED <<policy, cacheStale>>
     \/ /\ worker.rev # NoRev
        /\ ~AlreadyAtDesiredState(worker.obj, worker.rev)
        /\ worker' = [worker EXCEPT !.pc = "build"]
        /\ UNCHANGED <<policy, cacheStale, queue>>
  /\ UNCHANGED <<cached, remote, refsKnown, fullSecret, env>>

\* performSync, first part: buildRuntimeContext reads the Secrets and needs
\* the working tree to be there.
BuildRuntime ==
  /\ worker.pc = "build"
  /\ \/ /\ tree = NoRev
        /\ FailWithStatus(TRUE)
     \/ /\ tree # NoRev
        /\ worker' = [worker EXCEPT !.pc = "attempt", !.secret = secret]
        /\ UNCHANGED <<policy, cacheStale, queue>>
  /\ UNCHANGED <<cached, remote, refsKnown, fullSecret, env>>

\* Mutant of BeginAttempt: a refused status write does not stop the sync.
BeginAttemptUnchecked ==
  /\ worker.pc = "attempt"
  /\ worker' = [worker EXCEPT
       !.pc = "plan", !.obj.status = AttemptStatus(worker.obj, worker.rev)]
  /\ IF worker.stale
     THEN UNCHANGED <<policy, cacheStale>>
     ELSE StatusWrite(AttemptStatus(worker.obj, worker.rev))
  /\ UNCHANGED <<queue, cached, remote, refsKnown, fullSecret, env>>

\* performSync: the status write before the plan.  It is also what keeps a
\* reconcile that read an old copy from changing the managed service.
BeginAttempt ==
  /\ worker.pc = "attempt"
  /\ \/ StatusRefused
     \/ /\ StatusWrite(AttemptStatus(worker.obj, worker.rev))
        /\ worker' = [worker EXCEPT
             !.pc = "plan",
             !.obj.status = AttemptStatus(worker.obj, worker.rev)]
        /\ UNCHANGED queue
  /\ UNCHANGED <<cached, remote, refsKnown, fullSecret, env>>

\* buildExecutionPlan.  A diff that cannot be computed (the base commit is
\* not in the shallow clone, or the clone is being replaced) gives a full plan.
PlanSync ==
  /\ worker.pc = "plan"
  /\ LET p == worker.obj
         base == p.status.applied
         full == [worker EXCEPT !.pc = "list", !.full = TRUE]
     IN \/ /\ MustBeFull(p, worker.rev) \/ base # worker.rev
           /\ worker' = full
        \/ /\ ~MustBeFull(p, worker.rev)
           /\ LET changed == ChangedBetween(base, worker.rev, p.spec.scope)
                  present == LocalTargets(worker.rev, changed)
              IN worker' = [worker EXCEPT !.pc = "apply", !.todo = present,
                                          !.prunes = changed \ present]
  /\ UNCHANGED <<policy, cached, cacheStale, remote, refsKnown, queue,
                 fullSecret, env>>

\* applyChanges of a full plan lists the tree; nothing to list is an error.
ListTargets ==
  /\ worker.pc = "list"
  /\ LET targets == LocalTargets(tree, worker.obj.spec.scope)
     IN \/ /\ targets = {}
           /\ FailWithStatus(TRUE)
        \/ /\ targets # {}
           /\ worker' = [worker EXCEPT !.pc = "apply", !.todo = targets]
           /\ UNCHANGED <<policy, cacheStale, queue>>
  /\ UNCHANGED <<cached, remote, refsKnown, fullSecret, env>>

\* applyChanges, one target: the payload is read from the tree when its turn
\* comes; a target owned by a CRDGenerator is skipped; the order of the
\* targets is left open.
ApplyOne(r) ==
  /\ worker.pc = "apply"
  /\ r \in worker.todo
  /\ \/ /\ r \in owned \/ Declared(tree, r) # Absent
        /\ remote' = IF r \in owned THEN remote
                     ELSE [remote EXCEPT ![r] = Declared(tree, r)]
        /\ worker' = [worker EXCEPT !.todo = @ \ {r}]
        /\ UNCHANGED <<policy, cacheStale, queue>>
     \/ /\ r \notin owned
        /\ Declared(tree, r) = Absent
        /\ FailWithStatus(TRUE)
        /\ UNCHANGED remote
  /\ UNCHANGED <<cached, refsKnown, fullSecret, env>>

\* pruneChanges: a full plan prunes what the service has and the tree, as it
\* is now, has not; an incremental one what the diff removed.
BeginPrune ==
  /\ worker.pc = "apply"
  /\ worker.todo = {}
  /\ LET p == worker.obj
         candidates ==
           IF worker.full
           THEN {r \in p.spec.scope :
                   remote[r] # Absent /\ Declared(tree, r) = Absent}
           ELSE worker.prunes
     IN worker' = [worker EXCEPT !.pc = "prune",
                     !.prunes = IF p.spec.prune THEN candidates ELSE {}]
  /\ UNCHANGED <<policy, cached, cacheStale, remote, refsKnown, queue,
                 fullSecret, env>>

\* deletePruneCandidates, one candidate: NotFound counts as done.
PruneOne(r) ==
  /\ worker.pc = "prune"
  /\ r \in worker.prunes
  /\ remote' = IF r \in owned THEN remote ELSE [remote EXCEPT ![r] = Absent]
  /\ worker' = [worker EXCEPT !.prunes = @ \ {r}]
  /\ UNCHANGED <<policy, cached, cacheStale, refsKnown, queue, fullSecret, env>>

\* Collected prune errors fail the sync.
PruneFailed ==
  /\ worker.pc = "prune"
  /\ worker.prunes = {}
  /\ worker.failed
  /\ FailWithStatus(TRUE)
  /\ UNCHANGED <<cached, remote, refsKnown, fullSecret, env>>

\* updateSuccessStatus: the Secret hash is computed anew.
UpdateSuccessStatus ==
  /\ worker.pc = "prune"
  /\ worker.prunes = {}
  /\ ~worker.failed
  /\ \/ StatusRefused /\ UNCHANGED fullSecret
     \/ /\ StatusWrite(SuccessStatus(worker.obj, worker.rev, secret, worker.full))
        /\ fullSecret' = IF worker.full THEN worker.secret ELSE fullSecret
        /\ Return(TRUE)
  /\ UNCHANGED <<cached, remote, refsKnown, env>>

\* A call to the API server or the managed service fails: the reconcile ends
\* in an error.  An apply or delete that fails may have taken effect.
CallFails ==
  /\ worker.pc # "idle"
  /\ budget.faults < MaxFaults
  /\ budget' = [budget EXCEPT !.faults = @ + 1]
  /\ \/ /\ worker.pc \in {"load", "build"}
        /\ FailWithStatus(TRUE)
        /\ UNCHANGED remote
     \/ /\ worker.pc = "apply"
        /\ FailWithStatus(TRUE)
        /\ \E r \in LocalTargets(tree, worker.todo) \ owned :
             remote' \in {remote, [remote EXCEPT ![r] = Declared(tree, r)]}
     \/ /\ worker.pc = "prune"
        /\ \E r \in worker.prunes \ owned :
             /\ remote' \in {remote, [remote EXCEPT ![r] = Absent]}
             /\ worker' = [worker EXCEPT !.prunes = @ \ {r}, !.failed = TRUE]
        /\ UNCHANGED <<policy, cacheStale, queue>>
     \/ /\ worker.pc \in {"finalizer", "attempt"}
        /\ Return(TRUE)
        /\ UNCHANGED <<policy, cacheStale, remote>>
  /\ UNCHANGED <<cached, refsKnown, fullSecret, deps, repoRev, tree, secret,
                 tick, overlap, owned>>

\* What the informer shows of the ResourceRepository: the revision it has
\* published and its Ready condition.
RepositorySeen(rev, state) ==
  /\ repoRev' = rev
  /\ deps' = [deps EXCEPT !["repository"] = state]

\* The operator dies and starts again: the reconcile is cut off wherever it
\* was, the process-local state is lost, the informer lists every object.
Crash ==
  /\ budget.faults < MaxFaults
  /\ budget' = [budget EXCEPT !.faults = @ + 1]
  /\ worker' = Idle
  /\ refsKnown' = FALSE
  /\ cached' = policy
  /\ cacheStale' = FALSE
  /\ queue' = [pending |-> policy.exists, timer |-> FALSE]
  /\ \/ UNCHANGED <<repoRev, deps>>
     \/ /\ FetchAnytime
        /\ \E rev \in Revisions \cup {NoRev}, state \in DependencyStates :
             RepositorySeen(rev, state)
  /\ UNCHANGED <<policy, remote, fullSecret, tree, secret, tick, overlap, owned>>

ReconcileStep ==
  \/ StartReconcile \/ HandleFinalizer \/ ValidatePrerequisites
  \/ LoadDependencies \/ CheckSyncStatus \/ BuildRuntime \/ BeginAttempt
  \/ PlanSync \/ ListTargets
  \/ \E r \in Resources : ApplyOne(r)
  \/ BeginPrune
  \/ \E r \in Resources : PruneOne(r)
  \/ PruneFailed \/ UpdateSuccessStatus

-----------------------------------------------------------------------------
(* The environment *)

Enqueue(b) == queue' = [queue EXCEPT !.pending = @ \/ b]

\* A delayed add (RequeueAfter, backoff) comes due.
TimerFires ==
  /\ queue.timer
  /\ queue' = [pending |-> TRUE, timer |-> FALSE]
  /\ UNCHANGED <<policy, cached, cacheStale, remote, refsKnown, worker,
                 fullSecret, env>>

\* The informer catches up; GenerationChangedPredicate passes a change of the
\* generation, and a deletion always.
CacheSync ==
  /\ cacheStale
  /\ cached' = policy
  /\ cacheStale' = FALSE
  /\ Enqueue(cached.gen # policy.gen \/ cached.exists # policy.exists)
  /\ UNCHANGED <<policy, remote, refsKnown, worker, fullSecret, env>>

\* A user writes the spec: the generation moves.
EditSpec(s) ==
  /\ policy.exists /\ ~policy.deleting
  /\ policy.gen < MaxGen
  /\ s # policy.spec
  /\ policy' = [policy EXCEPT !.spec = s, !.gen = @ + 1]
  /\ cacheStale' = TRUE
  /\ worker' = [worker EXCEPT !.stale = (worker.pc # "idle")]
  /\ UNCHANGED <<cached, remote, refsKnown, queue, fullSecret, env>>

\* A user deletes the policy: with a finalizer the API server only marks it
\* (and moves the generation).
DeletePolicy ==
  /\ policy.exists /\ ~policy.deleting
  /\ policy.gen <= MaxGen
  /\ policy' = IF policy.finalizer
               THEN [policy EXCEPT !.deleting = TRUE, !.gen = @ + 1]
               ELSE Gone(policy)
  /\ cacheStale' = TRUE
  /\ worker' = [worker EXCEPT !.stale = (worker.pc # "idle")]
  /\ UNCHANGED <<cached, remote, refsKnown, queue, fullSecret, env>>

\* The ResourceRepository controller, seen from here, when it only works
\* between syncs and branches only grow: it moves the tree to a commit and
\* publishes it.
Fetch(rev) ==
  /\ ~FetchAnytime /\ rev > tree /\ worker.pc = "idle"
  /\ tree' = rev
  /\ RepositorySeen(rev, "Ready")
  /\ Enqueue(cached.exists)
  /\ UNCHANGED <<policy, cached, cacheStale, remote, refsKnown, worker,
                 fullSecret, secret, tick, overlap, owned, budget>>

\* And when it does not: the tree moves, or is away for a while, with no lock
\* between the two controllers, and what the informer shows follows later.
TreeMoves(rev) ==
  /\ FetchAnytime
  /\ tree' = rev
  /\ UNCHANGED <<policy, cached, cacheStale, remote, refsKnown, queue, worker,
                 fullSecret, deps, repoRev, secret, tick, overlap, owned, budget>>

RepositoryChanges(rev, state) ==
  /\ FetchAnytime
  /\ RepositorySeen(rev, state)
  /\ Enqueue(cached.exists)
  /\ UNCHANGED <<policy, cached, cacheStale, remote, refsKnown, worker,
                 fullSecret, tree, secret, tick, overlap, owned, budget>>

DependencyChanges(d, state) ==
  /\ budget.flaps < MaxFlaps
  /\ deps[d] # state
  /\ deps' = [deps EXCEPT ![d] = state]
  /\ budget' = [budget EXCEPT !.flaps = @ + 1]
  /\ Enqueue(cached.exists)
  /\ UNCHANGED <<policy, cached, cacheStale, remote, refsKnown, worker,
                 fullSecret, repoRev, tree, secret, tick, overlap, owned>>

\* A referenced Secret gets a new resourceVersion; the watch finds the policy
\* only through secretRefs.
RotateSecret ==
  /\ secret <= MaxSecret
  /\ secret' = secret + 1
  /\ Enqueue(refsKnown)
  /\ UNCHANGED <<policy, cached, cacheStale, remote, refsKnown, worker,
                 fullSecret, deps, repoRev, tree, tick, overlap, owned, budget>>

CronTick ==
  /\ tick < MaxTick
  /\ tick' = tick + 1
  /\ UNCHANGED <<policy, cached, cacheStale, remote, refsKnown, queue, worker,
                 fullSecret, deps, repoRev, tree, secret, overlap, owned, budget>>

\* Another policy appears, moves or goes: no watch leads from it to this one.
OverlapChanges ==
  /\ budget.overlaps < MaxOverlaps
  /\ overlap' = ~overlap
  /\ budget' = [budget EXCEPT !.overlaps = @ + 1]
  /\ UNCHANGED <<policy, cached, cacheStale, remote, refsKnown, queue, worker,
                 fullSecret, deps, repoRev, tree, secret, tick, owned>>

\* A generated resource is registered in, or dropped from, the ConflictIndex.
OwnershipChanges(r) ==
  /\ budget.handovers < MaxHandovers
  /\ owned' = IF r \in owned THEN owned \ {r} ELSE owned \cup {r}
  /\ budget' = [budget EXCEPT !.handovers = @ + 1]
  /\ UNCHANGED <<policy, cached, cacheStale, remote, refsKnown, queue, worker,
                 fullSecret, deps, repoRev, tree, secret, tick, overlap>>

UserStep == DeletePolicy \/ \E s \in Specs : EditSpec(s)

EnvironmentStep ==
  \/ UserStep
  \/ \E d \in Dependencies, state \in DependencyStates :
        DependencyChanges(d, state)
  \/ RotateSecret \/ CronTick \/ OverlapChanges
  \/ \E r \in Resources : OwnershipChanges(r)

\* Everything but the repository, which ResourceRepository details.
NextWithoutFetch ==
  \/ ReconcileStep \/ CallFails \/ Crash \/ TimerFires \/ CacheSync
  \/ EnvironmentStep

RepositoryStep ==
  \/ \E rev \in Revisions : Fetch(rev)
  \/ \E rev \in Revisions \cup {NoRev} : TreeMoves(rev)
  \/ \E rev \in Revisions \cup {NoRev}, state \in DependencyStates :
        RepositoryChanges(rev, state)

Next == NextWithoutFetch \/ RepositoryStep

Spec == Init /\ [][Next]_vars

\* controller-runtime keeps its workers running, delivers watch events and
\* fires delayed adds; nothing is assumed of users, Git or the services.
Fairness ==
  /\ WF_vars(ReconcileStep)
  /\ WF_vars(TimerFires)
  /\ WF_vars(CacheSync)

FairSpec == Spec /\ Fairness

\* Somebody edits the managed service directly; nothing tells the operator.
Drift ==
  /\ \E r \in Resources, v \in Payloads : remote' = [remote EXCEPT ![r] = v]
  /\ UNCHANGED <<policy, cached, cacheStale, refsKnown, queue, worker,
                 fullSecret, env>>

DriftSpec == Init /\ [][Next \/ Drift]_vars /\ Fairness

-----------------------------------------------------------------------------
(* Properties *)

\* The remote service holds, for every resource in scope that no CRDGenerator
\* owns, what revision rev declares; without prune it may hold more.
Matches(rev) ==
  \A r \in policy.spec.scope \ owned :
     \/ remote[r] = Declared(rev, r)
     \/ ~policy.spec.prune /\ Declared(rev, r) = Absent

\* The policy reports a finished, successful sync of the fetched revision for
\* the spec it now has.
ReportsInSync ==
  /\ policy.exists /\ ~policy.deleting
  /\ policy.status.ready /\ ~policy.status.reconciling
  /\ policy.status.observed = policy.gen
  /\ policy.status.applied = repoRev

\* When the policy reports the fetched revision as applied, the managed
\* service holds what that revision declares: the chain of incremental plans,
\* prunes and full resyncs loses nothing.
Converged == ReportsInSync => Matches(repoRev)

\* Ready=True without Reconciling=True means the last attempt is the applied
\* one: an attempt that failed, conflicted or crashed is never hidden behind
\* an older success (conditions and revisions are written by three different
\* steps of the reconcile).
ReadyMeansLastAttemptApplied ==
  policy.status.ready /\ ~policy.status.reconciling =>
    policy.status.applied = policy.status.attempted

\* A policy that a reconcile could still advance is never forgotten: when no
\* reconcile runs and none is queued or scheduled, the policy is gone, waits
\* for its user (suspended, invalid, was found overlapping), or an event for
\* it is still on its way.
NoLostWakeup ==
  worker.pc = "idle" /\ ~queue.pending /\ ~queue.timer =>
    \/ ~policy.exists
    \/ cacheStale
    \/ policy.spec.suspend
    \/ ~policy.spec.valid
    \/ budget.overlaps > 0

\* A recorded Secret hash means a full sync ran with those Secrets.
RotationFullySynced ==
  policy.status.applied # NoRev => fullSecret = policy.status.secretHash

\* The managed service is changed only under a policy that still exists with
\* its finalizer and whose status announces this very attempt: no reconcile
\* working from an old cached copy, and none that outlives a deletion,
\* reaches the service.
MutationsAnnounced ==
  [][remote' # remote =>
       /\ policy.exists /\ policy.finalizer
       /\ policy.status.reconciling
       /\ policy.status.attempted = worker.rev]_vars

\* A success is recorded only against the spec it was computed from: an edit
\* or a deletion that arrived during the sync makes the write fail.
SuccessForCurrentSpec ==
  [][policy'.status.applied # policy.status.applied =>
       /\ worker.obj.gen = policy.gen
       /\ worker.obj.spec = policy.spec
       /\ ~policy.deleting]_vars

\* Nothing but the passing of time is in the way of a sync.
Runnable ==
  /\ policy.exists /\ ~policy.deleting
  /\ policy.spec.valid /\ ~policy.spec.suspend /\ ~overlap
  /\ \A d \in Dependencies : deps[d] = "Ready"
  /\ LocalTargets(tree, policy.spec.scope) # {}

\* Once the environment is quiet, the fetched revision and the current
\* Secrets are applied and no full resync stays due: conflicts, stale reads,
\* failures, restarts and flapping dependencies never lose the trigger.
EventuallyCaughtUp ==
  <>[](Runnable => /\ policy.status.applied = repoRev
                   /\ policy.status.secretHash = secret
                   /\ ~FullResyncDue(policy))

\* A policy that was stalled by a dependency becomes Ready again once its
\* dependencies are.
StallClears == <>[](Runnable => policy.status.ready)

\* Once nobody edits the managed service directly any more, it goes back to
\* what the fetched revision declares.
DriftCorrected == <>[][~Drift]_vars => <>[](Runnable => Matches(repoRev))
=============================================================================
