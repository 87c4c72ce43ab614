--------------------------- MODULE SyncPolicyProofs ---------------------------
(***************************************************************************)
(* Proofs about SyncPolicy: what the optimistic status writes, the          *)
(* finalizer and the work queue guarantee for every set of resources,       *)
(* revisions and specs and every number of edits, faults and restarts; and  *)
(* that syncs converge where nothing disturbs them.                         *)
(***************************************************************************)
EXTENDS SyncPolicy, TLAPS

\* A reconcile whose copy is not outdated holds exactly the stored object,
\* and an up-to-date cache holds it too; objects are never recreated.
CopiesCurrent ==
  /\ worker.pc # "idle" /\ ~worker.stale => worker.obj = policy
  /\ ~cacheStale => cached = policy
  /\ policy.exists => cached.exists
  /\ cached.gen <= policy.gen
  /\ worker.pc # "idle" => worker.obj.exists

\* Past handleFinalizer the copy has the finalizer and is not being deleted.
Guarded ==
  worker.pc \notin {"idle", "finalizer"} =>
    worker.obj.finalizer /\ ~worker.obj.deleting

\* While plan, apply and prune run, the stored object exists, keeps its
\* finalizer and announces this attempt, whatever users do to its spec.
Announced ==
  worker.pc \in Syncing =>
    /\ policy.exists /\ policy.finalizer
    /\ policy.status.reconciling
    /\ policy.status.attempted = worker.rev

\* NoLostWakeup, with the event named that is still on its way.
WakeupKnown ==
  /\ overlap => budget.overlaps > 0
  /\ worker.pc = "idle" /\ ~queue.pending /\ ~queue.timer =>
       \/ ~policy.exists
       \/ policy.spec.suspend
       \/ ~policy.spec.valid
       \/ budget.overlaps > 0
       \/ cacheStale /\ (cached.gen # policy.gen \/ cached.exists # policy.exists)

IInv == /\ TypeOK
        /\ CopiesCurrent
        /\ Guarded
        /\ Announced
        /\ ReadyMeansLastAttemptApplied
        /\ WakeupKnown

-----------------------------------------------------------------------------
(* The operators the actions are built from keep their types *)

\* The copy an idle worker holds is a worker record.
LEMMA IdleType == Idle \in WorkerType /\ Idle.pc = "idle"
<1>1. PICK s \in SpecType : s = (CHOOSE x \in Specs : TRUE)
  BY ConstantsAssumption
<1>2. NewPolicy(s) \in PolicyType
  BY DEF NewPolicy, PolicyType, NewStatus, StatusType, NoRev
<1>3. Gone(NewPolicy(s)) \in PolicyType
  BY <1>2 DEF Gone, PolicyType
<1>. QED BY <1>1, <1>3 DEF Idle, IdleWith, WorkerType, Steps, NoRev

\* What a tree declares for a resource is a payload.
LEMMA DeclaredType ==
  ASSUME NEW rev \in Revisions \cup {NoRev}, NEW r \in Resources
  PROVE  Declared(rev, r) \in Payloads
BY ConstantsAssumption DEF Declared, Payloads, NoRev

\* The four statuses the reconcile writes are statuses.
LEMMA StatusTypes ==
  ASSUME TypeOK, NEW p \in PolicyType, NEW rev \in Nat, NEW full \in BOOLEAN
  PROVE  /\ NotReadyStatus(p) \in StatusType
         /\ SuspendedStatus(p) \in StatusType
         /\ AttemptStatus(p, rev) \in StatusType
         /\ SuccessStatus(p, rev, secret, full) \in StatusType
<1>1. secret \in Nat /\ tick \in Int
  BY ConstantsAssumption DEF TypeOK
<1>. QED BY <1>1 DEF PolicyType, StatusType, NotReadyStatus, SuspendedStatus,
                     AttemptStatus, SuccessStatus

\* What every way of ending a reconcile has in common.
LEMMA ReturnFacts ==
  ASSUME TypeOK, NEW retry \in BOOLEAN, Return(retry)
  PROVE  /\ worker' \in WorkerType /\ worker'.pc = "idle"
         /\ queue' \in [pending: BOOLEAN, timer: BOOLEAN]
         /\ queue'.timer = (queue.timer \/ retry)
BY IdleType DEF Return, TypeOK

\* A refused status write ends the reconcile and leaves the invariant alone.
LEMMA RefusedKeepsIInv ==
  ASSUME IInv, StatusRefused, UNCHANGED cached, UNCHANGED <<deps, repoRev, tree, secret, tick, overlap, owned>>,
         remote' \in [Resources -> Payloads], refsKnown' \in BOOLEAN,
         fullSecret' \in Nat, budget' \in BudgetType,
         budget'.overlaps = budget.overlaps
  PROVE  IInv'
<1>1. /\ worker' \in WorkerType /\ worker'.pc = "idle"
      /\ queue' \in [pending: BOOLEAN, timer: BOOLEAN]
      /\ queue'.timer
  BY ReturnFacts DEF StatusRefused, IInv
<1>2. TypeOK'
  BY <1>1 DEF IInv, TypeOK, StatusRefused
<1>3. CopiesCurrent' /\ Guarded' /\ Announced'
  BY <1>1 DEF IInv, CopiesCurrent, Guarded, Announced, Syncing, StatusRefused
<1>4. ReadyMeansLastAttemptApplied'
  BY DEF IInv, ReadyMeansLastAttemptApplied, StatusRefused
<1>5. WakeupKnown'
  BY <1>1 DEF IInv, WakeupKnown, StatusRefused
<1>. QED BY <1>2, <1>3, <1>4, <1>5 DEF IInv

\* A failed reconcile that reports NotReady keeps the invariant, if it is
\* requeued or waits for its user.
LEMMA FailKeepsIInv ==
  ASSUME IInv, NEW retry \in BOOLEAN, worker.pc # "idle",
         FailWithStatus(retry),
         retry \/ ~worker.obj.spec.valid \/ overlap,
         UNCHANGED cached, UNCHANGED <<deps, repoRev, tree, secret, tick, overlap, owned>>,
         remote' \in [Resources -> Payloads], refsKnown' \in BOOLEAN,
         fullSecret' \in Nat, budget' \in BudgetType,
         budget'.overlaps = budget.overlaps
  PROVE  IInv'
<1>1. CASE StatusRefused
  BY <1>1, RefusedKeepsIInv
<1>2. CASE StatusWrite(NotReadyStatus(worker.obj)) /\ Return(retry)
  <2>1. /\ worker' \in WorkerType /\ worker'.pc = "idle"
        /\ queue' \in [pending: BOOLEAN, timer: BOOLEAN]
        /\ queue'.timer = (queue.timer \/ retry)
    BY <1>2, ReturnFacts DEF IInv
  <2>2. worker.obj = policy /\ policy \in PolicyType /\ policy.status \in StatusType
    BY <1>2 DEF StatusWrite, IInv, CopiesCurrent, TypeOK, PolicyType
  <2>3. /\ policy' = [policy EXCEPT !.status = NotReadyStatus(policy)]
        /\ cacheStale' = TRUE
    BY <1>2, <2>2 DEF StatusWrite
  <2>4. NotReadyStatus(policy) \in StatusType
    BY <2>2, StatusTypes DEF IInv, TypeOK
  <2>5. /\ NotReadyStatus(policy).observed = policy.gen
        /\ NotReadyStatus(policy).ready = FALSE
    BY <2>2 DEF NotReadyStatus, StatusType
  <2>6. /\ policy' \in PolicyType
        /\ policy'.status = NotReadyStatus(policy)
        /\ policy'.gen = policy.gen /\ policy'.exists = policy.exists
        /\ policy'.spec = policy.spec
    BY <2>2, <2>3, <2>4 DEF PolicyType
  <2>7. TypeOK'
    BY <2>1, <2>2, <2>3, <2>5, <2>6 DEF IInv, TypeOK, PolicyType
  <2>8. CopiesCurrent' /\ Guarded' /\ Announced'
    BY <2>1, <2>3, <2>6 DEF IInv, CopiesCurrent, Guarded, Announced, Syncing
  <2>9. ReadyMeansLastAttemptApplied'
    BY <2>5, <2>6 DEF ReadyMeansLastAttemptApplied
  <2>10. WakeupKnown'
    BY <2>1, <2>2, <2>6 DEF IInv, WakeupKnown
  <2>. QED BY <2>7, <2>8, <2>9, <2>10 DEF IInv
<1>. QED BY <1>1, <1>2 DEF FailWithStatus

\* A step that moves the worker to another control state of the reconcile,
\* and touches neither the object nor the queue, keeps the invariant.
LEMMA MoveKeepsIInv ==
  ASSUME IInv, worker.pc # "idle",
         UNCHANGED <<policy, cached, cacheStale, queue, deps, repoRev, tree,
                     secret, tick, overlap, owned>>,
         remote' \in [Resources -> Payloads], refsKnown' \in BOOLEAN,
         fullSecret' \in Nat, budget' \in BudgetType,
         budget'.overlaps = budget.overlaps,
         worker' \in WorkerType, worker'.pc # "idle",
         worker'.obj = worker.obj, worker'.stale = worker.stale,
         worker'.pc # "finalizer" =>
           worker.pc # "finalizer" \/ (worker.obj.finalizer /\ ~worker.obj.deleting),
         worker'.pc \in Syncing => worker.pc \in Syncing /\ worker'.rev = worker.rev
  PROVE  IInv'
<1>1. TypeOK'
  BY DEF IInv, TypeOK
<1>2. CopiesCurrent' /\ Guarded' /\ Announced'
  BY DEF IInv, CopiesCurrent, Guarded, Announced, Syncing
<1>3. ReadyMeansLastAttemptApplied' /\ WakeupKnown'
  BY DEF IInv, ReadyMeansLastAttemptApplied, WakeupKnown
<1>. QED BY <1>1, <1>2, <1>3 DEF IInv

\* A step that ends the reconcile with a requeue and writes nothing.
LEMMA RequeueKeepsIInv ==
  ASSUME IInv, Return(TRUE),
         UNCHANGED <<policy, cached, cacheStale, deps, repoRev, tree, secret,
                     tick, overlap, owned>>,
         remote' \in [Resources -> Payloads], refsKnown' \in BOOLEAN,
         fullSecret' \in Nat, budget' \in BudgetType,
         budget'.overlaps = budget.overlaps
  PROVE  IInv'
<1>1. /\ worker' \in WorkerType /\ worker'.pc = "idle"
      /\ queue' \in [pending: BOOLEAN, timer: BOOLEAN]
      /\ queue'.timer
  BY ReturnFacts DEF IInv
<1>2. TypeOK'
  BY <1>1 DEF IInv, TypeOK
<1>3. CopiesCurrent' /\ Guarded' /\ Announced'
  BY <1>1 DEF IInv, CopiesCurrent, Guarded, Announced, Syncing
<1>4. ReadyMeansLastAttemptApplied' /\ WakeupKnown'
  BY <1>1 DEF IInv, ReadyMeansLastAttemptApplied, WakeupKnown
<1>. QED BY <1>2, <1>3, <1>4 DEF IInv

\* A step of the environment that leaves object, cache and reconcile alone
\* and at most adds the key to the queue.
LEMMA EventKeepsIInv ==
  ASSUME IInv, NEW b \in BOOLEAN, Enqueue(b) \/ UNCHANGED queue,
         UNCHANGED <<policy, cached, cacheStale, worker, remote, refsKnown,
                     fullSecret>>,
         deps' \in [Dependencies -> DependencyStates],
         repoRev' \in Revisions \cup {NoRev}, tree' \in Revisions \cup {NoRev},
         secret' \in 1..(MaxSecret + 1), tick' \in 0..MaxTick,
         overlap' \in BOOLEAN, owned' \in SUBSET Resources,
         budget' \in BudgetType,
         overlap' => budget'.overlaps > 0,
         budget.overlaps > 0 => budget'.overlaps > 0
  PROVE  IInv'
<1>1. /\ queue' \in [pending: BOOLEAN, timer: BOOLEAN]
      /\ queue.pending => queue'.pending
      /\ queue'.timer = queue.timer
  BY DEF Enqueue, IInv, TypeOK
<1>2. TypeOK'
  BY <1>1 DEF IInv, TypeOK
<1>3. CopiesCurrent' /\ Guarded' /\ Announced'
  BY DEF IInv, CopiesCurrent, Guarded, Announced
<1>4. ReadyMeansLastAttemptApplied'
  BY DEF IInv, ReadyMeansLastAttemptApplied
<1>5. WakeupKnown'
  BY <1>1 DEF IInv, WakeupKnown
<1>. QED BY <1>2, <1>3, <1>4, <1>5 DEF IInv

-----------------------------------------------------------------------------
(* The inductive invariant *)

\* A new policy, queued for its first reconcile, satisfies the invariant.
LEMMA InitIInv == Init => IInv
<1>. SUFFICES ASSUME Init PROVE IInv
  OBVIOUS
<1>1. PICK s \in Specs : policy = NewPolicy(s)
  BY DEF Init
<1>2. s \in SpecType
  BY ConstantsAssumption
<1>3. /\ policy \in PolicyType /\ policy.status = NewStatus
      /\ policy.gen = 1 /\ policy.exists
  BY <1>1, <1>2 DEF NewPolicy, PolicyType, NewStatus, StatusType, NoRev
<1>4. budget \in BudgetType /\ secret \in 1..(MaxSecret + 1) /\ tick \in 0..MaxTick
  BY ConstantsAssumption DEF Init, BudgetType
<1>5. worker \in WorkerType /\ worker.pc = "idle"
  BY IdleType DEF Init
<1>6. remote \in [Resources -> Payloads]
  BY DEF Init, Payloads
<1>7. /\ policy.status.observed <= policy.gen
      /\ deps \in [Dependencies -> DependencyStates]
      /\ queue \in [pending: BOOLEAN, timer: BOOLEAN]
  BY <1>3 DEF Init, NewStatus, DepsWith, DependencyStates
<1>8. TypeOK
  BY <1>3, <1>4, <1>5, <1>6, <1>7 DEF Init, TypeOK
<1>9. CopiesCurrent /\ Guarded /\ Announced
  BY <1>3, <1>5 DEF Init, CopiesCurrent, Guarded, Announced, Syncing, PolicyType
<1>10. ReadyMeansLastAttemptApplied /\ WakeupKnown
  BY <1>3 DEF Init, ReadyMeansLastAttemptApplied, WakeupKnown, NewStatus
<1>. QED BY <1>8, <1>9, <1>10 DEF IInv

\* Reading the policy: the copy is current exactly when the cache is.
LEMMA StartKeepsIInv == IInv /\ StartReconcile => IInv'
<1>. SUFFICES ASSUME IInv, StartReconcile PROVE IInv'
  OBVIOUS
<1>. USE DEF StartReconcile, env
<1>1. queue' \in [pending: BOOLEAN, timer: BOOLEAN] /\ queue'.timer = queue.timer
  BY DEF IInv, TypeOK
<1>2. CASE cached.exists
  <2>1. /\ worker' \in WorkerType /\ worker'.pc = "finalizer"
        /\ worker'.obj = cached /\ worker'.stale = cacheStale
    BY <1>2, IdleType DEF IInv, TypeOK, WorkerType, Steps
  <2>2. TypeOK'
    BY <1>1, <2>1 DEF IInv, TypeOK
  <2>3. CopiesCurrent' /\ Guarded' /\ Announced'
    BY <1>2, <2>1 DEF IInv, CopiesCurrent, Guarded, Announced, Syncing
  <2>4. ReadyMeansLastAttemptApplied' /\ WakeupKnown'
    BY <2>1 DEF IInv, ReadyMeansLastAttemptApplied, WakeupKnown
  <2>. QED BY <2>2, <2>3, <2>4 DEF IInv
<1>3. CASE ~cached.exists
  <2>1. worker' \in WorkerType /\ worker'.pc = "idle"
    BY <1>3, IdleType
  <2>2. TypeOK'
    BY <1>1, <2>1 DEF IInv, TypeOK
  <2>3. CopiesCurrent' /\ Guarded' /\ Announced'
    BY <2>1 DEF IInv, CopiesCurrent, Guarded, Announced, Syncing
  <2>4. ReadyMeansLastAttemptApplied' /\ WakeupKnown'
    BY <1>3 DEF IInv, ReadyMeansLastAttemptApplied, WakeupKnown, CopiesCurrent
  <2>. QED BY <2>2, <2>3, <2>4 DEF IInv
<1>. QED BY <1>2, <1>3

\* The finalizer is written to the object the copy stands for.
LEMMA FinalizerKeepsIInv == IInv /\ HandleFinalizer => IInv'
<1>. SUFFICES ASSUME IInv, HandleFinalizer PROVE IInv'
  OBVIOUS
<1>. USE DEF HandleFinalizer, env
<1>1. /\ refsKnown' \in BOOLEAN /\ remote' \in [Resources -> Payloads]
      /\ fullSecret' \in Nat /\ budget' \in BudgetType
      /\ budget'.overlaps = budget.overlaps
  BY DEF IInv, TypeOK
<1>2. CASE StatusRefused
  BY <1>1, <1>2, RefusedKeepsIInv
<1>3. CASE /\ ~worker.obj.finalizer /\ ~worker.obj.deleting /\ ~worker.stale
           /\ policy' = [policy EXCEPT !.finalizer = TRUE]
           /\ cacheStale' = TRUE
           /\ worker' = [worker EXCEPT !.pc = "validate", !.obj.finalizer = TRUE]
           /\ UNCHANGED queue
  <2>1. worker.obj = policy /\ policy \in PolicyType /\ worker \in WorkerType
    BY <1>3 DEF IInv, CopiesCurrent, TypeOK
  <2>2. /\ policy' \in PolicyType /\ policy'.finalizer = TRUE
        /\ policy'.deleting = policy.deleting /\ policy'.exists = policy.exists
        /\ policy'.gen = policy.gen /\ policy'.status = policy.status
    BY <1>3, <2>1 DEF PolicyType
  <2>3. /\ worker' \in WorkerType /\ worker'.pc = "validate"
        /\ worker'.obj = policy'
    BY <1>3, <2>1, <2>2 DEF WorkerType, Steps, PolicyType
  <2>4. TypeOK'
    BY <1>1, <1>3, <2>2, <2>3 DEF IInv, TypeOK
  <2>5. CopiesCurrent' /\ Guarded' /\ Announced'
    BY <1>3, <2>1, <2>2, <2>3
       DEF IInv, CopiesCurrent, Guarded, Announced, Syncing
  <2>6. ReadyMeansLastAttemptApplied' /\ WakeupKnown'
    BY <2>2, <2>3 DEF IInv, ReadyMeansLastAttemptApplied, WakeupKnown
  <2>. QED BY <2>4, <2>5, <2>6 DEF IInv
<1>4. CASE /\ worker.obj.deleting /\ ~worker.stale
           /\ policy' = [policy EXCEPT !.finalizer = FALSE, !.exists = FALSE]
           /\ cacheStale' = TRUE
           /\ Return(FALSE)
  <2>1. /\ worker' \in WorkerType /\ worker'.pc = "idle"
        /\ queue' \in [pending: BOOLEAN, timer: BOOLEAN]
    BY <1>4, ReturnFacts DEF IInv
  <2>2. /\ policy' \in PolicyType /\ policy'.exists = FALSE
        /\ policy'.gen = policy.gen /\ policy'.status = policy.status
    BY <1>4 DEF IInv, TypeOK, PolicyType
  <2>3. TypeOK'
    BY <1>1, <1>4, <2>1, <2>2 DEF IInv, TypeOK
  <2>4. CopiesCurrent' /\ Guarded' /\ Announced'
    BY <1>4, <2>1, <2>2 DEF IInv, CopiesCurrent, Guarded, Announced, Syncing
  <2>5. ReadyMeansLastAttemptApplied' /\ WakeupKnown'
    BY <2>2 DEF IInv, ReadyMeansLastAttemptApplied, WakeupKnown
  <2>. QED BY <2>3, <2>4, <2>5 DEF IInv
<1>5. CASE /\ worker.obj.finalizer /\ ~worker.obj.deleting
           /\ worker' = [worker EXCEPT !.pc = "validate"]
           /\ UNCHANGED <<policy, cacheStale, queue>>
  <2>1. /\ worker' \in WorkerType /\ worker'.pc = "validate"
        /\ worker'.obj = worker.obj /\ worker'.stale = worker.stale
    BY <1>5 DEF IInv, TypeOK, WorkerType, Steps
  <2>. QED BY <1>1, <1>5, <2>1, MoveKeepsIInv DEF Syncing
<1>. QED BY <1>2, <1>3, <1>4, <1>5

\* A suspended policy is not requeued: its user wakes it.
LEMMA ValidateKeepsIInv == IInv /\ ValidatePrerequisites => IInv'
<1>. SUFFICES ASSUME IInv, ValidatePrerequisites PROVE IInv'
  OBVIOUS
<1>. USE DEF ValidatePrerequisites, env
<1>1. /\ refsKnown' \in BOOLEAN /\ remote' \in [Resources -> Payloads]
      /\ fullSecret' \in Nat /\ budget' \in BudgetType
      /\ budget'.overlaps = budget.overlaps
  BY DEF IInv, TypeOK
<1>2. CASE FailWithStatus(FALSE) /\ (~worker.obj.spec.valid \/ overlap)
  BY <1>1, <1>2, FailKeepsIInv
<1>3. CASE StatusRefused
  BY <1>1, <1>3, RefusedKeepsIInv
<1>4. CASE /\ worker.obj.spec.suspend
           /\ StatusWrite(SuspendedStatus(worker.obj)) /\ Return(FALSE)
  <2>1. /\ worker' \in WorkerType /\ worker'.pc = "idle"
        /\ queue' \in [pending: BOOLEAN, timer: BOOLEAN]
    BY <1>4, ReturnFacts DEF IInv
  <2>2. worker.obj = policy /\ policy \in PolicyType /\ policy.status \in StatusType
    BY <1>4 DEF StatusWrite, IInv, CopiesCurrent, TypeOK, PolicyType
  <2>3. /\ policy' = [policy EXCEPT !.status = SuspendedStatus(policy)]
        /\ cacheStale' = TRUE
    BY <1>4, <2>2 DEF StatusWrite
  <2>4. SuspendedStatus(policy) \in StatusType
    BY <2>2, StatusTypes DEF IInv, TypeOK
  <2>5. /\ SuspendedStatus(policy).observed = policy.gen
        /\ SuspendedStatus(policy).ready = FALSE
    BY <2>2 DEF SuspendedStatus, StatusType
  <2>6. /\ policy' \in PolicyType
        /\ policy'.status = SuspendedStatus(policy)
        /\ policy'.gen = policy.gen /\ policy'.exists = policy.exists
        /\ policy'.spec = policy.spec
    BY <2>2, <2>3, <2>4 DEF PolicyType
  <2>7. TypeOK'
    BY <1>1, <2>1, <2>2, <2>3, <2>5, <2>6 DEF IInv, TypeOK, PolicyType
  <2>8. CopiesCurrent' /\ Guarded' /\ Announced'
    BY <2>1, <2>3, <2>6 DEF IInv, CopiesCurrent, Guarded, Announced, Syncing
  <2>9. ReadyMeansLastAttemptApplied'
    BY <2>5, <2>6 DEF ReadyMeansLastAttemptApplied
  <2>10. WakeupKnown'
    BY <1>1, <1>4, <2>1, <2>2, <2>6 DEF IInv, WakeupKnown
  <2>. QED BY <2>7, <2>8, <2>9, <2>10 DEF IInv
<1>5. CASE /\ worker' = [worker EXCEPT !.pc = "load"]
           /\ UNCHANGED <<policy, cacheStale, queue>>
  <2>1. /\ worker' \in WorkerType /\ worker'.pc = "load"
        /\ worker'.obj = worker.obj /\ worker'.stale = worker.stale
    BY <1>5 DEF IInv, TypeOK, WorkerType, Steps
  <2>2. /\ worker.pc # "idle" /\ worker.pc # "finalizer"
        /\ worker'.pc # "idle" /\ worker'.pc \notin Syncing
    BY <2>1 DEF Syncing
  <2>3. UNCHANGED <<policy, cached, cacheStale, queue, deps, repoRev, tree,
                    secret, tick, overlap, owned>>
    BY <1>5
  <2>. QED BY <1>1, <2>1, <2>2, <2>3, MoveKeepsIInv
<1>. QED BY <1>2, <1>3, <1>4, <1>5

\* The steps from the dependencies to the runtime context only read.
LEMMA ReadingKeepsIInv ==
  IInv /\ (LoadDependencies \/ CheckSyncStatus \/ BuildRuntime) => IInv'
<1>. SUFFICES ASSUME IInv, LoadDependencies \/ CheckSyncStatus \/ BuildRuntime
              PROVE  IInv'
  OBVIOUS
<1>1. /\ remote' \in [Resources -> Payloads] /\ fullSecret' \in Nat
      /\ budget' \in BudgetType /\ budget'.overlaps = budget.overlaps
      /\ refsKnown' \in BOOLEAN
      /\ UNCHANGED cached
      /\ UNCHANGED <<deps, repoRev, tree, secret, tick, overlap, owned>>
  BY DEF IInv, TypeOK, LoadDependencies, CheckSyncStatus, BuildRuntime, env
<1>2. worker.pc \in {"load", "check", "build"}
  BY DEF LoadDependencies, CheckSyncStatus, BuildRuntime
<1>3. CASE FailWithStatus(TRUE)
  BY <1>1, <1>2, <1>3, FailKeepsIInv
<1>4. CASE Return(TRUE) /\ UNCHANGED <<policy, cacheStale>>
  BY <1>1, <1>4, RequeueKeepsIInv
<1>5. CASE /\ \/ worker' = [worker EXCEPT !.pc = "check", !.rev = repoRev]
              \/ worker' = [worker EXCEPT !.pc = "build"]
              \/ worker' = [worker EXCEPT !.pc = "attempt", !.secret = secret]
           /\ UNCHANGED <<policy, cacheStale, queue>>
  <2>1. repoRev \in Nat /\ secret \in Nat /\ worker \in WorkerType
    <3>1. /\ repoRev \in Revisions \cup {NoRev} /\ worker \in WorkerType
          /\ secret \in 1..(MaxSecret + 1)
      BY DEF IInv, TypeOK
    <3>2. Revisions \subseteq Nat /\ MaxSecret \in Nat
      BY ConstantsAssumption
    <3>3. repoRev \in Nat
      BY <3>1, <3>2 DEF NoRev
    <3>4. secret \in Nat
      BY <3>1, <3>2
    <3>. QED BY <3>1, <3>3, <3>4
  <2>2. /\ worker' \in WorkerType /\ worker'.pc \in {"check", "build", "attempt"}
        /\ worker'.obj = worker.obj /\ worker'.stale = worker.stale
    BY <1>5, <2>1 DEF WorkerType, Steps
  <2>3. /\ worker.pc # "idle" /\ worker.pc # "finalizer"
        /\ worker'.pc # "idle" /\ worker'.pc \notin Syncing
    BY <1>2, <2>2 DEF Syncing
  <2>4. UNCHANGED <<policy, cached, cacheStale, queue, deps, repoRev, tree,
                    secret, tick, overlap, owned>>
    BY <1>1, <1>5
  <2>. QED BY <1>1, <2>2, <2>3, <2>4, MoveKeepsIInv
<1>6. CASE LoadDependencies
  BY <1>3, <1>5, <1>6 DEF LoadDependencies
<1>7. CASE CheckSyncStatus
  BY <1>3, <1>4, <1>5, <1>7 DEF CheckSyncStatus
<1>8. CASE BuildRuntime
  BY <1>3, <1>5, <1>8 DEF BuildRuntime
<1>. QED BY <1>6, <1>7, <1>8

\* The attempt is announced on the object the copy stands for; from then on
\* the announcement can only be replaced by this reconcile's own result.
LEMMA AttemptKeepsIInv == IInv /\ BeginAttempt => IInv'
<1>. SUFFICES ASSUME IInv, BeginAttempt PROVE IInv'
  OBVIOUS
<1>. USE DEF BeginAttempt, env
<1>1. /\ refsKnown' \in BOOLEAN /\ remote' \in [Resources -> Payloads]
      /\ fullSecret' \in Nat /\ budget' \in BudgetType
      /\ budget'.overlaps = budget.overlaps
  BY DEF IInv, TypeOK
<1>2. CASE StatusRefused
  BY <1>1, <1>2, RefusedKeepsIInv
<1>3. CASE /\ StatusWrite(AttemptStatus(worker.obj, worker.rev))
           /\ worker' = [worker EXCEPT
                !.pc = "plan",
                !.obj.status = AttemptStatus(worker.obj, worker.rev)]
           /\ UNCHANGED queue
  <2>1. /\ worker.obj = policy /\ policy \in PolicyType
        /\ policy.status \in StatusType /\ worker \in WorkerType
        /\ worker.rev \in Nat /\ policy.exists
        /\ policy.finalizer /\ ~policy.deleting
    BY <1>3 DEF StatusWrite, IInv, CopiesCurrent, Guarded, TypeOK, PolicyType,
                WorkerType
  <2>. DEFINE st == AttemptStatus(policy, worker.rev)
  <2>2. /\ st \in StatusType /\ st.observed = policy.gen /\ st.reconciling
        /\ st.attempted = worker.rev
    <3>1. st \in StatusType
      BY <2>1, StatusTypes DEF IInv, TypeOK
    <3>2. st.observed = policy.gen /\ st.reconciling = TRUE
      BY <2>1 DEF AttemptStatus, StatusType
    <3>3. st.attempted = worker.rev
      BY <2>1 DEF AttemptStatus, StatusType
    <3>. QED BY <3>1, <3>2, <3>3
  <2>. HIDE DEF st
  <2>3. policy' = [policy EXCEPT !.status = st] /\ cacheStale' = TRUE
    BY <1>3, <2>1 DEF StatusWrite, st
  <2>4. /\ policy' \in PolicyType /\ policy'.status = st
        /\ policy'.gen = policy.gen /\ policy'.exists = policy.exists
        /\ policy'.finalizer = policy.finalizer
        /\ policy'.deleting = policy.deleting
    BY <2>1, <2>2, <2>3 DEF PolicyType
  <2>5. worker' = [worker EXCEPT !.pc = "plan", !.obj.status = st]
    BY <1>3, <2>1 DEF st
  <2>6. /\ worker' \in WorkerType /\ worker'.pc = "plan"
        /\ worker'.obj = policy' /\ worker'.rev = worker.rev
    BY <2>1, <2>3, <2>4, <2>5 DEF WorkerType, Steps, Syncing, PolicyType
  <2>7. TypeOK'
    BY <1>1, <1>3, <2>1, <2>2, <2>3, <2>4, <2>6 DEF IInv, TypeOK, PolicyType
  <2>8. CopiesCurrent' /\ Guarded' /\ Announced'
    BY <2>1, <2>2, <2>3, <2>4, <2>6
       DEF IInv, CopiesCurrent, Guarded, Announced, Syncing
  <2>9. ReadyMeansLastAttemptApplied' /\ WakeupKnown'
    BY <1>1, <2>2, <2>4, <2>6 DEF IInv, ReadyMeansLastAttemptApplied, WakeupKnown
  <2>. QED BY <2>7, <2>8, <2>9 DEF IInv
<1>. QED BY <1>2, <1>3

\* Writing one resource of the managed service keeps its type.
LEMMA RemoteType ==
  ASSUME TypeOK, NEW r \in Resources
  PROVE  /\ [remote EXCEPT ![r] = Declared(tree, r)] \in [Resources -> Payloads]
         /\ [remote EXCEPT ![r] = Absent] \in [Resources -> Payloads]
<1>1. Declared(tree, r) \in Payloads
  BY DeclaredType DEF TypeOK
<1>2. Absent \in Payloads
  BY DEF Payloads
<1>. QED BY <1>1, <1>2 DEF TypeOK

\* Planning, listing, applying and pruning leave the object alone: the
\* announcement of the attempt stands.
LEMMA PlanKeepsIInv == IInv /\ (PlanSync \/ BeginPrune) => IInv'
<1>. SUFFICES ASSUME IInv, PlanSync \/ BeginPrune PROVE IInv'
  OBVIOUS
<1>1. /\ remote' \in [Resources -> Payloads] /\ refsKnown' \in BOOLEAN
      /\ fullSecret' \in Nat /\ budget' \in BudgetType
      /\ budget'.overlaps = budget.overlaps
      /\ UNCHANGED <<policy, cached, cacheStale, queue, deps, repoRev, tree,
                     secret, tick, overlap, owned>>
  BY DEF IInv, TypeOK, PlanSync, BeginPrune, env
<1>2. /\ worker \in WorkerType /\ worker.obj \in PolicyType
      /\ worker.obj.spec \in SpecType /\ worker.obj.spec.scope \subseteq Resources
      /\ worker.prunes \subseteq Resources
  BY DEF IInv, TypeOK, WorkerType, PolicyType, SpecType
<1>3. /\ worker' \in WorkerType /\ worker'.pc \in {"list", "apply", "prune"}
      /\ worker'.obj = worker.obj /\ worker'.stale = worker.stale
      /\ worker'.rev = worker.rev
  <2>1. CASE PlanSync
    <3>. DEFINE changed == ChangedBetween(worker.obj.status.applied, worker.rev,
                                          worker.obj.spec.scope)
                present == LocalTargets(worker.rev, changed)
    <3>1. changed \subseteq Resources /\ present \subseteq Resources
      BY <1>2 DEF ChangedBetween, LocalTargets
    <3>. HIDE DEF changed, present
    <3>2. \/ worker' = [worker EXCEPT !.pc = "list", !.full = TRUE]
          \/ worker' = [worker EXCEPT !.pc = "apply", !.todo = present,
                                      !.prunes = changed \ present]
      BY <2>1 DEF PlanSync, changed, present
    <3>3. CASE worker' = [worker EXCEPT !.pc = "list", !.full = TRUE]
      BY <1>2, <3>3 DEF WorkerType, Steps, Syncing
    <3>4. CASE worker' = [worker EXCEPT !.pc = "apply", !.todo = present,
                                        !.prunes = changed \ present]
      <4>1. PICK ps \in SUBSET Resources : ps = changed \ present
        BY <3>1
      <4>2. worker' = [worker EXCEPT !.pc = "apply", !.todo = present, !.prunes = ps]
        BY <3>4, <4>1
      <4>. QED BY <1>2, <3>1, <4>2 DEF WorkerType, Steps, Syncing
    <3>. QED BY <3>2, <3>3, <3>4
  <2>2. CASE BeginPrune
    <3>1. PICK ps \in SUBSET Resources :
            worker' = [worker EXCEPT !.pc = "prune", !.prunes = ps]
      BY <1>2, <2>2 DEF BeginPrune
    <3>. QED BY <1>2, <3>1 DEF WorkerType, Steps, Syncing
  <2>. QED BY <2>1, <2>2
<1>4. worker.pc \in Syncing
  BY DEF PlanSync, BeginPrune, Syncing
<1>5. /\ worker.pc # "idle" /\ worker.pc # "finalizer"
      /\ worker'.pc # "idle"
  BY <1>3, <1>4 DEF Syncing
<1>. QED BY <1>1, <1>3, <1>4, <1>5, MoveKeepsIInv

\* A full plan lists the tree, and fails when it lists nothing.
LEMMA ListKeepsIInv == IInv /\ ListTargets => IInv'
<1>. SUFFICES ASSUME IInv, ListTargets PROVE IInv'
  OBVIOUS
<1>1. /\ remote' \in [Resources -> Payloads] /\ refsKnown' \in BOOLEAN
      /\ fullSecret' \in Nat /\ budget' \in BudgetType
      /\ budget'.overlaps = budget.overlaps
      /\ UNCHANGED cached
      /\ UNCHANGED <<deps, repoRev, tree, secret, tick, overlap, owned>>
      /\ worker.pc \in Syncing
      /\ worker.pc # "idle" /\ worker.pc # "finalizer"
  BY DEF IInv, TypeOK, ListTargets, env, Syncing
<1>2. CASE FailWithStatus(TRUE)
  BY <1>1, <1>2, FailKeepsIInv
<1>3. CASE /\ worker' = [worker EXCEPT !.pc = "apply",
                           !.todo = LocalTargets(tree, worker.obj.spec.scope)]
           /\ UNCHANGED <<policy, cacheStale, queue>>
  <2>1. /\ worker \in WorkerType
        /\ LocalTargets(tree, worker.obj.spec.scope) \subseteq Resources
    BY DEF IInv, TypeOK, WorkerType, PolicyType, SpecType, LocalTargets
  <2>2. /\ worker' \in WorkerType /\ worker'.pc = "apply"
        /\ worker'.obj = worker.obj /\ worker'.stale = worker.stale
        /\ worker'.rev = worker.rev
    BY <1>3, <2>1 DEF WorkerType, Steps, Syncing
  <2>3. worker'.pc # "idle"
    BY <2>2
  <2>4. UNCHANGED <<policy, cached, cacheStale, queue, deps, repoRev, tree,
                    secret, tick, overlap, owned>>
    BY <1>1, <1>3
  <2>. QED BY <1>1, <2>2, <2>3, <2>4, MoveKeepsIInv
<1>. QED BY <1>2, <1>3 DEF ListTargets

\* One apply or delete changes the managed service and nothing else.
LEMMA ApplyKeepsIInv ==
  ASSUME IInv, NEW r \in Resources, ApplyOne(r) \/ PruneOne(r)
  PROVE  IInv'
<1>1. /\ refsKnown' \in BOOLEAN /\ fullSecret' \in Nat /\ budget' \in BudgetType
      /\ budget'.overlaps = budget.overlaps
      /\ UNCHANGED cached
      /\ UNCHANGED <<deps, repoRev, tree, secret, tick, overlap, owned>>
  BY DEF IInv, TypeOK, ApplyOne, PruneOne, env
<1>2. worker.pc \in Syncing /\ worker.pc # "idle" /\ worker.pc # "finalizer"
  BY DEF ApplyOne, PruneOne, Syncing
<1>3. remote' \in [Resources -> Payloads]
  BY RemoteType DEF ApplyOne, PruneOne, IInv, TypeOK
<1>4. CASE FailWithStatus(TRUE)
  BY <1>1, <1>2, <1>3, <1>4, FailKeepsIInv
<1>5. CASE /\ \/ worker' = [worker EXCEPT !.todo = @ \ {r}]
              \/ worker' = [worker EXCEPT !.prunes = @ \ {r}]
           /\ UNCHANGED <<policy, cacheStale, queue>>
  <2>1. /\ worker' \in WorkerType /\ worker'.pc = worker.pc
        /\ worker'.obj = worker.obj /\ worker'.stale = worker.stale
        /\ worker'.rev = worker.rev
    BY <1>5 DEF IInv, TypeOK, WorkerType
  <2>2. worker'.pc # "idle"
    BY <1>2, <2>1
  <2>3. UNCHANGED <<policy, cached, cacheStale, queue, deps, repoRev, tree,
                    secret, tick, overlap, owned>>
    BY <1>1, <1>5
  <2>. QED BY <1>1, <1>2, <1>3, <2>1, <2>2, <2>3, MoveKeepsIInv
<1>6. CASE ApplyOne(r)
  BY <1>4, <1>5, <1>6 DEF ApplyOne
<1>7. CASE PruneOne(r)
  BY <1>5, <1>7 DEF PruneOne
<1>. QED BY <1>6, <1>7

\* A success replaces the announcement by its own revision, on the object
\* that announced it; collected prune errors end in NotReady instead.
LEMMA FinishKeepsIInv == IInv /\ (PruneFailed \/ UpdateSuccessStatus) => IInv'
<1>. SUFFICES ASSUME IInv, PruneFailed \/ UpdateSuccessStatus PROVE IInv'
  OBVIOUS
<1>1. /\ remote' \in [Resources -> Payloads] /\ refsKnown' \in BOOLEAN
      /\ budget' \in BudgetType /\ budget'.overlaps = budget.overlaps
      /\ UNCHANGED cached
      /\ UNCHANGED <<deps, repoRev, tree, secret, tick, overlap, owned>>
      /\ worker.pc = "prune"
  BY DEF IInv, TypeOK, PruneFailed, UpdateSuccessStatus, env
<1>2. fullSecret' \in Nat
  BY DEF IInv, TypeOK, WorkerType, PruneFailed, UpdateSuccessStatus, StatusRefused
<1>3. CASE FailWithStatus(TRUE)
  BY <1>1, <1>2, <1>3, FailKeepsIInv
<1>4. CASE StatusRefused
  BY <1>1, <1>2, <1>4, RefusedKeepsIInv
<1>5. CASE /\ StatusWrite(SuccessStatus(worker.obj, worker.rev, secret, worker.full))
           /\ Return(TRUE)
  <2>1. /\ worker' \in WorkerType /\ worker'.pc = "idle"
        /\ queue' \in [pending: BOOLEAN, timer: BOOLEAN]
        /\ queue'.timer
    BY <1>5, ReturnFacts DEF IInv
  <2>2. /\ worker.obj = policy /\ policy \in PolicyType
        /\ policy.status \in StatusType
        /\ worker.rev \in Nat /\ worker.full \in BOOLEAN
        /\ policy.status.attempted = worker.rev
    BY <1>1, <1>5 DEF StatusWrite, IInv, CopiesCurrent, Announced, TypeOK,
                      PolicyType, WorkerType, Syncing
  <2>. DEFINE st == SuccessStatus(policy, worker.rev, secret, worker.full)
  <2>3. /\ st \in StatusType /\ st.observed = policy.status.observed
        /\ st.applied = worker.rev /\ st.attempted = worker.rev
    <3>1. st \in StatusType
      BY <2>2, StatusTypes DEF IInv, TypeOK
    <3>2. /\ st.observed = policy.status.observed
          /\ st.applied = worker.rev
          /\ st.attempted = policy.status.attempted
      BY <2>2 DEF SuccessStatus, StatusType
    <3>. QED BY <2>2, <3>1, <3>2
  <2>. HIDE DEF st
  <2>4. policy' = [policy EXCEPT !.status = st] /\ cacheStale' = TRUE
    BY <1>5, <2>2 DEF StatusWrite, st
  <2>5. /\ policy' \in PolicyType /\ policy'.status = st
        /\ policy'.gen = policy.gen /\ policy'.exists = policy.exists
    BY <2>2, <2>3, <2>4 DEF PolicyType
  <2>6. TypeOK'
    BY <1>1, <1>2, <2>1, <2>2, <2>3, <2>4, <2>5 DEF IInv, TypeOK
  <2>7. CopiesCurrent' /\ Guarded' /\ Announced'
    BY <1>1, <2>1, <2>4, <2>5
       DEF IInv, CopiesCurrent, Guarded, Announced, Syncing
  <2>8. ReadyMeansLastAttemptApplied' /\ WakeupKnown'
    BY <1>1, <2>1, <2>3, <2>5
       DEF IInv, ReadyMeansLastAttemptApplied, WakeupKnown
  <2>. QED BY <2>6, <2>7, <2>8 DEF IInv
<1>6. CASE PruneFailed
  BY <1>3, <1>6 DEF PruneFailed
<1>7. CASE UpdateSuccessStatus
  BY <1>4, <1>5, <1>7 DEF UpdateSuccessStatus
<1>. QED BY <1>6, <1>7

\* A failed call ends the reconcile, or is collected while pruning.
LEMMA CallFailsKeepsIInv == IInv /\ CallFails => IInv'
<1>. SUFFICES ASSUME IInv, CallFails PROVE IInv'
  OBVIOUS
<1>1. /\ refsKnown' \in BOOLEAN /\ fullSecret' \in Nat
      /\ UNCHANGED cached
      /\ UNCHANGED <<deps, repoRev, tree, secret, tick, overlap, owned>>
      /\ worker.pc # "idle"
  BY DEF IInv, TypeOK, CallFails
<1>2. budget' \in BudgetType /\ budget'.overlaps = budget.overlaps
  <2>1. /\ budget.faults < MaxFaults
        /\ budget' = [budget EXCEPT !.faults = @ + 1]
        /\ budget \in BudgetType
    BY DEF CallFails, IInv, TypeOK
  <2>. QED BY <2>1, ConstantsAssumption DEF BudgetType
<1>3. remote' \in [Resources -> Payloads]
  <2>1. CASE UNCHANGED remote
    BY <2>1 DEF IInv, TypeOK
  <2>2. ASSUME NEW r \in Resources,
               remote' \in {remote, [remote EXCEPT ![r] = Declared(tree, r)],
                            [remote EXCEPT ![r] = Absent]}
        PROVE  remote' \in [Resources -> Payloads]
    BY <2>2, RemoteType DEF IInv, TypeOK
  <2>3. worker.todo \subseteq Resources /\ worker.prunes \subseteq Resources
    BY DEF IInv, TypeOK, WorkerType
  <2>. QED BY <2>1, <2>2, <2>3 DEF CallFails, LocalTargets
<1>4. CASE FailWithStatus(TRUE)
  BY <1>1, <1>2, <1>3, <1>4, FailKeepsIInv
<1>5. CASE Return(TRUE) /\ UNCHANGED <<policy, cacheStale>>
  BY <1>1, <1>2, <1>3, <1>5, RequeueKeepsIInv
<1>6. CASE /\ worker.pc = "prune"
           /\ \E r \in Resources :
                worker' = [worker EXCEPT !.prunes = @ \ {r}, !.failed = TRUE]
           /\ UNCHANGED <<policy, cacheStale, queue>>
  <2>1. /\ worker' \in WorkerType /\ worker'.pc = "prune"
        /\ worker'.obj = worker.obj /\ worker'.stale = worker.stale
        /\ worker'.rev = worker.rev
    <3>1. PICK r \in Resources :
            worker' = [worker EXCEPT !.prunes = @ \ {r}, !.failed = TRUE]
      BY <1>6
    <3>2. PICK ps \in SUBSET Resources : ps = worker.prunes \ {r}
      BY DEF IInv, TypeOK, WorkerType
    <3>3. worker' = [worker EXCEPT !.prunes = ps, !.failed = TRUE]
      BY <3>1, <3>2
    <3>4. worker \in WorkerType
      BY DEF IInv, TypeOK
    <3>. QED BY <1>6, <3>3, <3>4 DEF WorkerType
  <2>2. /\ worker'.pc # "idle" /\ worker.pc # "finalizer"
        /\ worker.pc \in Syncing
    BY <1>6, <2>1 DEF Syncing
  <2>3. UNCHANGED <<policy, cached, cacheStale, queue, deps, repoRev, tree,
                    secret, tick, overlap, owned>>
    BY <1>1, <1>6
  <2>. QED BY <1>1, <1>2, <1>3, <2>1, <2>2, <2>3, MoveKeepsIInv
<1>7. worker.prunes \subseteq Resources
  BY DEF IInv, TypeOK, WorkerType
<1>. QED BY <1>4, <1>5, <1>6, <1>7 DEF CallFails

\* What the informer shows of the repository keeps the type of deps.
LEMMA SeenType ==
  ASSUME TypeOK, NEW rev, NEW state \in DependencyStates, RepositorySeen(rev, state)
  PROVE  deps' \in [Dependencies -> DependencyStates]
BY DEF TypeOK, RepositorySeen

\* A restart lists every policy again.
LEMMA CrashKeepsIInv == IInv /\ Crash => IInv'
<1>. SUFFICES ASSUME IInv, Crash PROVE IInv'
  OBVIOUS
<1>. USE DEF Crash
<1>1. worker' \in WorkerType /\ worker'.pc = "idle"
  BY IdleType
<1>2. budget' \in BudgetType /\ budget'.overlaps = budget.overlaps
  BY ConstantsAssumption DEF IInv, TypeOK, BudgetType
<1>3. /\ queue' \in [pending: BOOLEAN, timer: BOOLEAN]
      /\ queue'.pending = policy.exists
      /\ policy.gen \in Nat
  BY DEF IInv, TypeOK, PolicyType
<1>4. TypeOK'
  <2>1. /\ deps' \in [Dependencies -> DependencyStates]
        /\ repoRev' \in Revisions \cup {NoRev}
    BY SeenType DEF RepositorySeen, IInv, TypeOK
  <2>. QED BY <1>1, <1>2, <1>3, <2>1 DEF IInv, TypeOK
<1>5. CopiesCurrent' /\ Guarded' /\ Announced'
  BY <1>1, <1>3 DEF CopiesCurrent, Guarded, Announced, Syncing
<1>6. ReadyMeansLastAttemptApplied' /\ WakeupKnown'
  BY <1>2, <1>3 DEF IInv, ReadyMeansLastAttemptApplied, WakeupKnown
<1>. QED BY <1>4, <1>5, <1>6 DEF IInv

-----------------------------------------------------------------------------
(* The environment *)

\* The informer delivers the event that NoLostWakeup counts on.
LEMMA CacheSyncKeepsIInv == IInv /\ CacheSync => IInv'
<1>. SUFFICES ASSUME IInv, CacheSync PROVE IInv'
  OBVIOUS
<1>. USE DEF CacheSync, env
<1>1. /\ queue' \in [pending: BOOLEAN, timer: BOOLEAN]
      /\ queue.pending => queue'.pending
      /\ queue'.timer = queue.timer
      /\ (cached.gen # policy.gen \/ cached.exists # policy.exists) => queue'.pending
      /\ policy.gen \in Nat
  BY DEF Enqueue, IInv, TypeOK, PolicyType
<1>2. TypeOK'
  BY <1>1 DEF IInv, TypeOK
<1>3. CopiesCurrent' /\ Guarded' /\ Announced'
  BY <1>1 DEF IInv, CopiesCurrent, Guarded, Announced
<1>4. ReadyMeansLastAttemptApplied' /\ WakeupKnown'
  BY <1>1 DEF IInv, ReadyMeansLastAttemptApplied, WakeupKnown
<1>. QED BY <1>2, <1>3, <1>4 DEF IInv

\* A user's write moves the generation, so the informer will report it, and
\* outdates the copy of a running reconcile.
LEMMA UserKeepsIInv == IInv /\ UserStep => IInv'
<1>. SUFFICES ASSUME IInv, UserStep PROVE IInv'
  OBVIOUS
<1>1. /\ cacheStale' = TRUE
      /\ worker' = [worker EXCEPT !.stale = (worker.pc # "idle")]
      /\ policy.exists /\ ~policy.deleting
      /\ UNCHANGED <<cached, remote, refsKnown, queue, fullSecret, env>>
  BY DEF UserStep, EditSpec, DeletePolicy
<1>2. /\ policy \in PolicyType /\ worker \in WorkerType
      /\ policy.gen \in Nat /\ cached.gen \in Nat /\ cached.gen <= policy.gen
      /\ policy.exists = TRUE /\ cached.exists = TRUE
      /\ policy.status \in StatusType /\ policy.status.observed <= policy.gen
      /\ policy.status.observed \in Nat
  BY <1>1 DEF IInv, TypeOK, CopiesCurrent, PolicyType, StatusType
<1>3. /\ worker' \in WorkerType /\ worker'.pc = worker.pc
      /\ worker'.obj = worker.obj /\ worker'.rev = worker.rev
      /\ worker.pc # "idle" => worker'.stale
  BY <1>1, <1>2 DEF WorkerType
<1>4. /\ policy' \in PolicyType /\ policy'.status = policy.status
      /\ policy'.gen >= policy.gen
      /\ policy'.gen # cached.gen \/ ~policy'.exists
      /\ policy.finalizer => policy'.exists /\ policy'.finalizer
  <2>1. PICK g \in Nat : g = policy.gen + 1
    BY <1>2
  <2>2. g # cached.gen /\ g >= policy.gen /\ policy.gen >= policy.gen
    BY <1>2, <2>1
  <2>3. CASE \E s \in Specs : EditSpec(s)
    <3>1. PICK s \in SpecType : policy' = [policy EXCEPT !.spec = s, !.gen = g]
      BY <2>1, <2>3, ConstantsAssumption DEF EditSpec
    <3>2. /\ policy' \in PolicyType /\ policy'.status = policy.status
          /\ policy'.gen = g
          /\ policy'.exists = TRUE /\ policy'.finalizer = policy.finalizer
      BY <1>2, <3>1 DEF PolicyType
    <3>. QED BY <2>2, <3>2
  <2>4. CASE DeletePolicy /\ policy.finalizer
    <3>1. policy' = [policy EXCEPT !.deleting = TRUE, !.gen = g]
      BY <2>1, <2>4 DEF DeletePolicy
    <3>2. /\ policy' \in PolicyType /\ policy'.status = policy.status
          /\ policy'.gen = g
          /\ policy'.exists = TRUE /\ policy'.finalizer = policy.finalizer
      BY <1>2, <3>1 DEF PolicyType
    <3>. QED BY <2>2, <3>2
  <2>5. CASE DeletePolicy /\ ~policy.finalizer
    <3>1. policy' = [policy EXCEPT !.exists = FALSE]
      BY <2>5 DEF DeletePolicy, Gone
    <3>2. /\ policy' \in PolicyType /\ policy'.status = policy.status
          /\ policy'.gen = policy.gen /\ policy'.exists = FALSE
      BY <1>2, <3>1 DEF PolicyType
    <3>. QED BY <2>2, <2>5, <3>2
  <2>. QED BY <2>3, <2>4, <2>5 DEF UserStep
<1>5. policy'.gen \in Nat
  BY <1>4 DEF PolicyType
<1>6. TypeOK'
  BY <1>1, <1>2, <1>3, <1>4, <1>5 DEF IInv, TypeOK, env
<1>7. CopiesCurrent'
  BY <1>1, <1>2, <1>3, <1>4, <1>5 DEF IInv, CopiesCurrent
<1>8. Guarded' /\ Announced'
  BY <1>3, <1>4 DEF IInv, Guarded, Announced
<1>9. ReadyMeansLastAttemptApplied'
  BY <1>4 DEF IInv, ReadyMeansLastAttemptApplied
<1>10. WakeupKnown'
  BY <1>1, <1>2, <1>3, <1>4 DEF IInv, WakeupKnown, env
<1>. QED BY <1>6, <1>7, <1>8, <1>9, <1>10 DEF IInv

\* A delayed add comes due.
LEMMA TimerKeepsIInv == IInv /\ TimerFires => IInv'
<1>. SUFFICES ASSUME IInv, TimerFires PROVE IInv'
  OBVIOUS
<1>. USE DEF TimerFires, env
<1>1. queue' \in [pending: BOOLEAN, timer: BOOLEAN] /\ queue'.pending
  OBVIOUS
<1>2. TypeOK'
  BY <1>1 DEF IInv, TypeOK
<1>3. CopiesCurrent' /\ Guarded' /\ Announced' /\ ReadyMeansLastAttemptApplied'
  BY DEF IInv, CopiesCurrent, Guarded, Announced, ReadyMeansLastAttemptApplied
<1>4. WakeupKnown'
  BY <1>1 DEF IInv, WakeupKnown
<1>. QED BY <1>2, <1>3, <1>4 DEF IInv

\* Nothing the environment does to what a reconcile reads can disturb what
\* the reconcile promises about the object.
LEMMA EnvironmentKeepsIInv ==
  ASSUME IInv,
         \/ RepositoryStep
         \/ \E d \in Dependencies, state \in DependencyStates :
               DependencyChanges(d, state)
         \/ RotateSecret \/ CronTick \/ OverlapChanges
         \/ \E r \in Resources : OwnershipChanges(r)
  PROVE  IInv'
<1>. DEFINE Same == UNCHANGED <<policy, cached, cacheStale, worker, remote,
                                refsKnown, fullSecret>>
            Queued == Enqueue(TRUE) \/ Enqueue(FALSE) \/ UNCHANGED queue
<1>0. /\ cached.exists \in BOOLEAN /\ refsKnown \in BOOLEAN
      /\ budget \in BudgetType /\ budget.overlaps \in Nat
      /\ overlap => budget.overlaps > 0
  BY ConstantsAssumption DEF IInv, TypeOK, PolicyType, BudgetType, WakeupKnown
<1>1. CASE RepositoryStep
  <2>1. /\ Same /\ Queued
        /\ tree' \in Revisions \cup {NoRev} /\ repoRev' \in Revisions \cup {NoRev}
        /\ UNCHANGED <<secret, tick, overlap, owned, budget>>
    BY <1>0, <1>1 DEF RepositoryStep, Fetch, TreeMoves, RepositoryChanges,
                      RepositorySeen, IInv, TypeOK
  <2>2. deps' \in [Dependencies -> DependencyStates]
    BY <1>1, SeenType DEF RepositoryStep, Fetch, TreeMoves, RepositoryChanges,
                          IInv, TypeOK, DependencyStates
  <2>. QED BY <1>0, <2>1, <2>2, EventKeepsIInv DEF IInv, TypeOK
<1>2. CASE \E d \in Dependencies, state \in DependencyStates :
              DependencyChanges(d, state)
  <2>1. PICK d \in Dependencies, state \in DependencyStates :
          DependencyChanges(d, state)
    BY <1>2
  <2>2. Same /\ Queued /\ UNCHANGED <<repoRev, tree, secret, tick, overlap, owned>>
    BY <1>0, <2>1 DEF DependencyChanges
  <2>3. deps' \in [Dependencies -> DependencyStates]
    BY <2>1 DEF DependencyChanges, IInv, TypeOK
  <2>4. budget' \in BudgetType /\ budget'.overlaps = budget.overlaps
    BY <1>0, <2>1, ConstantsAssumption DEF DependencyChanges, BudgetType
  <2>. QED BY <1>0, <2>2, <2>3, <2>4, EventKeepsIInv DEF IInv, TypeOK
<1>3. CASE RotateSecret
  <2>1. Same /\ Queued
        /\ UNCHANGED <<deps, repoRev, tree, tick, overlap, owned, budget>>
    BY <1>0, <1>3 DEF RotateSecret
  <2>2. secret' \in 1..(MaxSecret + 1)
    BY <1>3, ConstantsAssumption DEF RotateSecret, IInv, TypeOK
  <2>. QED BY <1>0, <2>1, <2>2, EventKeepsIInv DEF IInv, TypeOK
<1>4. CASE CronTick
  <2>1. Same /\ Queued
        /\ UNCHANGED <<deps, repoRev, tree, secret, overlap, owned, budget>>
    BY <1>4 DEF CronTick
  <2>2. tick' \in 0..MaxTick
    BY <1>4, ConstantsAssumption DEF CronTick, IInv, TypeOK
  <2>. QED BY <1>0, <2>1, <2>2, EventKeepsIInv DEF IInv, TypeOK
<1>5. CASE OverlapChanges
  <2>1. Same /\ Queued
        /\ UNCHANGED <<deps, repoRev, tree, secret, tick, owned>>
    BY <1>5 DEF OverlapChanges
  <2>2. /\ budget' \in BudgetType /\ budget'.overlaps > 0
    BY <1>0, <1>5, ConstantsAssumption DEF OverlapChanges, BudgetType
  <2>3. overlap' \in BOOLEAN
    BY <1>5 DEF OverlapChanges
  <2>. QED BY <1>0, <2>1, <2>2, <2>3, EventKeepsIInv DEF IInv, TypeOK
<1>6. CASE \E r \in Resources : OwnershipChanges(r)
  <2>1. PICK r \in Resources : OwnershipChanges(r)
    BY <1>6
  <2>2. Same /\ Queued
        /\ UNCHANGED <<deps, repoRev, tree, secret, tick, overlap>>
    BY <2>1 DEF OwnershipChanges
  <2>3. budget' \in BudgetType /\ budget'.overlaps = budget.overlaps
    BY <1>0, <2>1, ConstantsAssumption DEF OwnershipChanges, BudgetType
  <2>4. owned' \in SUBSET Resources
    BY <2>1 DEF OwnershipChanges, IInv, TypeOK
  <2>. QED BY <1>0, <2>2, <2>3, <2>4, EventKeepsIInv DEF IInv, TypeOK
<1>. QED BY <1>1, <1>2, <1>3, <1>4, <1>5, <1>6

-----------------------------------------------------------------------------
(* The theorems *)

\* Every step keeps the invariant.
LEMMA NextKeepsIInv == IInv /\ [Next]_vars => IInv'
<1>. SUFFICES ASSUME IInv, [Next]_vars PROVE IInv'
  OBVIOUS
<1>1. CASE UNCHANGED vars
  BY <1>1 DEF vars, env, IInv, TypeOK, CopiesCurrent, Guarded, Announced,
              ReadyMeansLastAttemptApplied, WakeupKnown
<1>2. CASE ReconcileStep
  BY <1>2, StartKeepsIInv, FinalizerKeepsIInv, ValidateKeepsIInv,
     ReadingKeepsIInv, AttemptKeepsIInv, PlanKeepsIInv, ListKeepsIInv,
     ApplyKeepsIInv, FinishKeepsIInv DEF ReconcileStep
<1>3. CASE CallFails \/ Crash \/ TimerFires \/ CacheSync \/ UserStep
  BY <1>3, CallFailsKeepsIInv, CrashKeepsIInv, TimerKeepsIInv,
     CacheSyncKeepsIInv, UserKeepsIInv
<1>4. CASE (EnvironmentStep /\ ~UserStep) \/ RepositoryStep
  BY <1>4, EnvironmentKeepsIInv DEF EnvironmentStep
<1>. QED BY <1>1, <1>2, <1>3, <1>4
         DEF Next, NextWithoutFetch, EnvironmentStep

\* The inductive invariant holds in every reachable state.
THEOREM Invariance == Spec => []IInv
BY InitIInv, NextKeepsIInv, PTL DEF Spec

\* Every object keeps its type, and the status never claims to have observed
\* a generation the API server has not given out.
THEOREM TypeCorrect == Spec => []TypeOK
<1>1. IInv => TypeOK
  BY DEF IInv
<1>. QED BY <1>1, Invariance, PTL

\* The three status writes of a reconcile (setNotReady, performSync,
\* updateSuccessStatus) together never leave Ready=True standing, with
\* Reconciling withdrawn, over an attempt that was not applied.
THEOREM ReadyIsHonest == Spec => []ReadyMeansLastAttemptApplied
<1>1. IInv => ReadyMeansLastAttemptApplied
  BY DEF IInv
<1>. QED BY <1>1, Invariance, PTL

\* However reconciles, refused writes, edits and restarts interleave, a policy
\* that a reconcile could still advance is queued, scheduled, being worked on
\* or has a watch event on its way.
THEOREM NeverForgotten == Spec => []NoLostWakeup
<1>1. IInv => NoLostWakeup
  BY DEF IInv, WakeupKnown, NoLostWakeup
<1>. QED BY <1>1, Invariance, PTL

\* Only applying and pruning touch the managed service.
LEMMA RemoteChangesWhileSyncing ==
  ASSUME IInv, Next, remote' # remote
  PROVE  worker.pc \in Syncing
<1>1. CASE ReconcileStep
  BY <1>1 DEF ReconcileStep, StartReconcile, HandleFinalizer,
     ValidatePrerequisites, LoadDependencies, CheckSyncStatus, BuildRuntime,
     BeginAttempt, PlanSync, ListTargets, ApplyOne, BeginPrune, PruneOne,
     PruneFailed, UpdateSuccessStatus, Syncing
<1>2. CASE CallFails
  BY <1>2 DEF CallFails, Syncing
<1>3. CASE \/ Crash \/ TimerFires \/ CacheSync \/ EnvironmentStep
           \/ RepositoryStep
  BY <1>3 DEF Crash, TimerFires, CacheSync, EnvironmentStep, UserStep, EditSpec,
     DeletePolicy, DependencyChanges, RotateSecret, CronTick, OverlapChanges,
     OwnershipChanges, RepositoryStep, Fetch, TreeMoves, RepositoryChanges
<1>. QED BY <1>1, <1>2, <1>3 DEF Next, NextWithoutFetch

\* The status write before the plan fences the managed service: it changes
\* only under an existing policy that has its finalizer and announces this
\* very attempt, so no reconcile of an outdated copy and none that outlives a
\* deletion reaches it.
THEOREM MutationsFenced == Spec => MutationsAnnounced
<1>1. IInv /\ [Next]_vars =>
        [remote' # remote =>
           /\ policy.exists /\ policy.finalizer
           /\ policy.status.reconciling
           /\ policy.status.attempted = worker.rev]_vars
  <2>. SUFFICES ASSUME IInv, Next, remote' # remote
                PROVE  /\ policy.exists /\ policy.finalizer
                       /\ policy.status.reconciling
                       /\ policy.status.attempted = worker.rev
    BY DEF vars
  <2>1. worker.pc \in Syncing
    BY RemoteChangesWhileSyncing
  <2>. QED BY <2>1 DEF IInv, Announced
<1>. QED BY <1>1, Invariance, PTL DEF Spec, MutationsAnnounced

\* A reconcile that fails keeps the applied revision of the stored object.
LEMMA FailKeepsApplied ==
  ASSUME IInv, NEW retry \in BOOLEAN, worker.pc # "idle", FailWithStatus(retry)
  PROVE  policy'.status.applied = policy.status.applied
<1>1. CASE StatusRefused
  BY <1>1 DEF StatusRefused
<1>2. CASE StatusWrite(NotReadyStatus(worker.obj))
  <2>1. worker.obj = policy /\ policy \in PolicyType /\ policy.status \in StatusType
    BY <1>2 DEF StatusWrite, IInv, CopiesCurrent, TypeOK, PolicyType
  <2>2. NotReadyStatus(policy).applied = policy.status.applied
    BY <2>1 DEF NotReadyStatus, StatusType
  <2>. QED BY <1>2, <2>1, <2>2 DEF StatusWrite, PolicyType
<1>. QED BY <1>1, <1>2 DEF FailWithStatus

\* Only updateSuccessStatus moves the applied revision.
LEMMA AppliedChangesOnSuccess ==
  ASSUME IInv, Next, policy'.status.applied # policy.status.applied
  PROVE  UpdateSuccessStatus /\ ~worker.stale
<1>. SUFFICES ASSUME ~(UpdateSuccessStatus /\ ~worker.stale) PROVE FALSE
  OBVIOUS
<1>0. policy \in PolicyType /\ policy.status \in StatusType
  BY DEF IInv, TypeOK, PolicyType
<1>1. policy' # policy
  OBVIOUS
<1>2. ASSUME NEW retry \in BOOLEAN, worker.pc # "idle", FailWithStatus(retry)
      PROVE  FALSE
  BY <1>2, FailKeepsApplied
<1>3. CASE HandleFinalizer
  BY <1>0, <1>3 DEF HandleFinalizer, StatusRefused, PolicyType
<1>4. CASE ValidatePrerequisites
  <2>1. CASE StatusWrite(SuspendedStatus(worker.obj))
    <3>1. worker.obj = policy
      BY <1>4, <2>1 DEF ValidatePrerequisites, StatusWrite, IInv, CopiesCurrent
    <3>2. SuspendedStatus(policy).applied = policy.status.applied
      BY <1>0 DEF SuspendedStatus, StatusType
    <3>. QED BY <1>0, <2>1, <3>1, <3>2 DEF StatusWrite, PolicyType
  <2>. QED BY <1>1, <1>2, <1>4, <2>1 DEF ValidatePrerequisites, StatusRefused
<1>5. CASE LoadDependencies \/ CheckSyncStatus \/ BuildRuntime
  BY <1>1, <1>2, <1>5 DEF LoadDependencies, CheckSyncStatus, BuildRuntime
<1>6. CASE BeginAttempt
  <2>1. CASE StatusWrite(AttemptStatus(worker.obj, worker.rev))
    <3>1. worker.obj = policy
      BY <1>6, <2>1 DEF BeginAttempt, StatusWrite, IInv, CopiesCurrent
    <3>2. AttemptStatus(policy, worker.rev).applied = policy.status.applied
      BY <1>0 DEF AttemptStatus, StatusType
    <3>. QED BY <1>0, <2>1, <3>1, <3>2 DEF StatusWrite, PolicyType
  <2>. QED BY <1>1, <1>6, <2>1 DEF BeginAttempt, StatusRefused
<1>7. CASE \/ StartReconcile \/ PlanSync \/ BeginPrune
           \/ \E r \in Resources : PruneOne(r)
  BY <1>1, <1>7 DEF StartReconcile, PlanSync, BeginPrune, PruneOne
<1>8. CASE ListTargets \/ PruneFailed \/ \E r \in Resources : ApplyOne(r)
  BY <1>1, <1>2, <1>8 DEF ListTargets, PruneFailed, ApplyOne
<1>9. CASE UpdateSuccessStatus
  BY <1>1, <1>9 DEF UpdateSuccessStatus, StatusRefused, StatusWrite
<1>10. CASE CallFails
  BY <1>1, <1>2, <1>10 DEF CallFails
<1>11. CASE UserStep
  BY <1>0, <1>11 DEF UserStep, EditSpec, DeletePolicy, Gone, PolicyType
<1>12. CASE \/ Crash \/ TimerFires \/ CacheSync
            \/ (EnvironmentStep /\ ~UserStep)
            \/ RepositoryStep
  BY <1>1, <1>12 DEF Crash, TimerFires, CacheSync, EnvironmentStep,
     DependencyChanges, RotateSecret, CronTick, OverlapChanges,
     OwnershipChanges, RepositoryStep, Fetch, TreeMoves, RepositoryChanges
<1>. QED BY <1>3, <1>4, <1>5, <1>6, <1>7, <1>8, <1>9, <1>10, <1>11, <1>12
         DEF Next, NextWithoutFetch, ReconcileStep, EnvironmentStep

\* A success is recorded only against the generation and the spec it was
\* computed from, and never on a policy that is being deleted.
THEOREM SuccessIsCurrent == Spec => SuccessForCurrentSpec
<1>1. IInv /\ [Next]_vars =>
        [policy'.status.applied # policy.status.applied =>
           /\ worker.obj.gen = policy.gen
           /\ worker.obj.spec = policy.spec
           /\ ~policy.deleting]_vars
  <2>. SUFFICES ASSUME IInv, Next, policy'.status.applied # policy.status.applied
                PROVE  /\ worker.obj.gen = policy.gen
                       /\ worker.obj.spec = policy.spec
                       /\ ~policy.deleting
    BY DEF vars
  <2>1. UpdateSuccessStatus /\ ~worker.stale
    BY AppliedChangesOnSuccess
  <2>2. worker.pc = "prune"
    BY <2>1 DEF UpdateSuccessStatus
  <2>3. worker.obj = policy /\ ~worker.obj.deleting
    BY <2>1, <2>2 DEF IInv, CopiesCurrent, Guarded
  <2>. QED BY <2>3
<1>. QED BY <1>1, Invariance, PTL DEF Spec, SuccessForCurrentSpec

-----------------------------------------------------------------------------
(* What the chain of plans, prunes and resyncs leaves in the service *)

\* Nothing but the reconcile itself touches what it is about: no fault cuts
\* it off, no edit moves its scope, no CRDGenerator takes a resource from it,
\* and the repository controller fetches between reconciles only.
Undisturbed ==
  /\ ~FetchAnytime
  /\ MaxFaults = 0
  /\ MaxGen <= 1
  /\ MaxHandovers = 0

\* The service holds for r what revision rev declares, as far as the policy
\* has to see to it.
HeldAt(r, rev) ==
  \/ remote[r] = Declared(rev, r)
  \/ ~policy.spec.prune /\ Declared(rev, r) = Absent

\* Every resource is the policy's, the published revision is the one checked
\* out, and a policy that was ever Ready has applied one.
Still ==
  /\ owned = {}
  /\ tree = repoRev
  /\ policy.gen >= 1
  /\ policy.status.ready => policy.status.applied # NoRev

\* The reconcile works from the revision that is checked out; once it syncs,
\* only a deletion can outdate its copy; it has no failed prune to report,
\* and exactly the full plans list the tree.
Snapshot ==
  /\ ~worker.failed
  /\ worker.pc \in Syncing \cup {"check", "build", "attempt"} =>
       worker.rev = tree
  /\ worker.pc \in Syncing \cup {"build", "attempt"} => worker.rev # NoRev
  /\ worker.pc \in Syncing /\ worker.stale => policy.deleting
  /\ worker.full => worker.pc \in {"list", "apply", "prune"}
  /\ worker.pc = "list" => worker.full

\* How far the service is on its way, for a policy that is not being deleted.
\* Outside apply and prune it holds the applied revision; a full apply has
\* brought the declared resources that are off its list, an incremental one
\* leaves nothing outside its plan to do, and a prune nothing but its
\* candidates.
Progress ==
  policy.exists /\ ~policy.deleting =>
    /\ worker.pc \notin {"apply", "prune"} /\ policy.status.applied # NoRev =>
         \A r \in policy.spec.scope : HeldAt(r, policy.status.applied)
    /\ worker.pc = "apply" =>
         \A r \in worker.todo : Declared(tree, r) # Absent
    /\ worker.pc = "apply" /\ worker.full =>
         \A r \in policy.spec.scope \ worker.todo :
            Declared(tree, r) # Absent => HeldAt(r, tree)
    /\ worker.pc = "apply" /\ ~worker.full =>
         \A r \in policy.spec.scope \ (worker.todo \cup worker.prunes) :
            HeldAt(r, tree)
    /\ (worker.pc = "apply" /\ ~worker.full) \/ worker.pc = "prune" =>
         \A r \in worker.prunes : Declared(tree, r) = Absent
    /\ worker.pc = "prune" =>
         \A r \in policy.spec.scope \ worker.prunes : HeldAt(r, tree)

CInv == IInv /\ Still /\ Snapshot /\ Progress

\* What a reconcile that ended leaves behind.
LEMMA IdleFacts == Idle.pc = "idle" /\ Idle.failed = FALSE /\ Idle.full = FALSE
BY DEF Idle, IdleWith

\* A failed reconcile withdraws Ready and leaves the rest of the object alone.
LEMMA FailKeepsPolicy ==
  ASSUME IInv, NEW retry \in BOOLEAN, worker.pc # "idle", FailWithStatus(retry)
  PROVE  /\ policy'.spec = policy.spec /\ policy'.gen = policy.gen
         /\ policy'.exists = policy.exists /\ policy'.deleting = policy.deleting
         /\ policy'.status.ready => policy.status.ready
<1>1. CASE StatusRefused
  BY <1>1 DEF StatusRefused
<1>2. CASE StatusWrite(NotReadyStatus(worker.obj))
  <2>1. worker.obj = policy /\ policy \in PolicyType /\ policy.status \in StatusType
    BY <1>2 DEF StatusWrite, IInv, CopiesCurrent, TypeOK, PolicyType
  <2>2. NotReadyStatus(policy).ready = FALSE
    BY <2>1 DEF NotReadyStatus, StatusType
  <2>3. policy' = [policy EXCEPT !.status = NotReadyStatus(policy)]
    BY <1>2, <2>1 DEF StatusWrite
  <2>. QED BY <2>1, <2>2, <2>3 DEF PolicyType
<1>. QED BY <1>1, <1>2 DEF FailWithStatus

\* With the one generation a spec has when nobody edits it, a step keeps the
\* spec, and deletion is for good; only a success makes the policy Ready.
LEMMA PolicyKept ==
  ASSUME IInv, policy.gen >= 1, MaxGen <= 1, Next
  PROVE  /\ policy'.spec = policy.spec /\ policy'.gen >= policy.gen
         /\ policy'.exists => policy.exists
         /\ policy.deleting => policy'.deleting
         /\ policy'.status.ready =>
              policy.status.ready \/ (UpdateSuccessStatus /\ ~worker.stale)
<1>. DEFINE Kept ==
       /\ policy'.spec = policy.spec /\ policy'.gen >= policy.gen
       /\ policy'.exists => policy.exists
       /\ policy.deleting => policy'.deleting
       /\ policy'.status.ready =>
            policy.status.ready \/ (UpdateSuccessStatus /\ ~worker.stale)
<1>. SUFFICES Kept
  OBVIOUS
<1>0. policy \in PolicyType /\ policy.status \in StatusType /\ policy.gen \in Nat
  BY DEF IInv, TypeOK, PolicyType
<1>1. CASE UNCHANGED policy
  BY <1>0, <1>1
<1>2. ASSUME NEW retry \in BOOLEAN, worker.pc # "idle", FailWithStatus(retry)
      PROVE  Kept
  BY <1>0, <1>2, FailKeepsPolicy
<1>3. ASSUME NEW st, policy' = [policy EXCEPT !.status = st],
             st.ready => policy.status.ready \/ (UpdateSuccessStatus /\ ~worker.stale)
      PROVE  Kept
  <2>1. /\ policy'.spec = policy.spec /\ policy'.gen = policy.gen
        /\ policy'.exists = policy.exists /\ policy'.deleting = policy.deleting
        /\ policy'.status = st
    BY <1>0, <1>3 DEF PolicyType
  <2>. QED BY <1>0, <1>3, <2>1
<1>4. CASE HandleFinalizer
  <2>1. CASE policy' = [policy EXCEPT !.finalizer = TRUE]
    BY <1>0, <2>1 DEF PolicyType
  <2>2. CASE policy' = [policy EXCEPT !.finalizer = FALSE, !.exists = FALSE]
    BY <1>0, <2>2 DEF PolicyType
  <2>. QED BY <1>1, <1>4, <2>1, <2>2 DEF HandleFinalizer, StatusRefused
<1>5. CASE ValidatePrerequisites
  <2>1. CASE StatusWrite(SuspendedStatus(worker.obj))
    <3>1. worker.obj = policy
      BY <1>5, <2>1 DEF ValidatePrerequisites, StatusWrite, IInv, CopiesCurrent
    <3>2. SuspendedStatus(policy).ready = FALSE
      BY <1>0 DEF SuspendedStatus, StatusType
    <3>. QED BY <1>3, <2>1, <3>1, <3>2 DEF StatusWrite
  <2>. QED BY <1>1, <1>2, <1>5, <2>1 DEF ValidatePrerequisites, StatusRefused
<1>6. CASE LoadDependencies \/ CheckSyncStatus \/ BuildRuntime
  BY <1>1, <1>2, <1>6 DEF LoadDependencies, CheckSyncStatus, BuildRuntime
<1>7. CASE BeginAttempt
  <2>1. CASE StatusWrite(AttemptStatus(worker.obj, worker.rev))
    <3>1. worker.obj = policy
      BY <1>7, <2>1 DEF BeginAttempt, StatusWrite, IInv, CopiesCurrent
    <3>2. AttemptStatus(policy, worker.rev).ready = policy.status.ready
      BY <1>0 DEF AttemptStatus, StatusType
    <3>. QED BY <1>3, <2>1, <3>1, <3>2 DEF StatusWrite
  <2>. QED BY <1>1, <1>7, <2>1 DEF BeginAttempt, StatusRefused
<1>8. CASE ListTargets \/ PruneFailed \/ \E r \in Resources : ApplyOne(r)
  BY <1>1, <1>2, <1>8 DEF ListTargets, PruneFailed, ApplyOne
<1>9. CASE UpdateSuccessStatus
  BY <1>1, <1>3, <1>9 DEF UpdateSuccessStatus, StatusRefused, StatusWrite
<1>10. CASE CallFails
  BY <1>1, <1>2, <1>10 DEF CallFails
<1>11. CASE UserStep
  <2>1. CASE policy' = [policy EXCEPT !.deleting = TRUE, !.gen = @ + 1]
    BY <1>0, <2>1 DEF PolicyType
  <2>2. CASE policy' = Gone(policy)
    BY <1>0, <2>2 DEF PolicyType, Gone
  <2>3. ~ \E s \in Specs : EditSpec(s)
    <3>1. MaxGen \in Nat
      BY ConstantsAssumption
    <3>2. ~(policy.gen < MaxGen)
      BY <1>0, <3>1
    <3>. QED BY <3>2 DEF EditSpec
  <2>. QED BY <1>11, <2>1, <2>2, <2>3 DEF UserStep, DeletePolicy
<1>. QED
  BY <1>1, <1>4, <1>5, <1>6, <1>7, <1>8, <1>9, <1>10, <1>11
     DEF Next, NextWithoutFetch, ReconcileStep, EnvironmentStep,
         StartReconcile, PlanSync, BeginPrune, PruneOne, Crash, TimerFires,
         CacheSync, DependencyChanges, RotateSecret, CronTick, OverlapChanges,
         OwnershipChanges, RepositoryStep, Fetch, TreeMoves, RepositoryChanges

\* Without faults nothing fails or crashes, and without handovers every
\* resource stays the policy's.
LEMMA NothingElse ==
  ASSUME IInv, Undisturbed
  PROVE  /\ ~CallFails /\ ~Crash
         /\ \A r \in Resources : ~OwnershipChanges(r)
         /\ \A rev : ~TreeMoves(rev)
         /\ \A rev, state : ~RepositoryChanges(rev, state)
<1>1. budget.faults \in 0..0 /\ budget.handovers \in 0..0
  BY DEF IInv, TypeOK, BudgetType, Undisturbed
<1>2. ~(budget.faults < MaxFaults) /\ ~(budget.handovers < MaxHandovers)
  BY <1>1 DEF Undisturbed
<1>. QED BY <1>2 DEF CallFails, Crash, OwnershipChanges, TreeMoves,
                     RepositoryChanges, Undisturbed

\* What the steps of a reconcile leave alone, and what a fetch does.
LEMMA TreeKept ==
  ASSUME IInv, Undisturbed, Next
  PROVE  /\ UNCHANGED owned
         /\ \/ UNCHANGED <<tree, repoRev>>
            \/ /\ tree' = repoRev'
               /\ worker.pc = "idle" /\ UNCHANGED <<worker, policy, remote>>
<1>1. CASE ReconcileStep
  BY <1>1 DEF ReconcileStep, StartReconcile, HandleFinalizer,
     ValidatePrerequisites, LoadDependencies, CheckSyncStatus, BuildRuntime,
     BeginAttempt, PlanSync, ListTargets, ApplyOne, BeginPrune, PruneOne,
     PruneFailed, UpdateSuccessStatus, env
<1>2. CASE \/ TimerFires \/ CacheSync \/ EnvironmentStep
  BY <1>2, NothingElse DEF TimerFires, CacheSync, EnvironmentStep, UserStep,
     EditSpec, DeletePolicy, DependencyChanges, RotateSecret, CronTick,
     OverlapChanges, env
<1>3. CASE RepositoryStep
  BY <1>3, NothingElse DEF RepositoryStep, Fetch, RepositorySeen
<1>. QED BY <1>1, <1>2, <1>3, NothingElse DEF Next, NextWithoutFetch

\* A success records a revision, so Ready and applied move together.
LEMMA StillKept ==
  ASSUME IInv, Still, Snapshot, Undisturbed, Next
  PROVE  Still'
<1>1. owned' = {} /\ tree' = repoRev'
  BY TreeKept DEF Still
<1>2. policy'.gen >= 1
  <2>1. policy.gen \in Nat /\ policy'.gen \in Nat
    <3>1. IInv'
      BY NextKeepsIInv
    <3>. QED BY <3>1 DEF IInv, TypeOK, PolicyType
  <2>2. policy'.gen >= policy.gen /\ policy.gen >= 1
    BY PolicyKept DEF Undisturbed, Still
  <2>. QED BY <2>1, <2>2
<1>3. policy'.status.ready => policy'.status.applied # NoRev
  <2>1. CASE UpdateSuccessStatus /\ ~worker.stale
    <3>1. /\ worker.pc = "prune"
          /\ policy' = [policy EXCEPT
               !.status = SuccessStatus(worker.obj, worker.rev, secret, worker.full)]
      BY <2>1 DEF UpdateSuccessStatus, StatusRefused, StatusWrite
    <3>2. worker.obj = policy /\ policy \in PolicyType /\ policy.status \in StatusType
      BY <2>1, <3>1 DEF IInv, CopiesCurrent, TypeOK, PolicyType
    <3>3. policy'.status = SuccessStatus(policy, worker.rev, secret, worker.full)
      BY <3>1, <3>2 DEF PolicyType
    <3>4. policy'.status.applied = worker.rev
      BY <3>2, <3>3 DEF SuccessStatus, StatusType
    <3>5. worker.rev # NoRev
      BY <3>1 DEF Snapshot, Syncing
    <3>. QED BY <3>4, <3>5
  <2>2. CASE ~(UpdateSuccessStatus /\ ~worker.stale)
    <3>1. policy'.status.applied = policy.status.applied
      BY <2>2, AppliedChangesOnSuccess
    <3>2. policy'.status.ready => policy.status.ready
      BY <2>2, PolicyKept DEF Undisturbed, Still
    <3>. QED BY <3>1, <3>2 DEF Still
  <2>. QED BY <2>1, <2>2
<1>. QED BY <1>1, <1>2, <1>3 DEF Still

\* A reconcile that returned has nothing to be kept.
LEMMA IdleSnapshot ==
  ASSUME worker' = Idle
  PROVE  Snapshot'
BY IdleFacts DEF Snapshot, Syncing

\* Every reconcile step hands the revision on that loadDependencies read, and
\* the status write before the plan lets no outdated copy through.
LEMMA SnapshotKept ==
  ASSUME IInv, Still, Snapshot, Undisturbed, Next
  PROVE  Snapshot'
<1>0. /\ worker \in WorkerType /\ worker.pc \in Steps
      /\ policy \in PolicyType
      /\ policy.deleting => policy'.deleting
      /\ UNCHANGED tree \/ (worker.pc = "idle" /\ UNCHANGED worker)
  BY PolicyKept, TreeKept DEF IInv, TypeOK, WorkerType, Undisturbed, Still
<1>1. CASE worker' = Idle
  BY <1>1, IdleSnapshot
<1>2. ASSUME NEW retry \in BOOLEAN, FailWithStatus(retry)
      PROVE  Snapshot'
  BY <1>2, IdleSnapshot DEF FailWithStatus, StatusRefused, Return
<1>3. CASE UNCHANGED worker
  BY <1>0, <1>3 DEF Snapshot, Syncing
<1>4. CASE StartReconcile
  <2>1. CASE worker' = [Idle EXCEPT !.pc = "finalizer", !.obj = cached,
                                    !.stale = cacheStale]
    <3>1. /\ worker'.pc = "finalizer" /\ worker'.failed = FALSE
          /\ worker'.full = FALSE
      BY <2>1, IdleType, IdleFacts DEF WorkerType
    <3>. QED BY <3>1 DEF Snapshot, Syncing
  <2>. QED BY <1>1, <1>4, <2>1 DEF StartReconcile
<1>5. CASE HandleFinalizer \/ ValidatePrerequisites
  <2>1. CASE /\ worker.pc \in {"finalizer", "validate"}
             /\ worker'.pc \in {"validate", "load"}
             /\ worker'.failed = worker.failed /\ worker'.full = worker.full
    BY <2>1 DEF Snapshot, Syncing
  <2>2. CASE worker' = [worker EXCEPT !.pc = "validate", !.obj.finalizer = TRUE]
    BY <1>0, <1>5, <2>1, <2>2 DEF HandleFinalizer, ValidatePrerequisites, WorkerType
  <2>3. CASE worker' = [worker EXCEPT !.pc = "validate"]
    BY <1>0, <1>5, <2>1, <2>3 DEF HandleFinalizer, ValidatePrerequisites, WorkerType
  <2>4. CASE worker' = [worker EXCEPT !.pc = "load"]
    BY <1>0, <1>5, <2>1, <2>4 DEF HandleFinalizer, ValidatePrerequisites, WorkerType
  <2>. QED BY <1>1, <1>2, <1>5, <2>2, <2>3, <2>4
           DEF HandleFinalizer, ValidatePrerequisites, StatusRefused, Return
<1>6. CASE LoadDependencies
  <2>1. CASE worker' = [worker EXCEPT !.pc = "check", !.rev = repoRev]
    <3>1. /\ worker'.pc = "check" /\ worker'.rev = repoRev
          /\ worker'.failed = worker.failed /\ worker'.full = worker.full
          /\ worker.pc = "load"
      BY <1>0, <1>6, <2>1 DEF LoadDependencies, WorkerType
    <3>2. tree' = repoRev
      BY <1>0, <3>1 DEF Still
    <3>. QED BY <3>1, <3>2 DEF Snapshot, Syncing
  <2>. QED BY <1>2, <1>6, <2>1 DEF LoadDependencies
<1>7. CASE CheckSyncStatus
  <2>1. CASE worker' = [worker EXCEPT !.pc = "build"] /\ worker.rev # NoRev
    <3>1. /\ worker'.pc = "build" /\ worker'.rev = worker.rev
          /\ worker'.failed = worker.failed /\ worker'.full = worker.full
          /\ worker.pc = "check"
      BY <1>0, <1>7, <2>1 DEF CheckSyncStatus, WorkerType
    <3>. QED BY <1>0, <2>1, <3>1 DEF Snapshot, Syncing
  <2>. QED BY <1>1, <1>2, <1>7, <2>1 DEF CheckSyncStatus, Return
<1>8. CASE BuildRuntime
  <2>1. CASE worker' = [worker EXCEPT !.pc = "attempt", !.secret = secret]
    <3>1. /\ worker'.pc = "attempt" /\ worker'.rev = worker.rev
          /\ worker'.failed = worker.failed /\ worker'.full = worker.full
          /\ worker.pc = "build"
      BY <1>0, <1>8, <2>1 DEF BuildRuntime, WorkerType
    <3>. QED BY <1>0, <3>1 DEF Snapshot, Syncing
  <2>. QED BY <1>2, <1>8, <2>1 DEF BuildRuntime
<1>9. CASE BeginAttempt
  <2>1. CASE /\ StatusWrite(AttemptStatus(worker.obj, worker.rev))
             /\ worker' = [worker EXCEPT
                  !.pc = "plan",
                  !.obj.status = AttemptStatus(worker.obj, worker.rev)]
    <3>1. /\ worker'.pc = "plan" /\ worker'.rev = worker.rev
          /\ worker'.failed = worker.failed /\ worker'.full = worker.full
          /\ worker'.stale = worker.stale /\ ~worker.stale
          /\ worker.pc = "attempt"
      BY <1>0, <1>9, <2>1 DEF BeginAttempt, StatusWrite, WorkerType
    <3>. QED BY <1>0, <3>1 DEF Snapshot, Syncing
  <2>. QED BY <1>1, <1>9, <2>1 DEF BeginAttempt, StatusRefused, Return
<1>10. CASE PlanSync
  <2>1. CASE worker' = [worker EXCEPT !.pc = "list", !.full = TRUE]
    <3>1. /\ worker'.pc = "list" /\ worker'.rev = worker.rev
          /\ worker'.failed = worker.failed /\ worker'.full = TRUE
          /\ worker'.stale = worker.stale
          /\ worker.pc = "plan"
      BY <1>0, <1>10, <2>1 DEF PlanSync, WorkerType
    <3>. QED BY <1>0, <3>1 DEF Snapshot, Syncing
  <2>2. ASSUME NEW todo, NEW prunes,
               worker' = [worker EXCEPT !.pc = "apply", !.todo = todo,
                                        !.prunes = prunes]
        PROVE  Snapshot'
    <3>1. /\ worker'.pc = "apply" /\ worker'.rev = worker.rev
          /\ worker'.failed = worker.failed /\ worker'.full = worker.full
          /\ worker'.stale = worker.stale
          /\ worker.pc = "plan"
      BY <1>0, <1>10, <2>2 DEF PlanSync, WorkerType
    <3>. QED BY <1>0, <3>1 DEF Snapshot, Syncing
  <2>. QED BY <1>10, <2>1, <2>2 DEF PlanSync
<1>11. ASSUME /\ worker.pc \in {"list", "apply", "prune"}
              /\ worker'.pc \in {"apply", "prune"}
              /\ worker'.rev = worker.rev /\ worker'.failed = worker.failed
              /\ worker'.stale = worker.stale
       PROVE  Snapshot'
  BY <1>0, <1>11 DEF Snapshot, Syncing
<1>12. CASE ListTargets
  <2>1. ASSUME NEW todo, worker' = [worker EXCEPT !.pc = "apply", !.todo = todo]
        PROVE  Snapshot'
    BY <1>0, <1>11, <1>12, <2>1 DEF ListTargets, WorkerType
  <2>. QED BY <1>2, <1>12, <2>1 DEF ListTargets
<1>13. ASSUME NEW r \in Resources, ApplyOne(r) PROVE Snapshot'
  <2>1. CASE worker' = [worker EXCEPT !.todo = @ \ {r}]
    BY <1>0, <1>11, <1>13, <2>1 DEF ApplyOne, WorkerType
  <2>. QED BY <1>2, <1>13, <2>1 DEF ApplyOne
<1>14. ASSUME NEW r \in Resources, PruneOne(r) PROVE Snapshot'
  BY <1>0, <1>11, <1>14 DEF PruneOne, WorkerType
<1>15. CASE BeginPrune
  <2>1. PICK prunes : worker' = [worker EXCEPT !.pc = "prune", !.prunes = prunes]
    BY <1>15 DEF BeginPrune
  <2>. QED BY <1>0, <1>11, <1>15, <2>1 DEF BeginPrune, WorkerType
<1>16. CASE PruneFailed \/ UpdateSuccessStatus
  BY <1>1, <1>2, <1>16 DEF PruneFailed, UpdateSuccessStatus, StatusRefused, Return
<1>17. CASE UserStep
  <2>1. /\ policy.exists /\ ~policy.deleting
        /\ worker' = [worker EXCEPT !.stale = (worker.pc # "idle")]
    BY <1>17 DEF UserStep, EditSpec, DeletePolicy
  <2>2. /\ worker'.pc = worker.pc /\ worker'.rev = worker.rev
        /\ worker'.failed = worker.failed /\ worker'.full = worker.full
    BY <1>0, <2>1 DEF WorkerType
  <2>3. worker.pc \in Syncing => policy'.deleting
    <3>1. worker.pc \in Syncing => policy.finalizer
      BY DEF IInv, Announced
    <3>2. ~ \E s \in Specs : EditSpec(s)
      <4>1. MaxGen \in Nat /\ policy.gen \in Nat
        BY <1>0, ConstantsAssumption DEF PolicyType
      <4>2. ~(policy.gen < MaxGen)
        BY <4>1 DEF Still, Undisturbed
      <4>. QED BY <4>2 DEF EditSpec
    <3>3. policy.finalizer =>
            policy' = [policy EXCEPT !.deleting = TRUE, !.gen = @ + 1]
      BY <1>17, <3>2 DEF UserStep, DeletePolicy
    <3>. QED BY <1>0, <3>1, <3>3 DEF PolicyType
  <2>. QED BY <1>0, <2>1, <2>2, <2>3 DEF Snapshot, Syncing
<1>18. CASE \/ TimerFires \/ CacheSync \/ RepositoryStep
            \/ (EnvironmentStep /\ ~UserStep)
  BY <1>3, <1>18, NothingElse DEF TimerFires, CacheSync, EnvironmentStep,
     DependencyChanges, RotateSecret, CronTick, OverlapChanges, RepositoryStep,
     Fetch
<1>. QED BY <1>4, <1>5, <1>6, <1>7, <1>8, <1>9, <1>10, <1>12, <1>13, <1>14,
            <1>15, <1>16, <1>17, <1>18, NothingElse
         DEF Next, NextWithoutFetch, ReconcileStep

\* A step that leaves the service alone and is not, after it, in apply or
\* prune keeps what is held of the applied revision.
LEMMA RestKeepsProgress ==
  ASSUME IInv, Still, Progress, Undisturbed, Next, UNCHANGED remote,
         ~(UpdateSuccessStatus /\ ~worker.stale),
         worker'.pc \notin {"apply", "prune"},
         policy'.exists /\ ~policy'.deleting => worker.pc \notin {"apply", "prune"}
  PROVE  Progress'
<1>1. policy'.status.applied = policy.status.applied
  BY AppliedChangesOnSuccess
<1>2. /\ policy'.spec = policy.spec
      /\ policy'.exists => policy.exists
      /\ policy.deleting => policy'.deleting
  BY PolicyKept DEF Undisturbed, Still
<1>. SUFFICES ASSUME policy'.exists, ~policy'.deleting,
                     policy'.status.applied # NoRev,
                     NEW r \in policy'.spec.scope
              PROVE  HeldAt(r, policy.status.applied)'
  BY <1>1 DEF Progress, HeldAt
<1>3. HeldAt(r, policy.status.applied)
  BY <1>1, <1>2 DEF Progress
<1>. QED BY <1>1, <1>2, <1>3 DEF HeldAt, Declared

\* A step that leaves the object, the tree, the service and the worker alone.
LEMMA SameKeepsProgress ==
  ASSUME Progress, UNCHANGED <<policy, remote, worker>>,
         UNCHANGED tree \/ worker.pc = "idle"
  PROVE  Progress'
BY DEF Progress, HeldAt, Declared

\* While a sync runs under a policy that is not being deleted, its copy is the
\* stored object and its revision is the one checked out.
LEMMA SyncFacts ==
  ASSUME IInv, Snapshot, worker.pc \in Syncing, ~policy.deleting
  PROVE  worker.obj = policy /\ ~worker.stale /\ worker.rev = tree
BY DEF IInv, CopiesCurrent, Snapshot, Syncing

\* An incremental plan holds every resource that differs between the applied
\* revision and the new one; the service holds the rest already.
LEMMA PlanKeepsProgress ==
  ASSUME IInv, Still, Snapshot, Progress, Undisturbed, Next, PlanSync
  PROVE  Progress'
<1>0. /\ worker \in WorkerType /\ worker.pc = "plan" /\ worker.pc \in Syncing
      /\ UNCHANGED <<policy, remote, tree>>
  BY DEF IInv, TypeOK, PlanSync, env, Syncing
<1>1. CASE worker' = [worker EXCEPT !.pc = "list", !.full = TRUE]
  <2>1. worker'.pc = "list"
    BY <1>0, <1>1 DEF WorkerType
  <2>. QED BY <1>0, <2>1, RestKeepsProgress DEF UpdateSuccessStatus
<1>2. CASE ~(worker' = [worker EXCEPT !.pc = "list", !.full = TRUE])
  <2>. DEFINE p == worker.obj
              changed == ChangedBetween(p.status.applied, worker.rev, p.spec.scope)
              present == LocalTargets(worker.rev, changed)
  <2>1. /\ ~MustBeFull(p, worker.rev)
        /\ worker' = [worker EXCEPT !.pc = "apply", !.todo = present,
                                    !.prunes = changed \ present]
    BY <1>2 DEF PlanSync
  <2>. SUFFICES ASSUME policy.exists, ~policy.deleting PROVE Progress'
    BY <1>0 DEF Progress
  <2>2. p = policy /\ worker.rev = tree
    BY <1>0, SyncFacts
  <2>3. p.status.applied # NoRev
    BY <2>1 DEF MustBeFull
  <2>4. /\ worker'.pc = "apply" /\ worker'.full = worker.full
        /\ worker'.todo = present /\ worker'.prunes = changed \ present
    BY <1>0, <2>1 DEF WorkerType
  <2>5. ~worker.full
    BY <1>0 DEF Snapshot
  <2>6. \A r \in present : Declared(tree, r) # Absent
    BY <2>2 DEF LocalTargets
  <2>7. \A r \in changed \ present : Declared(tree, r) = Absent
    BY <2>2 DEF LocalTargets
  <2>8. \A r \in policy.spec.scope \ (present \cup (changed \ present)) :
           HeldAt(r, tree)
    <3>. SUFFICES ASSUME NEW r \in policy.spec.scope, r \notin changed
                  PROVE  HeldAt(r, tree)
      BY DEF LocalTargets
    <3>1. Declared(policy.status.applied, r) = Declared(tree, r)
      BY <2>2 DEF ChangedBetween
    <3>2. HeldAt(r, policy.status.applied)
      BY <1>0, <2>2, <2>3 DEF Progress
    <3>. QED BY <3>1, <3>2 DEF HeldAt
  <2>. HIDE DEF changed, present
  <2>9. \A r : HeldAt(r, tree) => HeldAt(r, tree)'
    BY <1>0 DEF HeldAt, Declared
  <2>. QED BY <1>0, <2>4, <2>5, <2>6, <2>7, <2>8, <2>9 DEF Progress, Declared
<1>. QED BY <1>1, <1>2

\* A full plan lists everything the tree declares.
LEMMA ListKeepsProgress ==
  ASSUME IInv, Still, Snapshot, Progress, Undisturbed, Next, ListTargets
  PROVE  Progress'
<1>0. /\ worker \in WorkerType /\ worker.pc = "list" /\ worker.pc \in Syncing
      /\ UNCHANGED <<remote, tree>>
  BY DEF IInv, TypeOK, ListTargets, env, Syncing
<1>1. CASE FailWithStatus(TRUE)
  <2>1. worker'.pc = "idle"
    BY <1>1, IdleFacts DEF FailWithStatus, StatusRefused, Return
  <2>. QED BY <1>0, <2>1, RestKeepsProgress DEF UpdateSuccessStatus
<1>2. CASE /\ worker' = [worker EXCEPT
                !.pc = "apply",
                !.todo = LocalTargets(tree, worker.obj.spec.scope)]
           /\ UNCHANGED policy
  <2>. SUFFICES ASSUME policy.exists, ~policy.deleting PROVE Progress'
    BY <1>2 DEF Progress
  <2>1. worker.obj = policy
    BY <1>0, SyncFacts
  <2>2. /\ worker'.pc = "apply" /\ worker'.full = worker.full
        /\ worker'.todo = LocalTargets(tree, policy.spec.scope)
    BY <1>0, <1>2, <2>1 DEF WorkerType
  <2>3. worker.full
    BY <1>0 DEF Snapshot
  <2>. QED BY <1>0, <1>2, <2>2, <2>3 DEF Progress, LocalTargets, Declared
<1>. QED BY <1>1, <1>2 DEF ListTargets

\* Applying a target takes it off the list and puts what the tree declares
\* for it into the service; nothing on the list is undeclared, so no apply
\* fails.
LEMMA ApplyKeepsProgress ==
  ASSUME IInv, Still, Snapshot, Progress, Undisturbed,
         NEW t \in Resources, ApplyOne(t)
  PROVE  Progress'
<1>0. /\ worker \in WorkerType /\ worker.pc = "apply" /\ worker.pc \in Syncing
      /\ t \in worker.todo /\ UNCHANGED tree /\ t \notin owned
      /\ remote \in [Resources -> Payloads]
      /\ policy \in PolicyType /\ policy.spec.scope \subseteq Resources
  BY DEF IInv, TypeOK, ApplyOne, env, Syncing, Still, PolicyType, SpecType
<1>1. CASE /\ remote' = [remote EXCEPT ![t] = Declared(tree, t)]
           /\ worker' = [worker EXCEPT !.todo = @ \ {t}]
           /\ UNCHANGED policy
  <2>. SUFFICES ASSUME policy.exists, ~policy.deleting PROVE Progress'
    BY <1>1 DEF Progress
  <2>1. /\ worker'.pc = "apply" /\ worker'.full = worker.full
        /\ worker'.todo = worker.todo \ {t} /\ worker'.prunes = worker.prunes
    BY <1>0, <1>1 DEF WorkerType
  <2>2. HeldAt(t, tree)'
    BY <1>0, <1>1 DEF HeldAt, Declared
  <2>3. \A r \in Resources : HeldAt(r, tree) => HeldAt(r, tree)'
    BY <1>0, <1>1, <2>2 DEF HeldAt, Declared
  <2>4. \A r \in worker'.todo : Declared(tree, r)' # Absent
    BY <1>0, <2>1 DEF Progress, Declared
  <2>5. worker.full =>
          \A r \in policy.spec.scope \ worker'.todo :
             Declared(tree, r) # Absent => HeldAt(r, tree)'
    BY <1>0, <2>1, <2>2, <2>3 DEF Progress
  <2>6. ~worker.full =>
          \A r \in policy.spec.scope \ (worker'.todo \cup worker'.prunes) :
             HeldAt(r, tree)'
    BY <1>0, <2>1, <2>2, <2>3 DEF Progress
  <2>7. ~worker.full => \A r \in worker'.prunes : Declared(tree, r)' = Absent
    BY <1>0, <2>1 DEF Progress, Declared
  <2>. QED BY <1>0, <1>1, <2>1, <2>4, <2>5, <2>6, <2>7 DEF Progress, Declared
<1>2. CASE Declared(tree, t) = Absent /\ FailWithStatus(TRUE)
  <2>1. ~(policy.exists /\ ~policy.deleting)
    BY <1>0, <1>2 DEF Progress
  <2>2. policy'.exists = policy.exists /\ policy'.deleting = policy.deleting
    BY <1>0, <1>2, FailKeepsPolicy
  <2>. QED BY <2>1, <2>2 DEF Progress
<1>. QED BY <1>0, <1>1, <1>2 DEF ApplyOne

\* What a prune has to look at: a full plan finds everything the service has
\* and the tree has not, an incremental one what the diff removed.
LEMMA BeginPruneKeepsProgress ==
  ASSUME IInv, Still, Snapshot, Progress, Undisturbed, BeginPrune
  PROVE  Progress'
<1>0. /\ worker \in WorkerType /\ worker.pc = "apply" /\ worker.pc \in Syncing
      /\ worker.todo = {} /\ UNCHANGED <<policy, remote, tree>>
  BY DEF IInv, TypeOK, BeginPrune, env, Syncing
<1>. SUFFICES ASSUME policy.exists, ~policy.deleting PROVE Progress'
  BY <1>0 DEF Progress
<1>. DEFINE candidates ==
       IF worker.full
       THEN {r \in policy.spec.scope :
               remote[r] # Absent /\ Declared(tree, r) = Absent}
       ELSE worker.prunes
     prunes == IF policy.spec.prune THEN candidates ELSE {}
<1>1. worker' = [worker EXCEPT !.pc = "prune", !.prunes = prunes]
  BY <1>0, SyncFacts DEF BeginPrune
<1>2. worker'.pc = "prune" /\ worker'.prunes = prunes
  BY <1>0, <1>1 DEF WorkerType
<1>3. \A r \in prunes : Declared(tree, r) = Absent
  BY <1>0 DEF Progress
<1>4. \A r \in policy.spec.scope \ prunes : HeldAt(r, tree)
  <2>. SUFFICES ASSUME NEW r \in policy.spec.scope, r \notin prunes
                PROVE  HeldAt(r, tree)
    OBVIOUS
  <2>1. CASE worker.full
    <3>1. Declared(tree, r) # Absent => HeldAt(r, tree)
      BY <1>0, <2>1 DEF Progress
    <3>. QED BY <2>1, <3>1 DEF HeldAt
  <2>2. CASE ~worker.full
    <3>1. r \notin worker.prunes => HeldAt(r, tree)
      BY <1>0, <2>2 DEF Progress
    <3>2. r \in worker.prunes => Declared(tree, r) = Absent
      BY <1>0, <2>2 DEF Progress
    <3>. QED BY <2>2, <3>1, <3>2 DEF HeldAt
  <2>. QED BY <2>1, <2>2
<1>. HIDE DEF prunes
<1>. QED BY <1>0, <1>2, <1>3, <1>4 DEF Progress, HeldAt, Declared

\* Deleting a candidate, which the tree does not declare.
LEMMA PruneKeepsProgress ==
  ASSUME IInv, Still, Snapshot, Progress, Undisturbed,
         NEW t \in Resources, PruneOne(t)
  PROVE  Progress'
<1>0. /\ worker \in WorkerType /\ worker.pc = "prune"
      /\ t \in worker.prunes /\ UNCHANGED <<policy, tree>>
      /\ remote \in [Resources -> Payloads]
      /\ policy \in PolicyType /\ policy.spec.scope \subseteq Resources
  BY DEF IInv, TypeOK, PruneOne, env, PolicyType, SpecType
<1>1. remote' = [remote EXCEPT ![t] = Absent]
  BY DEF PruneOne, Still
<1>. SUFFICES ASSUME policy.exists, ~policy.deleting PROVE Progress'
  BY <1>0 DEF Progress
<1>2. worker'.pc = "prune" /\ worker'.prunes = worker.prunes \ {t}
  BY <1>0 DEF PruneOne, WorkerType
<1>3. Declared(tree, t) = Absent
  BY <1>0 DEF Progress
<1>4. HeldAt(t, tree)'
  BY <1>0, <1>1, <1>3 DEF HeldAt, Declared
<1>5. \A r \in Resources : HeldAt(r, tree) => HeldAt(r, tree)'
  BY <1>0, <1>1, <1>4 DEF HeldAt, Declared
<1>6. \A r \in policy.spec.scope \ worker'.prunes : HeldAt(r, tree)'
  BY <1>0, <1>2, <1>4, <1>5 DEF Progress
<1>7. \A r \in worker'.prunes : Declared(tree, r)' = Absent
  BY <1>0, <1>2 DEF Progress, Declared
<1>. QED BY <1>0, <1>2, <1>6, <1>7 DEF Progress, Declared

\* A success records the revision that the service holds by now; only a
\* deletion can have refused it.
LEMMA SuccessKeepsProgress ==
  ASSUME IInv, Still, Snapshot, Progress, Undisturbed, UpdateSuccessStatus
  PROVE  Progress'
<1>0. /\ worker \in WorkerType /\ worker.pc = "prune" /\ worker.pc \in Syncing
      /\ worker.prunes = {} /\ UNCHANGED <<remote, tree>>
      /\ worker'.pc = "idle"
      /\ policy \in PolicyType /\ policy.status \in StatusType
  BY IdleFacts DEF IInv, TypeOK, UpdateSuccessStatus, env, Syncing,
     StatusRefused, Return, PolicyType
<1>1. CASE worker.stale
  BY <1>0, <1>1 DEF UpdateSuccessStatus, StatusRefused, StatusWrite, Snapshot,
     Progress
<1>2. CASE ~worker.stale
  <2>1. worker.obj = policy
    BY <1>0, <1>2 DEF IInv, CopiesCurrent
  <2>2. ~policy.deleting /\ worker.rev = tree
    BY <1>0, <2>1 DEF IInv, Guarded, Snapshot
  <2>3. policy' = [policy EXCEPT
          !.status = SuccessStatus(policy, worker.rev, secret, worker.full)]
    BY <1>2, <2>1 DEF UpdateSuccessStatus, StatusRefused, StatusWrite
  <2>4. /\ policy'.spec = policy.spec /\ policy'.exists = policy.exists
        /\ policy'.status = SuccessStatus(policy, worker.rev, secret, worker.full)
    BY <1>0, <2>3 DEF PolicyType
  <2>5. policy'.status.applied = tree
    BY <1>0, <2>2, <2>4 DEF SuccessStatus, StatusType
  <2>6. policy.exists => \A r \in policy.spec.scope : HeldAt(r, tree)
    BY <1>0, <2>2 DEF Progress
  <2>7. \A r : HeldAt(r, tree) => HeldAt(r, tree)'
    BY <1>0, <2>4 DEF HeldAt, Declared
  <2>8. policy'.exists =>
          \A r \in policy'.spec.scope : HeldAt(r, policy.status.applied)'
    BY <1>0, <2>4, <2>5, <2>6, <2>7 DEF HeldAt, Declared
  <2>. QED BY <1>0, <2>8 DEF Progress
<1>. QED BY <1>1, <1>2

\* The steps together.
LEMMA ProgressKept ==
  ASSUME IInv, Still, Snapshot, Progress, Undisturbed, Next
  PROVE  Progress'
<1>1. ASSUME UNCHANGED remote, worker'.pc \notin {"apply", "prune"},
             worker.pc \notin {"apply", "prune"}
      PROVE  Progress'
  BY <1>1, RestKeepsProgress DEF UpdateSuccessStatus
<1>2. ASSUME NEW retry \in BOOLEAN, FailWithStatus(retry)
      PROVE  worker'.pc = "idle"
  BY <1>2, IdleFacts DEF FailWithStatus, StatusRefused, Return
<1>3. worker \in WorkerType
  BY DEF IInv, TypeOK
<1>4. CASE StartReconcile
  <2>1. worker'.pc \in {"idle", "finalizer"}
    BY <1>4, IdleType, IdleFacts DEF StartReconcile, WorkerType
  <2>. QED BY <1>1, <1>4, <2>1 DEF StartReconcile
<1>5. CASE HandleFinalizer
  <2>1. worker'.pc \in {"idle", "validate"}
    BY <1>3, <1>5, IdleFacts DEF HandleFinalizer, StatusRefused, Return, WorkerType
  <2>. QED BY <1>1, <1>5, <2>1 DEF HandleFinalizer
<1>6. CASE ValidatePrerequisites
  <2>1. worker'.pc \in {"idle", "load"}
    BY <1>2, <1>3, <1>6, IdleFacts
       DEF ValidatePrerequisites, StatusRefused, Return, WorkerType
  <2>. QED BY <1>1, <1>6, <2>1 DEF ValidatePrerequisites
<1>7. CASE LoadDependencies \/ CheckSyncStatus \/ BuildRuntime
  <2>1. worker'.pc \in {"idle", "check", "build", "attempt"}
    BY <1>2, <1>3, <1>7, IdleFacts
       DEF LoadDependencies, CheckSyncStatus, BuildRuntime, Return, WorkerType
  <2>. QED BY <1>1, <1>7, <2>1 DEF LoadDependencies, CheckSyncStatus, BuildRuntime
<1>8. CASE BeginAttempt
  <2>1. worker'.pc \in {"idle", "plan"}
    BY <1>3, <1>8, IdleFacts DEF BeginAttempt, StatusRefused, Return, WorkerType
  <2>. QED BY <1>1, <1>8, <2>1 DEF BeginAttempt
<1>9. CASE PlanSync \/ ListTargets \/ BeginPrune \/ UpdateSuccessStatus
  BY <1>9, PlanKeepsProgress, ListKeepsProgress, BeginPruneKeepsProgress,
     SuccessKeepsProgress
<1>10. CASE \E r \in Resources : ApplyOne(r) \/ PruneOne(r)
  BY <1>10, ApplyKeepsProgress, PruneKeepsProgress
<1>11. CASE PruneFailed
  BY <1>11 DEF PruneFailed, Snapshot
<1>12. CASE UserStep
  <2>1. /\ UNCHANGED remote
        /\ worker' = [worker EXCEPT !.stale = (worker.pc # "idle")]
    BY <1>12 DEF UserStep, EditSpec, DeletePolicy
  <2>2. policy \in PolicyType
    BY DEF IInv, TypeOK
  <2>3. ~ \E s \in Specs : EditSpec(s)
    <3>1. MaxGen \in Nat /\ policy.gen \in Nat
      BY <2>2, ConstantsAssumption DEF PolicyType
    <3>2. ~(policy.gen < MaxGen)
      BY <3>1 DEF Still, Undisturbed
    <3>. QED BY <3>2 DEF EditSpec
  <2>4. \/ policy' = [policy EXCEPT !.deleting = TRUE, !.gen = @ + 1]
        \/ policy' = Gone(policy)
    BY <1>12, <2>3 DEF UserStep, DeletePolicy
  <2>5. ~(policy'.exists /\ ~policy'.deleting)
    BY <2>2, <2>4 DEF PolicyType, Gone
  <2>. QED BY <2>5 DEF Progress
<1>13. CASE \/ TimerFires \/ CacheSync \/ RepositoryStep
            \/ (EnvironmentStep /\ ~UserStep)
  <2>1. UNCHANGED <<policy, remote, worker>>
    BY <1>13, NothingElse DEF TimerFires, CacheSync, EnvironmentStep,
       DependencyChanges, RotateSecret, CronTick, OverlapChanges,
       RepositoryStep, Fetch
  <2>. QED BY <2>1, TreeKept, SameKeepsProgress
<1>. QED BY <1>4, <1>5, <1>6, <1>7, <1>8, <1>9, <1>10, <1>11, <1>12, <1>13,
            NothingElse
         DEF Next, NextWithoutFetch, ReconcileStep

\* Initially nothing is applied and no reconcile runs.
LEMMA InitCInv == Init => CInv
<1>. SUFFICES ASSUME Init PROVE CInv
  OBVIOUS
<1>1. PICK s \in Specs : policy = NewPolicy(s)
  BY DEF Init
<1>2. /\ policy.gen = 1 /\ policy.status.ready = FALSE
      /\ policy.status.applied = NoRev
  BY <1>1 DEF NewPolicy, NewStatus
<1>3. Still
  BY <1>2 DEF Init, Still
<1>4. Snapshot /\ Progress
  BY <1>2, IdleFacts DEF Init, Snapshot, Progress, Syncing
<1>. QED BY <1>3, <1>4, InitIInv DEF CInv

\* When nothing but the reconcile touches what it is about, the service holds
\* what the revision declares that the policy reports: no chain of incremental
\* plans, prunes and full resyncs, however flapping dependencies, rotated
\* Secrets, overlaps, cron firings, stale caches and a deletion interleave
\* with it, loses a resource.
THEOREM SyncsConverge ==
  ASSUME Undisturbed
  PROVE  Spec => []Converged
<1>1. CInv /\ [Next]_vars => CInv'
  <2>. SUFFICES ASSUME CInv, [Next]_vars PROVE CInv'
    OBVIOUS
  <2>1. CASE Next
    BY <2>1, NextKeepsIInv, StillKept, SnapshotKept, ProgressKept DEF CInv
  <2>2. CASE UNCHANGED vars
    <3>1. IInv'
      BY NextKeepsIInv DEF CInv
    <3>2. UNCHANGED <<policy, remote, worker, tree, repoRev, owned>>
      BY <2>2 DEF vars, env
    <3>3. Still' /\ Snapshot'
      BY <3>2 DEF CInv, Still, Snapshot
    <3>4. Progress'
      BY <3>2, SameKeepsProgress DEF CInv
    <3>. QED BY <3>1, <3>3, <3>4 DEF CInv
  <2>. QED BY <2>1, <2>2
<1>2. CInv => Converged
  <2>. SUFFICES ASSUME CInv, ReportsInSync PROVE Matches(repoRev)
    BY DEF Converged
  <2>1. worker.pc \notin Syncing
    BY DEF CInv, IInv, Announced, ReportsInSync
  <2>2. /\ policy.status.applied # NoRev
        /\ policy.status.applied = repoRev
        /\ policy.exists /\ ~policy.deleting
    BY DEF CInv, Still, ReportsInSync
  <2>3. \A r \in policy.spec.scope : HeldAt(r, repoRev)
    BY <2>1, <2>2 DEF CInv, Progress, Syncing
  <2>. QED BY <2>3 DEF Matches, HeldAt
<1>. QED BY <1>1, <1>2, InitCInv, PTL DEF Spec
=============================================================================
