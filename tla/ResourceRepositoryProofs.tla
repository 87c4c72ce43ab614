----------------------- MODULE ResourceRepositoryProofs -----------------------
(***************************************************************************)
(* Proofs about ResourceRepository: the clone on disk never outlives its    *)
(* object, and a Ready status vouches for the tree, for every set of        *)
(* servers, branches and commits and every number of pushes, edits, faults  *)
(* and restarts.                                                            *)
(***************************************************************************)
EXTENDS ResourceRepository, TLAPS

\* Past the finalizer and short of a deletion.
Fetching == {"validate", "fetch", "clone", "remove", "rename", "publish"}
Deleting == {"cleanup", "release"}

\* Copies: a reconcile whose copy is not outdated holds the stored object;
\* the cache never runs ahead, and never forgets a deletion mark.
CopiesCurrent ==
  /\ worker.pc # "idle" /\ ~worker.stale => worker.obj = repo
  /\ ~cacheStale => cached = repo
  /\ repo.exists => cached.exists
  /\ cached.deleting => repo.deleting
  /\ worker.pc # "idle" /\ worker.obj.deleting => cached.deleting
  /\ worker.pc \in Deleting => worker.obj.deleting
  /\ worker.pc # "idle" => worker.obj.exists

\* Who has ever seen the finalizer without a deletion mark can rely on it.
Protected ==
  /\ cached.finalizer /\ ~cached.deleting => repo.exists /\ repo.finalizer
  /\ worker.pc # "idle" /\ worker.obj.finalizer /\ ~worker.obj.deleting =>
       repo.exists /\ repo.finalizer
  /\ worker.pc \in Fetching => worker.obj.finalizer /\ ~worker.obj.deleting
  /\ ~repo.exists => ~repo.finalizer
  /\ repo.exists /\ repo.deleting => repo.finalizer

\* RemoveAll works: what GoneIsClean needs of the file system.
CleanupWorks == MaxBadCleanups = 0

\* There is a clone only under a finalizer, and none once it is released.
CloneOwned ==
  /\ CleanupWorks /\ ~repo.finalizer => clone = NoClone
  /\ CleanupWorks /\ worker.pc = "release" => clone = NoClone
  /\ worker.pc = "publish" => clone.rev = worker.rev
  /\ worker.pc \in {"remove", "rename"} => worker.rev # NoRev

IInv == TypeOK /\ CopiesCurrent /\ Protected /\ CloneOwned /\ ReadyNamesTheTree

-----------------------------------------------------------------------------
(* Types *)

\* The worker between reconciles is a worker record.
LEMMA IdleType == Idle \in WorkerType /\ Idle.pc = "idle"
<1>1. PICK s \in SpecType : s = (CHOOSE x \in Specs : TRUE)
  BY ConstantsAssumption
<1>2. NewRepo(s) \in RepoType
  BY DEF NewRepo, RepoType, StatusType, NoRev
<1>. QED BY <1>1, <1>2 DEF Idle, WorkerType, Steps

\* A new object, queued for its first reconcile, satisfies the invariant.
LEMMA InitIInv == Init => IInv
<1>. SUFFICES ASSUME Init PROVE IInv
  OBVIOUS
<1>1. PICK s \in SpecType : repo = NewRepo(s)
  BY ConstantsAssumption DEF Init
<1>2. /\ repo \in RepoType /\ repo.exists = TRUE /\ repo.deleting = FALSE
      /\ repo.finalizer = FALSE /\ repo.status.ready = FALSE
  BY <1>1 DEF NewRepo, RepoType, StatusType, NoRev
<1>3. worker \in WorkerType /\ worker.pc = "idle"
  BY IdleType DEF Init
<1>4. /\ budget \in BudgetType /\ queue \in QueueType /\ clone \in CloneType
      /\ head \in [Origins -> Revisions \cup {NoRev}]
  BY ConstantsAssumption DEF Init, BudgetType, QueueType, CloneType, NoClone
<1>5. TypeOK
  BY <1>2, <1>3, <1>4 DEF Init, TypeOK
<1>6. CopiesCurrent /\ Protected /\ CloneOwned /\ ReadyNamesTheTree
  BY <1>2, <1>3 DEF Init, CopiesCurrent, Protected, CloneOwned,
                    ReadyNamesTheTree, Fetching, Deleting
<1>. QED BY <1>5, <1>6 DEF IInv

-----------------------------------------------------------------------------
(* How a reconcile ends *)

\* What the three ways of returning have in common.
LEMMA ReturnFacts ==
  ASSUME TypeOK, ReturnError \/ ReturnPoll \/ ReturnDone
  PROVE  /\ worker' \in WorkerType /\ worker'.pc = "idle"
         /\ queue' \in QueueType
         /\ queue.pending => queue'.pending
         /\ queue.retry => queue'.retry
         /\ ReturnError => queue'.retry
BY IdleType DEF TypeOK, QueueType, ReturnError, ReturnPoll, ReturnDone

\* A refused write is retried at once.
LEMMA RefusedKeepsIInv ==
  ASSUME IInv, WriteRefused, UNCHANGED <<cached, head, owed, clone>>,
         budget' \in BudgetType
  PROVE  IInv'
<1>1. /\ worker' \in WorkerType /\ worker'.pc = "idle"
      /\ queue' \in QueueType /\ queue'.retry
  BY ReturnFacts DEF WriteRefused, IInv
<1>2. TypeOK'
  BY <1>1 DEF IInv, TypeOK, WriteRefused
<1>3. CopiesCurrent' /\ Protected'
  BY <1>1 DEF IInv, CopiesCurrent, Protected, Fetching, Deleting, WriteRefused
<1>4. CloneOwned' /\ ReadyNamesTheTree'
  BY <1>1 DEF IInv, CloneOwned, ReadyNamesTheTree, WriteRefused
<1>. QED BY <1>2, <1>3, <1>4 DEF IInv

\* A failed reconcile withdraws Ready, and with it the promise about the tree.
LEMMA NotReadyKeepsIInv ==
  ASSUME IInv, NEW requeue \in BOOLEAN, SetNotReady(requeue),
         worker.pc \in Fetching, UNCHANGED <<cached, head, owed, clone>>,
         budget' \in BudgetType
  PROVE  IInv'
<1>1. CASE WriteRefused
  BY <1>1, RefusedKeepsIInv
<1>2. CASE /\ Write([repo EXCEPT !.status = NotReadyStatus(worker.obj)])
           /\ IF requeue THEN ReturnPoll ELSE ReturnDone
  <2>1. /\ worker' \in WorkerType /\ worker'.pc = "idle"
        /\ queue' \in QueueType
    BY <1>2, ReturnFacts DEF IInv
  <2>2. worker.obj = repo /\ repo \in RepoType /\ repo.status \in StatusType
    BY <1>2 DEF Write, IInv, CopiesCurrent, TypeOK, RepoType, Fetching
  <2>3. /\ NotReadyStatus(repo) \in StatusType
        /\ NotReadyStatus(repo).ready = FALSE
    BY <2>2 DEF NotReadyStatus, StatusType, RepoType
  <2>4. repo' = [repo EXCEPT !.status = NotReadyStatus(repo)] /\ cacheStale' = TRUE
    BY <1>2, <2>2 DEF Write
  <2>5. /\ repo' \in RepoType /\ repo'.status = NotReadyStatus(repo)
        /\ repo'.exists = repo.exists /\ repo'.deleting = repo.deleting
        /\ repo'.finalizer = repo.finalizer
    BY <2>2, <2>3, <2>4 DEF RepoType
  <2>6. TypeOK'
    BY <2>1, <2>4, <2>5 DEF IInv, TypeOK
  <2>7. CopiesCurrent' /\ Protected'
    BY <2>1, <2>4, <2>5 DEF IInv, CopiesCurrent, Protected, Fetching, Deleting
  <2>8. CloneOwned' /\ ReadyNamesTheTree'
    BY <2>1, <2>3, <2>5 DEF IInv, CloneOwned, ReadyNamesTheTree
  <2>. QED BY <2>6, <2>7, <2>8 DEF IInv
<1>. QED BY <1>1, <1>2 DEF SetNotReady

\* A step inside the fetch: it moves the worker and may replace the clone.
LEMMA FetchStepKeepsIInv ==
  ASSUME IInv, UNCHANGED <<repo, cached, cacheStale, head, owed, queue>>,
         budget' \in BudgetType, clone' \in CloneType,
         worker' \in WorkerType, worker.pc \in Fetching, worker'.pc \in Fetching,
         worker'.obj = worker.obj, worker'.stale = worker.stale,
         worker'.pc = "publish" => clone'.rev = worker'.rev,
         worker'.pc \in {"remove", "rename"} => worker'.rev # NoRev
  PROVE  IInv'
<1>1. TypeOK'
  BY DEF IInv, TypeOK
<1>2. CopiesCurrent' /\ Protected'
  BY DEF IInv, CopiesCurrent, Protected, Fetching, Deleting
<1>3. repo.finalizer
  BY DEF IInv, Protected, Fetching
<1>4. CloneOwned' /\ ReadyNamesTheTree'
  BY <1>3 DEF CloneOwned, ReadyNamesTheTree, Fetching
<1>. QED BY <1>1, <1>2, <1>4 DEF IInv

-----------------------------------------------------------------------------
(* The steps of the reconcile *)

\* Reading the cache: the copy is current exactly when the cache is.
LEMMA StartKeepsIInv == IInv /\ StartReconcile => IInv'
<1>. SUFFICES ASSUME IInv, StartReconcile PROVE IInv'
  OBVIOUS
<1>. USE DEF StartReconcile
<1>1. queue' \in QueueType
  BY DEF IInv, TypeOK, QueueType
<1>2. CASE cached.exists
  <2>1. /\ worker' \in WorkerType /\ worker'.pc = "finalizer"
        /\ worker'.obj = cached /\ worker'.stale = cacheStale
    BY <1>2, IdleType DEF IInv, TypeOK, WorkerType, Steps
  <2>2. TypeOK'
    BY <1>1, <2>1 DEF IInv, TypeOK
  <2>3. CopiesCurrent' /\ Protected'
    BY <1>2, <2>1 DEF IInv, CopiesCurrent, Protected, Fetching, Deleting
  <2>4. CloneOwned' /\ ReadyNamesTheTree'
    BY <2>1 DEF IInv, CloneOwned, ReadyNamesTheTree
  <2>. QED BY <2>2, <2>3, <2>4 DEF IInv
<1>3. CASE ~cached.exists
  <2>1. worker' \in WorkerType /\ worker'.pc = "idle"
    BY <1>3, IdleType
  <2>2. TypeOK'
    BY <1>1, <2>1 DEF IInv, TypeOK
  <2>3. CopiesCurrent' /\ Protected'
    BY <2>1 DEF IInv, CopiesCurrent, Protected, Fetching, Deleting
  <2>4. CloneOwned' /\ ReadyNamesTheTree'
    BY <1>3, <2>1 DEF IInv, CopiesCurrent, CloneOwned, ReadyNamesTheTree
  <2>. QED BY <2>2, <2>3, <2>4 DEF IInv
<1>. QED BY <1>2, <1>3

\* The finalizer is on the object before the reconcile goes on.
LEMMA FinalizerKeepsIInv == IInv /\ HandleFinalizer => IInv'
<1>. SUFFICES ASSUME IInv, HandleFinalizer PROVE IInv'
  OBVIOUS
<1>. USE DEF HandleFinalizer
<1>1. CASE WriteRefused
  BY <1>1, RefusedKeepsIInv DEF IInv, TypeOK
<1>2. CASE /\ worker.obj.finalizer
           /\ Goto(IF worker.obj.deleting THEN "cleanup" ELSE "validate")
           /\ UNCHANGED <<repo, cacheStale>>
  <2>1. /\ worker' \in WorkerType
        /\ worker'.pc = IF worker.obj.deleting THEN "cleanup" ELSE "validate"
        /\ worker'.obj = worker.obj /\ worker'.stale = worker.stale
        /\ UNCHANGED queue
    BY <1>2 DEF IInv, TypeOK, WorkerType, Steps, Goto
  <2>2. TypeOK'
    BY <1>2, <2>1 DEF IInv, TypeOK
  <2>3. CopiesCurrent' /\ Protected'
    BY <1>2, <2>1 DEF IInv, CopiesCurrent, Protected, Fetching, Deleting
  <2>4. CloneOwned' /\ ReadyNamesTheTree'
    BY <1>2, <2>1 DEF IInv, CloneOwned, ReadyNamesTheTree
  <2>. QED BY <2>2, <2>3, <2>4 DEF IInv
<1>3. CASE /\ ~worker.obj.finalizer
           /\ Write([repo EXCEPT !.finalizer = TRUE])
           /\ worker' = [worker EXCEPT !.pc = "validate", !.obj.finalizer = TRUE]
           /\ UNCHANGED queue
  <2>0. repo \in RepoType /\ worker \in WorkerType /\ worker.obj = repo
    BY <1>3 DEF Write, IInv, TypeOK, CopiesCurrent
  <2>1. repo.exists /\ ~repo.deleting
    BY <1>3, <2>0 DEF IInv, CopiesCurrent, Protected
  <2>2. repo' = [repo EXCEPT !.finalizer = TRUE] /\ cacheStale' = TRUE
    BY <1>3 DEF Write
  <2>3. /\ repo' \in RepoType /\ repo'.finalizer = TRUE
        /\ repo'.exists = repo.exists /\ repo'.deleting = repo.deleting
        /\ repo'.status = repo.status
    BY <2>0, <2>2 DEF RepoType
  <2>4. /\ worker' \in WorkerType /\ worker'.pc = "validate"
        /\ worker'.obj = repo' /\ worker'.stale = worker.stale
    BY <1>3, <2>0, <2>2, <2>3 DEF WorkerType, Steps, RepoType
  <2>5. TypeOK'
    BY <1>3, <2>2, <2>3, <2>4 DEF IInv, TypeOK
  <2>6. CopiesCurrent' /\ Protected'
    BY <2>1, <2>2, <2>3, <2>4
       DEF IInv, CopiesCurrent, Protected, Fetching, Deleting
  <2>7. CloneOwned' /\ ReadyNamesTheTree'
    BY <2>3, <2>4 DEF CloneOwned, ReadyNamesTheTree
  <2>. QED BY <2>5, <2>6, <2>7 DEF IInv
<1>. QED BY <1>1, <1>2, <1>3

\* The directory goes before the finalizer does.
LEMMA CleanupKeepsIInv == IInv /\ Cleanup => IInv'
<1>. SUFFICES ASSUME IInv, Cleanup PROVE IInv'
  OBVIOUS
<1>. USE DEF Cleanup
<1>1. /\ worker' \in WorkerType /\ worker'.pc = "release"
      /\ worker'.obj = worker.obj /\ worker'.stale = worker.stale
      /\ UNCHANGED queue
  BY DEF IInv, TypeOK, WorkerType, Steps, Goto
<1>2. /\ clone' \in CloneType
      /\ CleanupWorks => clone' = NoClone
      /\ budget' \in BudgetType
  <2>1. CASE clone' = NoClone /\ UNCHANGED budget
    BY <2>1 DEF IInv, TypeOK, CloneType, NoClone
  <2>2. CASE budget.cleanups < MaxBadCleanups /\ Spend("cleanups") /\ UNCHANGED clone
    <3>1. budget' \in BudgetType
      BY <2>2, ConstantsAssumption DEF IInv, TypeOK, BudgetType, Spend
    <3>2. ~CleanupWorks
      BY <2>2 DEF IInv, TypeOK, BudgetType, CleanupWorks
    <3>. QED BY <2>2, <3>1, <3>2 DEF IInv, TypeOK
  <2>. QED BY <2>1, <2>2
<1>3. TypeOK'
  BY <1>1, <1>2 DEF IInv, TypeOK
<1>4. CopiesCurrent' /\ Protected'
  BY <1>1 DEF IInv, CopiesCurrent, Protected, Fetching, Deleting
<1>5. CloneOwned' /\ ReadyNamesTheTree'
  BY <1>1, <1>2 DEF CloneOwned, ReadyNamesTheTree
<1>. QED BY <1>3, <1>4, <1>5 DEF IInv

\* Releasing the finalizer removes an object whose clone is gone.
LEMMA ReleaseKeepsIInv == IInv /\ ReleaseFinalizer => IInv'
<1>. SUFFICES ASSUME IInv, ReleaseFinalizer PROVE IInv'
  OBVIOUS
<1>. USE DEF ReleaseFinalizer
<1>1. CASE WriteRefused
  BY <1>1, RefusedKeepsIInv DEF IInv, TypeOK
<1>2. CASE /\ Write([repo EXCEPT !.finalizer = FALSE, !.exists = FALSE])
           /\ ReturnDone
  <2>1. /\ worker' \in WorkerType /\ worker'.pc = "idle"
        /\ queue' \in QueueType
    BY <1>2, ReturnFacts DEF IInv
  <2>2. repo' = [repo EXCEPT !.finalizer = FALSE, !.exists = FALSE]
        /\ cacheStale' = TRUE /\ repo \in RepoType
    BY <1>2 DEF Write, IInv, TypeOK
  <2>3. /\ repo' \in RepoType /\ repo'.exists = FALSE /\ repo'.finalizer = FALSE
        /\ repo'.deleting = repo.deleting
    BY <2>2 DEF RepoType
  <2>4. cached.deleting
    BY DEF IInv, CopiesCurrent, Deleting
  <2>5. TypeOK'
    BY <2>1, <2>2, <2>3 DEF IInv, TypeOK
  <2>6. CopiesCurrent' /\ Protected'
    BY <2>1, <2>2, <2>3, <2>4
       DEF IInv, CopiesCurrent, Protected, Fetching, Deleting
  <2>7. CloneOwned' /\ ReadyNamesTheTree'
    BY <2>1, <2>3 DEF IInv, CloneOwned, ReadyNamesTheTree
  <2>. QED BY <2>5, <2>6, <2>7 DEF IInv
<1>. QED BY <1>1, <1>2

\* Spending the fault budget keeps its type.
LEMMA SpendType ==
  ASSUME TypeOK,
         \/ Spend("faults") /\ budget.faults < MaxFaults
         \/ Spend("pushes") /\ budget.pushes < MaxPushes
         \/ Spend("crashes") /\ budget.crashes < MaxCrashes
  PROVE  budget' \in BudgetType
BY ConstantsAssumption DEF TypeOK, BudgetType, Spend

\* Validation, fetch and clone: what is on disk when the reconcile reaches
\* its last step is what it is about to publish.
LEMMA FetchKeepsIInv ==
  IInv /\ (Validate \/ TryFetch \/ CloneFresh \/ RemoveOld \/ RenameNew \/ AuthFails)
    => IInv'
<1>. SUFFICES ASSUME IInv, \/ Validate \/ TryFetch \/ CloneFresh \/ RemoveOld
                           \/ RenameNew \/ AuthFails
              PROVE  IInv'
  OBVIOUS
<1>1. /\ worker.pc \in Fetching /\ worker \in WorkerType /\ clone \in CloneType
      /\ budget \in BudgetType
  BY DEF Validate, TryFetch, CloneFresh, RemoveOld, RenameNew, AuthFails,
         Fetching, IInv, TypeOK
<1>2. budget' \in BudgetType
  BY SpendType DEF Validate, TryFetch, CloneFresh, RemoveOld, RenameNew,
                   AuthFails, IInv, TypeOK
<1>3. CASE Validate
  <2>1. CASE Goto("fetch") /\ UNCHANGED <<repo, cacheStale>>
    <3>1. /\ worker' \in WorkerType /\ worker'.pc = "fetch"
          /\ worker'.obj = worker.obj /\ worker'.stale = worker.stale
          /\ UNCHANGED queue
      BY <1>1, <2>1 DEF WorkerType, Steps, Goto
    <3>2. worker'.pc \in Fetching /\ worker'.pc # "publish"
      BY <3>1 DEF Fetching
    <3>3. UNCHANGED <<repo, cached, cacheStale, head, owed, queue>> /\ clone' \in CloneType
      BY <1>1, <1>3, <2>1, <3>1 DEF Validate
    <3>. QED BY <1>1, <1>2, <3>1, <3>2, <3>3, FetchStepKeepsIInv
  <2>. QED BY <1>1, <1>2, <1>3, <2>1, NotReadyKeepsIInv DEF Validate
<1>4. CASE TryFetch
  <2>. DEFINE o == <<clone.url, worker.obj.spec.branch>>
  <2>0. /\ UNCHANGED <<repo, cached, cacheStale, head, owed>>
        /\ worker.obj.spec.branch \in Branches
    BY <1>1, <1>4 DEF TryFetch, WorkerType, RepoType, SpecType
  <2>1. CASE Goto("clone") /\ UNCHANGED clone
    <3>1. /\ worker' \in WorkerType /\ worker'.pc = "clone"
          /\ worker'.obj = worker.obj /\ worker'.stale = worker.stale
          /\ UNCHANGED queue /\ clone' \in CloneType
      BY <1>1, <2>1 DEF WorkerType, Steps, Goto
    <3>2. worker'.pc \in Fetching /\ worker'.pc \notin {"publish", "remove", "rename"}
      BY <3>1 DEF Fetching
    <3>. QED BY <1>1, <1>2, <2>0, <3>1, <3>2, FetchStepKeepsIInv
  <2>2. CASE /\ clone # NoClone /\ head[o] # NoRev
             /\ clone' = [clone EXCEPT !.rev = head[o]]
             /\ worker' = [worker EXCEPT !.pc = "publish", !.rev = head[o]]
             /\ UNCHANGED queue
    <3>1. PICK v \in Revisions : v = head[o]
      <4>1. o \in Origins
        BY <1>1, <2>0, <2>2 DEF CloneType, Origins
      <4>. QED BY <2>2, <4>1 DEF IInv, TypeOK
    <3>. HIDE DEF o
    <3>2. clone' = [clone EXCEPT !.rev = v]
          /\ worker' = [worker EXCEPT !.pc = "publish", !.rev = v]
      BY <2>2, <3>1
    <3>3. clone' \in CloneType /\ clone'.rev = v
      BY <1>1, <2>2, <3>2 DEF CloneType
    <3>4. /\ worker' \in WorkerType /\ worker'.pc = "publish" /\ worker'.rev = v
          /\ worker'.obj = worker.obj /\ worker'.stale = worker.stale
      BY <1>1, <3>2 DEF WorkerType, Steps
    <3>5. worker'.pc \in Fetching /\ worker'.pc \notin {"remove", "rename"}
      BY <3>4 DEF Fetching
    <3>. QED BY <1>1, <1>2, <2>0, <2>2, <3>3, <3>4, <3>5, FetchStepKeepsIInv
  <2>. QED BY <1>4, <2>1, <2>2 DEF TryFetch
<1>5. CASE CloneFresh
  <2>. DEFINE o == Origin(worker.obj.spec)
  <2>1. CASE /\ head[o] # NoRev
             /\ worker' = [worker EXCEPT !.pc = "remove", !.rev = head[o]]
             /\ UNCHANGED <<repo, cacheStale, queue>>
    <3>1. PICK v \in Revisions : v = head[o]
      <4>1. o \in Origins
        BY <1>1 DEF WorkerType, RepoType, SpecType, Origins, Origin
      <4>. QED BY <2>1, <4>1 DEF IInv, TypeOK
    <3>. HIDE DEF o
    <3>2. /\ worker' \in WorkerType /\ worker'.pc = "remove" /\ worker'.rev = v
          /\ worker'.obj = worker.obj /\ worker'.stale = worker.stale
      BY <1>1, <2>1, <3>1 DEF WorkerType, Steps
    <3>3. /\ worker'.pc \in Fetching /\ worker'.pc # "publish"
          /\ worker'.rev # NoRev
      BY <2>1, <3>1, <3>2 DEF Fetching
    <3>4. /\ UNCHANGED <<repo, cached, cacheStale, head, owed, queue>>
          /\ clone' \in CloneType
      BY <1>1, <1>5, <2>1 DEF CloneFresh
    <3>. QED BY <1>1, <1>2, <3>2, <3>3, <3>4, FetchStepKeepsIInv
  <2>2. CASE SetNotReady(TRUE)
    BY <1>1, <1>2, <1>5, <2>2, NotReadyKeepsIInv DEF CloneFresh
  <2>. QED BY <1>5, <2>1, <2>2 DEF CloneFresh
<1>6. CASE RemoveOld
  <2>1. /\ worker' \in WorkerType /\ worker'.pc = "rename"
        /\ worker'.obj = worker.obj /\ worker'.stale = worker.stale
        /\ worker'.rev = worker.rev /\ UNCHANGED queue
    BY <1>1, <1>6 DEF RemoveOld, Goto, WorkerType, Steps
  <2>2. /\ worker'.pc \in Fetching /\ worker'.pc # "publish"
        /\ worker'.rev # NoRev /\ clone' \in CloneType
    BY <1>6, <2>1 DEF RemoveOld, Fetching, IInv, CloneOwned, CloneType
  <2>3. UNCHANGED <<repo, cached, cacheStale, head, owed, queue>>
    BY <1>6, <2>1 DEF RemoveOld
  <2>. QED BY <1>1, <1>2, <2>1, <2>2, <2>3, FetchStepKeepsIInv
<1>7. CASE RenameNew
  <2>1. /\ worker' \in WorkerType /\ worker'.pc = "publish"
        /\ worker'.obj = worker.obj /\ worker'.stale = worker.stale
        /\ worker'.rev = worker.rev /\ UNCHANGED queue
    BY <1>1, <1>7 DEF RenameNew, Goto, WorkerType, Steps
  <2>2. worker.rev \in Revisions /\ worker.obj.spec.url \in Urls
    BY <1>1, <1>7 DEF RenameNew, IInv, CloneOwned, WorkerType, RepoType, SpecType
  <2>3. /\ worker'.pc \in Fetching /\ worker'.pc \notin {"remove", "rename"}
        /\ clone' \in CloneType /\ clone'.rev = worker'.rev
    BY <1>7, <2>1, <2>2 DEF RenameNew, Fetching, CloneType
  <2>4. UNCHANGED <<repo, cached, cacheStale, head, owed, queue>>
    BY <1>7, <2>1 DEF RenameNew
  <2>. QED BY <1>1, <1>2, <2>1, <2>3, <2>4, FetchStepKeepsIInv
<1>8. CASE AuthFails
  BY <1>1, <1>2, <1>8, NotReadyKeepsIInv DEF AuthFails
<1>. QED BY <1>3, <1>4, <1>5, <1>6, <1>7, <1>8

\* The published revision is the one on disk.
LEMMA PublishKeepsIInv == IInv /\ Publish => IInv'
<1>. SUFFICES ASSUME IInv, Publish PROVE IInv'
  OBVIOUS
<1>. USE DEF Publish
<1>1. CASE WriteRefused
  BY <1>1, RefusedKeepsIInv DEF IInv, TypeOK
<1>2. CASE /\ Write([repo EXCEPT !.status = [observed |-> worker.obj.gen,
                                             fetched |-> worker.rev,
                                             ready |-> TRUE]])
           /\ ReturnPoll
  <2>. DEFINE st == [observed |-> worker.obj.gen, fetched |-> worker.rev,
                     ready |-> TRUE]
  <2>1. /\ worker' \in WorkerType /\ worker'.pc = "idle"
        /\ queue' \in QueueType
    BY <1>2, ReturnFacts DEF IInv
  <2>2. /\ st \in StatusType /\ st.fetched = worker.rev
    BY ConstantsAssumption
       DEF IInv, TypeOK, WorkerType, RepoType, StatusType, NoRev
  <2>. HIDE DEF st
  <2>3. repo' = [repo EXCEPT !.status = st] /\ cacheStale' = TRUE /\ repo \in RepoType
    BY <1>2 DEF Write, IInv, TypeOK, st
  <2>4. /\ repo' \in RepoType /\ repo'.status = st
        /\ repo'.exists = repo.exists /\ repo'.deleting = repo.deleting
        /\ repo'.finalizer = repo.finalizer
    BY <2>2, <2>3 DEF RepoType
  <2>5. TypeOK'
    BY <2>1, <2>3, <2>4 DEF IInv, TypeOK
  <2>6. CopiesCurrent' /\ Protected'
    BY <2>1, <2>3, <2>4 DEF IInv, CopiesCurrent, Protected, Fetching, Deleting
  <2>7. CloneOwned' /\ ReadyNamesTheTree'
    BY <2>1, <2>2, <2>4 DEF IInv, CloneOwned, ReadyNamesTheTree
  <2>. QED BY <2>5, <2>6, <2>7 DEF IInv
<1>. QED BY <1>1, <1>2

-----------------------------------------------------------------------------
(* The environment *)

\* A restart queues every object that still exists.
LEMMA CrashKeepsIInv == IInv /\ Crash => IInv'
<1>. SUFFICES ASSUME IInv, Crash PROVE IInv'
  OBVIOUS
<1>. USE DEF Crash
<1>1. worker' \in WorkerType /\ worker'.pc = "idle"
  BY IdleType
<1>2. budget' \in BudgetType
  BY SpendType DEF IInv
<1>3. queue' \in QueueType /\ queue'.pending = repo.exists /\ repo \in RepoType
  BY DEF IInv, TypeOK, QueueType, RepoType
<1>4. TypeOK'
  BY <1>1, <1>2, <1>3 DEF IInv, TypeOK
<1>5. CopiesCurrent' /\ Protected'
  BY <1>1 DEF IInv, CopiesCurrent, Protected, Fetching, Deleting
<1>6. CloneOwned' /\ ReadyNamesTheTree'
  BY <1>1, <1>3 DEF IInv, CloneOwned, ReadyNamesTheTree
<1>. QED BY <1>4, <1>5, <1>6 DEF IInv

\* Timers, pushes and the informer leave object and clone alone.
LEMMA SignalKeepsIInv ==
  IInv /\ (\/ RetryFires \/ PollFires \/ CacheSync
           \/ \E o \in Origins, rev \in Revisions : Push(o, rev)) => IInv'
<1>. SUFFICES ASSUME IInv,
                     \/ RetryFires \/ PollFires \/ CacheSync
                     \/ \E o \in Origins, rev \in Revisions : Push(o, rev)
              PROVE  IInv'
  OBVIOUS
<1>1. /\ queue' \in QueueType
      /\ queue.pending => queue'.pending
      /\ queue.retry => queue'.pending \/ queue'.retry
  BY DEF RetryFires, PollFires, CacheSync, Push, IInv, TypeOK, QueueType
<1>2. /\ head' \in [Origins -> Revisions \cup {NoRev}]
      /\ owed' \in BOOLEAN
  BY DEF RetryFires, PollFires, CacheSync, Push, IInv, TypeOK
<1>3. budget' \in BudgetType
  BY SpendType DEF RetryFires, PollFires, CacheSync, Push, IInv, TypeOK
<1>4. /\ UNCHANGED <<repo, clone, worker>>
      /\ \/ UNCHANGED <<cached, cacheStale>>
         \/ cached' = repo /\ cacheStale' = FALSE
  BY DEF RetryFires, PollFires, CacheSync, Push
<1>5. TypeOK'
  BY <1>1, <1>2, <1>3, <1>4 DEF IInv, TypeOK
<1>6. CopiesCurrent' /\ Protected'
  BY <1>4 DEF IInv, CopiesCurrent, Protected
<1>7. CloneOwned' /\ ReadyNamesTheTree'
  BY <1>1, <1>4 DEF IInv, CloneOwned, ReadyNamesTheTree
<1>. QED BY <1>5, <1>6, <1>7 DEF IInv

\* An edit, a receipt or a deletion outdates the running copy; a deletion
\* without finalizer finds no clone.
LEMMA OutsideKeepsIInv ==
  IInv /\ ((\E s \in Specs : EditSpec(s)) \/ DeleteRepo \/ Receipt) => IInv'
<1>. SUFFICES ASSUME IInv, (\E s \in Specs : EditSpec(s)) \/ DeleteRepo \/ Receipt
              PROVE  IInv'
  OBVIOUS
<1>1. /\ cacheStale' = TRUE
      /\ worker' = [worker EXCEPT !.stale = (worker.pc # "idle")]
      /\ repo.exists
      /\ owed' \in BOOLEAN
      /\ UNCHANGED <<cached, head, clone, queue, budget>>
  BY DEF EditSpec, DeleteRepo, Receipt, OutsideWrite, IInv, TypeOK
<1>2. /\ worker' \in WorkerType /\ worker'.pc = worker.pc
      /\ worker'.obj = worker.obj /\ worker'.rev = worker.rev
      /\ worker.pc # "idle" => worker'.stale
  BY <1>1 DEF IInv, TypeOK, WorkerType
<1>3. /\ repo' \in RepoType /\ repo'.status = repo.status
      /\ repo.deleting => repo'.deleting
      /\ repo.finalizer => repo'.exists /\ repo'.finalizer
      /\ ~repo.finalizer => ~repo'.finalizer
      /\ repo'.exists /\ repo'.deleting => repo'.finalizer
      /\ ~repo'.exists => ~repo'.finalizer
  <2>0. repo \in RepoType /\ (repo.deleting => repo.finalizer) /\ repo.exists = TRUE
    BY <1>1 DEF IInv, TypeOK, Protected, RepoType
  <2>g. PICK g \in Nat : g = repo.gen + 1
    BY <2>0 DEF RepoType
  <2>1. CASE \E s \in Specs : EditSpec(s)
    <3>1. PICK s \in SpecType : repo' = [repo EXCEPT !.spec = s, !.gen = g]
      BY <2>g, <2>1, ConstantsAssumption DEF EditSpec, OutsideWrite
    <3>. QED BY <2>0, <3>1 DEF RepoType
  <2>2. CASE Receipt
    <3>1. PICK n \in Nat : repo' = [repo EXCEPT !.receipt = n]
      BY <2>0, <2>2 DEF Receipt, OutsideWrite, RepoType
    <3>. QED BY <2>0, <3>1 DEF RepoType
  <2>3. CASE DeleteRepo /\ repo.finalizer
    <3>1. repo' = [repo EXCEPT !.deleting = TRUE, !.gen = g]
      BY <2>g, <2>3 DEF DeleteRepo, OutsideWrite
    <3>. QED BY <2>0, <2>3, <3>1 DEF RepoType
  <2>4. CASE DeleteRepo /\ ~repo.finalizer
    <3>1. repo' = [repo EXCEPT !.exists = FALSE]
      BY <2>4 DEF DeleteRepo, OutsideWrite
    <3>. QED BY <2>0, <2>4, <3>1 DEF RepoType
  <2>. QED BY <2>1, <2>2, <2>3, <2>4
<1>4. TypeOK'
  BY <1>1, <1>2, <1>3 DEF IInv, TypeOK
<1>5. CopiesCurrent'
  BY <1>1, <1>2, <1>3 DEF IInv, CopiesCurrent
<1>6. Protected'
  BY <1>1, <1>2, <1>3 DEF IInv, Protected
<1>7. CloneOwned'
  BY <1>1, <1>2, <1>3 DEF IInv, CloneOwned
<1>8. ReadyNamesTheTree'
  BY <1>1, <1>2, <1>3 DEF IInv, ReadyNamesTheTree
<1>. QED BY <1>4, <1>5, <1>6, <1>7, <1>8 DEF IInv

-----------------------------------------------------------------------------
(* The theorems *)

\* Every step keeps the invariant.
LEMMA NextKeepsIInv == IInv /\ [Next]_vars => IInv'
<1>. SUFFICES ASSUME IInv, [Next]_vars PROVE IInv'
  OBVIOUS
<1>1. CASE UNCHANGED vars
  BY <1>1 DEF vars, IInv, TypeOK, CopiesCurrent, Protected, CloneOwned,
              ReadyNamesTheTree
<1>2. CASE ReconcileStep \/ AuthFails
  BY <1>2, StartKeepsIInv, FinalizerKeepsIInv, CleanupKeepsIInv,
     ReleaseKeepsIInv, FetchKeepsIInv, PublishKeepsIInv DEF ReconcileStep
<1>3. CASE EnvironmentStep
  BY <1>3, CrashKeepsIInv, SignalKeepsIInv, OutsideKeepsIInv
     DEF EnvironmentStep
<1>. QED BY <1>1, <1>2, <1>3 DEF Next

\* The inductive invariant holds in every reachable state.
THEOREM Invariance == Spec => []IInv
BY InitIInv, NextKeepsIInv, PTL DEF Spec

\* Object, cache, clone, queue and reconcile keep their types.
THEOREM TypeCorrect == Spec => []TypeOK
<1>1. IInv => TypeOK
  BY DEF IInv
<1>. QED BY <1>1, Invariance, PTL

\* However fetches, refused status writes and restarts interleave, a Ready
\* repository has the published revision checked out, or is about to be
\* reconciled again: what SyncPolicy reads from the status names the tree.
THEOREM StatusVouchesForTree == Spec => []ReadyNamesTheTree
<1>1. IInv => ReadyNamesTheTree
  BY DEF IInv
<1>. QED BY <1>1, Invariance, PTL

\* If directories can be removed, no clone outlives its object, whatever the
\* cache and the writes of users do to the order of the finalizer's steps.
THEOREM NoCloneLeftBehind ==
  ASSUME CleanupWorks
  PROVE  Spec => []GoneIsClean
<1>1. IInv => GoneIsClean
  BY CleanupWorks DEF IInv, CloneOwned, Protected, GoneIsClean
<1>. QED BY <1>1, Invariance, PTL
=============================================================================
