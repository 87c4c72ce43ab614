-------------------------- MODULE ResourceRepository --------------------------
(***************************************************************************)
(* The ResourceRepository controller                                        *)
(* (internal/operator/controllers/resourcerepository_controller.go): one    *)
(* ResourceRepository object, its reconcile worker, the shallow clone it    *)
(* keeps on disk and the Git servers it fetches from.  A webhook receipt    *)
(* (an annotation patched by the receiver) and the poll timer both lead     *)
(* here; SyncPolicy reads what this controller publishes.                   *)
(***************************************************************************)
EXTENDS Integers

CONSTANTS
  Urls,           \* Git servers a spec may name
  Branches,       \* branch names
  Revisions,      \* commits
  Specs,          \* the specs users write
  MaxGen,         \* bound: metadata.generation
  MaxPushes,      \* bound: pushes, forced ones included
  MaxFaults,      \* bound: failed Git and Secret calls
  MaxCrashes,     \* bound: operator restarts
  MaxBadCleanups  \* bound: os.RemoveAll failures on deletion

NoRev == 0
NoUrl == "none"
Origins == Urls \X Branches
SpecType == [url: Urls, branch: Branches, valid: BOOLEAN]

Origin(s) == <<s.url, s.branch>>

ASSUME ConstantsAssumption ==
  /\ Revisions \subseteq Nat \ {NoRev}
  /\ NoUrl \notin Urls
  /\ Specs \subseteq SpecType /\ Specs # {}
  /\ {MaxGen, MaxPushes, MaxFaults, MaxCrashes, MaxBadCleanups} \subseteq Nat

VARIABLES
  repo,        \* the object in the API server
  cached,      \* the informer's copy
  cacheStale,  \* the API server's resourceVersion is ahead of the cache's
  head,        \* what each branch of each Git server points to
  owed,        \* a push whose webhook has not been recorded yet
  clone,       \* the directory at status.localPath
  queue,       \* the work queue: key added; backoff and poll outstanding
  worker,      \* the reconcile in progress
  budget       \* environment changes spent, per bound

vars == <<repo, cached, cacheStale, head, owed, clone, queue, worker, budget>>

-----------------------------------------------------------------------------
(* State *)

StatusType == [observed: Nat, fetched: Revisions \cup {NoRev}, ready: BOOLEAN]

\* receipt stands for the two webhook annotations.
RepoType == [exists: BOOLEAN, deleting: BOOLEAN, finalizer: BOOLEAN, gen: Nat,
             spec: SpecType, receipt: Nat, status: StatusType]

NewRepo(s) == [exists |-> TRUE, deleting |-> FALSE, finalizer |-> FALSE,
               gen |-> 1, spec |-> s, receipt |-> 0,
               status |-> [observed |-> 0, fetched |-> NoRev, ready |-> FALSE]]

NoClone == [url |-> NoUrl, rev |-> NoRev]
CloneType == [url: Urls, rev: Revisions] \cup {NoClone}

Steps == {"idle", "finalizer", "cleanup", "release", "validate", "fetch",
          "clone", "remove", "rename", "publish"}

\* stale: the copy's resourceVersion is no longer the server's; rev: the
\* revision fetched, or cloned into the temporary directory.
WorkerType == [pc: Steps, obj: RepoType, stale: BOOLEAN,
               rev: Revisions \cup {NoRev}]

Idle == [pc |-> "idle", obj |-> NewRepo(CHOOSE s \in Specs : TRUE),
         stale |-> FALSE, rev |-> NoRev]

QueueType == [pending: BOOLEAN, retry: BOOLEAN, poll: BOOLEAN]

BudgetType == [pushes: 0..MaxPushes, faults: 0..MaxFaults,
               crashes: 0..MaxCrashes, cleanups: 0..MaxBadCleanups]

TypeOK ==
  /\ repo \in RepoType
  /\ cached \in RepoType
  /\ cacheStale \in BOOLEAN
  /\ head \in [Origins -> Revisions \cup {NoRev}]
  /\ owed \in BOOLEAN
  /\ clone \in CloneType
  /\ queue \in QueueType
  /\ worker \in WorkerType
  /\ budget \in BudgetType

Init ==
  /\ \E s \in Specs : repo = NewRepo(s)
  /\ cached = repo
  /\ cacheStale = FALSE
  /\ head = [o \in Origins |-> NoRev]
  /\ owed = FALSE
  /\ clone = NoClone
  /\ queue = [pending |-> TRUE, retry |-> FALSE, poll |-> FALSE]
  /\ worker = Idle
  /\ budget = [pushes |-> 0, faults |-> 0, crashes |-> 0, cleanups |-> 0]

Spend(b) == budget' = [budget EXCEPT ![b] = @ + 1]

-----------------------------------------------------------------------------
(* The reconcile *)

\* How a reconcile returns: with an error (backoff), a RequeueAfter of
\* spec.pollInterval, or nothing.
ReturnError == worker' = Idle /\ queue' = [queue EXCEPT !.retry = TRUE]
ReturnPoll  == worker' = Idle /\ queue' = [queue EXCEPT !.poll = TRUE]
ReturnDone  == worker' = Idle /\ UNCHANGED queue

Goto(pc) == worker' = [worker EXCEPT !.pc = pc] /\ UNCHANGED queue

\* An Update or Status().Update with the in-memory object.
Write(new) ==
  /\ ~worker.stale
  /\ repo' = new
  /\ cacheStale' = TRUE

\* Mutant of WriteRefused: the conflict is swallowed.
WriteRefusedQuiet ==
  /\ worker.stale
  /\ ReturnDone
  /\ UNCHANGED <<repo, cacheStale>>

WriteRefused ==
  /\ worker.stale
  /\ ReturnError
  /\ UNCHANGED <<repo, cacheStale>>

NotReadyStatus(r) == [r.status EXCEPT !.observed = r.gen, !.ready = FALSE]

\* returnAfterSetNotReady: an invalid spec is not requeued.
SetNotReady(requeue) ==
  \/ WriteRefused
  \/ /\ Write([repo EXCEPT !.status = NotReadyStatus(worker.obj)])
     /\ IF requeue THEN ReturnPoll ELSE ReturnDone

StartReconcile ==
  /\ worker.pc = "idle"
  /\ queue.pending
  /\ queue' = [queue EXCEPT !.pending = FALSE]
  /\ worker' = IF cached.exists
               THEN [Idle EXCEPT !.pc = "finalizer", !.obj = cached,
                                 !.stale = cacheStale]
               ELSE Idle
  /\ UNCHANGED <<repo, cached, cacheStale, head, owed, clone, budget>>

\* Mutant of HandleFinalizer: the clone is made before the finalizer is there.
HandleFinalizerLate ==
  /\ worker.pc = "finalizer"
  /\ Goto(IF worker.obj.deleting THEN "cleanup" ELSE "validate")
  /\ UNCHANGED <<repo, cacheStale, cached, head, owed, clone, budget>>

HandleFinalizer ==
  /\ worker.pc = "finalizer"
  /\ \/ /\ worker.obj.finalizer
        /\ Goto(IF worker.obj.deleting THEN "cleanup" ELSE "validate")
        /\ UNCHANGED <<repo, cacheStale>>
     \/ /\ ~worker.obj.finalizer
        /\ WriteRefused
     \/ /\ ~worker.obj.finalizer
        /\ Write([repo EXCEPT !.finalizer = TRUE])
        /\ worker' = [worker EXCEPT !.pc = "validate", !.obj.finalizer = TRUE]
        /\ UNCHANGED queue
  /\ UNCHANGED <<cached, head, owed, clone, budget>>

\* Deletion: a directory that cannot be removed is only logged.
Cleanup ==
  /\ worker.pc = "cleanup"
  /\ \/ clone' = NoClone /\ UNCHANGED budget
     \/ /\ budget.cleanups < MaxBadCleanups
        /\ Spend("cleanups")
        /\ UNCHANGED clone
  /\ Goto("release")
  /\ UNCHANGED <<repo, cached, cacheStale, head, owed>>

ReleaseFinalizer ==
  /\ worker.pc = "release"
  /\ \/ WriteRefused
     \/ /\ Write([repo EXCEPT !.finalizer = FALSE, !.exists = FALSE])
        /\ ReturnDone
  /\ UNCHANGED <<cached, head, owed, clone, budget>>

Validate ==
  /\ worker.pc = "validate"
  /\ \/ /\ worker.obj.spec.valid
        /\ Goto("fetch")
        /\ UNCHANGED <<repo, cacheStale>>
     \/ /\ ~worker.obj.spec.valid
        /\ SetNotReady(FALSE)
  /\ UNCHANGED <<cached, head, owed, clone, budget>>

\* Mutant of TryFetch: a branch that is gone counts as fetched.
TryFetchUnchecked ==
  /\ worker.pc = "fetch"
  /\ LET o == <<clone.url, worker.obj.spec.branch>>
     IN \/ /\ clone # NoClone
           /\ clone' = [clone EXCEPT !.rev = head[o]]
           /\ worker' = [worker EXCEPT !.pc = "publish", !.rev = head[o]]
           /\ UNCHANGED queue
        \/ /\ clone = NoClone
           /\ Goto("clone")
           /\ UNCHANGED clone
  /\ UNCHANGED <<repo, cached, cacheStale, head, owed, budget>>

\* tryFetch: the URL is the clone's own origin, not the spec's; a fetch that
\* fails for any reason falls through to a new clone.
TryFetch ==
  /\ worker.pc = "fetch"
  /\ LET o == <<clone.url, worker.obj.spec.branch>>
         fetchable == clone # NoClone /\ head[o] # NoRev
     IN \/ /\ fetchable
           /\ clone' = [clone EXCEPT !.rev = head[o]]
           /\ worker' = [worker EXCEPT !.pc = "publish", !.rev = head[o]]
           /\ UNCHANGED <<queue, budget>>
        \/ /\ ~fetchable
           /\ Goto("clone")
           /\ UNCHANGED <<clone, budget>>
        \/ /\ fetchable
           /\ budget.faults < MaxFaults
           /\ Spend("faults")
           /\ Goto("clone")
           /\ UNCHANGED clone
  /\ UNCHANGED <<repo, cached, cacheStale, head, owed>>

\* PlainClone into a temporary directory next to the old clone.
CloneFresh ==
  /\ worker.pc = "clone"
  /\ LET o == Origin(worker.obj.spec)
     IN \/ /\ head[o] # NoRev
           /\ worker' = [worker EXCEPT !.pc = "remove", !.rev = head[o]]
           /\ UNCHANGED <<repo, cacheStale, queue, budget>>
        \/ /\ head[o] = NoRev
           /\ SetNotReady(TRUE)
           /\ UNCHANGED budget
        \/ /\ head[o] # NoRev
           /\ budget.faults < MaxFaults
           /\ Spend("faults")
           /\ SetNotReady(TRUE)
  /\ UNCHANGED <<cached, head, owed, clone>>

\* os.RemoveAll(localPath): until the rename there is no tree at all.
RemoveOld ==
  /\ worker.pc = "remove"
  /\ clone' = NoClone
  /\ Goto("rename")
  /\ UNCHANGED <<repo, cached, cacheStale, head, owed, budget>>

RenameNew ==
  /\ worker.pc = "rename"
  /\ clone' = [url |-> worker.obj.spec.url, rev |-> worker.rev]
  /\ Goto("publish")
  /\ UNCHANGED <<repo, cached, cacheStale, head, owed, budget>>

\* Mutant of Publish: success is returned without a RequeueAfter.
PublishNoPoll ==
  /\ worker.pc = "publish"
  /\ \/ WriteRefused
     \/ /\ Write([repo EXCEPT !.status = [observed |-> worker.obj.gen,
                                          fetched |-> worker.rev,
                                          ready |-> TRUE]])
        /\ ReturnDone
  /\ UNCHANGED <<cached, head, owed, clone, budget>>

Publish ==
  /\ worker.pc = "publish"
  /\ \/ WriteRefused
     \/ /\ Write([repo EXCEPT !.status = [observed |-> worker.obj.gen,
                                          fetched |-> worker.rev,
                                          ready |-> TRUE]])
        /\ ReturnPoll
  /\ UNCHANGED <<cached, head, owed, clone, budget>>

\* Reading the Git credentials fails.
AuthFails ==
  /\ worker.pc = "fetch"
  /\ budget.faults < MaxFaults
  /\ Spend("faults")
  /\ SetNotReady(TRUE)
  /\ UNCHANGED <<cached, head, owed, clone>>

ReconcileStep ==
  \/ StartReconcile \/ HandleFinalizer \/ Cleanup \/ ReleaseFinalizer
  \/ Validate \/ TryFetch \/ CloneFresh \/ RemoveOld \/ RenameNew \/ Publish

-----------------------------------------------------------------------------
(* The environment *)

\* The operator restarts; the temporary clone of a reconcile that was cut off
\* stays behind, unused.
Crash ==
  /\ budget.crashes < MaxCrashes
  /\ Spend("crashes")
  /\ worker' = Idle
  /\ cached' = repo
  /\ cacheStale' = FALSE
  /\ queue' = [pending |-> repo.exists, retry |-> FALSE, poll |-> FALSE]
  /\ UNCHANGED <<repo, head, owed, clone>>

RetryFires ==
  /\ queue.retry
  /\ queue' = [queue EXCEPT !.pending = TRUE, !.retry = FALSE]
  /\ UNCHANGED <<repo, cached, cacheStale, head, owed, clone, worker, budget>>

PollFires ==
  /\ queue.poll
  /\ queue' = [queue EXCEPT !.pending = TRUE, !.poll = FALSE]
  /\ UNCHANGED <<repo, cached, cacheStale, head, owed, clone, worker, budget>>

\* resourceRepositoryReconcilePredicate.
EventPasses(old, new) ==
  \/ old.gen # new.gen
  \/ old.exists # new.exists
  \/ old.receipt # new.receipt

CacheSync ==
  /\ cacheStale
  /\ cached' = repo
  /\ cacheStale' = FALSE
  /\ queue' = [queue EXCEPT !.pending = @ \/ EventPasses(cached, repo)]
  /\ UNCHANGED <<repo, head, owed, clone, worker, budget>>

\* Somebody else writes the object: a running reconcile's copy is outdated.
OutsideWrite(new) ==
  /\ repo' = new
  /\ cacheStale' = TRUE
  /\ worker' = [worker EXCEPT !.stale = (worker.pc # "idle")]

EditSpec(s) ==
  /\ repo.exists /\ ~repo.deleting
  /\ repo.gen < MaxGen
  /\ s # repo.spec
  /\ OutsideWrite([repo EXCEPT !.spec = s, !.gen = @ + 1])
  /\ UNCHANGED <<cached, head, owed, clone, queue, budget>>

DeleteRepo ==
  /\ repo.exists /\ ~repo.deleting
  /\ OutsideWrite(IF repo.finalizer
                  THEN [repo EXCEPT !.deleting = TRUE, !.gen = @ + 1]
                  ELSE [repo EXCEPT !.exists = FALSE])
  /\ UNCHANGED <<cached, head, owed, clone, queue, budget>>

\* A push to a branch; history may be rewritten.  The receiver only lets
\* pushes to the configured branch pass.
Push(o, rev) ==
  /\ budget.pushes < MaxPushes
  /\ Spend("pushes")
  /\ head[o] # rev
  /\ head' = [head EXCEPT ![o] = rev]
  /\ owed' = (owed \/ o = Origin(repo.spec))
  /\ UNCHANGED <<repo, cached, cacheStale, clone, queue, worker>>

\* The webhook receiver patches the receipt annotations.
Receipt ==
  /\ owed
  /\ owed' = FALSE
  /\ repo.exists
  /\ OutsideWrite([repo EXCEPT !.receipt = @ + 1])
  /\ UNCHANGED <<cached, head, clone, queue, budget>>

EnvironmentStep ==
  \/ Crash \/ RetryFires \/ PollFires \/ CacheSync
  \/ \E s \in Specs : EditSpec(s)
  \/ DeleteRepo
  \/ \E o \in Origins, rev \in Revisions : Push(o, rev)
  \/ Receipt

Next == ReconcileStep \/ AuthFails \/ EnvironmentStep

Spec == Init /\ [][Next]_vars

\* controller-runtime runs reconciles, retries after errors and delivers
\* watch events.
Delivery == WF_vars(ReconcileStep) /\ WF_vars(RetryFires) /\ WF_vars(CacheSync)

\* With the poll timer, and no assumption on webhooks.
FairSpec == Spec /\ Delivery /\ WF_vars(PollFires)

\* With webhooks for every push, and no help from the poll timer.
PromptSpec == Spec /\ Delivery /\ WF_vars(Receipt)

-----------------------------------------------------------------------------
(* Properties *)

\* Ready=True vouches for the tree: between reconciles the revision that the
\* status names is the one checked out, unless an immediate retry is due (a
\* refused status write or a restart leaves the tree ahead of the status).
ReadyNamesTheTree ==
  /\ worker.pc = "idle" /\ repo.exists /\ repo.status.ready
  /\ clone.rev # repo.status.fetched
  => queue.pending \/ queue.retry

\* A repository that is gone has left no clone behind: the finalizer is there
\* before the first byte is fetched and goes after the directory.
GoneIsClean == ~repo.exists => clone = NoClone

Healthy ==
  /\ repo.exists /\ ~repo.deleting /\ repo.spec.valid
  /\ head[Origin(repo.spec)] # NoRev

\* Once pushes and edits end, the head of the configured branch of the
\* configured server is published.
EventuallyFetched ==
  <>[](Healthy => /\ repo.status.ready
                  /\ repo.status.fetched = head[Origin(repo.spec)])
=============================================================================
