------------------------- MODULE RepositorySyncProofs -------------------------
(***************************************************************************)
(* The composition of the two controllers implements each of them: a step   *)
(* of the operator is, to the repository controller, a step of              *)
(* ResourceRepository and, to the SyncPolicy controller, a step of          *)
(* SyncPolicy.  What is proved of the two alone therefore holds when they   *)
(* share a process, a tree and the API server.                              *)
(***************************************************************************)
EXTENDS RepositorySync, SyncPolicyProofs

\* The theorems of ResourceRepositoryProofs, about the same variables as R.
RP == INSTANCE ResourceRepositoryProofs WITH
       Specs <- RepoSpecs, MaxGen <- MaxRepoGen, MaxFaults <- MaxGitFaults,
       MaxCrashes <- MaxFaults, MaxBadCleanups <- 0,
       cached <- rcached, cacheStale <- rcacheStale, queue <- rqueue,
       worker <- rworker, budget <- rbudget

-----------------------------------------------------------------------------
(* The repository controller in the composition *)

\* Every step of the operator is a step of the repository controller or
\* leaves its state alone: SyncPolicy reconciles only read the tree.
LEMMA RepoStepIsStep ==
  ASSUME [SystemNext]_systemVars
  PROVE  [R!Next]_(R!vars)
<1>1. CASE RepoController
  BY <1>1 DEF RepoController, R!Next, R!EnvironmentStep
<1>2. CASE PolicyController
  BY <1>2 DEF PolicyController, rvars, R!vars
<1>3. CASE Restart
  BY <1>3 DEF Restart, R!Next, R!EnvironmentStep
<1>4. CASE UNCHANGED systemVars
  BY <1>4 DEF systemVars, rvars, R!vars
<1>. QED BY <1>1, <1>2, <1>3, <1>4 DEF SystemNext

\* The operator with both controllers implements ResourceRepository.
THEOREM ImplementsRepository == SystemSpec => R!Spec
<1>1. SystemInit => R!Init
  BY DEF SystemInit
<1>2. [SystemNext]_systemVars => [R!Next]_(R!vars)
  BY RepoStepIsStep
<1>. QED BY <1>1, <1>2, PTL DEF SystemSpec, R!Spec

\* The two instances of ResourceRepository are one.
LEMMA SameModule ==
  /\ R!Init <=> RP!Init
  /\ R!Next <=> RP!Next
  /\ R!TypeOK <=> RP!TypeOK
  /\ R!ReadyNamesTheTree <=> RP!ReadyNamesTheTree
  /\ R!GoneIsClean <=> RP!GoneIsClean
<1>. USE DEF R!NoRev, RP!NoRev, R!NoUrl, RP!NoUrl, R!Origins, RP!Origins,
       R!Origin, RP!Origin, R!NoClone, RP!NoClone, R!NewRepo, RP!NewRepo,
       R!Idle, RP!Idle, R!vars, RP!vars
<1>1. R!Init <=> RP!Init
  BY DEF R!Init, RP!Init
<1>2. R!ReconcileStep <=> RP!ReconcileStep
  BY DEF R!ReconcileStep, RP!ReconcileStep, R!StartReconcile,
       RP!StartReconcile, R!HandleFinalizer, RP!HandleFinalizer, R!Cleanup,
       RP!Cleanup, R!ReleaseFinalizer, RP!ReleaseFinalizer, R!Validate,
       RP!Validate, R!TryFetch, RP!TryFetch, R!CloneFresh, RP!CloneFresh,
       R!RemoveOld, RP!RemoveOld, R!RenameNew, RP!RenameNew, R!Publish,
       RP!Publish, R!Spend, RP!Spend, R!ReturnError, RP!ReturnError,
       R!ReturnPoll, RP!ReturnPoll, R!ReturnDone, RP!ReturnDone, R!Goto,
       RP!Goto, R!Write, RP!Write, R!WriteRefused, RP!WriteRefused,
       R!NotReadyStatus, RP!NotReadyStatus, R!SetNotReady, RP!SetNotReady
<1>3. R!AuthFails <=> RP!AuthFails
  BY DEF R!AuthFails, RP!AuthFails, R!Spend, RP!Spend, R!ReturnError,
       RP!ReturnError, R!ReturnPoll, RP!ReturnPoll, R!ReturnDone,
       RP!ReturnDone, R!Write, RP!Write, R!WriteRefused, RP!WriteRefused,
       R!NotReadyStatus, RP!NotReadyStatus, R!SetNotReady, RP!SetNotReady
<1>4. R!EnvironmentStep <=> RP!EnvironmentStep
  BY DEF R!EnvironmentStep, RP!EnvironmentStep, R!Crash, RP!Crash,
       R!RetryFires, RP!RetryFires, R!PollFires, RP!PollFires, R!CacheSync,
       RP!CacheSync, R!EventPasses, RP!EventPasses, R!EditSpec, RP!EditSpec,
       R!DeleteRepo, RP!DeleteRepo, R!Push, RP!Push, R!Receipt, RP!Receipt,
       R!OutsideWrite, RP!OutsideWrite, R!Spend, RP!Spend
<1>5. R!Next <=> RP!Next
  BY <1>2, <1>3, <1>4 DEF R!Next, RP!Next
<1>6. R!TypeOK <=> RP!TypeOK
  BY DEF R!TypeOK, RP!TypeOK, R!RepoType, RP!RepoType, R!SpecType,
       RP!SpecType, R!StatusType, RP!StatusType, R!CloneType, RP!CloneType,
       R!QueueType, RP!QueueType, R!WorkerType, RP!WorkerType, R!Steps,
       RP!Steps, R!BudgetType, RP!BudgetType
<1>7. /\ R!ReadyNamesTheTree <=> RP!ReadyNamesTheTree
      /\ R!GoneIsClean <=> RP!GoneIsClean
  BY DEF R!ReadyNamesTheTree, RP!ReadyNamesTheTree, R!GoneIsClean,
       RP!GoneIsClean
<1>. QED BY <1>1, <1>5, <1>6, <1>7

\* The assumptions of ResourceRepository hold of the constants that the
\* composition gives it.
LEMMA RepoConstants == RP!ConstantsAssumption
BY ConstantsAssumption, SystemAssumption
   DEF NoRev, RP!ConstantsAssumption, R!NoUrl, R!SpecType, RP!NoUrl,
       RP!SpecType, RP!NoRev

\* The repository controller keeps its promises beside the other controller:
\* a Ready status names the tree on disk (or a reconcile is due), and a
\* repository that is gone leaves no clone.
THEOREM RepositoryPromisesKept ==
  SystemSpec => [](R!TypeOK /\ R!ReadyNamesTheTree /\ R!GoneIsClean)
<1>1. SystemSpec => RP!Spec
  <2>1. R!Init => RP!Init
    BY SameModule
  <2>2. [R!Next]_(R!vars) => [RP!Next]_(RP!vars)
    BY SameModule DEF R!vars, RP!vars
  <2>. QED BY <2>1, <2>2, ImplementsRepository, PTL DEF R!Spec, RP!Spec
<1>2. RP!CleanupWorks
  BY DEF RP!CleanupWorks
<1>3. RP!Spec => [](RP!TypeOK /\ RP!ReadyNamesTheTree /\ RP!GoneIsClean)
  BY <1>2, RepoConstants, RP!TypeCorrect, RP!StatusVouchesForTree,
     RP!NoCloneLeftBehind, PTL
<1>. QED BY <1>1, <1>3, SameModule, PTL

-----------------------------------------------------------------------------
(* The SyncPolicy controller in the composition *)

\* The tree that a sync reads is the directory that the repository controller
\* works on, and the revision it plans with comes from the informer's copy.
Shared ==
  /\ tree = clone.rev
  /\ repoRev = rcached.status.fetched

\* No controller, webhook or user moves one without the other.
LEMMA SharedKept == Shared /\ [SystemNext]_systemVars => Shared'
<1>. SUFFICES ASSUME Shared, [SystemNext]_systemVars PROVE Shared'
  OBVIOUS
<1>1. CASE RepoController
  <2>1. tree' = clone'.rev
    BY <1>1 DEF RepoController, SeenByPolicy
  <2>2. rcached' = rcached \/ R!CacheSync
    BY <1>1 DEF RepoController, R!ReconcileStep, R!AuthFails, R!RetryFires,
       R!PollFires, R!EditSpec, R!Push, R!StartReconcile, R!HandleFinalizer,
       R!Cleanup, R!ReleaseFinalizer, R!Validate, R!TryFetch, R!CloneFresh,
       R!RemoveOld, R!RenameNew, R!Publish
  <2>3. CASE NewCopySeen
    BY <1>1, <2>1, <2>3 DEF RepoController, SeenByPolicy, WatchRepository,
       RepositorySeen, Shared
  <2>4. CASE ~NewCopySeen
    <3>1. ~R!CacheSync
      BY <2>4 DEF NewCopySeen, R!CacheSync
    <3>. QED BY <1>1, <2>1, <2>2, <2>4, <3>1 DEF RepoController, SeenByPolicy,
       WatchRepository, Shared
  <2>. QED BY <2>3, <2>4
<1>2. CASE PolicyController
  <2>1. repoRev' = repoRev /\ tree' = tree
    BY <1>2 DEF PolicyController, ReconcileStep, StartReconcile,
       HandleFinalizer, ValidatePrerequisites, LoadDependencies,
       CheckSyncStatus, BuildRuntime, BeginAttempt, PlanSync, ListTargets,
       ApplyOne, BeginPrune, PruneOne, PruneFailed, UpdateSuccessStatus,
       CallFails, TimerFires, CacheSync, EnvironmentStep, UserStep,
       DeletePolicy, EditSpec, DependencyChanges, RotateSecret, CronTick,
       OverlapChanges, OwnershipChanges, env
  <2>. QED BY <1>2, <2>1 DEF PolicyController, rvars, Shared
<1>3. CASE Restart
  BY <1>3 DEF Restart, Crash, R!Crash, RepositorySeen, Shared
<1>4. CASE UNCHANGED systemVars
  BY <1>4 DEF systemVars, rvars, vars, env, Shared
<1>. QED BY <1>1, <1>2, <1>3, <1>4 DEF SystemNext

\* At the start there is neither a clone nor a revision.
LEMMA SharedInit == SystemInit => Shared
BY DEF SystemInit, Init, R!Init, R!NewRepo, R!NoClone, R!NoRev, NoRev, Shared

\* What a reader of the repository's status can find in it.
LEMMA FetchedTypes ==
  ASSUME R!TypeOK
  PROVE  /\ clone.rev \in Revisions \cup {NoRev}
         /\ repo.status.fetched \in Revisions \cup {NoRev}
         /\ rcached.status.fetched \in Revisions \cup {NoRev}
BY DEF R!TypeOK, R!CloneType, R!NoClone, R!RepoType, R!StatusType, R!NoRev,
       NoRev

\* A step of the repository controller moves the tree, or shows the policy a
\* new state of the repository and wakes it: never both at once.
LEMMA RepoStepAllowed ==
  ASSUME R!TypeOK, R!TypeOK', Shared, RepoController
  PROVE  RepositoryStep
<1>1. CASE NewCopySeen
  <2>1. R!CacheSync
    BY <1>1 DEF RepoController, NewCopySeen, R!ReconcileStep, R!AuthFails,
       R!RetryFires, R!PollFires, R!EditSpec, R!Push, R!StartReconcile,
       R!HandleFinalizer, R!Cleanup, R!ReleaseFinalizer, R!Validate,
       R!TryFetch, R!CloneFresh, R!RemoveOld, R!RenameNew, R!Publish,
       R!SetNotReady, R!Write, R!WriteRefused, R!OutsideWrite
  <2>2. UNCHANGED tree
    BY <2>1 DEF R!CacheSync, RepoController, SeenByPolicy, Shared
  <2>3. RepositoryState(rcached') \in DependencyStates
    BY DEF RepositoryState, DependencyStates
  <2>4. rcached'.status.fetched \in Revisions \cup {NoRev}
    BY FetchedTypes, <2>1 DEF R!CacheSync
  <2>5. RepositoryChanges(rcached'.status.fetched, RepositoryState(rcached'))
    BY <1>1, <2>2, SystemAssumption DEF RepoController, SeenByPolicy,
       WatchRepository, RepositoryChanges
  <2>. QED BY <2>3, <2>4, <2>5 DEF RepositoryStep
<1>2. CASE ~NewCopySeen
  <2>1. clone'.rev \in Revisions \cup {NoRev}
    BY DEF R!TypeOK, R!CloneType, R!NoClone, R!NoRev, NoRev
  <2>2. TreeMoves(clone'.rev)
    BY <1>2, SystemAssumption DEF RepoController, SeenByPolicy,
       WatchRepository, TreeMoves
  <2>. QED BY <2>1, <2>2 DEF RepositoryStep
<1>. QED BY <1>1, <1>2

\* Every step of the operator is a step that SyncPolicy allows: a fetch or a
\* clone is, to the SyncPolicy controller, its environment moving the tree.
LEMMA SystemStepAllowed ==
  ASSUME R!TypeOK, R!TypeOK', Shared, [SystemNext]_systemVars
  PROVE  [Next]_vars
<1>1. CASE RepoController
  BY <1>1, RepoStepAllowed DEF Next
<1>2. CASE PolicyController
  BY <1>2 DEF PolicyController, Next, NextWithoutFetch
<1>3. CASE Restart
  BY <1>3 DEF Restart, Next, NextWithoutFetch
<1>4. CASE UNCHANGED systemVars
  BY <1>4 DEF systemVars
<1>. QED BY <1>1, <1>2, <1>3, <1>4 DEF SystemNext

\* The operator with both controllers implements SyncPolicy: fetches, clones,
\* resets, the window between RemoveAll and Rename, and the events of the
\* informer are all steps that SyncPolicy allows its environment.
THEOREM SystemImplementsSyncPolicy == SystemSpec => ImplementsSyncPolicy
<1>1. SystemInit => Init
  BY DEF SystemInit
<1>2. SystemSpec => []Shared
  BY SharedInit, SharedKept, PTL DEF SystemSpec
<1>3. R!TypeOK /\ R!TypeOK' /\ Shared /\ [SystemNext]_systemVars => [Next]_vars
  BY SystemStepAllowed
<1>. QED BY <1>1, <1>2, <1>3, RepositoryPromisesKept, PTL
        DEF SystemSpec, ImplementsSyncPolicy, Spec

\* So the guarantees of the SyncPolicy controller hold of the operator: the
\* policy is never forgotten, a Ready status is honest, and the managed service
\* is changed only under an announced attempt.
THEOREM PolicyPromisesKept ==
  SystemSpec => /\ []NoLostWakeup
                /\ []ReadyMeansLastAttemptApplied
                /\ MutationsAnnounced
                /\ SuccessForCurrentSpec
<1>1. SystemSpec => Spec
  BY SystemImplementsSyncPolicy DEF ImplementsSyncPolicy
<1>. QED BY <1>1, NeverForgotten, ReadyIsHonest, MutationsFenced,
            SuccessIsCurrent, PTL
=============================================================================
