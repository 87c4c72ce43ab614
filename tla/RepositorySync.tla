---------------------------- MODULE RepositorySync ----------------------------
(***************************************************************************)
(* A ResourceRepository and the SyncPolicy that references it, run by two   *)
(* workers of one operator process.  They share the directory of the clone, *)
(* without a lock, and the API server: the SyncPolicy controller sees the   *)
(* repository's status through an informer.                                 *)
(*                                                                          *)
(* SyncPolicy's variables keep their names; those of ResourceRepository     *)
(* with the same names get the prefix r.                                    *)
(***************************************************************************)
EXTENDS SyncPolicy

CONSTANTS
  Urls, Branches,    \* as in ResourceRepository
  RepoSpecs,         \* the specs of the repository
  MaxRepoGen,        \* bound: generation of the repository
  ForcePush,         \* may a push rewrite the history of the branch?
  MaxPushes,         \* bound: pushes
  MaxGitFaults       \* bound: failed Git and Secret calls

VARIABLES repo, rcached, rcacheStale, head, owed, clone, rqueue, rworker,
          rbudget

\* The restarts of the process are counted once, as the policy's faults.
R == INSTANCE ResourceRepository WITH
       Specs <- RepoSpecs, MaxGen <- MaxRepoGen, MaxFaults <- MaxGitFaults,
       MaxCrashes <- MaxFaults, MaxBadCleanups <- 0,
       cached <- rcached, cacheStale <- rcacheStale, queue <- rqueue,
       worker <- rworker, budget <- rbudget

\* The repository controller touches the tree at any time: SyncPolicy is used
\* with the environment that lets it.
ASSUME SystemAssumption ==
  /\ FetchAnytime
  /\ ForcePush \in BOOLEAN
  /\ R!NoUrl \notin Urls
  /\ RepoSpecs \subseteq R!SpecType /\ RepoSpecs # {}
  /\ {MaxRepoGen, MaxPushes, MaxGitFaults} \subseteq Nat

rvars == <<repo, rcached, rcacheStale, head, owed, clone, rqueue, rworker,
           rbudget>>
systemVars == <<vars, rvars>>

\* What loading the repository finds: isDependencyReady on the cached object.
RepositoryState(r) == IF r.exists /\ r.status.ready THEN "Ready" ELSE "NotReady"

SystemInit ==
  /\ Init
  /\ deps = DepsWith("NotReady")
  /\ R!Init

\* The informer hands out a newer copy of the repository.
NewCopySeen == rcacheStale /\ ~rcacheStale'

\* Mutant of WatchRepository: the SyncPolicy controller does not watch
\* repositories.
WatchRepositoryMissing ==
  \/ ~NewCopySeen /\ UNCHANGED <<repoRev, deps, queue>>
  \/ /\ NewCopySeen
     /\ RepositorySeen(rcached'.status.fetched, RepositoryState(rcached'))
     /\ UNCHANGED queue

\* The watch has no predicate: every change of the repository, status
\* included, enqueues the policies that reference it.
WatchRepository ==
  \/ ~NewCopySeen /\ UNCHANGED <<repoRev, deps, queue>>
  \/ /\ NewCopySeen
     /\ RepositorySeen(rcached'.status.fetched, RepositoryState(rcached'))
     /\ Enqueue(cached.exists)

\* What a step of the repository controller is to the other controller.
SeenByPolicy ==
  /\ WatchRepository
  /\ tree' = clone'.rev
  /\ UNCHANGED <<policy, cached, cacheStale, remote, refsKnown, worker,
                 fullSecret, secret, tick, overlap, owned, budget>>

\* Admission refuses to delete a repository that a policy references; no
\* webhook is set up.
RepoController ==
  /\ \/ R!ReconcileStep \/ R!AuthFails
     \/ R!RetryFires \/ R!PollFires \/ R!CacheSync
     \/ \E s \in RepoSpecs : R!EditSpec(s)
     \/ \E o \in R!Origins, rev \in Revisions :
           (ForcePush \/ rev > head[o]) /\ R!Push(o, rev)
  /\ SeenByPolicy

PolicyController ==
  /\ \/ ReconcileStep \/ CallFails \/ TimerFires \/ CacheSync
     \/ EnvironmentStep
  /\ UNCHANGED rvars

\* One process: both workers die, both informers list anew.
Restart ==
  /\ Crash
  /\ R!Crash
  /\ RepositorySeen(repo.status.fetched, RepositoryState(repo))

SystemNext == RepoController \/ PolicyController \/ Restart

SystemSpec == SystemInit /\ [][SystemNext]_systemVars

\* The fairness of the two controllers, the poll timer included.
SystemFairness ==
  /\ WF_systemVars(ReconcileStep /\ UNCHANGED rvars)
  /\ WF_systemVars(TimerFires /\ UNCHANGED rvars)
  /\ WF_systemVars(CacheSync /\ UNCHANGED rvars)
  /\ WF_systemVars(R!ReconcileStep /\ SeenByPolicy)
  /\ WF_systemVars(R!RetryFires /\ SeenByPolicy)
  /\ WF_systemVars(R!PollFires /\ SeenByPolicy)
  /\ WF_systemVars(R!CacheSync /\ SeenByPolicy)

FairSystemSpec == SystemSpec /\ SystemFairness

-----------------------------------------------------------------------------
(* Properties *)

\* The composition implements SyncPolicy: whatever the repository controller
\* does to the shared tree and to its status is what SyncPolicy allows its
\* environment, so what is proved of SyncPolicy!Spec holds of the operator.
ImplementsSyncPolicy == Spec

\* End to end: once pushes end, the head of the branch is what the policy
\* reports as applied, through fetches, clones, watches, retries and restarts.
HeadIsApplied ==
  <>[](R!Healthy /\ Runnable =>
         policy.status.applied = head[R!Origin(repo.spec)])

\* When everything has settled on the head of the branch (it is checked out,
\* published and reported as applied) the managed service holds what that
\* commit declares.
SettledMatchesHead ==
  LET rev == head[R!Origin(repo.spec)]
  IN ReportsInSync /\ repoRev = rev /\ tree = rev => Matches(rev)

\* Reconciling toward Git never deletes what every commit declares.
NoSpuriousPrune ==
  [][\A r \in Resources :
       (\A rev \in Revisions : Content[rev][r] # Absent) =>
         ~(remote[r] # Absent /\ remote'[r] = Absent)]_systemVars
=============================================================================
