------------------------------ MODULE Workspace ------------------------------
(***************************************************************************)
(* The working copy of a repository as the commands of the CLI change it:   *)
(* resource save, copy, edit and delete and the repository commands, on the *)
(* file store (providers/repository/fsstore) and the git store above it     *)
(* (providers/repository/git), with the commit and the push that follow a   *)
(* change. A command may be killed between any two steps, the remote may    *)
(* not answer, another clone pushes and the user edits files by hand.       *)
(***************************************************************************)
EXTENDS Integers, Sequences, FiniteSets

CONSTANTS
  WalkOrder,     \* the resources of one collection, in the order of a walk
  Docs,          \* payloads
  Exts,          \* extensions of payload files
  NoDoc,         \* no payload
  Stores,        \* the kinds of repository to consider
  Recursions,    \* values of delete --recursive
  EditsAnytime,  \* the user edits files while a command runs
  MaxLog,        \* bound: commits
  MaxTrouble,    \* bound: failed calls and kills
  MaxEdits       \* bound: edits by the user and commits of the other clone

LogicalPaths == {WalkOrder[k] : k \in DOMAIN WalkOrder}

ASSUME WorkspaceAssumption ==
  /\ WalkOrder \in Seq(LogicalPaths) /\ Len(WalkOrder) > 0
  /\ NoDoc \notin Docs /\ IsFiniteSet(Exts) /\ "json" \in Exts /\ "any" \notin Exts
  /\ Stores \subseteq [git: BOOLEAN, remote: BOOLEAN, autoInit: BOOLEAN, autoSync: BOOLEAN]
  /\ Recursions \subseteq BOOLEAN /\ EditsAnytime \in BOOLEAN
  /\ MaxLog \in Nat /\ MaxTrouble \in Nat /\ MaxEdits \in Nat

\* A resource's directory: payload files, an artifact, a leftover temporary file.
DirType == [doc: [Exts -> Docs \cup {NoDoc}], artifact: BOOLEAN, temp: BOOLEAN]
TreeType == [LogicalPaths -> DirType]
EmptyDir == [doc |-> [e \in Exts |-> NoDoc], artifact |-> FALSE, temp |-> FALSE]
EmptyTree == [p \in LogicalPaths |-> EmptyDir]

\* autoInit: repository.git.local.autoInit; autoSync: push after every commit.
StoreType == [git: BOOLEAN, remote: BOOLEAN, autoInit: BOOLEAN, autoSync: BOOLEAN]

VARIABLES
  store,       \* the configured repository
  tree,        \* the working tree
  repo,        \* .git: whether it is there, and the commits HEAD and origin/main name
  upstream,    \* the commit the remote branch names
  log,         \* all commits, of this and of the other clone
  cmd,         \* the command under way
  used         \* what is spent of the bounds

workspaceVars == <<store, tree, repo, upstream, log, cmd, used>>

CmdSteps == {"idle", "clean", "editor", "guard", "artifact", "write", "rename", "prune",
             "remove", "commit", "push"}
CmdOps == {"save", "copy", "edit", "delete", "none"}
CmdResults == {"none", "ok", "error", "invalid", "dirty", "exists", "notfound", "conflict",
               "rejected", "killed", "norepo", "uptodate", "ahead", "behind", "diverged"}
CmdType == [pc: CmdSteps, op: CmdOps, path: LogicalPaths, from: LogicalPaths, value: Docs \cup {NoDoc},
            ext: Exts \cup {"any"}, old: Exts \cup {"any"}, artifact: BOOLEAN, all: BOOLEAN,
            recursive: BOOLEAN, force: BOOLEAN, push: BOOLEAN, result: CmdResults]

WorkspaceTypeOK ==
  /\ store \in StoreType /\ tree \in TreeType
  /\ repo \in [init: BOOLEAN, head: 0..MaxLog, tracking: 0..MaxLog]
  /\ upstream \in 0..Len(log)
  /\ \A c \in DOMAIN log : log[c].tree \in TreeType /\ log[c].parent \in 0..(c - 1)
  /\ Len(log) <= MaxLog
  /\ cmd \in CmdType
  /\ used \in [trouble: 0..MaxTrouble, edits: 0..MaxEdits]

IdleCmd == [pc |-> "idle", op |-> "none", path |-> WalkOrder[1], from |-> WalkOrder[1],
            value |-> NoDoc, ext |-> "any", old |-> "any", artifact |-> FALSE, all |-> FALSE,
            recursive |-> FALSE, force |-> FALSE, push |-> FALSE, result |-> "none"]

WorkspaceInit ==
  /\ store \in Stores
  /\ tree = EmptyTree /\ log = <<>> /\ upstream = 0
  /\ repo = [init |-> FALSE, head |-> 0, tracking |-> 0]
  /\ cmd = IdleCmd /\ used = [trouble |-> 0, edits |-> 0]

-----------------------------------------------------------------------------
(* Reading the file store *)

PayloadFiles(p) == {e \in Exts : tree[p].doc[e] # NoDoc}
Present(p) == PayloadFiles(p) # {}

\* payloadFileInfoFromCandidates: two payload files in one directory are a
\* conflict for every operation that looks for the payload.
HasConflict(p) == Cardinality(PayloadFiles(p)) > 1

\* Get: what a read of the resource answers.
GetResult(p) == IF HasConflict(p) THEN "conflict" ELSE IF Present(p) THEN "ok" ELSE "notfound"
GetValue(p) == tree[p].doc[CHOOSE e \in Exts : e \in PayloadFiles(p)]

\* desiredPayloadDescriptor: the extension asked for, that of the file already
\* there, or JSON.
DesiredExt(p, e) ==
  IF e # "any" THEN e ELSE IF Present(p) THEN CHOOSE x \in Exts : x \in PayloadFiles(p)
  ELSE "json"

\* Whether CleanupEmptyParents removes the directory.
IsEmptyDir(d) == d.doc = EmptyDir.doc /\ ~d.artifact /\ ~d.temp

Without(d) == [d EXCEPT !.doc = EmptyDir.doc]

\* deleteCollectionDirect: every payload, up to a directory in conflict.
DeleteCollectionDirect(t) ==
  LET bad == {k \in DOMAIN WalkOrder : HasConflict(WalkOrder[k])}
      Before(p) == \A k \in bad : \E j \in 1..(k - 1) : WalkOrder[j] = p
  IN [p \in LogicalPaths |-> IF Before(p) THEN Without(t[p]) ELSE t[p]]

\* deleteCollectionRecursive: the walk ends at the first directory that the removal of
\* its payload leaves empty, and so removes: WalkDir cannot read it any more, and
\* a missing directory counts as nothing left to delete.
DeleteCollectionRecursive(t) ==
  LET ends == {k \in DOMAIN WalkOrder :
                 LET d == t[WalkOrder[k]]
                 IN HasConflict(WalkOrder[k]) \/ (d # Without(d) /\ IsEmptyDir(Without(d)))}
      Reached(p) == \A k \in ends : \E j \in 1..k : WalkOrder[j] = p
  IN [p \in LogicalPaths |-> IF Reached(p) /\ ~HasConflict(p) THEN Without(t[p]) ELSE t[p]]

-----------------------------------------------------------------------------
(* Reading the git store *)

\* markCommitGraph: the commits reachable from one.
Ancestors ==
  LET reach[c \in 0..Len(log)] == IF c = 0 THEN {} ELSE {c} \cup reach[log[c].parent]
  IN reach

TreeAt(c) == IF c = 0 THEN EmptyTree ELSE log[c].tree
Dirty == tree # TreeAt(repo.head)

\* computeAheadBehind, and the state SyncStatus reports.
SyncState(local, remote) ==
  LET ahead == Cardinality(Ancestors[local] \ Ancestors[remote])
      behind == Cardinality(Ancestors[remote] \ Ancestors[local])
  IN CASE ahead = 0 /\ behind = 0 -> "uptodate"
       [] ahead > 0 /\ behind = 0 -> "ahead"
       [] ahead = 0 /\ behind > 0 -> "behind"
       [] OTHER -> "diverged"

\* openRepositoryForOperation: an operation on an uninitialized repository
\* initializes it, or fails.
Opens == store.git => (repo.init \/ store.autoInit)
Opened == [repo EXCEPT !.init = store.git \/ @]

EndCmd(result) == cmd' = [IdleCmd EXCEPT !.result = result]
Trouble == used.trouble < MaxTrouble /\ used' = [used EXCEPT !.trouble = @ + 1]

-----------------------------------------------------------------------------
(* The commands that change resources *)

\* validateRepositoryPushFlag
PushFlagValid(push) == push => store.git /\ store.remote

StartCmd(c) ==
  /\ cmd.pc = "idle" /\ Len(log) < MaxLog
  /\ IF PushFlagValid(c.push) THEN cmd' = c ELSE EndCmd("invalid")
  /\ UNCHANGED <<store, tree, repo, upstream, log, used>>

\* A payload of null removes the resource.
Save(p, v, e, artifact, force, push) ==
  StartCmd([IdleCmd EXCEPT !.pc = "clean", !.op = "save", !.path = p, !.value = v, !.ext = e,
              !.artifact = artifact, !.force = force, !.push = push])

Copy(from, to, force) ==
  /\ from # to
  /\ StartCmd([IdleCmd EXCEPT !.pc = "clean", !.op = "copy", !.path = to, !.from = from,
                              !.force = force])

Edit(p) == StartCmd([IdleCmd EXCEPT !.pc = "clean", !.op = "edit", !.path = p, !.force = TRUE])

Delete(p, all, recursive) ==
  StartCmd([IdleCmd EXCEPT !.pc = "clean", !.op = "delete", !.path = p, !.all = all,
                           !.recursive = recursive])

\* Mutant of FreshBootstrap: every repository is taken for a fresh one.
FreshBootstrapAlways == TRUE

\* shouldSkipCleanGitWorktreeCheckForFreshBootstrapRepo: the first commit takes
\* whatever the directory holds.
FreshBootstrap == store.autoInit /\ repo.head = 0

\* What follows the check: copy and edit read their source, from the managed
\* service when the repository has none.
Proceed ==
  LET source == IF cmd.op = "edit" THEN cmd.path ELSE cmd.from
      next == IF cmd.op = "edit" THEN "editor" ELSE "guard"
  IN \/ cmd.op = "save" /\ cmd' = [cmd EXCEPT !.pc = "guard"]
     \/ cmd.op = "delete" /\ cmd' = [cmd EXCEPT !.pc = "remove"]
     \/ /\ cmd.op \in {"copy", "edit"} /\ GetResult(source) = "ok"
        /\ cmd' = [cmd EXCEPT !.pc = next, !.value = GetValue(source),
                              !.ext = DesiredExt(source, "any")]
     \/ /\ cmd.op \in {"copy", "edit"} /\ GetResult(source) = "notfound"
        /\ \E v \in Docs : cmd' = [cmd EXCEPT !.pc = next, !.value = v]
     \/ cmd.op \in {"copy", "edit"} /\ GetResult(source) = "conflict" /\ EndCmd("conflict")

\* ensureCleanGitWorktreeForAutoCommit. SyncStatus fetches from the remote first.
EnsureClean ==
  /\ cmd.pc = "clean"
  /\ \/ (store.git => ~repo.init /\ store.autoInit) /\ Proceed /\ UNCHANGED <<repo, used>>
     \/ ~Opens /\ EndCmd("norepo") /\ UNCHANGED <<repo, used>>
     \/ store.git /\ repo.init /\ store.remote /\ EndCmd("error") /\ Trouble /\ UNCHANGED repo
     \/ /\ store.git /\ repo.init
        /\ repo' = [repo EXCEPT !.tracking = IF store.remote THEN upstream ELSE @]
        /\ IF Dirty /\ ~FreshBootstrap THEN EndCmd("dirty") ELSE Proceed
        /\ UNCHANGED used
  /\ UNCHANGED <<store, tree, upstream, log>>

\* editTempFile: the user leaves the editor.
LeaveEditor(v) ==
  /\ cmd.pc = "editor"
  /\ cmd' = [cmd EXCEPT !.pc = "guard", !.value = v]
  /\ UNCHANGED <<store, tree, repo, upstream, log, used>>

\* ensureSaveTargetAllowed, then resolvePayloadTarget.
Guard ==
  /\ cmd.pc = "guard"
  /\ LET p == cmd.path
         target == DesiredExt(p, cmd.ext)
         old == IF Present(p) THEN CHOOSE e \in Exts : e \in PayloadFiles(p) ELSE target
         next == IF cmd.artifact THEN "artifact" ELSE IF cmd.value = NoDoc THEN "remove"
                 ELSE "write"
     IN IF ~Opens THEN EndCmd("norepo") /\ UNCHANGED repo
        ELSE /\ repo' = Opened
             /\ IF HasConflict(p) THEN EndCmd("conflict")
                ELSE IF ~cmd.force /\ Present(p) THEN EndCmd("exists")
                ELSE cmd' = [cmd EXCEPT !.pc = next, !.ext = target, !.old = old]
  /\ UNCHANGED <<store, tree, upstream, log, used>>

\* SaveResourceWithArtifacts writes the artifacts before the payload.
WriteArtifact ==
  /\ cmd.pc = "artifact"
  /\ tree' = [tree EXCEPT ![cmd.path].artifact = TRUE]
  /\ cmd' = [cmd EXCEPT !.pc = IF cmd.value = NoDoc THEN "remove" ELSE "write"]
  /\ UNCHANGED <<store, repo, upstream, log, used>>

\* writeFileAtomically, up to the rename.
WriteTemp ==
  /\ cmd.pc = "write"
  /\ tree' = [tree EXCEPT ![cmd.path].temp = TRUE]
  /\ cmd' = [cmd EXCEPT !.pc = "rename"]
  /\ UNCHANGED <<store, repo, upstream, log, used>>

\* Mutant of RenamedDir: the file with the old extension goes first.
RenamedDirOldFirst(d) ==
  IF cmd.old # cmd.ext THEN [d EXCEPT !.doc[cmd.old] = NoDoc]
  ELSE [d EXCEPT !.temp = FALSE, !.doc[cmd.ext] = cmd.value]

RenamedDir(d) == [d EXCEPT !.temp = FALSE, !.doc[cmd.ext] = cmd.value]

RenameTemp ==
  /\ cmd.pc = "rename"
  /\ \/ /\ tree' = [tree EXCEPT ![cmd.path] = RenamedDir(@)]
        /\ cmd' = [cmd EXCEPT !.pc = IF cmd.old = cmd.ext THEN "commit" ELSE "prune"]
        /\ UNCHANGED used
     \/ /\ tree' = [tree EXCEPT ![cmd.path].temp = FALSE]
        /\ EndCmd("error") /\ Trouble
  /\ UNCHANGED <<store, repo, upstream, log>>

\* Save: the payload had another extension before.
PruneOld ==
  /\ cmd.pc = "prune"
  /\ tree' = [tree EXCEPT ![cmd.path].doc[cmd.old] = NoDoc]
  /\ cmd' = [cmd EXCEPT !.pc = "commit"]
  /\ UNCHANGED <<store, repo, upstream, log, used>>

\* Mutant of RemovedTree: only the payload file with the default extension goes.
RemovedTreeDefault ==
  [tree EXCEPT ![cmd.path].doc["json"] = NoDoc]

\* The tree Delete leaves.
RemovedTree ==
  IF ~cmd.all THEN [tree EXCEPT ![cmd.path] = Without(@)]
  ELSE IF cmd.recursive THEN DeleteCollectionRecursive(tree) ELSE DeleteCollectionDirect(tree)

RemovePayload ==
  /\ cmd.pc = "remove"
  /\ IF ~Opens THEN EndCmd("norepo") /\ UNCHANGED <<repo, tree>>
     ELSE /\ repo' = Opened
          /\ tree' = IF ~cmd.all /\ HasConflict(cmd.path) THEN tree ELSE RemovedTree
          /\ IF \E p \in LogicalPaths : HasConflict(p) /\ (cmd.all \/ p = cmd.path)
             THEN EndCmd("conflict") ELSE cmd' = [cmd EXCEPT !.pc = "commit"]
  /\ UNCHANGED <<store, upstream, log, used>>

NewCommit == [tree |-> tree, parent |-> repo.head]

\* Commit takes the whole working tree; a clean one makes no commit, and then
\* nothing is pushed either. delete never pushes.
CommitChanges ==
  /\ cmd.pc = "commit"
  /\ \/ ~store.git /\ EndCmd("ok") /\ UNCHANGED <<repo, log>>
     \/ store.git /\ ~Dirty /\ EndCmd("ok") /\ UNCHANGED <<repo, log>>
     \/ /\ store.git /\ Dirty
        /\ log' = Append(log, NewCommit) /\ repo' = [repo EXCEPT !.head = Len(log) + 1]
        /\ IF store.remote /\ cmd.op # "delete" /\ (cmd.push \/ store.autoSync)
           THEN cmd' = [cmd EXCEPT !.pc = "push"] ELSE EndCmd("ok")
  /\ UNCHANGED <<store, tree, upstream, used>>

\* Mutant of Accepts: the remote takes any commit.
AcceptsAnything(force) == TRUE

\* A push that is not forced must be a fast-forward.
Accepts(force) == force \/ upstream = 0 \/ upstream \in Ancestors[repo.head]

PushHead(force) ==
  \/ Accepts(force) /\ upstream' = repo.head /\ EndCmd("ok") /\ UNCHANGED used
  \/ ~Accepts(force) /\ EndCmd("rejected") /\ UNCHANGED <<upstream, used>>
  \/ EndCmd("error") /\ Trouble /\ UNCHANGED upstream

PushChanges ==
  /\ cmd.pc = "push" /\ PushHead(FALSE)
  /\ UNCHANGED <<store, tree, repo, log>>

\* The process is killed.
Kill ==
  /\ cmd.pc # "idle" /\ EndCmd("killed") /\ Trouble
  /\ UNCHANGED <<store, tree, repo, upstream, log>>

-----------------------------------------------------------------------------
(* The repository commands *)

RepositoryInit ==
  /\ cmd.pc = "idle" /\ repo' = Opened /\ EndCmd("ok")
  /\ UNCHANGED <<store, tree, upstream, log, used>>

\* repository commit, with whatever the user has in the working tree.
RepositoryCommit ==
  /\ cmd.pc = "idle"
  /\ IF ~store.git THEN EndCmd("invalid") /\ UNCHANGED <<repo, log>>
     ELSE IF ~Opens THEN EndCmd("norepo") /\ UNCHANGED <<repo, log>>
     ELSE IF ~Dirty THEN EndCmd("ok") /\ repo' = Opened /\ UNCHANGED log
     ELSE /\ Len(log) < MaxLog
          /\ log' = Append(log, NewCommit)
          /\ repo' = [Opened EXCEPT !.head = Len(log) + 1] /\ EndCmd("ok")
  /\ UNCHANGED <<store, tree, upstream, used>>

RepositoryPush(force) ==
  /\ cmd.pc = "idle"
  /\ IF ~(store.git /\ store.remote) THEN EndCmd("invalid") /\ UNCHANGED <<upstream, used>>
     ELSE IF ~repo.init \/ repo.head = 0 THEN EndCmd("error") /\ UNCHANGED <<upstream, used>>
     ELSE PushHead(force)
  /\ UNCHANGED <<store, tree, repo, log>>

\* Clean, and Reset with --hard, which keeps untracked files: those of
\* directories the commit knows nothing of.
RepositoryClean(clean) ==
  /\ cmd.pc = "idle"
  /\ LET committed == TreeAt(repo.head)
         Untracked(p) == committed[p] = EmptyDir
     IN IF ~store.git THEN EndCmd("ok") /\ UNCHANGED tree
        ELSE IF ~repo.init \/ repo.head = 0 THEN EndCmd("error") /\ UNCHANGED tree
        ELSE /\ EndCmd("ok")
             /\ tree' = [p \in LogicalPaths |-> IF ~clean /\ Untracked(p) THEN tree[p] ELSE committed[p]]
  /\ UNCHANGED <<store, repo, upstream, log, used>>

\* Refresh and SyncStatus fetch; only the second reports.
RepositoryStatus(report) ==
  /\ cmd.pc = "idle" /\ store.git /\ repo.init
  /\ \/ /\ repo' = [repo EXCEPT !.tracking = IF store.remote THEN upstream ELSE @]
        /\ IF report /\ store.remote THEN EndCmd(SyncState(repo.head, upstream)) ELSE EndCmd("ok")
        /\ UNCHANGED used
     \/ store.remote /\ EndCmd("error") /\ Trouble /\ UNCHANGED repo
  /\ UNCHANGED <<store, tree, upstream, log>>

-----------------------------------------------------------------------------
(* The user and the other clone *)

Edits == used.edits < MaxEdits /\ used' = [used EXCEPT !.edits = @ + 1]

UserEdits(p, v) ==
  /\ cmd.pc = "idle" \/ EditsAnytime
  /\ tree' = [tree EXCEPT ![p].doc["json"] = v] /\ tree' # tree
  /\ Edits /\ UNCHANGED <<store, repo, upstream, log, cmd>>

OtherPushes(p, v) ==
  /\ store.remote /\ Len(log) < IF cmd.pc = "idle" THEN MaxLog ELSE MaxLog - 1
  /\ log' = Append(log, [tree |-> [TreeAt(upstream) EXCEPT ![p].doc["json"] = v],
                         parent |-> upstream])
  /\ upstream' = Len(log) + 1
  /\ Edits /\ UNCHANGED <<store, tree, repo, cmd>>

WorkspaceNext ==
  \/ /\ cmd.pc = "idle"
     /\ \/ \E p \in LogicalPaths, v \in Docs \cup {NoDoc}, e \in Exts \cup {"any"}, a, f, u \in BOOLEAN :
             Save(p, v, e, a, f, u)
        \/ \E p, q \in LogicalPaths, f \in BOOLEAN : Copy(p, q, f)
        \/ \E p \in LogicalPaths : Edit(p)
        \/ \E p \in LogicalPaths, all \in BOOLEAN, r \in Recursions : Delete(p, all, r)
        \/ RepositoryInit \/ RepositoryCommit
        \/ \E f \in BOOLEAN : RepositoryPush(f) \/ RepositoryClean(f) \/ RepositoryStatus(f)
  \/ EnsureClean \/ Guard \/ WriteArtifact \/ WriteTemp \/ RenameTemp \/ PruneOld
  \/ RemovePayload \/ CommitChanges \/ PushChanges \/ Kill
  \/ \E v \in Docs : LeaveEditor(v)
  \/ \E p \in LogicalPaths, v \in Docs : UserEdits(p, v) \/ OtherPushes(p, v)

WorkspaceSpec == WorkspaceInit /\ [][WorkspaceNext]_workspaceVars

-----------------------------------------------------------------------------
(* Properties *)

\* Whatever step a save is killed at, a resource that was there still has its old
\* or its new payload: only a deletion, a payload of null and the
\* repository commands that discard changes take a payload away.
ResourceKept ==
  [][\A p \in LogicalPaths : Present(p) /\ ~Present(p)' =>
       \/ cmd.pc = "remove" /\ (cmd.all \/ cmd.path = p)
       \/ cmd.pc = "idle"]_workspaceVars

\* The commit a command makes contains no change the command did not make, except
\* the first commit of a repository (git_mutation_helpers.go: "so auto-commit
\* does not include unrelated changes").
CommitOwnChange ==
  [][cmd.pc = "commit" /\ repo'.head # repo.head /\ repo.head # 0 =>
       \A p \in LogicalPaths : tree[p] # TreeAt(repo.head)[p] => cmd.all \/ p = cmd.path]_workspaceVars

\* A delete that succeeds leaves no payload of what it was asked to delete, with
\* either extension; nor, for a collection, of any resource in it.
DeletedIsGone ==
  [][cmd.op = "delete" /\ cmd.pc = "commit" /\ cmd'.result = "ok" =>
       \A p \in LogicalPaths : (cmd.all \/ p = cmd.path) => ~Present(p)]_workspaceVars

\* Nothing another clone pushed is dropped from the remote's history by a push
\* that was not forced.
RemoteHistoryKept ==
  [][cmd.pc = "push" => upstream = 0 \/ upstream \in Ancestors'[upstream']]_workspaceVars

\* Whatever step a command is killed at, a resource keeps its old or its new
\* payload; a commit holds no change of somebody else; a deletion that succeeded
\* left nothing of what it was asked to delete; a push that was not forced drops
\* nothing from the remote's history (fsstore and git providers).
RepositoryKept == ResourceKept /\ CommitOwnChange /\ DeletedIsGone /\ RemoteHistoryKept

\* A resource has one payload file whenever no command is running, so that it
\* can be read, saved and deleted (resource-repo.md: "Save operations MUST be
\* atomic at file level").
OnePayload == cmd.pc = "idle" => \A p \in LogicalPaths : ~HasConflict(p)

\* save --push that reports success leaves the remote with the commit that HEAD
\* names (cli.md: "--push MUST push the resulting commit").
SuccessMeansPushed ==
  [][cmd.op = "save" /\ cmd.push /\ cmd.pc # "idle" /\ cmd'.pc = "idle" /\ cmd'.result = "ok" =>
       repo'.head = 0 \/ repo'.head \in Ancestors'[upstream']]_workspaceVars
=============================================================================
