------------------------- MODULE CommandLineProofs -------------------------
(***************************************************************************)
(* What the runs of MCCommandLine check of the working copy, of saving with  *)
(* secrets, of the orchestrator and of prompted credentials, for every value *)
(* of the constants.                                                         *)
(***************************************************************************)
EXTENDS Workspace, SecretSave, Orchestrator, PromptAuth, FiniteSetTheorems, SequenceTheorems, TLAPS

(***************************************************************************)
(* The working copy. The inductive invariant says of the state between two  *)
(* steps of a command what the next one relies on: a payload is in place    *)
(* before the old file goes, the tree differs from HEAD only where the      *)
(* command writes, and commits name earlier commits.                        *)
(***************************************************************************)

\* A function that gives every commit the commits it reaches: the recursion of
\* Ancestors has a solution because parents come first.
Reaches(f) == f = [c \in 0..Len(log) |-> IF c = 0 THEN {} ELSE {c} \cup f[log[c].parent]]

LogOK ==
  /\ log \in Seq([tree: TreeType, parent: Nat]) /\ Len(log) <= MaxLog
  /\ \A c \in DOMAIN log : log[c].parent < c

RepoOK ==
  /\ repo \in [init: BOOLEAN, head: 0..Len(log), tracking: 0..Len(log)]
  /\ repo.head # 0 => store.git /\ repo.init

\* A running command has room for its commit, and knows where it writes.
CmdReady(c) ==
  /\ c.pc \notin {"idle", "push"} => Len(log) < MaxLog
  /\ c.pc \in {"artifact", "write", "rename", "prune"} => c.ext \in Exts /\ c.old \in Exts
  /\ c.pc \in {"write", "rename", "prune"} => c.value # NoDoc
  /\ c.pc = "prune" => c.ext # c.old /\ tree[c.path].doc[c.ext] # NoDoc
  /\ c.op = "delete" => c.pc \in {"clean", "remove", "commit"}

\* When nobody edits files meanwhile: what differs from HEAD is the command's.
OwnChangeOnly(c) ==
  c.pc \notin {"idle", "clean"} /\ repo.head # 0 =>
    \A p \in LogicalPaths : tree[p] # TreeAt(repo.head)[p] => c.all \/ p = c.path

\* And what a delete was asked for is gone when it comes to commit, unless the
\* recursive walk ended early.
DeleteDone(c) ==
  c.op = "delete" /\ c.pc = "commit" /\ ~c.recursive =>
    \A p \in LogicalPaths : c.all \/ p = c.path => ~Present(p)

CmdOK(c) ==
  /\ c \in CmdType /\ (c.recursive => TRUE \in Recursions) /\ CmdReady(c)
  /\ ~EditsAnytime => OwnChangeOnly(c) /\ DeleteDone(c)

UsedType == [trouble: 0..MaxTrouble, edits: 0..MaxEdits]
DataOK ==
  /\ store \in StoreType /\ tree \in TreeType /\ LogOK /\ RepoOK
  /\ upstream \in 0..Len(log) /\ used \in UsedType
WorkspaceInv == DataOK /\ CmdOK(cmd) /\ \E f : Reaches(f)

\* A command that writes has opened the repository, and so initialized it.
RepositoryOpen ==
  cmd.pc \in {"artifact", "write", "rename", "prune", "commit"} /\ store.git => repo.init

\* The recursion of Ancestors, where it has a solution.
LEMMA AncestorsUnfold ==
  ASSUME \E f : Reaches(f)
  PROVE  \A c \in 0..Len(log) :
           Ancestors[c] = IF c = 0 THEN {} ELSE {c} \cup Ancestors[log[c].parent]
<1>1. Reaches(Ancestors)
  BY Zenon DEF Ancestors, Reaches
<1> QED BY <1>1 DEF Reaches

\* A commit is one of those it reaches.
LEMMA ReachesItself ==
  ASSUME \E f : Reaches(f), NEW c \in 0..Len(log), c # 0
  PROVE  c \in Ancestors[c]
BY AncestorsUnfold

\* A walk visits resources of the collection.
LEMMA FirstPath ==
  /\ WalkOrder[1] \in LogicalPaths
  /\ \A k \in DOMAIN WalkOrder : WalkOrder[k] \in LogicalPaths
BY WorkspaceAssumption DEF LogicalPaths

\* A command that is over satisfies what is asked of commands.
LEMMA EndCmdOK ==
  ASSUME NEW r \in CmdResults, EndCmd(r)
  PROVE  CmdOK(cmd)'
<1>1. PICK c : c = [IdleCmd EXCEPT !.result = r]
  OBVIOUS
<1>2. /\ c.pc = "idle" /\ c.op = "none" /\ c.recursive = FALSE
  BY <1>1 DEF IdleCmd
<1>3. c \in CmdType
  BY <1>1, FirstPath DEF IdleCmd, CmdType, CmdSteps, CmdOps
<1>4. cmd' = c
  BY <1>1 DEF EndCmd
<1> QED BY <1>2, <1>3, <1>4 DEF CmdOK, CmdReady, OwnChangeOnly, DeleteDone

\* Troubles and edits stay within their bounds.
LEMMA UsedKept ==
  ASSUME DataOK, UNCHANGED used \/ Trouble \/ Edits
  PROVE  used' \in UsedType
BY WorkspaceAssumption DEF DataOK, UsedType, Trouble, Edits

\* Without a new commit nothing of the history changes.
LEMMA LogSame ==
  ASSUME UNCHANGED log
  PROVE  /\ (\E f : Reaches(f)) => (\E f : Reaches(f))'
         /\ \A c : TreeAt(c)' = TreeAt(c)
BY DEF Reaches, TreeAt

\* A commit on an earlier one keeps the history and adds to it.
LEMMA LogGrows ==
  ASSUME WorkspaceInv, NEW t \in TreeType, NEW h \in 0..Len(log), Len(log) < MaxLog,
         log' = Append(log, [tree |-> t, parent |-> h])
  PROVE  /\ LogOK' /\ (\E f : Reaches(f))' /\ Len(log') = Len(log) + 1
         /\ \A c \in 0..Len(log) : TreeAt(c)' = TreeAt(c)
         /\ \A c : c = Len(log) + 1 => TreeAt(c)' = t /\ log'[c].parent = h
<1> DEFINE e == [tree |-> t, parent |-> h]
           C == [tree: TreeType, parent: Nat]
<1>1. PICK n \in Nat : n = Len(log)
  BY DEF WorkspaceInv, DataOK, LogOK
<1>2. e \in C /\ h \in Nat /\ h <= n /\ n < MaxLog
  BY <1>1
<1>3. log \in Seq(C)
  BY DEF WorkspaceInv, DataOK, LogOK
<1>4. /\ log' \in Seq(C) /\ Len(log') = n + 1 /\ log'[n + 1] = e
      /\ \A c \in 1..n : log'[c] = log[c]
  BY <1>1, <1>2, <1>3, AppendProperties
<1>5. DOMAIN log = 1..n /\ DOMAIN log' = 1..(n + 1)
  BY <1>1, <1>3, <1>4, LenProperties
<1>6. \A c \in 1..n : log[c].parent \in Nat /\ log[c].parent < c
  <2>1. \A c \in 1..n : log[c] \in C
    BY <1>1, <1>3, ElementOfSeq
  <2>2. \A c \in 1..n : log[c].parent < c
    BY <1>5 DEF WorkspaceInv, DataOK, LogOK
  <2> QED BY <2>1, <2>2
<1> HIDE DEF e
<1>7. e.parent = h /\ e.tree = t
  BY DEF e
<1>8. LogOK'
  <2>1. \A c \in 1..(n + 1) : log'[c].parent < c
    <3> SUFFICES ASSUME NEW c \in 1..(n + 1) PROVE log'[c].parent < c
      OBVIOUS
    <3>1. c = n + 1 \/ c \in 1..n
      OBVIOUS
    <3> QED BY <3>1, <1>2, <1>4, <1>6, <1>7
  <2> QED BY <1>2, <1>4, <1>5, <2>1, WorkspaceAssumption DEF LogOK
<1>9. (\E f : Reaches(f))'
  <2>1. PICK f : Reaches(f)
    BY DEF WorkspaceInv
  <2>2. PICK z : z = n + 1
    OBVIOUS
  <2> DEFINE g == [c \in 0..z |-> IF c = z THEN {z} \cup f[h] ELSE f[c]]
  <2>3. \A c \in 0..n : f[c] = IF c = 0 THEN {} ELSE {c} \cup f[log[c].parent]
    BY <1>1, <2>1 DEF Reaches
  <2>4. \A c \in 0..z : g[c] = IF c = 0 THEN {} ELSE {c} \cup g[log'[c].parent]
    <3> SUFFICES ASSUME NEW c \in 0..z
                 PROVE  g[c] = IF c = 0 THEN {} ELSE {c} \cup g[log'[c].parent]
      OBVIOUS
    <3>1. CASE c = z
      <4>1. log'[c].parent = h /\ c # 0
        BY <1>1, <1>4, <1>7, <2>2, <3>1
      <4>2. h \in 0..z /\ h # z
        BY <1>1, <1>2, <2>2
      <4> QED BY <3>1, <4>1, <4>2
    <3>2. CASE c = 0
      <4>1. 0 \in 0..n /\ 0 # z /\ 0 \in 0..z
        BY <1>1, <2>2
      <4>2. g[0] = f[0] /\ f[0] = {}
        BY <2>3, <4>1
      <4> QED BY <3>2, <4>2
    <3>3. CASE c \in 1..n
      <4>1. log'[c].parent = log[c].parent /\ log[c].parent \in 0..n /\ c # z /\ c # 0 /\ c \in 0..n
        BY <1>1, <1>4, <1>6, <2>2, <3>3
      <4>2. g[c] = f[c]
        BY <4>1
      <4>3. g[log[c].parent] = f[log[c].parent]
        BY <1>1, <2>2, <4>1
      <4> QED BY <2>3, <4>1, <4>2, <4>3
    <3>4. c = z \/ c = 0 \/ c \in 1..n
      BY <1>1, <2>2
    <3> QED BY <3>1, <3>2, <3>3, <3>4
  <2>5. g = [c \in 0..Len(log') |-> IF c = 0 THEN {} ELSE {c} \cup g[log'[c].parent]]
    <3>1. 0..Len(log') = 0..z
      BY <1>4, <2>2
    <3>2. g = [c \in 0..z |-> g[c]]
      OBVIOUS
    <3> HIDE DEF g
    <3> QED BY <2>4, <3>1, <3>2
  <2> HIDE DEF g
  <2>6. \E x : x = [c \in 0..Len(log') |-> IF c = 0 THEN {} ELSE {c} \cup x[log'[c].parent]]
    BY <2>5
  <2> QED BY <2>6 DEF Reaches
<1>10. \A c \in 0..n : TreeAt(c)' = TreeAt(c)
  BY <1>1, <1>4 DEF TreeAt
<1>11. \A c : c = n + 1 => TreeAt(c)' = t
  BY <1>1, <1>4, <1>7 DEF TreeAt
<1> QED BY <1>1, <1>4, <1>7, <1>8, <1>9, <1>10, <1>11

Fetched == [repo EXCEPT !.tracking = IF store.remote THEN upstream ELSE @]

\* The data after a step that makes no commit.
LEMMA DataKept ==
  ASSUME DataOK, UNCHANGED <<store, upstream, log>>, tree' \in TreeType, used' \in UsedType,
         repo' \in {repo, Opened, Fetched}
  PROVE  DataOK' /\ repo'.head = repo.head
<1>1. repo \in [init: BOOLEAN, head: 0..Len(log), tracking: 0..Len(log)]
  BY DEF DataOK, RepoOK
<1>2. store \in StoreType /\ upstream \in 0..Len(log)
  BY DEF DataOK
<1>3. RepoOK' /\ repo'.head = repo.head
  <2>1. CASE repo' = repo
    BY <2>1 DEF DataOK, RepoOK
  <2>2. CASE repo' = Opened
    BY <1>1, <1>2, <2>2 DEF DataOK, RepoOK, Opened, StoreType
  <2>3. CASE repo' = Fetched
    BY <1>1, <1>2, <2>3 DEF DataOK, RepoOK, Fetched, StoreType
  <2> QED BY <2>1, <2>2, <2>3
<1>4. LogOK'
  BY DEF DataOK, LogOK
<1> QED BY <1>3, <1>4 DEF DataOK

\* The command goes on and the tree stays.
LEMMA GoesOn ==
  ASSUME UNCHANGED <<tree, log>>, repo'.head = repo.head, NEW c, CmdOK(c), cmd' = c
  PROVE  CmdOK(cmd)'
BY DEF CmdOK, CmdReady, OwnChangeOnly, DeleteDone, TreeAt, Present, PayloadFiles

\* The extension that is chosen is that of a payload file.
LEMMA PayloadExt ==
  ASSUME NEW p, Present(p)
  PROVE  /\ (CHOOSE e \in Exts : e \in PayloadFiles(p)) \in Exts
         /\ (CHOOSE e \in Exts : e \in PayloadFiles(p)) \in PayloadFiles(p)
BY DEF Present, PayloadFiles

\* The extension to write with is an extension.
LEMMA DesiredExtIn ==
  ASSUME NEW p, NEW e \in Exts \cup {"any"}
  PROVE  DesiredExt(p, e) \in Exts
BY PayloadExt, WorkspaceAssumption DEF DesiredExt

\* A command starts, or its flags are refused.
LEMMA StartCmdKeeps ==
  ASSUME WorkspaceInv, NEW c \in CmdType, c.pc = "clean", c.recursive => TRUE \in Recursions, StartCmd(c)
  PROVE  WorkspaceInv'
<1>1. DataOK' /\ (\E f : Reaches(f))' /\ repo'.head = repo.head
  BY DataKept, LogSame, UsedKept DEF StartCmd, WorkspaceInv, DataOK
<1>2. Len(log) < MaxLog
  BY DEF StartCmd
<1>3. CmdOK(c)
  BY <1>2 DEF CmdOK, CmdReady, OwnChangeOnly, DeleteDone
<1>4. CmdOK(cmd)'
  <2>1. CASE cmd' = c
    BY <1>1, <1>3, <2>1, GoesOn DEF StartCmd
  <2>2. CASE EndCmd("invalid")
    BY <2>2, EndCmdOK DEF CmdResults
  <2> QED BY <2>1, <2>2 DEF StartCmd
<1> QED BY <1>1, <1>4 DEF WorkspaceInv

\* The start of save, copy, edit and delete keeps the invariant.
LEMMA StartsKeep ==
  ASSUME WorkspaceInv,
         \/ \E p \in LogicalPaths, v \in Docs \cup {NoDoc}, e \in Exts \cup {"any"}, a, f, u \in BOOLEAN :
              Save(p, v, e, a, f, u)
         \/ \E p, q \in LogicalPaths, f \in BOOLEAN : Copy(p, q, f)
         \/ \E p \in LogicalPaths : Edit(p)
         \/ \E p \in LogicalPaths, all \in BOOLEAN, r \in Recursions : Delete(p, all, r)
  PROVE  WorkspaceInv'
<1>1. IdleCmd \in CmdType
  BY FirstPath DEF IdleCmd, CmdType, CmdSteps, CmdOps, CmdResults
<1>2. ASSUME NEW p \in LogicalPaths, NEW v \in Docs \cup {NoDoc}, NEW e \in Exts \cup {"any"},
             NEW a \in BOOLEAN, NEW f \in BOOLEAN, NEW u \in BOOLEAN, Save(p, v, e, a, f, u)
      PROVE  WorkspaceInv'
  <2>1. PICK c : c = [IdleCmd EXCEPT !.pc = "clean", !.op = "save", !.path = p, !.value = v, !.ext = e,
                        !.artifact = a, !.force = f, !.push = u]
    OBVIOUS
  <2>2. c \in CmdType
    <3>1. PICK d : d = [IdleCmd EXCEPT !.pc = "clean", !.op = "save", !.path = p]
      OBVIOUS
    <3>2. PICK b : b = [d EXCEPT !.value = v, !.ext = e]
      OBVIOUS
    <3>3. d \in CmdType
      BY <1>1, <3>1 DEF CmdType, CmdSteps, CmdOps
    <3>4. b \in CmdType
      BY <3>2, <3>3 DEF CmdType
    <3>5. c = [b EXCEPT !.artifact = a, !.force = f, !.push = u]
      BY <2>1, <3>1, <3>2 DEF IdleCmd
    <3> QED BY <3>4, <3>5 DEF CmdType
  <2>3. c.pc = "clean" /\ c.recursive = FALSE
    BY <2>1 DEF IdleCmd
  <2> QED BY <1>2, <2>1, <2>2, <2>3, StartCmdKeeps DEF Save
<1>3. ASSUME NEW p \in LogicalPaths, NEW q \in LogicalPaths, NEW f \in BOOLEAN, Copy(p, q, f)
      PROVE  WorkspaceInv'
  <2>1. PICK c : c = [IdleCmd EXCEPT !.pc = "clean", !.op = "copy", !.path = q, !.from = p,
                                     !.force = f]
    OBVIOUS
  <2>2. c \in CmdType /\ c.pc = "clean" /\ c.recursive = FALSE
    BY <1>1, <2>1 DEF CmdType, CmdSteps, CmdOps, IdleCmd
  <2> QED BY <1>3, <2>1, <2>2, StartCmdKeeps DEF Copy
<1>4. ASSUME NEW p \in LogicalPaths, Edit(p)
      PROVE  WorkspaceInv'
  <2>1. PICK c : c = [IdleCmd EXCEPT !.pc = "clean", !.op = "edit", !.path = p, !.force = TRUE]
    OBVIOUS
  <2>2. c \in CmdType /\ c.pc = "clean" /\ c.recursive = FALSE
    BY <1>1, <2>1 DEF CmdType, CmdSteps, CmdOps, IdleCmd
  <2> QED BY <1>4, <2>1, <2>2, StartCmdKeeps DEF Edit
<1>5. ASSUME NEW p \in LogicalPaths, NEW all \in BOOLEAN, NEW r \in Recursions, Delete(p, all, r)
      PROVE  WorkspaceInv'
  <2>1. PICK c : c = [IdleCmd EXCEPT !.pc = "clean", !.op = "delete", !.path = p, !.all = all,
                                     !.recursive = r]
    OBVIOUS
  <2>2. r \in BOOLEAN
    BY WorkspaceAssumption
  <2>3. c \in CmdType /\ c.pc = "clean" /\ c.recursive = r
    BY <1>1, <2>1, <2>2 DEF CmdType, CmdSteps, CmdOps, IdleCmd
  <2> QED BY <1>5, <2>1, <2>2, <2>3, StartCmdKeeps DEF Delete
<1> QED BY <1>2, <1>3, <1>4, <1>5

\* After the check for a clean tree the command goes on with a tree that equals HEAD.
LEMMA ProceedOK ==
  ASSUME WorkspaceInv, cmd.pc = "clean", repo.head = 0 \/ tree = TreeAt(repo.head), Proceed,
         UNCHANGED <<tree, log>>, repo'.head = repo.head
  PROVE  CmdOK(cmd)'
<1> DEFINE source == IF cmd.op = "edit" THEN cmd.path ELSE cmd.from
           next == IF cmd.op = "edit" THEN "editor" ELSE "guard"
<1>1. cmd \in CmdType /\ Len(log) < MaxLog /\ (cmd.recursive => TRUE \in Recursions)
  BY DEF WorkspaceInv, CmdOK, CmdReady
<1>2. ASSUME NEW c \in CmdType, cmd' = c, c.pc \in {"guard", "editor", "remove"},
             c.op = "delete" => c.pc = "remove", c.recursive = cmd.recursive
      PROVE  CmdOK(cmd)'
  <2>1. CmdOK(c)
    BY <1>1, <1>2 DEF CmdOK, CmdReady, OwnChangeOnly, DeleteDone
  <2> QED BY <1>2, <2>1, GoesOn
<1>3. ASSUME NEW pc \in {"guard", "editor", "remove"}, NEW v \in Docs \cup {NoDoc},
             NEW e \in Exts \cup {"any"}, cmd.op = "delete" => pc = "remove",
             cmd' = [cmd EXCEPT !.pc = pc, !.value = v, !.ext = e]
      PROVE  CmdOK(cmd)'
  <2>1. PICK c : c = [cmd EXCEPT !.pc = pc, !.value = v, !.ext = e]
    OBVIOUS
  <2>2. c \in CmdType
    BY <1>1, <2>1 DEF CmdType, CmdSteps
  <2>3. c.pc = pc /\ c.op = cmd.op /\ c.recursive = cmd.recursive
    BY <1>1, <2>1 DEF CmdType
  <2> QED BY <1>2, <1>3, <2>1, <2>2, <2>3
<1>4. ASSUME NEW pc, cmd' = [cmd EXCEPT !.pc = pc]
      PROVE  cmd' = [cmd EXCEPT !.pc = pc, !.value = cmd.value, !.ext = cmd.ext]
  BY <1>1, <1>4 DEF CmdType
<1>5. CASE (cmd.op = "save" /\ cmd' = [cmd EXCEPT !.pc = "guard"])
           \/ (cmd.op = "delete" /\ cmd' = [cmd EXCEPT !.pc = "remove"])
  <2>1. cmd.value \in Docs \cup {NoDoc} /\ cmd.ext \in Exts \cup {"any"}
    BY <1>1 DEF CmdType
  <2> QED BY <1>3, <1>4, <1>5, <2>1
<1>6. CASE cmd.op \in {"copy", "edit"} /\ ~EndCmd("conflict")
  <2>1. next \in {"guard", "editor", "remove"} /\ source \in LogicalPaths
    BY <1>1 DEF CmdType
  <2>2. CASE /\ GetResult(source) = "ok"
             /\ cmd' = [cmd EXCEPT !.pc = next, !.value = GetValue(source),
                                   !.ext = DesiredExt(source, "any")]
    <3>1. Present(source)
      BY <2>2 DEF GetResult
    <3>2. GetValue(source) \in Docs \cup {NoDoc}
      BY <2>1, <3>1, PayloadExt DEF GetValue, WorkspaceInv, DataOK, TreeType, DirType
    <3>3. DesiredExt(source, "any") \in Exts
      BY DesiredExtIn
    <3> QED BY <1>3, <1>6, <2>1, <2>2, <3>2, <3>3
  <2>3. ASSUME NEW v \in Docs, cmd' = [cmd EXCEPT !.pc = next, !.value = v]
        PROVE  CmdOK(cmd)'
    <3>1. cmd.ext \in Exts \cup {"any"} /\ cmd' = [cmd EXCEPT !.pc = next, !.value = v, !.ext = cmd.ext]
      BY <1>1, <2>3 DEF CmdType
    <3> QED BY <1>3, <1>6, <2>1, <3>1
  <2> QED BY <1>6, <2>2, <2>3 DEF Proceed
<1>7. CASE EndCmd("conflict")
  BY <1>7, EndCmdOK DEF CmdResults
<1> QED BY <1>5, <1>6, <1>7 DEF Proceed

\* The check for a clean worktree keeps the invariant.
LEMMA EnsureCleanKeeps ==
  ASSUME WorkspaceInv, EnsureClean
  PROVE  WorkspaceInv'
<1>1. /\ UNCHANGED <<store, tree, upstream, log>> /\ cmd.pc = "clean"
      /\ DataOK /\ tree \in TreeType
  BY DEF EnsureClean, WorkspaceInv, DataOK
<1>2. used' \in UsedType /\ repo' \in {repo, Opened, Fetched}
  BY <1>1, UsedKept DEF EnsureClean, Fetched
<1>3. DataOK' /\ repo'.head = repo.head /\ (\E f : Reaches(f))'
  BY <1>1, <1>2, DataKept, LogSame DEF WorkspaceInv
<1>4. CmdOK(cmd)'
  <2>1. CASE (store.git => ~repo.init /\ store.autoInit) /\ Proceed
    BY <1>1, <1>3, <2>1, ProceedOK DEF DataOK, RepoOK
  <2>2. CASE EndCmd("norepo") \/ EndCmd("error") \/ EndCmd("dirty")
    BY <2>2, EndCmdOK DEF CmdResults
  <2>3. CASE (~Dirty \/ FreshBootstrap) /\ Proceed
    BY <1>1, <1>3, <2>3, ProceedOK DEF Dirty, FreshBootstrap
  <2> QED BY <2>1, <2>2, <2>3 DEF EnsureClean
<1> QED BY <1>3, <1>4 DEF WorkspaceInv

\* Leaving the editor keeps the invariant.
LEMMA LeaveEditorKeeps ==
  ASSUME WorkspaceInv, NEW v \in Docs, LeaveEditor(v)
  PROVE  WorkspaceInv'
<1>1. DataOK' /\ repo'.head = repo.head /\ (\E f : Reaches(f))'
  BY DataKept, LogSame, UsedKept DEF LeaveEditor, WorkspaceInv, DataOK
<1>2. PICK c : c = [cmd EXCEPT !.pc = "guard", !.value = v]
  OBVIOUS
<1>3. /\ c \in CmdType /\ c.pc = "guard" /\ c.recursive = cmd.recursive /\ c.op = cmd.op
      /\ c.all = cmd.all /\ c.path = cmd.path
  BY <1>2 DEF WorkspaceInv, CmdOK, CmdType, CmdSteps
<1>4. CmdOK(c)
  BY <1>3 DEF LeaveEditor, WorkspaceInv, CmdOK, CmdReady, OwnChangeOnly, DeleteDone
<1> QED BY <1>1, <1>2, <1>4, GoesOn DEF LeaveEditor, WorkspaceInv

\* The check of the target keeps the invariant.
LEMMA GuardKeeps ==
  ASSUME WorkspaceInv, Guard
  PROVE  WorkspaceInv'
<1> DEFINE p == cmd.path
           target == DesiredExt(p, cmd.ext)
           old == IF Present(p) THEN CHOOSE e \in Exts : e \in PayloadFiles(p) ELSE target
           next == IF cmd.artifact THEN "artifact" ELSE IF cmd.value = NoDoc THEN "remove"
                   ELSE "write"
<1>1. /\ UNCHANGED <<store, tree, upstream, log, used>> /\ repo' \in {repo, Opened} /\ cmd.pc = "guard"
      /\ DataOK /\ tree \in TreeType /\ cmd \in CmdType /\ CmdOK(cmd)
  BY DEF Guard, WorkspaceInv, DataOK, CmdOK
<1>2. DataOK' /\ repo'.head = repo.head /\ (\E f : Reaches(f))'
  BY <1>1, DataKept, LogSame, UsedKept DEF WorkspaceInv
<1>3. CASE EndCmd("norepo") \/ EndCmd("conflict") \/ EndCmd("exists")
  BY <1>2, <1>3, EndCmdOK DEF CmdResults, WorkspaceInv
<1>4. CASE cmd' = [cmd EXCEPT !.pc = next, !.ext = target, !.old = old]
  <2>1. PICK n, t, o : n = next /\ t = target /\ o = old
    OBVIOUS
  <2>2. t \in Exts /\ o \in Exts
    BY <1>1, <2>1, DesiredExtIn, PayloadExt DEF CmdType
  <2>3. /\ n \in {"artifact", "remove", "write"}
        /\ n = "write" => cmd.value # NoDoc
    BY <2>1
  <2>4. PICK c : c = [cmd EXCEPT !.pc = n, !.ext = t, !.old = o]
    OBVIOUS
  <2>5. c \in CmdType
    BY <1>1, <2>2, <2>3, <2>4 DEF CmdType, CmdSteps
  <2>6. /\ c.pc = n /\ c.op = cmd.op /\ c.all = cmd.all /\ c.path = cmd.path /\ c.value = cmd.value
        /\ c.recursive = cmd.recursive /\ c.ext = t /\ c.old = o
    BY <1>1, <2>4 DEF CmdType
  <2>7. CmdOK(c)
    BY <1>1, <2>2, <2>3, <2>5, <2>6 DEF CmdOK, CmdReady, OwnChangeOnly, DeleteDone
  <2>8. cmd' = c
    BY <1>4, <2>1, <2>4
  <2> QED BY <1>1, <1>2, <2>7, <2>8, GoesOn DEF WorkspaceInv
<1> QED BY <1>3, <1>4 DEF Guard

\* A step of the command that writes where it was told to.
LEMMA WritesOwn ==
  ASSUME WorkspaceInv, cmd.pc \notin {"idle", "clean"}, UNCHANGED log, repo'.head = repo.head,
         cmd.all \/ \A p \in LogicalPaths \ {cmd.path} : tree'[p] = tree[p],
         NEW c \in CmdType, cmd' = c, c.all = cmd.all, c.path = cmd.path, c.recursive = cmd.recursive,
         CmdReady(c)', ~EditsAnytime => DeleteDone(c)'
  PROVE  CmdOK(cmd)'
<1>1. c.recursive => TRUE \in Recursions
  BY DEF WorkspaceInv, CmdOK
<1>2. ~EditsAnytime => OwnChangeOnly(c)'
  BY DEF WorkspaceInv, CmdOK, OwnChangeOnly, TreeAt
<1> QED BY <1>1, <1>2 DEF CmdOK

\* The write of an artifact keeps the invariant.
LEMMA WriteArtifactKeeps ==
  ASSUME WorkspaceInv, WriteArtifact
  PROVE  WorkspaceInv'
<1>1. /\ UNCHANGED <<store, repo, upstream, log, used>> /\ cmd.pc = "artifact" /\ DataOK
      /\ tree \in TreeType /\ cmd \in CmdType /\ cmd.path \in LogicalPaths
  BY DEF WriteArtifact, WorkspaceInv, DataOK, CmdOK, CmdType
<1>2. tree' \in TreeType /\ \A p \in LogicalPaths \ {cmd.path} : tree'[p] = tree[p]
  BY <1>1 DEF WriteArtifact, TreeType, DirType
<1>3. DataOK' /\ (\E f : Reaches(f))'
  BY <1>1, <1>2, DataKept, LogSame, UsedKept DEF WorkspaceInv
<1>4. PICK c : c = [cmd EXCEPT !.pc = IF cmd.value = NoDoc THEN "remove" ELSE "write"]
  OBVIOUS
<1>5. c \in CmdType
  BY <1>1, <1>4 DEF CmdType, CmdSteps
<1>6. /\ c.pc = (IF cmd.value = NoDoc THEN "remove" ELSE "write") /\ c.op = cmd.op /\ c.all = cmd.all
      /\ c.path = cmd.path /\ c.recursive = cmd.recursive /\ c.value = cmd.value
      /\ c.ext = cmd.ext /\ c.old = cmd.old
  BY <1>1, <1>4 DEF CmdType
<1>7. CmdReady(c)' /\ DeleteDone(c)'
  BY <1>1, <1>6 DEF WorkspaceInv, CmdOK, CmdReady, DeleteDone
<1> QED BY <1>1, <1>2, <1>3, <1>4, <1>5, <1>6, <1>7, WritesOwn DEF WriteArtifact, WorkspaceInv

\* The write of the temporary file keeps the invariant.
LEMMA WriteTempKeeps ==
  ASSUME WorkspaceInv, WriteTemp
  PROVE  WorkspaceInv'
<1>1. /\ UNCHANGED <<store, repo, upstream, log, used>> /\ cmd.pc = "write" /\ DataOK
      /\ tree \in TreeType /\ cmd \in CmdType /\ cmd.path \in LogicalPaths
  BY DEF WriteTemp, WorkspaceInv, DataOK, CmdOK, CmdType
<1>2. tree' \in TreeType /\ \A p \in LogicalPaths \ {cmd.path} : tree'[p] = tree[p]
  BY <1>1 DEF WriteTemp, TreeType, DirType
<1>3. DataOK' /\ (\E f : Reaches(f))'
  BY <1>1, <1>2, DataKept, LogSame, UsedKept DEF WorkspaceInv
<1>4. PICK c : c = [cmd EXCEPT !.pc = "rename"]
  OBVIOUS
<1>5. c \in CmdType
  BY <1>1, <1>4 DEF CmdType, CmdSteps
<1>6. /\ c.pc = "rename" /\ c.op = cmd.op /\ c.all = cmd.all /\ c.path = cmd.path
      /\ c.recursive = cmd.recursive /\ c.value = cmd.value /\ c.ext = cmd.ext /\ c.old = cmd.old
  BY <1>1, <1>4 DEF CmdType
<1>7. CmdReady(c)' /\ DeleteDone(c)'
  BY <1>1, <1>6 DEF WorkspaceInv, CmdOK, CmdReady, DeleteDone
<1> QED BY <1>1, <1>2, <1>3, <1>4, <1>5, <1>6, <1>7, WritesOwn DEF WriteTemp, WorkspaceInv

\* The tree after the rename: the new payload is in place.
LEMMA RenamedTree ==
  ASSUME WorkspaceInv, cmd.pc = "rename", tree' = [tree EXCEPT ![cmd.path] = RenamedDir(@)]
  PROVE  /\ tree' \in TreeType /\ \A p \in LogicalPaths \ {cmd.path} : tree'[p] = tree[p]
         /\ tree'[cmd.path].doc = [tree[cmd.path].doc EXCEPT ![cmd.ext] = cmd.value]
         /\ cmd.path \in LogicalPaths /\ cmd.ext \in Exts /\ cmd.value \in Docs
<1>1. /\ tree \in TreeType /\ cmd.path \in LogicalPaths /\ cmd.ext \in Exts /\ cmd.value \in Docs
  BY DEF WorkspaceInv, DataOK, CmdOK, CmdType, CmdReady
<1>2. PICK d : d = RenamedDir(tree[cmd.path])
  OBVIOUS
<1>3. d \in DirType /\ d.doc = [tree[cmd.path].doc EXCEPT ![cmd.ext] = cmd.value]
  BY <1>1, <1>2 DEF RenamedDir, TreeType, DirType
<1>4. tree' = [tree EXCEPT ![cmd.path] = d]
  BY <1>2
<1> QED BY <1>1, <1>3, <1>4 DEF TreeType

\* The rename, done or failed, keeps the invariant.
LEMMA RenameTempKeeps ==
  ASSUME WorkspaceInv, RenameTemp
  PROVE  WorkspaceInv'
<1>1. /\ UNCHANGED <<store, repo, upstream, log>> /\ cmd.pc = "rename" /\ DataOK
      /\ tree \in TreeType /\ cmd \in CmdType /\ cmd.path \in LogicalPaths
  BY DEF RenameTemp, WorkspaceInv, DataOK, CmdOK, CmdType
<1>2. used' \in UsedType /\ (\E f : Reaches(f))'
  BY <1>1, UsedKept, LogSame DEF RenameTemp, WorkspaceInv
<1>3. CASE /\ tree' = [tree EXCEPT ![cmd.path] = RenamedDir(@)]
           /\ cmd' = [cmd EXCEPT !.pc = IF cmd.old = cmd.ext THEN "commit" ELSE "prune"]
  <2>1. tree' \in TreeType /\ \A p \in LogicalPaths \ {cmd.path} : tree'[p] = tree[p]
    BY <1>1, <1>3, RenamedTree
  <2>2. DataOK'
    BY <1>1, <1>2, <2>1, DataKept
  <2>3. PICK c : c = [cmd EXCEPT !.pc = IF cmd.old = cmd.ext THEN "commit" ELSE "prune"]
    OBVIOUS
  <2>4. c \in CmdType
    BY <1>1, <2>3 DEF CmdType, CmdSteps
  <2>5. /\ c.pc = (IF cmd.old = cmd.ext THEN "commit" ELSE "prune") /\ c.op = cmd.op /\ c.all = cmd.all
        /\ c.path = cmd.path /\ c.recursive = cmd.recursive /\ c.value = cmd.value
        /\ c.ext = cmd.ext /\ c.old = cmd.old
    BY <1>1, <2>3 DEF CmdType
  <2>6. tree'[c.path].doc[c.ext] # NoDoc
    BY <1>1, <1>3, <2>5, RenamedTree, WorkspaceAssumption DEF TreeType, DirType
  <2>7. c.op # "delete" /\ Len(log) < MaxLog /\ c.value # NoDoc /\ c.ext \in Exts /\ c.old \in Exts
    BY <1>1, <2>5 DEF WorkspaceInv, CmdOK, CmdReady
  <2>8. CmdReady(c)' /\ DeleteDone(c)'
    BY <1>1, <2>5, <2>6, <2>7 DEF CmdReady, DeleteDone
  <2> QED BY <1>1, <1>2, <1>3, <2>1, <2>2, <2>3, <2>4, <2>5, <2>8, WritesOwn DEF WorkspaceInv
<1>4. CASE tree' = [tree EXCEPT ![cmd.path].temp = FALSE] /\ EndCmd("error")
  <2>1. tree' \in TreeType
    BY <1>1, <1>4 DEF TreeType, DirType
  <2> QED BY <1>1, <1>2, <1>4, <2>1, DataKept, EndCmdOK DEF CmdResults, WorkspaceInv
<1> QED BY <1>3, <1>4 DEF RenameTemp

\* The tree after the old file went: the new payload stays.
LEMMA PrunedTree ==
  ASSUME WorkspaceInv, PruneOld
  PROVE  /\ tree' \in TreeType /\ \A p \in LogicalPaths \ {cmd.path} : tree'[p] = tree[p]
         /\ cmd.path \in LogicalPaths /\ cmd.ext \in Exts
         /\ tree'[cmd.path].doc[cmd.ext] = tree[cmd.path].doc[cmd.ext]
         /\ tree[cmd.path].doc[cmd.ext] # NoDoc
<1>1. /\ tree \in TreeType /\ cmd.path \in LogicalPaths /\ cmd.ext \in Exts /\ cmd.old \in Exts
      /\ cmd.ext # cmd.old /\ tree[cmd.path].doc[cmd.ext] # NoDoc
  BY DEF PruneOld, WorkspaceInv, DataOK, CmdOK, CmdType, CmdReady
<1>2. tree' = [tree EXCEPT ![cmd.path].doc[cmd.old] = NoDoc]
  BY DEF PruneOld
<1> QED BY <1>1, <1>2 DEF TreeType, DirType

\* The removal of the old file keeps the invariant.
LEMMA PruneOldKeeps ==
  ASSUME WorkspaceInv, PruneOld
  PROVE  WorkspaceInv'
<1>1. /\ UNCHANGED <<store, repo, upstream, log, used>> /\ cmd.pc = "prune" /\ DataOK
      /\ cmd \in CmdType
  BY DEF PruneOld, WorkspaceInv, CmdOK
<1>2. DataOK' /\ (\E f : Reaches(f))'
  BY <1>1, PrunedTree, DataKept, LogSame, UsedKept DEF WorkspaceInv
<1>3. PICK c : c = [cmd EXCEPT !.pc = "commit"]
  OBVIOUS
<1>4. c \in CmdType
  BY <1>1, <1>3 DEF CmdType, CmdSteps
<1>5. /\ c.pc = "commit" /\ c.op = cmd.op /\ c.all = cmd.all /\ c.path = cmd.path
      /\ c.recursive = cmd.recursive /\ c.op # "delete" /\ Len(log) < MaxLog
  BY <1>1, <1>3 DEF CmdType, WorkspaceInv, CmdOK, CmdReady
<1>6. CmdReady(c)' /\ DeleteDone(c)'
  BY <1>1, <1>5 DEF CmdReady, DeleteDone
<1> QED BY <1>1, <1>2, <1>3, <1>4, <1>5, <1>6, PrunedTree, WritesOwn DEF PruneOld, WorkspaceInv

\* The data after a step that at most initializes the repository.
LEMMA OpensKeep ==
  ASSUME WorkspaceInv, UNCHANGED <<store, upstream, log, used>>, repo' \in {repo, Opened}, tree' \in TreeType
  PROVE  DataOK' /\ repo'.head = repo.head /\ (\E f : Reaches(f))'
BY DataKept, LogSame, UsedKept DEF WorkspaceInv

\* A directory without its payload files.
LEMMA WithoutNone ==
  ASSUME NEW d \in DirType
  PROVE  Without(d) \in DirType /\ \A e \in Exts : Without(d).doc[e] = NoDoc
BY DEF Without, DirType, EmptyDir

\* What a deletion leaves has no payload where it reports success.
LEMMA RemovedTreeDone ==
  ASSUME WorkspaceInv, cmd.pc = "remove",
         tree' = IF ~cmd.all /\ HasConflict(cmd.path) THEN tree ELSE RemovedTree
  PROVE  /\ tree' \in TreeType
         /\ cmd.all \/ \A p \in LogicalPaths \ {cmd.path} : tree'[p] = tree[p]
         /\ (\A p \in LogicalPaths : HasConflict(p) => ~cmd.all /\ p # cmd.path) /\ ~cmd.recursive =>
              \A p \in LogicalPaths : cmd.all \/ p = cmd.path => ~Present(p)'
<1>1. tree \in TreeType /\ cmd.path \in LogicalPaths /\ \A p \in LogicalPaths : tree[p] \in DirType
  BY DEF WorkspaceInv, DataOK, CmdOK, CmdType, TreeType
<1>2. \A p \in LogicalPaths : Without(tree[p]) \in DirType /\ \A e \in Exts : Without(tree[p]).doc[e] = NoDoc
  BY <1>1, WithoutNone
<1>3. \A p \in LogicalPaths : tree'[p] = Without(tree[p]) => ~Present(p)'
  BY <1>2 DEF Present, PayloadFiles
<1>4. CASE ~cmd.all
  <2>1. CASE HasConflict(cmd.path)
    BY <1>1, <1>4, <2>1
  <2>2. CASE ~HasConflict(cmd.path)
    <3>1. tree' = [tree EXCEPT ![cmd.path] = Without(tree[cmd.path])]
      BY <1>4, <2>2 DEF RemovedTree
    <3> QED BY <1>1, <1>2, <1>3, <1>4, <3>1 DEF TreeType
  <2> QED BY <2>1, <2>2
<1>5. CASE cmd.all /\ cmd.recursive
  <2>1. tree' = DeleteCollectionRecursive(tree)
    BY <1>5 DEF RemovedTree
  <2>2. tree' \in TreeType
    BY <1>1, <1>2, <2>1 DEF DeleteCollectionRecursive, TreeType
  <2> QED BY <1>5, <2>2
<1>6. CASE cmd.all /\ ~cmd.recursive
  <2>1. tree' = DeleteCollectionDirect(tree)
    BY <1>6 DEF RemovedTree
  <2>2. tree' \in TreeType
    BY <1>1, <1>2, <2>1 DEF DeleteCollectionDirect, TreeType
  <2>3. ASSUME \A p \in LogicalPaths : ~HasConflict(p)
        PROVE  \A p \in LogicalPaths : tree'[p] = Without(tree[p])
    <3>1. \A k \in DOMAIN WalkOrder : ~HasConflict(WalkOrder[k])
      BY <2>3, FirstPath
    <3> QED BY <2>1, <3>1 DEF DeleteCollectionDirect
  <2> QED BY <1>3, <1>6, <2>2, <2>3
<1> QED BY <1>4, <1>5, <1>6 DEF WorkspaceInv, CmdOK, CmdType

\* The removal of payloads keeps the invariant.
LEMMA RemovePayloadKeeps ==
  ASSUME WorkspaceInv, RemovePayload
  PROVE  WorkspaceInv'
<1>1. /\ UNCHANGED <<store, upstream, log, used>> /\ cmd.pc = "remove" /\ repo' \in {repo, Opened}
      /\ cmd \in CmdType /\ tree \in TreeType
  BY DEF RemovePayload, WorkspaceInv, DataOK, CmdOK
<1>2. CASE ~Opens
  <2>1. EndCmd("norepo") /\ UNCHANGED tree
    BY <1>2 DEF RemovePayload
  <2> QED BY <1>1, <2>1, OpensKeep, EndCmdOK DEF CmdResults, WorkspaceInv
<1>3. CASE Opens
  <2>1. tree' = IF ~cmd.all /\ HasConflict(cmd.path) THEN tree ELSE RemovedTree
    BY <1>3 DEF RemovePayload
  <2>2. /\ tree' \in TreeType
        /\ cmd.all \/ \A p \in LogicalPaths \ {cmd.path} : tree'[p] = tree[p]
        /\ (\A p \in LogicalPaths : HasConflict(p) => ~cmd.all /\ p # cmd.path) /\ ~cmd.recursive =>
             \A p \in LogicalPaths : cmd.all \/ p = cmd.path => ~Present(p)'
    BY <1>1, <2>1, RemovedTreeDone
  <2>3. DataOK' /\ repo'.head = repo.head /\ (\E f : Reaches(f))'
    BY <1>1, <2>2, OpensKeep
  <2>4. CASE \E p \in LogicalPaths : HasConflict(p) /\ (cmd.all \/ p = cmd.path)
    <3>1. EndCmd("conflict")
      BY <1>3, <2>4 DEF RemovePayload
    <3> QED BY <2>3, <3>1, EndCmdOK DEF CmdResults, WorkspaceInv
  <2>5. CASE ~ \E p \in LogicalPaths : HasConflict(p) /\ (cmd.all \/ p = cmd.path)
    <3>1. PICK c : c = [cmd EXCEPT !.pc = "commit"]
      OBVIOUS
    <3>2. c \in CmdType
      BY <1>1, <3>1 DEF CmdType, CmdSteps
    <3>3. /\ c.pc = "commit" /\ c.op = cmd.op /\ c.all = cmd.all /\ c.path = cmd.path
          /\ c.recursive = cmd.recursive /\ Len(log) < MaxLog
      BY <1>1, <3>1 DEF CmdType, WorkspaceInv, CmdOK, CmdReady
    <3>4. cmd' = c
      BY <1>3, <2>5, <3>1 DEF RemovePayload
    <3>5. CmdReady(c)'
      BY <1>1, <3>3 DEF CmdReady
    <3>6. ~c.recursive => \A p \in LogicalPaths : c.all \/ p = c.path => ~Present(p)'
      BY <2>2, <2>5, <3>3
    <3>7. DeleteDone(c)'
      BY <3>6 DEF DeleteDone
    <3> QED BY <1>1, <2>2, <2>3, <3>2, <3>3, <3>4, <3>5, <3>7, WritesOwn DEF WorkspaceInv
  <2> QED BY <2>4, <2>5
<1> QED BY <1>2, <1>3

\* A commit of the working tree on HEAD.
LEMMA CommitsKeep ==
  ASSUME WorkspaceInv, Len(log) < MaxLog, log' = Append(log, NewCommit), store.git, repo.init \/ cmd.pc = "idle",
         repo' = [Opened EXCEPT !.head = Len(log) + 1], UNCHANGED <<store, tree, upstream, used>>
  PROVE  DataOK' /\ (\E f : Reaches(f))' /\ Len(log') = Len(log) + 1
<1>1. /\ tree \in TreeType /\ repo.head \in 0..Len(log) /\ Len(log) \in Nat
      /\ repo \in [init: BOOLEAN, head: 0..Len(log), tracking: 0..Len(log)]
      /\ store \in StoreType /\ upstream \in 0..Len(log) /\ used \in UsedType
  BY DEF WorkspaceInv, DataOK, RepoOK, LogOK
<1>2. LogOK' /\ (\E f : Reaches(f))' /\ Len(log') = Len(log) + 1
  BY <1>1, LogGrows DEF NewCommit
<1>3. PICK n \in Nat : n = Len(log)
  BY <1>1
<1>4. RepoOK'
  <2>1. repo' = [repo EXCEPT !.init = TRUE, !.head = n + 1]
    <3>1. Opened = [repo EXCEPT !.init = TRUE]
      BY <1>1 DEF Opened, StoreType
    <3> QED BY <1>1, <1>3, <3>1
  <2>2. repo' \in [init: BOOLEAN, head: 0..(n + 1), tracking: 0..(n + 1)] /\ repo'.init
    <3>1. /\ repo \in [init: BOOLEAN, head: 0..n, tracking: 0..n]
          /\ n + 1 \in 0..(n + 1) /\ \A k \in 0..n : k \in 0..(n + 1)
      BY <1>1, <1>3
    <3> QED BY <2>1, <3>1
  <2> QED BY <1>2, <1>3, <2>2 DEF RepoOK
<1>5. upstream' \in 0..Len(log')
  BY <1>1, <1>2
<1> QED BY <1>1, <1>2, <1>4, <1>5 DEF DataOK

\* The commit of a command keeps the invariant.
LEMMA CommitChangesKeeps ==
  ASSUME WorkspaceInv, RepositoryOpen, CommitChanges
  PROVE  WorkspaceInv'
<1>1. /\ UNCHANGED <<store, tree, upstream, used>> /\ cmd.pc = "commit" /\ cmd \in CmdType
      /\ tree \in TreeType /\ Len(log) < MaxLog /\ (cmd.recursive => TRUE \in Recursions)
  BY DEF CommitChanges, WorkspaceInv, DataOK, CmdOK, CmdReady
<1>2. CASE EndCmd("ok") /\ UNCHANGED <<repo, log>>
  BY <1>1, <1>2, OpensKeep, EndCmdOK DEF CmdResults, WorkspaceInv
<1>3. CASE /\ store.git /\ Dirty
           /\ log' = Append(log, NewCommit) /\ repo' = [repo EXCEPT !.head = Len(log) + 1]
           /\ IF store.remote /\ cmd.op # "delete" /\ (cmd.push \/ store.autoSync)
              THEN cmd' = [cmd EXCEPT !.pc = "push"] ELSE EndCmd("ok")
  <2>1. /\ repo.init /\ repo \in [init: BOOLEAN, head: 0..Len(log), tracking: 0..Len(log)]
        /\ Len(log) \in Nat
    BY <1>1, <1>3 DEF RepositoryOpen, WorkspaceInv, DataOK, RepoOK, LogOK
  <2>2. Opened = repo
    BY <1>3, <2>1 DEF Opened
  <2>3. DataOK' /\ (\E f : Reaches(f))' /\ Len(log') = Len(log) + 1
    BY <1>1, <1>3, <2>1, <2>2, CommitsKeep
  <2>4. CASE cmd.op # "delete" /\ cmd' = [cmd EXCEPT !.pc = "push"]
    <3>1. PICK c : c = [cmd EXCEPT !.pc = "push"]
      OBVIOUS
    <3>2. c \in CmdType /\ c.pc = "push" /\ c.op = cmd.op /\ c.recursive = cmd.recursive
      BY <1>1, <3>1 DEF CmdType, CmdSteps
    <3>3. TreeAt(repo.head)' = tree
      <4>1. PICK h : h = Len(log) + 1
        OBVIOUS
      <4>2. TreeAt(h)' = tree
        BY <1>1, <1>3, <2>1, <4>1, LogGrows DEF NewCommit, WorkspaceInv, DataOK
      <4>3. repo'.head = h
        BY <1>3, <2>1, <4>1
      <4> QED BY <4>2, <4>3 DEF TreeAt
    <3>4. CmdReady(c)' /\ DeleteDone(c)' /\ OwnChangeOnly(c)'
      BY <1>1, <2>4, <3>2, <3>3 DEF CmdReady, DeleteDone, OwnChangeOnly
    <3>5. CmdOK(c)'
      BY <1>1, <3>2, <3>4 DEF CmdOK
    <3> QED BY <2>3, <2>4, <3>1, <3>5 DEF WorkspaceInv
  <2>5. CASE EndCmd("ok")
    BY <2>3, <2>5, EndCmdOK DEF CmdResults, WorkspaceInv
  <2> QED BY <1>3, <2>4, <2>5
<1> QED BY <1>2, <1>3 DEF CommitChanges

\* A command ends and at most the remote branch moves, to HEAD.
LEMMA EndsKeep ==
  ASSUME WorkspaceInv, NEW r \in CmdResults, EndCmd(r), UNCHANGED <<store, tree, log>>,
         repo' \in {repo, Opened, Fetched}, UNCHANGED used \/ Trouble,
         upstream' \in {upstream, repo.head}
  PROVE  WorkspaceInv'
<1>1. repo.head \in 0..Len(log) /\ upstream \in 0..Len(log) /\ tree \in TreeType /\ used' \in UsedType
  BY UsedKept DEF WorkspaceInv, DataOK, RepoOK
<1>2. DataOK'
  <2>1. store \in StoreType /\ repo \in [init: BOOLEAN, head: 0..Len(log), tracking: 0..Len(log)]
    BY DEF WorkspaceInv, DataOK, RepoOK
  <2>2. RepoOK'
    <3>1. CASE repo' = repo
      BY <3>1 DEF WorkspaceInv, DataOK, RepoOK
    <3>2. CASE repo' = Opened
      BY <2>1, <3>2 DEF WorkspaceInv, DataOK, RepoOK, Opened, StoreType
    <3>3. CASE repo' = Fetched
      BY <1>1, <2>1, <3>3 DEF WorkspaceInv, DataOK, RepoOK, Fetched, StoreType
    <3> QED BY <3>1, <3>2, <3>3
  <2>3. LogOK'
    BY DEF WorkspaceInv, DataOK, LogOK
  <2> QED BY <1>1, <2>1, <2>2, <2>3 DEF DataOK
<1> QED BY <1>2, EndCmdOK, LogSame DEF WorkspaceInv

\* A push, taken, rejected or failed, keeps the invariant.
LEMMA PushHeadKeeps ==
  ASSUME WorkspaceInv, NEW force \in BOOLEAN, PushHead(force), UNCHANGED <<store, tree, repo, log>>
  PROVE  WorkspaceInv'
BY EndsKeep DEF PushHead, CmdResults

\* The push of a command keeps the invariant.
LEMMA PushChangesKeeps ==
  ASSUME WorkspaceInv, PushChanges
  PROVE  WorkspaceInv'
BY PushHeadKeeps DEF PushChanges

\* A kill keeps the invariant.
LEMMA KillKeeps ==
  ASSUME WorkspaceInv, Kill
  PROVE  WorkspaceInv'
BY EndsKeep DEF Kill, CmdResults

\* repository init keeps the invariant.
LEMMA RepositoryInitKeeps ==
  ASSUME WorkspaceInv, RepositoryInit
  PROVE  WorkspaceInv'
BY EndsKeep DEF RepositoryInit, CmdResults

\* repository commit keeps the invariant.
LEMMA RepositoryCommitKeeps ==
  ASSUME WorkspaceInv, RepositoryCommit
  PROVE  WorkspaceInv'
<1>1. CASE (EndCmd("invalid") \/ EndCmd("norepo") \/ EndCmd("ok")) /\ repo' \in {repo, Opened} /\ UNCHANGED log
  BY <1>1, EndsKeep DEF RepositoryCommit, CmdResults
<1>2. CASE /\ store.git /\ Len(log) < MaxLog /\ log' = Append(log, NewCommit)
           /\ repo' = [Opened EXCEPT !.head = Len(log) + 1] /\ EndCmd("ok")
  BY <1>2, CommitsKeep, EndCmdOK DEF RepositoryCommit, CmdResults, WorkspaceInv
<1> QED BY <1>1, <1>2 DEF RepositoryCommit

\* repository push keeps the invariant.
LEMMA RepositoryPushKeeps ==
  ASSUME WorkspaceInv, NEW force \in BOOLEAN, RepositoryPush(force)
  PROVE  WorkspaceInv'
BY EndsKeep, PushHeadKeeps DEF RepositoryPush, CmdResults

\* repository status and refresh keep the invariant.
LEMMA RepositoryStatusKeeps ==
  ASSUME WorkspaceInv, NEW report \in BOOLEAN, RepositoryStatus(report)
  PROVE  WorkspaceInv'
<1>1. \A l, m : SyncState(l, m) \in CmdResults
  BY DEF SyncState, CmdResults
<1>2. "ok" \in CmdResults /\ "error" \in CmdResults
  BY DEF CmdResults
<1> QED BY <1>1, <1>2, EndsKeep DEF RepositoryStatus, Fetched

\* A commit holds a tree.
LEMMA TreeAtType ==
  ASSUME DataOK, NEW c \in 0..Len(log)
  PROVE  TreeAt(c) \in TreeType
<1>1. EmptyTree \in TreeType
  BY DEF EmptyTree, EmptyDir, TreeType, DirType
<1>2. log \in Seq([tree: TreeType, parent: Nat])
  BY DEF DataOK, LogOK
<1>3. ASSUME c # 0 PROVE log[c] \in [tree: TreeType, parent: Nat]
  <2>1. c \in 1..Len(log)
    BY <1>2, <1>3
  <2> QED BY <1>2, <2>1, ElementOfSeq
<1> QED BY <1>1, <1>3 DEF TreeAt

\* repository clean and reset keep the invariant.
LEMMA RepositoryCleanKeeps ==
  ASSUME WorkspaceInv, NEW clean \in BOOLEAN, RepositoryClean(clean)
  PROVE  WorkspaceInv'
<1>1. /\ tree \in TreeType /\ TreeAt(repo.head) \in TreeType
      /\ UNCHANGED <<store, repo, upstream, log, used>>
  BY TreeAtType DEF RepositoryClean, WorkspaceInv, DataOK, RepoOK
<1>2. tree' \in TreeType
  BY <1>1 DEF RepositoryClean, TreeType
<1>3. EndCmd("ok") \/ EndCmd("error")
  BY DEF RepositoryClean
<1> QED BY <1>1, <1>2, <1>3, OpensKeep, EndCmdOK DEF CmdResults, WorkspaceInv

\* A tree into which one payload was written: no payload file is gone.
LEMMA WrittenTree ==
  ASSUME NEW t \in TreeType, NEW p \in LogicalPaths, NEW v \in Docs,
         NEW u, u = [t EXCEPT ![p].doc["json"] = v]
  PROVE  /\ u \in TreeType
         /\ \A q \in LogicalPaths, e \in Exts : t[q].doc[e] # NoDoc => u[q].doc[e] # NoDoc
BY WorkspaceAssumption DEF TreeType, DirType

\* An edit by hand keeps the invariant.
LEMMA UserEditsKeeps ==
  ASSUME WorkspaceInv, NEW p \in LogicalPaths, NEW v \in Docs, UserEdits(p, v)
  PROVE  WorkspaceInv'
<1>1. /\ UNCHANGED <<store, repo, upstream, log, cmd>> /\ tree \in TreeType /\ CmdOK(cmd) /\ cmd \in CmdType
      /\ cmd.path \in LogicalPaths
  BY DEF UserEdits, WorkspaceInv, DataOK, CmdOK, CmdType
<1>2. /\ tree' \in TreeType
      /\ \A q \in LogicalPaths, e \in Exts : tree[q].doc[e] # NoDoc => tree'[q].doc[e] # NoDoc
  <2>1. tree' = [tree EXCEPT ![p].doc["json"] = v] /\ tree \in TreeType
    BY <1>1 DEF UserEdits
  <2>2. tree' \in TreeType
    BY <2>1, WorkspaceAssumption DEF TreeType, DirType
  <2>3. \A q \in LogicalPaths, e \in Exts : tree[q].doc[e] # NoDoc => tree'[q].doc[e] # NoDoc
    BY <2>1, WorkspaceAssumption DEF TreeType, DirType
  <2> QED BY <2>2, <2>3
<1>3. DataOK' /\ (\E f : Reaches(f))'
  <2>1. used' \in UsedType
    BY UsedKept DEF UserEdits, WorkspaceInv
  <2> QED BY <1>1, <1>2, <2>1, DataKept, LogSame DEF WorkspaceInv
<1>4. CmdReady(cmd)'
  BY <1>1, <1>2 DEF CmdOK, CmdReady
<1>5. CASE cmd.pc = "idle"
  BY <1>1, <1>3, <1>4, <1>5 DEF CmdOK, OwnChangeOnly, DeleteDone, WorkspaceInv
<1>6. CASE EditsAnytime
  BY <1>1, <1>3, <1>4, <1>6 DEF CmdOK, WorkspaceInv
<1> QED BY <1>5, <1>6 DEF UserEdits

\* A push of the other clone keeps the invariant.
LEMMA OtherPushesKeeps ==
  ASSUME WorkspaceInv, NEW p \in LogicalPaths, NEW v \in Docs, OtherPushes(p, v)
  PROVE  WorkspaceInv'
<1>1. /\ UNCHANGED <<store, tree, repo, cmd>> /\ tree \in TreeType /\ CmdOK(cmd)
      /\ upstream \in 0..Len(log) /\ TreeAt(upstream) \in TreeType /\ Len(log) \in Nat
      /\ repo \in [init: BOOLEAN, head: 0..Len(log), tracking: 0..Len(log)]
      /\ repo.head # 0 => store.git /\ repo.init
      /\ store \in StoreType
  BY TreeAtType DEF OtherPushes, WorkspaceInv, DataOK, RepoOK, LogOK
<1>2. PICK t \in TreeType : t = [TreeAt(upstream) EXCEPT ![p].doc["json"] = v]
  <2>1. PICK u : u = [TreeAt(upstream) EXCEPT ![p].doc["json"] = v]
    OBVIOUS
  <2>2. u \in TreeType
    BY <1>1, <2>1, WrittenTree
  <2> QED BY <2>1, <2>2
<1>3. /\ log' = Append(log, [tree |-> t, parent |-> upstream]) /\ upstream' = Len(log) + 1
      /\ Len(log) < MaxLog /\ (cmd.pc # "idle" => Len(log) < MaxLog - 1)
  BY <1>1, <1>2, WorkspaceAssumption DEF OtherPushes
<1>4. /\ LogOK' /\ (\E f : Reaches(f))' /\ Len(log') = Len(log) + 1
      /\ \A c \in 0..Len(log) : TreeAt(c)' = TreeAt(c)
  BY <1>1, <1>3, LogGrows
<1>5. used' \in UsedType
  BY UsedKept DEF OtherPushes, WorkspaceInv
<1>6. DataOK'
  <2>1. repo' \in [init: BOOLEAN, head: 0..Len(log'), tracking: 0..Len(log')]
    BY <1>1, <1>4
  <2>2. RepoOK'
    BY <1>1, <2>1 DEF RepoOK
  <2>3. upstream' \in 0..Len(log')
    BY <1>1, <1>3, <1>4
  <2> QED BY <1>1, <1>4, <1>5, <2>2, <2>3 DEF DataOK
<1>7. TreeAt(repo.head)' = TreeAt(repo.head)
  <2>1. PICK h \in 0..Len(log) : h = repo.head
    BY <1>1
  <2>2. TreeAt(h)' = TreeAt(h) /\ repo'.head = h
    BY <1>1, <1>4, <2>1
  <2> QED BY <2>1, <2>2 DEF TreeAt
<1>8. CmdReady(cmd)'
  BY <1>1, <1>3, <1>4, WorkspaceAssumption DEF CmdOK, CmdReady
<1>9. ~EditsAnytime => OwnChangeOnly(cmd)' /\ DeleteDone(cmd)'
  BY <1>1, <1>7 DEF CmdOK, OwnChangeOnly, DeleteDone, Present, PayloadFiles
<1> QED BY <1>1, <1>4, <1>6, <1>8, <1>9 DEF CmdOK, WorkspaceInv

\* The invariant holds at first.
LEMMA WorkspaceInitInv ==
  ASSUME WorkspaceInit
  PROVE  WorkspaceInv /\ RepositoryOpen
<1>1. IdleCmd \in CmdType /\ IdleCmd.pc = "idle" /\ IdleCmd.op = "none" /\ IdleCmd.recursive = FALSE
  BY FirstPath DEF IdleCmd, CmdType, CmdSteps, CmdOps, CmdResults
<1>2. CmdOK(cmd) /\ RepositoryOpen
  BY <1>1 DEF WorkspaceInit, CmdOK, CmdReady, OwnChangeOnly, DeleteDone, RepositoryOpen
<1>3. log = <<>> /\ Len(log) = 0 /\ log \in Seq([tree: TreeType, parent: Nat]) /\ DOMAIN log = {}
  BY DEF WorkspaceInit
<1>4. LogOK
  BY <1>3, WorkspaceAssumption DEF LogOK
<1>5. RepoOK /\ upstream \in 0..Len(log)
  BY <1>3 DEF WorkspaceInit, RepoOK
<1>6. tree \in TreeType /\ store \in StoreType /\ used \in UsedType
  BY WorkspaceAssumption DEF WorkspaceInit, EmptyTree, EmptyDir, TreeType, DirType, StoreType, UsedType
<1>7. \E f : Reaches(f)
  <2>1. PICK f : f = [c \in {0} |-> {}]
    OBVIOUS
  <2>2. 0..Len(log) = {0}
    BY <1>3
  <2>3. f = [c \in 0..Len(log) |-> IF c = 0 THEN {} ELSE {c} \cup f[log[c].parent]]
    BY <2>1, <2>2
  <2> QED BY <2>3 DEF Reaches
<1> QED BY <1>2, <1>4, <1>5, <1>6, <1>7 DEF WorkspaceInv, DataOK

\* Every step keeps the invariant.
LEMMA StepKeepsInv ==
  ASSUME WorkspaceInv, RepositoryOpen, WorkspaceNext
  PROVE  WorkspaceInv'
<1>1. CASE \/ \E p \in LogicalPaths, v \in Docs \cup {NoDoc}, e \in Exts \cup {"any"}, a, f, u \in BOOLEAN :
                Save(p, v, e, a, f, u)
           \/ \E p, q \in LogicalPaths, f \in BOOLEAN : Copy(p, q, f)
           \/ \E p \in LogicalPaths : Edit(p)
           \/ \E p \in LogicalPaths, all \in BOOLEAN, r \in Recursions : Delete(p, all, r)
  BY <1>1, StartsKeep
<1>2. CASE RepositoryInit \/ RepositoryCommit
  BY <1>2, RepositoryInitKeeps, RepositoryCommitKeeps
<1>3. CASE \E f \in BOOLEAN : RepositoryPush(f) \/ RepositoryClean(f) \/ RepositoryStatus(f)
  BY <1>3, RepositoryPushKeeps, RepositoryCleanKeeps, RepositoryStatusKeeps
<1>4. CASE EnsureClean \/ Guard \/ WriteArtifact \/ WriteTemp \/ RenameTemp \/ PruneOld
  BY <1>4, EnsureCleanKeeps, GuardKeeps, WriteArtifactKeeps, WriteTempKeeps, RenameTempKeeps,
     PruneOldKeeps
<1>5. CASE RemovePayload \/ CommitChanges \/ PushChanges \/ Kill
  BY <1>5, RemovePayloadKeeps, CommitChangesKeeps, PushChangesKeeps, KillKeeps
<1>6. CASE \E v \in Docs : LeaveEditor(v)
  BY <1>6, LeaveEditorKeeps
<1>7. CASE \E p \in LogicalPaths, v \in Docs : UserEdits(p, v) \/ OtherPushes(p, v)
  BY <1>7, UserEditsKeeps, OtherPushesKeeps
<1> QED BY <1>1, <1>2, <1>3, <1>4, <1>5, <1>6, <1>7 DEF WorkspaceNext

Writing == {"artifact", "write", "rename", "prune", "commit"}

\* Every step leaves a command that writes with an initialized repository.
LEMMA StepKeepsOpen ==
  ASSUME WorkspaceInv, RepositoryOpen, WorkspaceNext
  PROVE  RepositoryOpen'
<1>1. /\ cmd \in CmdType /\ store \in StoreType
      /\ repo \in [init: BOOLEAN, head: 0..Len(log), tracking: 0..Len(log)]
  BY DEF WorkspaceInv, DataOK, RepoOK, CmdOK
<1>2. ASSUME cmd'.pc \notin Writing PROVE RepositoryOpen'
  BY <1>2 DEF RepositoryOpen, Writing
<1>3. ASSUME NEW r, EndCmd(r) PROVE RepositoryOpen'
  BY <1>2, <1>3 DEF EndCmd, IdleCmd, Writing
<1>4. ASSUME UNCHANGED store, repo' = Opened PROVE RepositoryOpen'
  BY <1>1, <1>4 DEF Opened, RepositoryOpen, StoreType
<1>5. ASSUME UNCHANGED <<store, repo>>, cmd.pc \in Writing \/ UNCHANGED cmd PROVE RepositoryOpen'
  BY <1>5 DEF RepositoryOpen, Writing
<1>6. ASSUME NEW c, c.pc = "clean", StartCmd(c) PROVE RepositoryOpen'
  BY <1>2, <1>3, <1>6 DEF StartCmd, Writing
<1>7. CASE \/ \E p \in LogicalPaths, v \in Docs \cup {NoDoc}, e \in Exts \cup {"any"}, a, f, u \in BOOLEAN :
                Save(p, v, e, a, f, u)
           \/ \E p, q \in LogicalPaths, f \in BOOLEAN : Copy(p, q, f)
           \/ \E p \in LogicalPaths : Edit(p)
           \/ \E p \in LogicalPaths, all \in BOOLEAN, r \in Recursions : Delete(p, all, r)
  BY <1>6, <1>7 DEF Save, Copy, Edit, Delete, IdleCmd
<1>8. CASE RepositoryInit \/ RepositoryCommit
  BY <1>3, <1>8 DEF RepositoryInit, RepositoryCommit
<1>9. CASE \E f \in BOOLEAN : RepositoryPush(f) \/ RepositoryClean(f) \/ RepositoryStatus(f)
  BY <1>3, <1>9 DEF RepositoryPush, PushHead, RepositoryClean, RepositoryStatus
<1>10. CASE EnsureClean
  <2>1. ASSUME Proceed PROVE RepositoryOpen'
    BY <1>1, <1>2, <1>3, <2>1 DEF Proceed, Writing, CmdType
  <2> QED BY <1>3, <1>10, <2>1 DEF EnsureClean
<1>11. CASE Guard
  BY <1>3, <1>4, <1>11 DEF Guard
<1>12. CASE WriteArtifact \/ WriteTemp \/ RenameTemp \/ PruneOld
  BY <1>5, <1>12 DEF WriteArtifact, WriteTemp, RenameTemp, PruneOld, Writing
<1>13. CASE RemovePayload
  BY <1>3, <1>4, <1>13 DEF RemovePayload
<1>14. CASE CommitChanges
  <2>1. ASSUME cmd' = [cmd EXCEPT !.pc = "push"] PROVE RepositoryOpen'
    BY <1>1, <1>2, <2>1 DEF CmdType, Writing
  <2> QED BY <1>3, <1>14, <2>1 DEF CommitChanges
<1>15. CASE PushChanges \/ Kill
  BY <1>3, <1>15 DEF PushChanges, PushHead, Kill
<1>16. CASE \E v \in Docs : LeaveEditor(v)
  BY <1>1, <1>2, <1>16 DEF LeaveEditor, CmdType, Writing
<1>17. CASE \E p \in LogicalPaths, v \in Docs : UserEdits(p, v) \/ OtherPushes(p, v)
  BY <1>5, <1>17 DEF UserEdits, OtherPushes
<1> QED BY <1>7, <1>8, <1>9, <1>10, <1>11, <1>12, <1>13, <1>14, <1>15, <1>16, <1>17 DEF WorkspaceNext

\* The inductive invariant of the working copy (fsstore and git providers).
THEOREM WorkspaceInvariant == WorkspaceSpec => [](WorkspaceInv /\ RepositoryOpen)
<1>1. WorkspaceInit => WorkspaceInv /\ RepositoryOpen
  BY WorkspaceInitInv
<1>2. WorkspaceInv /\ RepositoryOpen /\ [WorkspaceNext]_workspaceVars => (WorkspaceInv /\ RepositoryOpen)'
  <2>1. ASSUME WorkspaceInv, RepositoryOpen, UNCHANGED workspaceVars PROVE (WorkspaceInv /\ RepositoryOpen)'
    <3>1. UNCHANGED <<store, tree, repo, upstream, log, cmd, used>>
      BY <2>1 DEF workspaceVars
    <3>2. DataOK' /\ RepositoryOpen' /\ (\E f : Reaches(f))'
      BY <2>1, <3>1, LogSame DEF WorkspaceInv, DataOK, LogOK, RepoOK, RepositoryOpen
    <3>3. CmdOK(cmd)'
      BY <2>1, <3>1 DEF WorkspaceInv, CmdOK, CmdReady, OwnChangeOnly, DeleteDone, TreeAt, Present, PayloadFiles
    <3> QED BY <3>2, <3>3 DEF WorkspaceInv
  <2> QED BY <2>1, StepKeepsInv, StepKeepsOpen
<1> QED BY <1>1, <1>2, PTL DEF WorkspaceSpec

\* Payload files, commits, branches and commands are always well formed.
THEOREM WorkspaceTypes == WorkspaceSpec => []WorkspaceTypeOK
<1>1. WorkspaceInv => WorkspaceTypeOK
  <2> SUFFICES ASSUME WorkspaceInv PROVE WorkspaceTypeOK
    OBVIOUS
  <2>1. /\ log \in Seq([tree: TreeType, parent: Nat]) /\ Len(log) <= MaxLog /\ Len(log) \in Nat
        /\ \A c \in DOMAIN log : log[c].parent < c
    BY DEF WorkspaceInv, DataOK, LogOK
  <2>2. \A c \in DOMAIN log : log[c].tree \in TreeType /\ log[c].parent \in 0..(c - 1)
    <3>1. DOMAIN log = 1..Len(log)
      BY <2>1, LenProperties
    <3>2. \A c \in 1..Len(log) : log[c] \in [tree: TreeType, parent: Nat]
      BY <2>1, ElementOfSeq
    <3> QED BY <2>1, <3>1, <3>2
  <2>3. repo \in [init: BOOLEAN, head: 0..MaxLog, tracking: 0..MaxLog]
    <3>1. repo \in [init: BOOLEAN, head: 0..Len(log), tracking: 0..Len(log)]
      BY DEF WorkspaceInv, DataOK, RepoOK
    <3>2. \A k \in 0..Len(log) : k \in 0..MaxLog
      BY <2>1, WorkspaceAssumption
    <3> QED BY <3>1, <3>2
  <2> QED BY <2>1, <2>2, <2>3 DEF WorkspaceInv, DataOK, CmdOK, WorkspaceTypeOK, UsedType
<1> QED BY <1>1, WorkspaceInvariant, PTL

\* A resource whose files stay stays.
LEMMA KeepsPresent ==
  ASSUME NEW p \in LogicalPaths, tree'[p].doc = tree[p].doc
  PROVE  Present(p)' = Present(p)
BY DEF Present, PayloadFiles

\* A step that takes the last payload of a resource away is a deletion, or a
\* command that discards changes.
LEMMA StepKeepsResource ==
  ASSUME WorkspaceInv, WorkspaceNext, NEW p \in LogicalPaths, Present(p), ~Present(p)'
  PROVE  (cmd.pc = "remove" /\ (cmd.all \/ cmd.path = p)) \/ cmd.pc = "idle"
<1>1. tree \in TreeType /\ cmd \in CmdType /\ cmd.path \in LogicalPaths
  BY DEF WorkspaceInv, DataOK, CmdOK, CmdType
<1>2. ASSUME UNCHANGED tree PROVE FALSE
  BY <1>2, KeepsPresent
<1>3. CASE WriteArtifact \/ WriteTemp
  <2>1. tree'[p].doc = tree[p].doc
    BY <1>1, <1>3 DEF WriteArtifact, WriteTemp, TreeType, DirType
  <2> QED BY <2>1, KeepsPresent
<1>4. CASE RenameTemp
  <2>1. CASE tree' = [tree EXCEPT ![cmd.path] = RenamedDir(@)]
    <3>1. /\ \A q \in LogicalPaths \ {cmd.path} : tree'[q] = tree[q]
          /\ tree'[cmd.path].doc = [tree[cmd.path].doc EXCEPT ![cmd.ext] = cmd.value]
          /\ cmd.ext \in Exts /\ cmd.value \in Docs
      BY <1>4, <2>1, RenamedTree DEF RenameTemp
    <3>2. CASE p # cmd.path
      BY <3>1, <3>2, KeepsPresent
    <3>3. CASE p = cmd.path
      <4>1. tree'[p].doc[cmd.ext] = cmd.value
        BY <1>1, <3>1, <3>3 DEF TreeType, DirType
      <4>2. Present(p)'
        BY <3>1, <4>1, WorkspaceAssumption DEF Present, PayloadFiles
      <4> QED BY <4>2
    <3> QED BY <3>2, <3>3
  <2>2. CASE tree' = [tree EXCEPT ![cmd.path].temp = FALSE]
    <3>1. tree'[p].doc = tree[p].doc
      BY <1>1, <2>2 DEF TreeType, DirType
    <3> QED BY <3>1, KeepsPresent
  <2> QED BY <1>4, <2>1, <2>2 DEF RenameTemp
<1>5. CASE PruneOld
  <2>1. CASE p # cmd.path
    BY <1>5, <2>1, PrunedTree, KeepsPresent
  <2>2. CASE p = cmd.path
    BY <1>5, <2>2, PrunedTree DEF Present, PayloadFiles
  <2> QED BY <2>1, <2>2
<1>6. CASE RemovePayload
  <2>1. cmd.pc = "remove"
    BY <1>6 DEF RemovePayload
  <2>2. CASE ~cmd.all /\ cmd.path # p
    <3>1. CASE UNCHANGED tree
      BY <1>2, <3>1
    <3>2. CASE tree' = IF ~cmd.all /\ HasConflict(cmd.path) THEN tree ELSE RemovedTree
      BY <2>1, <2>2, <3>2, RemovedTreeDone, KeepsPresent
    <3> QED BY <1>6, <3>1, <3>2 DEF RemovePayload
  <2> QED BY <2>1, <2>2
<1>7. CASE \E q \in LogicalPaths, v \in Docs : UserEdits(q, v)
  <2>1. PICK q \in LogicalPaths, v \in Docs : UserEdits(q, v)
    BY <1>7
  <2>2. PICK u : u = tree' /\ u = [tree EXCEPT ![q].doc["json"] = v]
    BY <2>1 DEF UserEdits
  <2>3. \A e \in Exts : tree[p].doc[e] # NoDoc => tree'[p].doc[e] # NoDoc
    BY <1>1, <2>2, WorkspaceAssumption DEF TreeType, DirType
  <2> QED BY <2>3 DEF Present, PayloadFiles
<1>8. CASE \/ EnsureClean \/ Guard \/ CommitChanges \/ PushChanges \/ Kill
           \/ (\E v \in Docs : LeaveEditor(v))
           \/ \E q \in LogicalPaths, v \in Docs : OtherPushes(q, v)
  BY <1>2, <1>8 DEF EnsureClean, Guard, CommitChanges, PushChanges, Kill, LeaveEditor, OtherPushes
<1>9. CASE cmd.pc = "idle"
  BY <1>9
<1> QED BY <1>3, <1>4, <1>5, <1>6, <1>7, <1>8, <1>9 DEF WorkspaceNext

\* Whatever step a save is killed at, a resource keeps a payload (Save and
\* writeFileAtomically in fsstore), whoever edits files meanwhile.
THEOREM ResourcesKept == WorkspaceSpec => ResourceKept
<1> DEFINE A == \A p \in LogicalPaths : Present(p) /\ ~Present(p)' =>
                  \/ cmd.pc = "remove" /\ (cmd.all \/ cmd.path = p)
                  \/ cmd.pc = "idle"
<1>1. WorkspaceInv /\ WorkspaceNext => A
  BY StepKeepsResource
<1>2. WorkspaceInv /\ [WorkspaceNext]_workspaceVars => [A]_workspaceVars
  BY <1>1
<1>3. WorkspaceSpec => [][A]_workspaceVars
  BY <1>2, WorkspaceInvariant, PTL DEF WorkspaceSpec
<1> QED BY <1>3 DEF ResourceKept

\* The same of the state after a step.
LEMMA AncestorsUnfoldNext ==
  ASSUME (\E f : Reaches(f))'
  PROVE  \A c \in 0..Len(log') :
           Ancestors'[c] = IF c = 0 THEN {} ELSE {c} \cup Ancestors'[log'[c].parent]
<1>1. Reaches(Ancestors)'
  BY Zenon DEF Ancestors, Reaches
<1> QED BY <1>1 DEF Reaches

\* A step at the push of a command drops nothing from the remote.
LEMMA StepKeepsHistory ==
  ASSUME WorkspaceInv, RepositoryOpen, WorkspaceNext, cmd.pc = "push", upstream # 0
  PROVE  upstream \in Ancestors'[upstream']
<1>1. /\ upstream \in 0..Len(log) /\ Len(log) \in Nat /\ (\E f : Reaches(f))'
  BY StepKeepsInv DEF WorkspaceInv, DataOK, LogOK
<1>2. ASSUME UNCHANGED <<upstream, log>> PROVE upstream \in Ancestors'[upstream']
  BY <1>1, <1>2, AncestorsUnfoldNext
<1>3. CASE PushChanges
  <2>1. UNCHANGED log
    BY <1>3 DEF PushChanges
  <2>2. CASE UNCHANGED upstream
    BY <1>2, <2>1, <2>2
  <2>3. CASE Accepts(FALSE) /\ upstream' = repo.head
    <3>1. upstream \in Ancestors[repo.head]
      BY <2>3 DEF Accepts
    <3>2. Ancestors' = Ancestors
      BY <2>1 DEF Ancestors
    <3> QED BY <2>3, <3>1, <3>2
  <2> QED BY <1>3, <2>2, <2>3 DEF PushChanges, PushHead
<1>4. CASE \E p \in LogicalPaths, v \in Docs : OtherPushes(p, v)
  <2>1. PICK p \in LogicalPaths, v \in Docs : OtherPushes(p, v)
    BY <1>4
  <2>2. PICK e : e = [tree |-> [TreeAt(upstream) EXCEPT ![p].doc["json"] = v], parent |-> upstream]
    OBVIOUS
  <2>3. log' = Append(log, e) /\ upstream' = Len(log) + 1 /\ e.parent = upstream
    BY <2>1, <2>2 DEF OtherPushes
  <2>4. Len(log') = Len(log) + 1 /\ log'[Len(log) + 1] = e
    <3>1. log \in Seq([tree: TreeType, parent: Nat]) /\ upstream \in Nat /\ TreeAt(upstream) \in TreeType
      BY <1>1, TreeAtType DEF WorkspaceInv, DataOK, LogOK
    <3>2. PICK t : t = [TreeAt(upstream) EXCEPT ![p].doc["json"] = v]
      OBVIOUS
    <3>3. t \in TreeType
      BY <3>1, <3>2, WrittenTree
    <3>4. e \in [tree: TreeType, parent: Nat]
      BY <2>2, <3>1, <3>2, <3>3
    <3> QED BY <2>3, <3>1, <3>4, AppendProperties
  <2>5. /\ upstream' \in 0..Len(log') /\ upstream' # 0 /\ log'[upstream'].parent = upstream
        /\ upstream \in 0..Len(log')
    BY <1>1, <2>3, <2>4
  <2>6. \A c \in 0..Len(log') :
          Ancestors'[c] = IF c = 0 THEN {} ELSE {c} \cup Ancestors'[log'[c].parent]
    BY <1>1, AncestorsUnfoldNext
  <2>7. upstream \in Ancestors'[upstream] /\ Ancestors'[upstream] \subseteq Ancestors'[upstream']
    BY <2>5, <2>6
  <2> QED BY <2>7
<1>5. CASE Kill \/ \E p \in LogicalPaths, v \in Docs : UserEdits(p, v)
  BY <1>2, <1>5 DEF Kill, UserEdits
<1> QED
  BY <1>3, <1>4, <1>5 DEF WorkspaceNext, EnsureClean, Guard, WriteArtifact, WriteTemp, RenameTemp,
     PruneOld, RemovePayload, CommitChanges, LeaveEditor

\* A push that is not forced drops nothing from the history of the remote (git
\* provider), however the other clone pushes meanwhile.
THEOREM RemoteKept == WorkspaceSpec => RemoteHistoryKept
<1> DEFINE A == cmd.pc = "push" => upstream = 0 \/ upstream \in Ancestors'[upstream']
<1>1. WorkspaceInv /\ RepositoryOpen /\ WorkspaceNext => A
  BY StepKeepsHistory
<1>2. WorkspaceInv /\ RepositoryOpen /\ [WorkspaceNext]_workspaceVars => [A]_workspaceVars
  BY <1>1
<1>3. WorkspaceSpec => [][A]_workspaceVars
  BY <1>2, WorkspaceInvariant, PTL DEF WorkspaceSpec
<1> QED BY <1>3 DEF RemoteHistoryKept

\* The four promises about the repository, when nobody edits files while a command
\* runs and no collection is deleted recursively (save, delete and the commit after
\* them).
THEOREM CommandsKeepRepository ==
  ASSUME ~EditsAnytime, TRUE \notin Recursions
  PROVE  WorkspaceSpec => RepositoryKept
<1> DEFINE A == cmd.pc = "commit" /\ repo'.head # repo.head /\ repo.head # 0 =>
                  \A p \in LogicalPaths : tree[p] # TreeAt(repo.head)[p] => cmd.all \/ p = cmd.path
           B == cmd.op = "delete" /\ cmd.pc = "commit" /\ cmd'.result = "ok" =>
                  \A p \in LogicalPaths : (cmd.all \/ p = cmd.path) => ~Present(p)
<1>1. WorkspaceInv => A
  BY DEF WorkspaceInv, CmdOK, OwnChangeOnly
<1>2. WorkspaceInv => B
  BY DEF WorkspaceInv, CmdOK, DeleteDone, CmdType
<1>3. WorkspaceInv => [A]_workspaceVars /\ [B]_workspaceVars
  BY <1>1, <1>2
<1>4. WorkspaceSpec => [][A]_workspaceVars /\ [][B]_workspaceVars
  BY <1>3, WorkspaceInvariant, PTL
<1>5. WorkspaceSpec => CommitOwnChange /\ DeletedIsGone
  BY <1>4 DEF CommitOwnChange, DeletedIsGone
<1> QED BY <1>5, ResourcesKept, RemoteKept DEF RepositoryKept

-----------------------------------------------------------------------------
(***************************************************************************)
(* Saving with secrets.                                                     *)
(***************************************************************************)

SaveDataOK ==
  /\ kind \in StoreKinds /\ secret \in Stored /\ dropped \subseteq Keys
  /\ cache \in [Processes -> [read: BOOLEAN, map: Stored]]
  /\ docs \in [Processes -> [Items -> DocType]]
  /\ itemMeta \in [Processes -> [Items -> LevelType]] /\ collMeta \in [Processes -> LevelType]
  /\ saveUsed \in [saves: 0..MaxSaves, breaks: 0..MaxBreaks]
  /\ \A s \in Processes, i \in Items : ~itemMeta[s][i].set => itemMeta[s][i].attrs = {}

\* The attributes declared for an entry of a task.
DeclaredBy(s, t, i) == IF t.list THEN collMeta[s].attrs ELSE ResolveDeclaredAttributes(s, i)

\* A plaintext attribute of an entry still to be written: what is selected is
\* still to be stored, what is declared is selected, and what looks like a secret
\* is selected, or left for the check, which lets only declared ones pass.
Handled(s, t, i, a) ==
  /\ a \in t.selected => <<i, a>> \in t.todo
  /\ t.requested = {} /\ a \in DeclaredBy(s, t, i) => a \in t.selected
  /\ a \in Looks => a \in t.selected \/ a \in t.unhandled
  /\ t.pc = "write" /\ ~t.allow /\ a \in Looks => a \in DeclaredBy(s, t, i)

TaskOK(s, t) ==
  /\ t \in TaskType
  /\ \A i \in Items : t.entries[i].kind # "whole"
  /\ \A k \in t.todo : k \in Items \X Attrs /\ t.entries[k[1]].attrs[k[2]] \in Plains
  /\ t.pc # "store" => t.todo = {}
  /\ ~t.list \/ t.pc \in {"whole", "wholeWrite", "wholeMeta"} => \A i, j \in t.left : i = j
  /\ t.pc \in {"store", "check", "write"} =>
       \A i \in t.left, a \in Attrs : t.entries[i].attrs[a] \in Plains => Handled(s, t, i, a)

SavingInv ==
  /\ SaveDataOK /\ task \in [Processes -> TaskType]
  /\ \A s \in Processes : TaskOK(s, task[s])

\* A secret that is in the store, or was deleted from there.
Safe(k) == secret[k] # "none" \/ k \in dropped

\* What a task is about to write as a placeholder is stored.
PlaceholdersBacked(t) ==
  /\ \A i \in Items, a \in Attrs : t.entries[i].attrs[a] = "mask" => Safe(<<i, a>>)
  /\ t.pc \in {"wholeWrite", "wholeMeta"} => \A i \in t.left : Safe(<<i, ".">>)

\* No snapshot is older than the file.
SnapshotsFresh ==
  kind = "file" => \A s \in Processes :
    /\ cache[s].read => cache[s].map = secret
    /\ task[s].pc = "idle" => ~cache[s].read

BackedInv == PlaceholderStored /\ SnapshotsFresh /\ \A s \in Processes : PlaceholdersBacked(task[s])

\* A plaintext value is neither absent nor a placeholder.
LEMMA PlainIsPlain ==
  ASSUME NEW v \in Plains \cup {"absent", "mask"}
  PROVE  IsPlain(v) <=> v \in Plains
BY SaveAssumption DEF IsPlain

\* The fields of a process that runs nothing.
LEMMA IdleTaskOK ==
  /\ IdleTask \in TaskType /\ IdleTask.pc = "idle" /\ IdleTask.todo = {} /\ IdleTask.left = {}
  /\ \A i \in Items : IdleTask.entries[i] = Missing
  /\ Missing \in DocType /\ \A a \in Attrs : Missing.attrs[a] = "absent"
<1>1. Blank \in PayloadType /\ \A a \in Attrs : Blank[a] = "absent"
  BY DEF Blank, PayloadType
<1>2. Missing \in DocType /\ Missing.attrs = Blank
  BY <1>1 DEF Missing, DocType
<1>3. IdleTask \in TaskType
  BY <1>2 DEF IdleTask, TaskType, TaskSteps
<1> QED BY <1>1, <1>2, <1>3 DEF IdleTask

\* A process that runs nothing satisfies what is asked of tasks.
LEMMA IdleOK ==
  ASSUME NEW s \in Processes
  PROVE  TaskOK(s, IdleTask) /\ TaskOK(s, IdleTask)'
<1>1. Missing.kind = "missing"
  BY DEF Missing
<1> QED BY <1>1, IdleTaskOK DEF TaskOK

\* A step of one process, on its own clone.
LEMMA TaskStep ==
  ASSUME SavingInv, NEW s \in Processes, NEW t, task' = [task EXCEPT ![s] = t], SaveDataOK', TaskOK(s, t)',
         \A r \in Processes \ {s} : itemMeta'[r] = itemMeta[r] /\ collMeta'[r] = collMeta[r]
  PROVE  SavingInv'
<1>1. t \in TaskType
  BY DEF TaskOK
<1>2. task \in [Processes -> TaskType]
  BY DEF SavingInv
<1>3. task' \in [Processes -> TaskType] /\ task'[s] = t /\ \A r \in Processes \ {s} : task'[r] = task[r]
  BY <1>1, <1>2
<1>4. ASSUME NEW r \in Processes PROVE TaskOK(r, task[r])'
  <2>1. PICK u : u = task'[r]
    OBVIOUS
  <2>2. CASE r = s
    <3>1. u = t
      BY <1>3, <2>1, <2>2
    <3>2. TaskOK(r, u)'
      BY <2>2, <3>1
    <3> QED BY <2>1, <3>2 DEF TaskOK, Handled, DeclaredBy, ResolveDeclaredAttributes
  <2>3. CASE r # s
    <3>1. u = task[r]
      BY <1>3, <2>1, <2>3
    <3>2. TaskOK(r, u)
      BY <3>1 DEF SavingInv
    <3>3. TaskOK(r, u)'
      BY <2>3, <3>2 DEF TaskOK, Handled, DeclaredBy, ResolveDeclaredAttributes
    <3> QED BY <2>1, <3>3 DEF TaskOK, Handled, DeclaredBy, ResolveDeclaredAttributes
  <2> QED BY <2>2, <2>3
<1> QED BY <1>3, <1>4 DEF SavingInv

SaveUsedType == [saves: 0..MaxSaves, breaks: 0..MaxBreaks]
CacheType == [Processes -> [read: BOOLEAN, map: Stored]]

\* Commands and failures stay within their bounds.
LEMMA SaveUsedKept ==
  ASSUME SaveDataOK, UNCHANGED saveUsed \/ Break \/ Command
  PROVE  saveUsed' \in SaveUsedType
BY SaveAssumption DEF SaveDataOK, SaveUsedType, Break, Command

\* The data after a step that changes no metadata.
LEMMA SaveDataKept ==
  ASSUME SaveDataOK, UNCHANGED <<kind, itemMeta, collMeta>>, secret' \in Stored, dropped' \subseteq Keys,
         cache' \in CacheType, docs' \in [Processes -> [Items -> DocType]],
         UNCHANGED saveUsed \/ Break \/ Command
  PROVE  SaveDataOK'
<1>1. saveUsed' \in SaveUsedType
  BY SaveUsedKept
<1> QED BY <1>1 DEF SaveDataOK, SaveUsedType, CacheType

\* A process that ends forgets its snapshot.
LEMMA CacheEnded ==
  ASSUME SaveDataOK, NEW s \in Processes, EndTask(s)
  PROVE  cache' \in CacheType /\ cache' = [cache EXCEPT ![s] = Unread] /\ Unread.read = FALSE
<1>1. Unread \in [read: BOOLEAN, map: Stored] /\ Unread.read = FALSE
  BY DEF Unread, Stored
<1> QED BY <1>1 DEF SaveDataOK, CacheType, EndTask

\* A command ends and at most a resource was written.
LEMMA EndTaskKeeps ==
  ASSUME SavingInv, NEW s \in Processes, EndTask(s), UNCHANGED <<kind, itemMeta, collMeta, secret, dropped>>,
         docs' \in [Processes -> [Items -> DocType]], UNCHANGED saveUsed \/ Break
  PROVE  SavingInv'
<1>1. SaveDataOK'
  BY CacheEnded, SaveDataKept DEF SavingInv, SaveDataOK
<1> QED BY <1>1, IdleOK, TaskStep DEF EndTask

\* A command begins: only the task is new.
LEMMA BeginKeeps ==
  ASSUME SavingInv, NEW s \in Processes, NEW t, task' = [task EXCEPT ![s] = t], TaskOK(s, t),
         UNCHANGED <<kind, docs, itemMeta, collMeta, secret, cache, dropped>>,
         UNCHANGED saveUsed \/ Break \/ Command
  PROVE  SavingInv'
<1>1. SaveDataOK'
  BY SaveDataKept DEF SavingInv, SaveDataOK, CacheType
<1>2. TaskOK(s, t)'
  BY DEF TaskOK, Handled, DeclaredBy, ResolveDeclaredAttributes
<1> QED BY <1>1, <1>2, TaskStep

\* What is declared are attributes.
LEMMA DeclaredIn ==
  ASSUME SaveDataOK, NEW s \in Processes, NEW i \in Items
  PROVE  ResolveDeclaredAttributes(s, i) \subseteq Attrs /\ collMeta[s].attrs \subseteq Attrs
BY DEF SaveDataOK, ResolveDeclaredAttributes, LevelType

\* What is detected in one payload: plaintext that looks like a secret or is
\* declared, all of it.
LEMMA Detected ==
  ASSUME NEW payload \in PayloadType, NEW declared \in SUBSET Attrs
  PROVE  /\ DetectSaveSecretCandidates(payload, declared) \subseteq {a \in Attrs : payload[a] \in Plains}
         /\ \A a \in Attrs : payload[a] \in Plains /\ (a \in Looks \/ a \in declared) =>
              a \in DetectSaveSecretCandidates(payload, declared)
<1>1. \A a \in Attrs : IsPlain(payload[a]) <=> payload[a] \in Plains
  BY PlainIsPlain DEF PayloadType
<1> QED BY <1>1, SaveAssumption
        DEF DetectSaveSecretCandidates, DetectHeuristic, DetectMetadataSecretCandidates

\* The start of a save of one resource: all of what is declared is selected.
LEMMA SaveOneKeeps ==
  ASSUME SavingInv, NEW s \in Processes, NEW i \in Items, NEW payload \in PayloadType, NEW enabled \in BOOLEAN,
         NEW requested \in RequestSets, NEW allow \in BOOLEAN, NEW force \in BOOLEAN,
         SaveOne(s, i, payload, enabled, requested, allow, force)
  PROVE  SavingInv'
<1>1. PICK declared : declared = ResolveDeclaredAttributes(s, i)
  OBVIOUS
<1>2. declared \in SUBSET Attrs
  BY <1>1, DeclaredIn DEF SavingInv
<1>3. PICK candidates : candidates = DetectSaveSecretCandidates(payload, declared)
  OBVIOUS
<1>4. /\ candidates \subseteq {a \in Attrs : payload[a] \in Plains}
      /\ \A a \in Attrs : payload[a] \in Plains /\ (a \in Looks \/ a \in declared) => a \in candidates
  BY <1>2, <1>3, Detected
<1>5. PICK selected : selected = IF enabled THEN SelectSaveSecretCandidates(candidates, requested)
                                 ELSE IntersectSaveSecretCandidates(candidates, declared)
  OBVIOUS
<1>6. enabled \/ requested = {}
  BY DEF SaveOne
<1>7. selected \subseteq candidates /\ (requested = {} => candidates \cap declared \subseteq selected)
  BY <1>5, <1>6 DEF SelectSaveSecretCandidates, IntersectSaveSecretCandidates
<1>8. PICK t : t = [IdleTask EXCEPT !.pc = "store", !.entries[i] = AsDoc(payload), !.left = {i},
                      !.todo = {i} \X selected, !.selected = selected,
                      !.unhandled = candidates \ selected,
                      !.requested = requested, !.enabled = enabled, !.allow = allow]
  OBVIOUS
<1>9. task' = [task EXCEPT ![s] = t]
  BY <1>1, <1>3, <1>5, <1>8 DEF SaveOne
<1>10. PICK entries : entries = [[j \in Items |-> Missing] EXCEPT ![i] = AsDoc(payload)]
  OBVIOUS
<1>11. t = [pc |-> "store", list |-> FALSE, entries |-> entries, todo |-> {i} \X selected,
            selected |-> selected, unhandled |-> candidates \ selected, requested |-> requested,
            enabled |-> enabled, allow |-> allow, left |-> {i}]
  <2>1. IdleTask.entries = [j \in Items |-> Missing]
    BY DEF IdleTask
  <2>2. [IdleTask EXCEPT !.entries[i] = AsDoc(payload)] = [IdleTask EXCEPT !.entries = entries]
    BY <1>10, <2>1
  <2>3. t = [[IdleTask EXCEPT !.entries = entries] EXCEPT !.pc = "store", !.left = {i},
               !.todo = {i} \X selected, !.selected = selected, !.unhandled = candidates \ selected,
               !.requested = requested, !.enabled = enabled, !.allow = allow]
    BY <1>8, <2>2 DEF IdleTask
  <2> QED BY <2>3 DEF IdleTask
<1>12. AsDoc(payload) \in DocType /\ AsDoc(payload).kind = "doc" /\ AsDoc(payload).attrs = payload
  BY DEF AsDoc, DocType
<1>13. /\ entries \in [Items -> DocType] /\ entries[i].attrs = payload
       /\ \A j \in Items : entries[j].kind # "whole"
  BY <1>10, <1>12, IdleTaskOK DEF Missing
<1>14. /\ requested \in SUBSET Attrs /\ selected \in SUBSET Attrs /\ candidates \ selected \in SUBSET Attrs
       /\ {i} \in SUBSET Items /\ {i} \X selected \in SUBSET Keys
  BY <1>4, <1>7, SaveAssumption DEF Keys
<1>15. t \in TaskType
  BY <1>11, <1>13, <1>14 DEF TaskType, TaskSteps
<1>16. \A k \in t.todo : k \in Items \X Attrs /\ t.entries[k[1]].attrs[k[2]] \in Plains
  BY <1>4, <1>7, <1>11, <1>13
<1>17. \A a \in Attrs : payload[a] \in Plains => Handled(s, t, i, a)
  BY <1>1, <1>4, <1>7, <1>11 DEF Handled, DeclaredBy
<1>18. TaskOK(s, t)
  BY <1>11, <1>13, <1>15, <1>16, <1>17 DEF TaskOK
<1> QED BY <1>9, <1>18, BeginKeeps DEF SaveOne

\* The start of a save of a list: the candidates are those of all entries.
LEMMA SaveItemsKeeps ==
  ASSUME SavingInv, NEW s \in Processes, NEW es \in RemoteLists, NEW enabled \in BOOLEAN,
         NEW requested \in RequestSets, NEW allow \in BOOLEAN, NEW force \in BOOLEAN,
         SaveItems(s, es, enabled, requested, allow, force)
  PROVE  SavingInv'
<1>1. PICK declared : declared = collMeta[s].attrs
  OBVIOUS
<1>2. declared \in SUBSET Attrs
  BY <1>1 DEF SavingInv, SaveDataOK, LevelType
<1>3. PICK all : all = [i \in Items |-> AsDoc(es[i])]
  OBVIOUS
<1>4. \A i \in Items : es[i] \in PayloadType
  BY DEF RemoteLists, PayloadType
<1>5. \A i \in Items : all[i] \in DocType /\ all[i].kind = "doc" /\ all[i].attrs = es[i]
  BY <1>3, <1>4 DEF AsDoc, DocType
<1>6. PICK candidates : candidates = DetectForCollection(all, declared)
  OBVIOUS
<1>7. candidates = UNION {DetectSaveSecretCandidates(es[i], declared) : i \in Items}
  BY <1>5, <1>6 DEF DetectForCollection
<1>8. \A i \in Items :
        /\ DetectSaveSecretCandidates(es[i], declared) \subseteq Attrs
        /\ \A a \in Attrs : es[i][a] \in Plains /\ (a \in Looks \/ a \in declared) =>
             a \in DetectSaveSecretCandidates(es[i], declared)
  BY <1>2, <1>4, Detected
<1>9. candidates \subseteq Attrs
  BY <1>7, <1>8
<1>10. \A i \in Items, a \in Attrs : es[i][a] \in Plains /\ (a \in Looks \/ a \in declared) => a \in candidates
  BY <1>7, <1>8
<1>11. PICK selected : selected = IF enabled THEN SelectSaveSecretCandidates(candidates, requested)
                                 ELSE IntersectSaveSecretCandidates(candidates, declared)
  OBVIOUS
<1>12. enabled \/ requested = {}
  BY DEF SaveItems
<1>13. selected \subseteq candidates /\ (requested = {} => candidates \cap declared \subseteq selected)
  BY <1>11, <1>12 DEF SelectSaveSecretCandidates, IntersectSaveSecretCandidates
<1>14. PICK todo : todo = {k \in Items \X selected : IsPlain(es[k[1]][k[2]])}
  OBVIOUS
<1>15. PICK t : t = [IdleTask EXCEPT !.pc = "store", !.list = TRUE, !.entries = all, !.left = Items,
                       !.todo = todo, !.selected = selected, !.unhandled = candidates \ selected,
                       !.requested = requested, !.enabled = enabled, !.allow = allow]
  OBVIOUS
<1>16. task' = [task EXCEPT ![s] = t]
  BY <1>1, <1>3, <1>6, <1>11, <1>14, <1>15 DEF SaveItems
<1>17. t = [pc |-> "store", list |-> TRUE, entries |-> all, todo |-> todo, selected |-> selected,
            unhandled |-> candidates \ selected, requested |-> requested,
            enabled |-> enabled, allow |-> allow, left |-> Items]
  BY <1>15 DEF IdleTask
<1>18. \A i \in Items, a \in Attrs : IsPlain(es[i][a]) <=> es[i][a] \in Plains
  BY <1>4, PlainIsPlain DEF PayloadType
<1>19. /\ \A k \in todo : k \in Items \X Attrs /\ es[k[1]][k[2]] \in Plains
       /\ \A i \in Items, a \in selected : es[i][a] \in Plains => <<i, a>> \in todo
  BY <1>9, <1>13, <1>14, <1>18
<1>20. /\ requested \in SUBSET Attrs /\ selected \in SUBSET Attrs /\ candidates \ selected \in SUBSET Attrs
       /\ todo \in SUBSET Keys /\ all \in [Items -> DocType]
  BY <1>3, <1>5, <1>9, <1>13, <1>19, SaveAssumption DEF Keys
<1>21. t \in TaskType
  BY <1>17, <1>20 DEF TaskType, TaskSteps
<1>22. /\ t.pc = "store" /\ t.list = TRUE /\ t.entries = all /\ t.todo = todo /\ t.selected = selected
       /\ t.unhandled = candidates \ selected /\ t.requested = requested /\ t.left = Items
  BY <1>17
<1>23. \A i \in Items, a \in Attrs : es[i][a] \in Plains => Handled(s, t, i, a)
  BY <1>1, <1>10, <1>13, <1>19, <1>22 DEF Handled, DeclaredBy
<1>24. \A k \in t.todo : k \in Items \X Attrs /\ t.entries[k[1]].attrs[k[2]] \in Plains
  BY <1>5, <1>19, <1>22
<1>25. TaskOK(s, t)
  BY <1>5, <1>21, <1>22, <1>23, <1>24 DEF TaskOK
<1> QED BY <1>16, <1>25, BeginKeeps DEF SaveItems

\* The start of a save as a secret keeps the invariant.
LEMMA SaveWholeKeeps ==
  ASSUME SavingInv, NEW s \in Processes, NEW i \in Items, NEW force \in BOOLEAN, SaveWhole(s, i, force)
  PROVE  SavingInv'
<1>1. PICK t : t = [IdleTask EXCEPT !.pc = "whole", !.left = {i}]
  OBVIOUS
<1>2. t \in TaskType
  BY <1>1, IdleTaskOK DEF TaskType, TaskSteps
<1>3. t.pc = "whole" /\ t.left = {i} /\ t.todo = {} /\ t.entries = IdleTask.entries
  BY <1>1 DEF IdleTask
<1>4. TaskOK(s, t)
  BY <1>2, <1>3, IdleTaskOK DEF TaskOK, Missing
<1> QED BY <1>1, <1>4, BeginKeeps DEF SaveWhole

\* secret delete keeps the invariant.
LEMMA SecretDeleteKeeps ==
  ASSUME SavingInv, NEW s \in Processes, NEW k \in Keys, SecretDelete(s, k)
  PROVE  SavingInv'
<1>1. secret' \in Stored /\ dropped' \subseteq Keys
  BY DEF SecretDelete, SavingInv, SaveDataOK, Stored
<1>2. SaveDataOK'
  BY <1>1, SaveDataKept DEF SecretDelete, SavingInv, SaveDataOK, CacheType
<1> QED
  BY <1>2 DEF SecretDelete, SavingInv, TaskOK, Handled, DeclaredBy, ResolveDeclaredAttributes

\* A level of metadata with the detected attributes merged into it.
LEMMA Merged ==
  ASSUME NEW level \in LevelType, NEW detected \in SUBSET Attrs, NEW m, m = MergeAttributes(level, detected)
  PROVE  m \in LevelType /\ m.set = TRUE /\ m.attrs = level.attrs \cup detected /\ m.whole = level.whole
BY DEF MergeAttributes, LevelType

\* secret detect --fix keeps the invariant.
LEMMA DetectFixKeeps ==
  ASSUME SavingInv, NEW s \in Processes, DetectFix(s)
  PROVE  SavingInv'
<1>1. /\ SaveDataOK /\ task[s].pc = "idle" /\ UNCHANGED <<kind, docs, collMeta, secret, cache, task, dropped>>
      /\ task \in [Processes -> TaskType]
  BY DEF DetectFix, SavingInv
<1> DEFINE found(i) == IF docs[s][i].kind = "doc" THEN DetectHeuristic(docs[s][i].attrs) ELSE {}
           new == [i \in Items |-> IF found(i) = {} THEN itemMeta[s][i]
                                   ELSE MergeAttributes(itemMeta[s][i], found(i))]
<1>2. itemMeta' = [itemMeta EXCEPT ![s] = new]
  BY DEF DetectFix
<1>3. \A i \in Items : /\ itemMeta[s][i] \in LevelType
                       /\ ~itemMeta[s][i].set => itemMeta[s][i].attrs = {}
  BY <1>1 DEF SaveDataOK
<1>4. \A i \in Items : found(i) \in SUBSET Attrs
  BY SaveAssumption DEF DetectHeuristic
<1>5. ASSUME NEW i \in Items
      PROVE  new[i] \in LevelType /\ (~new[i].set => new[i].attrs = {})
  <2>1. PICK m, f : m = MergeAttributes(itemMeta[s][i], f) /\ f = found(i)
    OBVIOUS
  <2>2. m \in LevelType /\ m.set = TRUE
    BY <1>3, <1>4, <2>1, Merged
  <2>3. new[i] = itemMeta[s][i] \/ new[i] = m
    BY <2>1
  <2> QED BY <1>3, <2>2, <2>3
<1> HIDE DEF new
<1>6. new \in [Items -> LevelType]
  <2>1. new = [i \in Items |-> new[i]]
    BY DEF new
  <2> QED BY <1>5, <2>1
<1>7. /\ itemMeta' \in [Processes -> [Items -> LevelType]]
      /\ \A r \in Processes, i \in Items : ~itemMeta'[r][i].set => itemMeta'[r][i].attrs = {}
      /\ \A r \in Processes \ {s} : itemMeta'[r] = itemMeta[r]
  BY <1>1, <1>2, <1>5, <1>6 DEF SaveDataOK
<1>8. saveUsed' \in SaveUsedType
  BY <1>1, SaveUsedKept DEF DetectFix
<1>9. SaveDataOK'
  BY <1>1, <1>7, <1>8 DEF SaveDataOK, SaveUsedType
<1>10. PICK t : t = task[s]
  OBVIOUS
<1>11. TaskOK(s, t)'
  BY <1>1, <1>10 DEF SavingInv, TaskOK
<1>12. task' = [task EXCEPT ![s] = t]
  BY <1>1, <1>10
<1> QED BY <1>1, <1>7, <1>9, <1>11, <1>12, TaskStep

\* A write of one key: with a snapshot as fresh as the file, no other key changes.
LEMMA PutSecretKeeps ==
  ASSUME SaveDataOK, NEW s \in Processes, NEW k \in Keys, NEW v \in Plains, PutSecret(s, k, v)
  PROVE  /\ secret' \in Stored /\ cache' \in CacheType /\ secret'[k] = v
         /\ kind = "file" => cache'[s].map = secret'
         /\ \A r \in Processes \ {s} : cache'[r] = cache[r]
         /\ (kind = "file" /\ cache[s].read => cache[s].map = secret) =>
              \A q \in Keys \ {k} : secret'[q] = secret[q]
<1>1. secret \in Stored /\ cache \in CacheType
  BY DEF SaveDataOK, CacheType
<1>2. cache[s].map \in Stored
  BY <1>1 DEF CacheType
<1>3. CASE kind = "file"
  <2>1. PICK m \in Stored : m = ReadSnapshot(s)
    BY <1>1, <1>2 DEF ReadSnapshot
  <2>2. secret' = [m EXCEPT ![k] = v]
    BY <1>3, <2>1 DEF PutSecret, EncodeSecret
  <2>3. secret' \in Stored /\ secret'[k] = v /\ \A q \in Keys \ {k} : secret'[q] = m[q]
    BY <2>1, <2>2 DEF Stored
  <2>4. cache' = [cache EXCEPT ![s] = [read |-> TRUE, map |-> secret']]
    BY <1>3 DEF PutSecret
  <2>5. cache' \in CacheType /\ cache'[s].map = secret' /\ \A r \in Processes \ {s} : cache'[r] = cache[r]
    BY <1>1, <2>3, <2>4 DEF CacheType
  <2>6. (cache[s].read => cache[s].map = secret) => m = secret
    BY <2>1 DEF ReadSnapshot
  <2> QED BY <1>3, <2>3, <2>5, <2>6
<1>4. CASE kind # "file"
  <2>1. secret' = [secret EXCEPT ![k] = v] /\ UNCHANGED cache
    BY <1>4 DEF PutSecret, EncodeSecret
  <2> QED BY <1>1, <1>4, <2>1 DEF Stored
<1> QED BY <1>3, <1>4

\* The task after one attribute was stored.
LEMMA StoredTask ==
  ASSUME SavingInv, NEW s \in Processes, NEW k \in task[s].todo,
         task' = [task EXCEPT ![s].todo = @ \ {k}, ![s].entries[k[1]].attrs[k[2]] = "mask"]
  PROVE  \E t \in TaskType :
           /\ task' = [task EXCEPT ![s] = t] /\ t.todo = task[s].todo \ {k}
           /\ \A i \in Items : t.entries[i].kind = task[s].entries[i].kind
           /\ \A i \in Items, a \in Attrs :
                t.entries[i].attrs[a] = IF <<i, a>> = k THEN "mask" ELSE task[s].entries[i].attrs[a]
           /\ t.pc = task[s].pc /\ t.list = task[s].list /\ t.selected = task[s].selected
           /\ t.unhandled = task[s].unhandled /\ t.requested = task[s].requested
           /\ t.allow = task[s].allow /\ t.left = task[s].left
<1>1. PICK u : u = task[s]
  OBVIOUS
<1>2. u \in TaskType /\ TaskOK(s, u)
  BY <1>1 DEF SavingInv
<1>3. k \in Items \X Attrs
  BY <1>1, <1>2 DEF TaskOK
<1>4. PICK i \in Items, a \in Attrs : k = <<i, a>>
  BY <1>3
<1>5. PICK d : d = [u.entries EXCEPT ![i].attrs[a] = "mask"]
  OBVIOUS
<1>6. PICK t : t = [u EXCEPT !.todo = u.todo \ {k}, !.entries = d]
  OBVIOUS
<1>7. u.entries \in [Items -> DocType] /\ u.todo \in SUBSET Keys
  BY <1>2 DEF TaskType
<1>8. d \in [Items -> DocType]
  BY <1>5, <1>7 DEF DocType, PayloadType
<1>9. /\ \A j \in Items : d[j].kind = u.entries[j].kind
      /\ \A j \in Items, b \in Attrs : d[j].attrs[b] = IF <<j, b>> = k THEN "mask" ELSE u.entries[j].attrs[b]
  BY <1>4, <1>5, <1>7 DEF DocType, PayloadType
<1>10. t \in TaskType
  BY <1>2, <1>6, <1>7, <1>8 DEF TaskType
<1>11. /\ t.todo = u.todo \ {k} /\ t.entries = d /\ t.pc = u.pc /\ t.list = u.list
       /\ t.selected = u.selected /\ t.unhandled = u.unhandled /\ t.requested = u.requested
       /\ t.allow = u.allow /\ t.left = u.left
  BY <1>2, <1>6 DEF TaskType
<1>12. task' = [task EXCEPT ![s] = t]
  <2>1. k[1] = i /\ k[2] = a
    BY <1>4
  <2>2. task' = [task EXCEPT ![s].todo = @ \ {k}, ![s].entries[i].attrs[a] = "mask"]
    BY <2>1
  <2> QED BY <1>1, <1>2, <1>5, <1>6, <2>2 DEF SavingInv, TaskType
<1> QED BY <1>1, <1>9, <1>10, <1>11, <1>12

\* Storing and masking one attribute keeps the invariant.
LEMMA StoreAndMaskKeeps ==
  ASSUME SavingInv, NEW s \in Processes, StoreAndMaskAttribute(s)
  PROVE  SavingInv'
<1>1. /\ SaveDataOK /\ task[s].pc = "store" /\ UNCHANGED <<kind, docs, itemMeta, collMeta>>
      /\ TaskOK(s, task[s])
  BY DEF StoreAndMaskAttribute, SavingInv
<1>2. PICK k \in task[s].todo :
        \/ /\ PutSecret(s, k, task[s].entries[k[1]].attrs[k[2]])
           /\ task' = [task EXCEPT ![s].todo = @ \ {k}, ![s].entries[k[1]].attrs[k[2]] = "mask"]
           /\ dropped' = dropped \ {k}
           /\ UNCHANGED saveUsed
        \/ EndTask(s) /\ Break /\ UNCHANGED <<secret, dropped>>
  BY DEF StoreAndMaskAttribute
<1>3. CASE EndTask(s) /\ Break /\ UNCHANGED <<secret, dropped>>
  BY <1>1, <1>3, EndTaskKeeps DEF SaveDataOK
<1>4. CASE /\ PutSecret(s, k, task[s].entries[k[1]].attrs[k[2]])
           /\ task' = [task EXCEPT ![s].todo = @ \ {k}, ![s].entries[k[1]].attrs[k[2]] = "mask"]
           /\ dropped' = dropped \ {k}
           /\ UNCHANGED saveUsed
  <2>1. PICK t \in TaskType :
           /\ task' = [task EXCEPT ![s] = t] /\ t.todo = task[s].todo \ {k}
           /\ \A i \in Items : t.entries[i].kind = task[s].entries[i].kind
           /\ \A i \in Items, a \in Attrs :
                t.entries[i].attrs[a] = IF <<i, a>> = k THEN "mask" ELSE task[s].entries[i].attrs[a]
           /\ t.pc = task[s].pc /\ t.list = task[s].list /\ t.selected = task[s].selected
           /\ t.unhandled = task[s].unhandled /\ t.requested = task[s].requested
           /\ t.allow = task[s].allow /\ t.left = task[s].left
    BY <1>4, StoredTask
  <2>2. k \in Keys /\ task[s].entries[k[1]].attrs[k[2]] \in Plains
    BY <1>1 DEF TaskOK, Keys
  <2>3. SaveDataOK'
    <3>1. secret' \in Stored /\ cache' \in CacheType
      BY <1>1, <1>4, <2>2, PutSecretKeeps
    <3> QED BY <1>1, <1>4, <3>1, SaveDataKept DEF SaveDataOK
  <2>4. PICK u : u = task[s]
    OBVIOUS
  <2>5. \A q \in t.todo : q \in Items \X Attrs /\ t.entries[q[1]].attrs[q[2]] \in Plains
    <3> SUFFICES ASSUME NEW q \in t.todo
                 PROVE  q \in Items \X Attrs /\ t.entries[q[1]].attrs[q[2]] \in Plains
      OBVIOUS
    <3>1. q \in task[s].todo /\ q # k
      BY <2>1
    <3>2. q \in Items \X Attrs /\ task[s].entries[q[1]].attrs[q[2]] \in Plains
      BY <1>1, <3>1 DEF TaskOK
    <3>3. q[1] \in Items /\ q[2] \in Attrs /\ <<q[1], q[2]>> = q
      BY <3>2
    <3> QED BY <2>1, <3>1, <3>2, <3>3
  <2>6. \A i \in t.left, a \in Attrs : t.entries[i].attrs[a] \in Plains => Handled(s, t, i, a)'
    <3> SUFFICES ASSUME NEW i \in t.left, NEW a \in Attrs, t.entries[i].attrs[a] \in Plains
                 PROVE  Handled(s, t, i, a)'
      OBVIOUS
    <3>1. i \in Items /\ "mask" \notin Plains
      BY SaveAssumption DEF TaskType
    <3>2. <<i, a>> # k /\ u.entries[i].attrs[a] \in Plains /\ i \in u.left
      BY <2>1, <2>4, <3>1
    <3>3. Handled(s, u, i, a)
      BY <1>1, <2>4, <3>2 DEF TaskOK
    <3> QED BY <1>1, <2>1, <2>4, <3>2, <3>3 DEF Handled, DeclaredBy, ResolveDeclaredAttributes
  <2>7. TaskOK(s, t)'
    BY <1>1, <2>1, <2>5, <2>6 DEF TaskOK
  <2> QED BY <1>1, <2>1, <2>3, <2>7, TaskStep
<1> QED BY <1>2, <1>3, <1>4

\* The metadata of one clone after the detected attributes were merged: a list that
\* becomes visible there hides the one of the collection, and is all selected.
LEMMA PersistedLevels ==
  ASSUME SavingInv, NEW s \in Processes, NEW t, t = task[s], TaskOK(s, t), NEW r \in Processes, NEW i \in Items,
         \/ /\ t.list /\ collMeta' = [collMeta EXCEPT ![s] = MergeAttributes(collMeta[s], t.selected)]
            /\ UNCHANGED itemMeta
         \/ /\ ~t.list /\ UNCHANGED collMeta
            /\ itemMeta' = [itemMeta EXCEPT ![s] = [j \in Items |->
                 IF j \in t.left THEN MergeAttributes(itemMeta[s][j], t.selected) ELSE itemMeta[s][j]]]
  PROVE  /\ itemMeta'[r][i] \in LevelType /\ collMeta'[r] \in LevelType
         /\ ~itemMeta'[r][i].set => itemMeta'[r][i].attrs = {}
         /\ r # s => itemMeta'[r] = itemMeta[r] /\ collMeta'[r] = collMeta[r]
         /\ i \in t.left => DeclaredBy(s, t, i)' \subseteq DeclaredBy(s, t, i) \cup t.selected
<1>1. /\ itemMeta \in [Processes -> [Items -> LevelType]] /\ collMeta \in [Processes -> LevelType]
      /\ t.selected \in SUBSET Attrs /\ t.list \in BOOLEAN
      /\ ~itemMeta[r][i].set => itemMeta[r][i].attrs = {}
      /\ ~itemMeta[s][i].set => itemMeta[s][i].attrs = {}
  BY DEF SavingInv, SaveDataOK, TaskOK, TaskType
<1>2. CASE t.list
  <2>1. PICK m : m = MergeAttributes(collMeta[s], t.selected)
    OBVIOUS
  <2>2. m \in LevelType /\ m.attrs = collMeta[s].attrs \cup t.selected
    BY <1>1, <2>1 DEF MergeAttributes, LevelType
  <2>3. collMeta' = [collMeta EXCEPT ![s] = m] /\ UNCHANGED itemMeta
    BY <1>2, <2>1
  <2> QED BY <1>1, <1>2, <2>2, <2>3 DEF DeclaredBy
<1>3. CASE ~t.list
  <2>1. PICK m : m = MergeAttributes(itemMeta[s][i], t.selected)
    OBVIOUS
  <2>2. m \in LevelType /\ m.attrs = itemMeta[s][i].attrs \cup t.selected /\ m.set = TRUE
    <3>1. itemMeta[s][i] \in LevelType
      BY <1>1
    <3> QED BY <1>1, <2>1, <3>1 DEF MergeAttributes, LevelType
  <2>3. /\ UNCHANGED collMeta /\ (r # s => itemMeta'[r] = itemMeta[r])
        /\ itemMeta'[s][i] = IF i \in t.left THEN m ELSE itemMeta[s][i]
    BY <1>1, <1>3, <2>1
  <2>4. itemMeta'[r][i] \in {itemMeta[r][i], m}
    BY <2>3
  <2>5. i \in t.left => DeclaredBy(s, t, i)' \subseteq DeclaredBy(s, t, i) \cup t.selected
    BY <1>1, <1>3, <2>2, <2>3 DEF DeclaredBy, ResolveDeclaredAttributes
  <2> QED BY <1>1, <2>2, <2>3, <2>4, <2>5
<1> QED BY <1>1, <1>2, <1>3

\* Declaring the detected attributes keeps the invariant.
LEMMA PersistKeeps ==
  ASSUME SavingInv, NEW s \in Processes, PersistDetectedAttributes(s)
  PROVE  SavingInv'
<1>1. PICK t : t = task[s]
  OBVIOUS
<1>2. /\ SaveDataOK /\ t.pc = "store" /\ t.todo = {} /\ UNCHANGED <<kind, docs, secret, dropped>>
      /\ TaskOK(s, t) /\ t \in TaskType /\ task \in [Processes -> TaskType]
  BY <1>1 DEF PersistDetectedAttributes, SavingInv
<1>3. CASE EndTask(s) /\ Break /\ UNCHANGED <<itemMeta, collMeta>>
  BY <1>2, <1>3, EndTaskKeeps DEF SaveDataOK
<1>4. CASE /\ task' = [task EXCEPT ![s].pc = "check"] /\ UNCHANGED <<cache, saveUsed>>
           /\ \/ UNCHANGED <<itemMeta, collMeta>>
              \/ /\ t.list /\ collMeta' = [collMeta EXCEPT ![s] = MergeAttributes(collMeta[s], t.selected)]
                 /\ UNCHANGED itemMeta
              \/ /\ ~t.list /\ UNCHANGED collMeta
                 /\ itemMeta' = [itemMeta EXCEPT ![s] = [j \in Items |->
                      IF j \in t.left THEN MergeAttributes(itemMeta[s][j], t.selected) ELSE itemMeta[s][j]]]
  <2>1. PICK u : u = [t EXCEPT !.pc = "check"]
    OBVIOUS
  <2>2. u \in TaskType /\ task' = [task EXCEPT ![s] = u]
    BY <1>1, <1>2, <1>4, <2>1 DEF TaskType, TaskSteps
  <2>3. /\ u.pc = "check" /\ u.list = t.list /\ u.entries = t.entries /\ u.todo = t.todo
        /\ u.selected = t.selected /\ u.unhandled = t.unhandled /\ u.requested = t.requested
        /\ u.allow = t.allow /\ u.left = t.left
    BY <1>2, <2>1 DEF TaskType
  <2>4. ASSUME NEW r \in Processes, NEW i \in Items
        PROVE  /\ itemMeta'[r][i] \in LevelType /\ collMeta'[r] \in LevelType
               /\ ~itemMeta'[r][i].set => itemMeta'[r][i].attrs = {}
               /\ r # s => itemMeta'[r] = itemMeta[r] /\ collMeta'[r] = collMeta[r]
               /\ i \in t.left => DeclaredBy(s, t, i)' \subseteq DeclaredBy(s, t, i) \cup t.selected
    <3>1. CASE UNCHANGED <<itemMeta, collMeta>>
      BY <1>2, <3>1 DEF SaveDataOK, DeclaredBy, ResolveDeclaredAttributes
    <3>2. CASE ~UNCHANGED <<itemMeta, collMeta>>
      BY <1>1, <1>2, <1>4, <3>2, PersistedLevels
    <3> QED BY <3>1, <3>2
  <2>5. /\ DOMAIN itemMeta' = Processes /\ DOMAIN collMeta' = Processes
        /\ itemMeta' = [r \in Processes |-> itemMeta'[r]] /\ collMeta' = [r \in Processes |-> collMeta'[r]]
        /\ \A r \in Processes : itemMeta'[r] = [i \in Items |-> itemMeta'[r][i]]
    BY <1>2, <1>4 DEF SaveDataOK
  <2>6. \A r \in Processes : r # s => collMeta'[r] = collMeta[r] /\ itemMeta'[r] = itemMeta[r]
    BY <1>2, <1>4 DEF SaveDataOK
  <2>7. collMeta' \in [Processes -> LevelType]
    <3>1. collMeta'[s] \in LevelType
      <4>1. PICK m : m = MergeAttributes(collMeta[s], t.selected)
        OBVIOUS
      <4>2. m \in LevelType /\ collMeta[s] \in LevelType
        BY <1>2, <4>1, Merged DEF SaveDataOK, TaskType
      <4> QED BY <1>2, <1>4, <4>1, <4>2 DEF SaveDataOK
    <3> QED BY <1>2, <2>5, <2>6, <3>1 DEF SaveDataOK
  <2>8. SaveDataOK'
    <3>1. \A r \in Processes : itemMeta'[r] \in [Items -> LevelType]
      BY <2>4, <2>5
    <3>2. itemMeta' \in [Processes -> [Items -> LevelType]]
      BY <2>5, <3>1
    <3>3. \A r \in Processes, i \in Items : ~itemMeta'[r][i].set => itemMeta'[r][i].attrs = {}
      BY <2>4
    <3> QED BY <1>2, <1>4, <2>7, <3>2, <3>3 DEF SaveDataOK
  <2>9. ASSUME NEW i \in u.left, NEW a \in Attrs, u.entries[i].attrs[a] \in Plains
        PROVE  Handled(s, u, i, a)'
    <3>1. i \in Items /\ i \in t.left /\ t.entries[i].attrs[a] \in Plains
      BY <1>2, <2>3, <2>9 DEF TaskType
    <3>2. Handled(s, t, i, a)
      BY <1>2, <3>1 DEF TaskOK
    <3>3. DeclaredBy(s, t, i)' \subseteq DeclaredBy(s, t, i) \cup t.selected
      BY <2>4, <3>1
    <3>4. DeclaredBy(s, u, i)' = DeclaredBy(s, t, i)'
      BY <2>3 DEF DeclaredBy
    <3> QED BY <2>3, <3>2, <3>3, <3>4 DEF Handled
  <2>10. TaskOK(s, u)'
    BY <1>2, <2>2, <2>3, <2>9 DEF TaskOK
  <2> QED BY <2>2, <2>6, <2>8, <2>10, TaskStep
<1>5. t.list \in BOOLEAN
  BY <1>2 DEF TaskType
<1> QED BY <1>1, <1>3, <1>4, <1>5 DEF PersistDetectedAttributes

\* The safety check keeps the invariant: it lets through what it should.
LEMMA EnforceKeeps ==
  ASSUME SavingInv, NEW s \in Processes, EnforceSaveSecretSafety(s)
  PROVE  SavingInv'
<1>1. PICK t : t = task[s]
  OBVIOUS
<1>2. /\ SaveDataOK /\ t.pc = "check" /\ UNCHANGED <<kind, docs, itemMeta, collMeta, secret, dropped, saveUsed>>
      /\ TaskOK(s, t) /\ t \in TaskType /\ task \in [Processes -> TaskType]
  BY <1>1 DEF EnforceSaveSecretSafety, SavingInv
<1>3. CASE EndTask(s)
  BY <1>2, <1>3, EndTaskKeeps DEF SaveDataOK
<1>4. CASE /\ task' = [task EXCEPT ![s].pc = "write"] /\ UNCHANGED cache
           /\ FilterSaveSecretCandidatesForSafety(t.unhandled,
                IF t.list THEN collMeta[s].attrs
                ELSE UNION {ResolveDeclaredAttributes(s, i) : i \in t.left}, t) = {}
  <2>1. PICK u : u = [t EXCEPT !.pc = "write"]
    OBVIOUS
  <2>2. u \in TaskType /\ task' = [task EXCEPT ![s] = u]
    BY <1>1, <1>2, <1>4, <2>1 DEF TaskType, TaskSteps
  <2>3. /\ u.pc = "write" /\ u.list = t.list /\ u.entries = t.entries /\ u.todo = t.todo
        /\ u.selected = t.selected /\ u.unhandled = t.unhandled /\ u.requested = t.requested
        /\ u.allow = t.allow /\ u.left = t.left
    BY <1>2, <2>1 DEF TaskType
  <2>4. ASSUME NEW i \in u.left, NEW a \in Attrs, u.entries[i].attrs[a] \in Plains
        PROVE  Handled(s, u, i, a)
    <3>1. Handled(s, t, i, a) /\ i \in t.left /\ t.todo = {} /\ (~t.list => \A j \in t.left : j = i)
      BY <1>2, <2>3, <2>4 DEF TaskOK
    <3>2. DeclaredBy(s, u, i) = DeclaredBy(s, t, i)
      BY <2>3 DEF DeclaredBy
    <3>3. a \in t.unhandled /\ ~t.allow => a \in DeclaredBy(s, t, i)
      BY <1>4, <3>1 DEF FilterSaveSecretCandidatesForSafety, DeclaredBy
    <3> QED BY <2>3, <3>1, <3>2, <3>3 DEF Handled
  <2>5. TaskOK(s, u)
    BY <1>2, <2>2, <2>3, <2>4 DEF TaskOK
  <2> QED BY <1>2, <1>4, <2>2, <2>5, BeginKeeps
<1> QED BY <1>1, <1>3, <1>4 DEF EnforceSaveSecretSafety

\* The write of one entry keeps the invariant.
LEMMA WriteEntryKeeps ==
  ASSUME SavingInv, NEW s \in Processes, WriteEntry(s)
  PROVE  SavingInv'
<1>1. PICK t : t = task[s]
  OBVIOUS
<1>2. /\ SaveDataOK /\ t.pc = "write" /\ UNCHANGED <<kind, itemMeta, collMeta, secret, dropped>>
      /\ TaskOK(s, t) /\ t \in TaskType /\ task \in [Processes -> TaskType]
  BY <1>1 DEF WriteEntry, SavingInv
<1>3. CASE EndTask(s) /\ Break /\ UNCHANGED docs
  BY <1>2, <1>3, EndTaskKeeps DEF SaveDataOK
<1>4. ASSUME NEW i \in t.left, docs' = [docs EXCEPT ![s][i] = t.entries[i]], UNCHANGED saveUsed,
             EndTask(s) \/ (task' = [task EXCEPT ![s].left = @ \ {i}] /\ UNCHANGED cache)
      PROVE  SavingInv'
  <2>1. docs' \in [Processes -> [Items -> DocType]]
    BY <1>2, <1>4 DEF SaveDataOK, TaskType
  <2>2. CASE EndTask(s)
    BY <1>2, <1>4, <2>1, <2>2, EndTaskKeeps
  <2>3. CASE task' = [task EXCEPT ![s].left = @ \ {i}] /\ UNCHANGED cache
    <3>1. PICK u : u = [t EXCEPT !.left = t.left \ {i}]
      OBVIOUS
    <3>2. u \in TaskType /\ task' = [task EXCEPT ![s] = u]
      BY <1>1, <1>2, <2>3, <3>1 DEF TaskType
    <3>3. /\ u.pc = t.pc /\ u.list = t.list /\ u.entries = t.entries /\ u.todo = t.todo
          /\ u.selected = t.selected /\ u.unhandled = t.unhandled /\ u.requested = t.requested
          /\ u.allow = t.allow /\ u.left = t.left \ {i}
      BY <1>2, <3>1 DEF TaskType
    <3>4. SaveDataOK'
      BY <1>2, <1>4, <2>1, <2>3, SaveDataKept DEF SaveDataOK, CacheType
    <3>5. TaskOK(s, u)'
      BY <1>2, <3>2, <3>3 DEF TaskOK, Handled, DeclaredBy, ResolveDeclaredAttributes
    <3> QED BY <1>2, <3>2, <3>4, <3>5, TaskStep
  <2> QED BY <1>4, <2>2, <2>3
<1> QED BY <1>1, <1>3, <1>4 DEF WriteEntry

\* A kill keeps the invariant.
LEMMA KillSaveKeeps ==
  ASSUME SavingInv, NEW s \in Processes, KillSave(s)
  PROVE  SavingInv'
BY EndTaskKeeps DEF KillSave, SavingInv, SaveDataOK

\* The three steps of saving a resource as a secret.
LEMMA WholeSteps ==
  ASSUME NEW s \in Processes, SaveResolvedPathAsSecret(s)
  PROVE  \E i \in task[s].left, v \in Plains :
           \/ /\ task[s].pc = "whole" /\ PutSecret(s, <<i, ".">>, v) /\ dropped' = dropped \ {<<i, ".">>}
              /\ UNCHANGED <<docs, itemMeta, saveUsed>>
              /\ task' = [task EXCEPT ![s].pc = "wholeWrite"]
           \/ /\ task[s].pc = "wholeWrite" /\ UNCHANGED <<secret, dropped, cache, itemMeta, saveUsed>>
              /\ docs' = [docs EXCEPT ![s][i] = WholeDoc]
              /\ task' = [task EXCEPT ![s].pc = "wholeMeta"]
           \/ /\ task[s].pc = "wholeMeta" /\ UNCHANGED <<secret, dropped, docs, saveUsed>>
              /\ itemMeta' = [itemMeta EXCEPT ![s][i] = [NoLevel EXCEPT !.whole = TRUE]]
              /\ EndTask(s)
           \/ EndTask(s) /\ Break /\ UNCHANGED <<secret, dropped, docs, itemMeta>>
<1>1. WholeOrder[1] = "whole" /\ WholeOrder[2] = "wholeWrite" /\ WholeOrder[3] = "wholeMeta"
  BY DEF WholeOrder
<1> HIDE DEF WholeOrder
<1>2. CASE task[s].pc = "whole"
  BY <1>1, <1>2 DEF SaveResolvedPathAsSecret
<1>3. CASE task[s].pc = "wholeWrite"
  BY <1>1, <1>3 DEF SaveResolvedPathAsSecret
<1>4. CASE task[s].pc = "wholeMeta"
  BY <1>1, <1>4 DEF SaveResolvedPathAsSecret
<1> QED BY <1>2, <1>3, <1>4 DEF SaveResolvedPathAsSecret

\* The three steps of a save as a secret keep the invariant.
LEMMA SaveAsSecretKeeps ==
  ASSUME SavingInv, NEW s \in Processes, SaveResolvedPathAsSecret(s)
  PROVE  SavingInv'
<1>1. PICK t : t = task[s]
  OBVIOUS
<1>2. /\ SaveDataOK /\ UNCHANGED <<kind, collMeta>> /\ TaskOK(s, t) /\ t \in TaskType
      /\ task \in [Processes -> TaskType] /\ t.pc \in {"whole", "wholeWrite", "wholeMeta"}
  BY <1>1 DEF SaveResolvedPathAsSecret, SavingInv
<1>3. ASSUME NEW pc \in {"wholeWrite", "wholeMeta"}, task' = [task EXCEPT ![s].pc = pc], SaveDataOK',
             UNCHANGED itemMeta
      PROVE  SavingInv'
  <2>1. PICK u : u = [t EXCEPT !.pc = pc]
    OBVIOUS
  <2>2. u \in TaskType /\ task' = [task EXCEPT ![s] = u]
    BY <1>1, <1>2, <1>3, <2>1 DEF TaskType, TaskSteps
  <2>3. u.pc = pc /\ u.list = t.list /\ u.entries = t.entries /\ u.todo = t.todo /\ u.left = t.left
    BY <1>2, <2>1 DEF TaskType
  <2>4. TaskOK(s, u)'
    BY <1>2, <2>2, <2>3 DEF TaskOK
  <2> QED BY <1>2, <1>3, <2>2, <2>4, TaskStep
<1>4. ASSUME NEW i \in task[s].left, NEW v \in Plains, PutSecret(s, <<i, ".">>, v),
             dropped' = dropped \ {<<i, ".">>}, UNCHANGED <<docs, itemMeta, saveUsed>>,
             task' = [task EXCEPT ![s].pc = "wholeWrite"]
      PROVE  SavingInv'
  <2>1. <<i, ".">> \in Keys
    BY <1>1, <1>2 DEF TaskType, Keys
  <2>2. secret' \in Stored /\ cache' \in CacheType
    BY <1>2, <1>4, <2>1, PutSecretKeeps
  <2>3. SaveDataOK'
    BY <1>2, <1>4, <2>2, SaveDataKept DEF SaveDataOK
  <2> QED BY <1>3, <1>4, <2>3
<1>5. ASSUME NEW i \in task[s].left, UNCHANGED <<secret, dropped, cache, itemMeta, saveUsed>>,
             docs' = [docs EXCEPT ![s][i] = WholeDoc], task' = [task EXCEPT ![s].pc = "wholeMeta"]
      PROVE  SavingInv'
  <2>1. WholeDoc \in DocType
    BY DEF WholeDoc, DocType, Blank, PayloadType
  <2>2. docs' \in [Processes -> [Items -> DocType]]
    BY <1>2, <1>5, <2>1 DEF SaveDataOK
  <2>3. SaveDataOK'
    BY <1>2, <1>5, <2>2, SaveDataKept DEF SaveDataOK, CacheType
  <2> QED BY <1>3, <1>5, <2>3
<1>6. ASSUME NEW i \in task[s].left, UNCHANGED <<secret, dropped, docs, saveUsed>>, EndTask(s),
             itemMeta' = [itemMeta EXCEPT ![s][i] = [NoLevel EXCEPT !.whole = TRUE]]
      PROVE  SavingInv'
  <2>1. PICK l : l = [NoLevel EXCEPT !.whole = TRUE]
    OBVIOUS
  <2>2. l \in LevelType /\ l.attrs = {}
    BY <2>1 DEF NoLevel, LevelType
  <2>3. /\ itemMeta' \in [Processes -> [Items -> LevelType]]
        /\ \A r \in Processes, j \in Items : ~itemMeta'[r][j].set => itemMeta'[r][j].attrs = {}
        /\ \A r \in Processes \ {s} : itemMeta'[r] = itemMeta[r]
    BY <1>2, <1>6, <2>1, <2>2 DEF SaveDataOK
  <2>4. cache' \in CacheType
    BY <1>2, <1>6, CacheEnded
  <2>5. SaveDataOK'
    BY <1>2, <1>6, <2>3, <2>4 DEF SaveDataOK, CacheType
  <2> QED BY <1>2, <1>6, <2>3, <2>5, IdleOK, TaskStep DEF EndTask
<1>7. ASSUME EndTask(s), Break, UNCHANGED <<secret, dropped, docs, itemMeta>>
      PROVE  SavingInv'
  BY <1>2, <1>7, EndTaskKeeps DEF SaveDataOK
<1> QED BY <1>4, <1>5, <1>6, <1>7, WholeSteps

\* Every step keeps the invariant.
LEMMA SaveStepKeeps ==
  ASSUME SavingInv, SaveNext
  PROVE  SavingInv'
<1> PICK s \in Processes :
    \/ \E i \in Items, p \in PayloadType, e, a, f \in BOOLEAN, r \in RequestSets :
         SaveOne(s, i, p, e, r, a, f)
    \/ \E es \in RemoteLists, e, a, f \in BOOLEAN, r \in RequestSets :
         SaveItems(s, es, e, r, a, f)
    \/ \E i \in Items, f \in BOOLEAN : SaveWhole(s, i, f)
    \/ \E k \in Keys : SecretDelete(s, k)
    \/ DetectFix(s)
    \/ StoreAndMaskAttribute(s) \/ PersistDetectedAttributes(s) \/ EnforceSaveSecretSafety(s)
    \/ WriteEntry(s) \/ SaveResolvedPathAsSecret(s) \/ KillSave(s)
  BY DEF SaveNext
<1> QED
  BY SaveOneKeeps, SaveItemsKeeps, SaveWholeKeeps, SecretDeleteKeeps, DetectFixKeeps, StoreAndMaskKeeps,
     PersistKeeps, EnforceKeeps, WriteEntryKeeps, SaveAsSecretKeeps, KillSaveKeeps

\* Both invariants hold at first.
LEMMA SaveInitInv ==
  ASSUME SaveInit
  PROVE  SavingInv /\ BackedInv
<1>1. /\ NoLevel \in LevelType /\ NoLevel.set = FALSE /\ NoLevel.attrs = {}
      /\ Unread \in [read: BOOLEAN, map: Stored] /\ Unread.read = FALSE
      /\ Missing.kind = "missing"
  BY DEF NoLevel, LevelType, Unread, Stored, Missing
<1>2. collMeta \in [Processes -> LevelType]
  BY DEF SaveInit, LevelType
<1>3. SaveDataOK
  <2>1. kind \in StoreKinds /\ secret \in Stored /\ dropped \subseteq Keys
    BY DEF SaveInit, Stored
  <2>2. cache \in [Processes -> [read: BOOLEAN, map: Stored]]
    BY <1>1 DEF SaveInit
  <2>3. docs \in [Processes -> [Items -> DocType]]
    BY IdleTaskOK DEF SaveInit
  <2>4. /\ itemMeta \in [Processes -> [Items -> LevelType]]
        /\ \A s \in Processes, i \in Items : ~itemMeta[s][i].set => itemMeta[s][i].attrs = {}
    BY <1>1 DEF SaveInit
  <2>5. saveUsed \in [saves: 0..MaxSaves, breaks: 0..MaxBreaks]
    BY SaveAssumption DEF SaveInit
  <2> QED BY <1>2, <2>1, <2>2, <2>3, <2>4, <2>5 DEF SaveDataOK
<1>4. task \in [Processes -> TaskType] /\ \A s \in Processes : task[s] = IdleTask
  BY IdleTaskOK DEF SaveInit
<1>5. SavingInv
  BY <1>3, <1>4, IdleOK DEF SavingInv
<1>6. \A s \in Processes : PlaceholdersBacked(task[s])
  BY <1>4, IdleTaskOK DEF PlaceholdersBacked
<1>7. SnapshotsFresh
  BY <1>1 DEF SaveInit, SnapshotsFresh
<1>8. PlaceholderStored
  BY <1>1, IdleTaskOK DEF SaveInit, PlaceholderStored
<1> QED BY <1>5, <1>6, <1>7, <1>8 DEF BackedInv

\* The inductive invariant of a save: what becomes of every plaintext attribute
\* (service.go and secret_helpers.go of the save workflow), for either store and any
\* number of processes.
THEOREM SavingInvariant == SaveSpec => []SavingInv
<1>1. SavingInv /\ [SaveNext]_saveVars => SavingInv'
  <2>1. ASSUME SavingInv, UNCHANGED saveVars PROVE SavingInv'
    <3>1. UNCHANGED <<kind, docs, itemMeta, collMeta, secret, cache, task, dropped, saveUsed>>
      BY <2>1 DEF saveVars
    <3>2. SaveDataOK'
      BY <2>1, <3>1 DEF SavingInv, SaveDataOK
    <3>3. \A s \in Processes : TaskOK(s, task[s])'
      BY <2>1, <3>1 DEF SavingInv, TaskOK, Handled, DeclaredBy, ResolveDeclaredAttributes
    <3> QED BY <2>1, <3>1, <3>2, <3>3 DEF SavingInv
  <2> QED BY <2>1, SaveStepKeeps
<1> QED BY <1>1, SaveInitInv, PTL DEF SaveSpec

\* Resources, metadata, stores and tasks are always well formed.
THEOREM SavingTypes == SaveSpec => []SaveTypeOK
<1>1. SavingInv => SaveTypeOK
  BY DEF SavingInv, SaveDataOK, SaveTypeOK
<1> QED BY <1>1, SavingInvariant, PTL

\* What a step of a process writes is an entry of its task.
LEMMA WrittenEntry ==
  ASSUME SavingInv, SaveNext, NEW s \in Processes, NEW i \in Items, Writes(s, i)
  PROVE  i \in task[s].left /\ docs'[s][i] = task[s].entries[i]
<1>1. docs \in [Processes -> [Items -> DocType]] /\ task[s].pc = "write" /\ docs'[s][i] # docs[s][i]
  BY DEF SavingInv, SaveDataOK, Writes
<1>2. PICK r \in Processes : WriteEntry(r) \/ SaveResolvedPathAsSecret(r)
  <2>1. docs' # docs
    BY <1>1
  <2>2. ASSUME NEW r \in Processes,
               \/ \E j \in Items, p \in PayloadType, e, a, f \in BOOLEAN, q \in RequestSets :
                    SaveOne(r, j, p, e, q, a, f)
               \/ \E es \in RemoteLists, e, a, f \in BOOLEAN, q \in RequestSets :
                    SaveItems(r, es, e, q, a, f)
        PROVE  FALSE
    <3>1. ASSUME NEW j, NEW p, NEW e, NEW q, NEW a, NEW f, SaveOne(r, j, p, e, q, a, f) PROVE FALSE
      BY <2>1, <3>1 DEF SaveOne
    <3>2. ASSUME NEW es, NEW e, NEW q, NEW a, NEW f, SaveItems(r, es, e, q, a, f) PROVE FALSE
      BY <2>1, <3>2 DEF SaveItems
    <3> QED BY <2>2, <3>1, <3>2
  <2>3. ASSUME NEW r \in Processes,
               \/ \E j \in Items, f \in BOOLEAN : SaveWhole(r, j, f)
               \/ \E k \in Keys : SecretDelete(r, k)
               \/ DetectFix(r)
        PROVE  FALSE
    BY <2>1, <2>3 DEF SaveWhole, SecretDelete, DetectFix
  <2>4. ASSUME NEW r \in Processes,
               \/ StoreAndMaskAttribute(r) \/ PersistDetectedAttributes(r)
               \/ EnforceSaveSecretSafety(r) \/ KillSave(r)
        PROVE  FALSE
    <3>1. CASE StoreAndMaskAttribute(r)
      BY <2>1, <3>1 DEF StoreAndMaskAttribute
    <3>2. CASE PersistDetectedAttributes(r)
      BY <2>1, <3>2 DEF PersistDetectedAttributes
    <3>3. CASE EnforceSaveSecretSafety(r) \/ KillSave(r)
      BY <2>1, <3>3 DEF EnforceSaveSecretSafety, KillSave
    <3> QED BY <2>4, <3>1, <3>2, <3>3
  <2> QED BY <2>2, <2>3, <2>4 DEF SaveNext
<1>3. CASE WriteEntry(r)
  <2>1. PICK j \in task[r].left : docs' = [docs EXCEPT ![r][j] = task[r].entries[j]]
    BY <1>1, <1>3 DEF WriteEntry
  <2> QED BY <1>1, <2>1
<1>4. CASE SaveResolvedPathAsSecret(r)
  <2>1. r # s
    BY <1>1, <1>4 DEF SaveResolvedPathAsSecret
  <2>2. UNCHANGED docs \/ \E j \in task[r].left : docs' = [docs EXCEPT ![r][j] = WholeDoc]
    BY <1>4, WholeSteps
  <2> QED BY <1>1, <2>1, <2>2
<1> QED BY <1>2, <1>3, <1>4

\* What a write leaves in plaintext is not declared, or was named away, and does not
\* look like a secret, or is declared or acknowledged.
LEMMA WrittenIsHandled ==
  ASSUME SavingInv, SaveNext, NEW s \in Processes, NEW i \in Items, Writes(s, i), NEW a \in Attrs,
         IsPlain(docs'[s][i].attrs[a])
  PROVE  /\ task[s].requested = {} => a \notin DeclaredFor(s, i)
         /\ ~task[s].allow /\ a \in Looks => a \in DeclaredFor(s, i)
<1>1. PICK t : t = task[s]
  OBVIOUS
<1>2. TaskOK(s, t) /\ t \in TaskType /\ t.pc = "write"
  BY <1>1 DEF SavingInv, Writes
<1>3. i \in t.left /\ docs'[s][i] = t.entries[i]
  BY <1>1, WrittenEntry
<1>4. t.entries[i].attrs[a] \in Plains
  BY <1>2, <1>3, PlainIsPlain DEF TaskType, DocType, PayloadType
<1>5. Handled(s, t, i, a) /\ t.todo = {}
  BY <1>2, <1>3, <1>4 DEF TaskOK
<1>6. DeclaredBy(s, t, i) = DeclaredFor(s, i)
  BY <1>1 DEF DeclaredBy, DeclaredFor
<1> QED BY <1>1, <1>2, <1>5, <1>6 DEF Handled

\* What metadata declare secret is masked, and what looks secret is saved in
\* plaintext with --allow-plaintext alone (secret_helpers.go), for either store and
\* any number of processes.
THEOREM DeclaredIsMasked == SaveSpec => DeclaredMasked /\ PlaintextAcknowledged
<1> DEFINE A == \A s \in Processes, i \in Items : Writes(s, i) /\ task[s].requested = {} =>
                  \A a \in DeclaredFor(s, i) : ~IsPlain(docs'[s][i].attrs[a])
           B == \A s \in Processes, i \in Items : Writes(s, i) /\ ~task[s].allow =>
                  \A a \in Looks \ DeclaredFor(s, i) : ~IsPlain(docs'[s][i].attrs[a])
<1>1. SavingInv => \A s \in Processes, i \in Items : DeclaredFor(s, i) \subseteq Attrs
  BY DeclaredIn DEF SavingInv, DeclaredFor
<1>2. SavingInv /\ SaveNext => A
  BY <1>1, WrittenIsHandled
<1>3. SavingInv /\ SaveNext => B
  BY SaveAssumption, WrittenIsHandled
<1>4. SavingInv /\ [SaveNext]_saveVars => [A]_saveVars /\ [B]_saveVars
  BY <1>2, <1>3
<1>5. SaveSpec => [][A]_saveVars /\ [][B]_saveVars
  BY <1>4, SavingInvariant, PTL DEF SaveSpec
<1> QED BY <1>5 DEF DeclaredMasked, PlaintextAcknowledged

\* The Vault, or one process at a time: what lets a process trust its snapshot.
OneWriter == "file" \notin StoreKinds \/ \A s, r \in Processes : s = r

DocBacked(d, i) ==
  /\ \A a \in Attrs : d.attrs[a] = "mask" => Safe(<<i, a>>)
  /\ d.kind = "whole" => Safe(<<i, ".">>)

\* The placeholders of the repository, one resource at a time.
LEMMA StoredIsBacked == PlaceholderStored <=> \A s \in Processes, i \in Items : DocBacked(docs[s][i], i)
BY DEF PlaceholderStored, DocBacked, Safe

\* A step of one process that loses no secret.
LEMMA BackedStep ==
  ASSUME SavingInv, BackedInv, NEW s \in Processes, NEW t, task' = [task EXCEPT ![s] = t],
         \A k \in Keys : Safe(k) => Safe(k)', PlaceholdersBacked(t)', SnapshotsFresh',
         \/ UNCHANGED docs
         \/ \E i \in Items : \E d : DocBacked(d, i)' /\ docs' = [docs EXCEPT ![s][i] = d]
  PROVE  BackedInv'
<1>1. /\ task \in [Processes -> TaskType] /\ docs \in [Processes -> [Items -> DocType]]
      /\ \A i \in Items, a \in Attrs : <<i, a>> \in Keys /\ <<i, ".">> \in Keys
  BY DEF SavingInv, SaveDataOK, Keys
<1>2. task'[s] = t /\ \A r \in Processes \ {s} : task'[r] = task[r]
  BY <1>1
<1>3. ASSUME NEW r \in Processes PROVE PlaceholdersBacked(task[r])'
  <2>1. PICK u : u = task'[r]
    OBVIOUS
  <2>2. CASE r = s
    <3>1. u = t
      BY <1>2, <2>1, <2>2
    <3>2. PlaceholdersBacked(u)'
      BY <3>1
    <3> QED BY <2>1, <3>2 DEF PlaceholdersBacked, Safe
  <2>3. CASE r # s
    <3>1. u = task[r] /\ u \in TaskType
      BY <1>1, <1>2, <2>1, <2>3
    <3>2. PlaceholdersBacked(u)
      BY <3>1 DEF BackedInv
    <3>3. u.left \subseteq Items
      BY <3>1 DEF TaskType
    <3>4. \A i \in Items : Safe(<<i, ".">>) => Safe(<<i, ".">>)'
      BY DEF Keys
    <3>5. \A i \in Items, a \in Attrs : Safe(<<i, a>>) => Safe(<<i, a>>)'
      BY <1>1
    <3>6. PlaceholdersBacked(u)'
      BY <3>2, <3>3, <3>4, <3>5 DEF PlaceholdersBacked
    <3> QED BY <2>1, <3>6 DEF PlaceholdersBacked, Safe
  <2> QED BY <2>2, <2>3
<1>4. \A r \in Processes, i \in Items : DocBacked(docs[r][i], i)
  BY StoredIsBacked DEF BackedInv
<1>5. ASSUME NEW i \in Items, NEW d, DocBacked(d, i) PROVE DocBacked(d, i)'
  <2>1. Safe(<<i, ".">>) => Safe(<<i, ".">>)'
    BY DEF Keys
  <2>2. \A a \in Attrs : Safe(<<i, a>>) => Safe(<<i, a>>)'
    BY <1>1
  <2> QED BY <1>5, <2>1, <2>2 DEF DocBacked
<1>6. ASSUME NEW r \in Processes, NEW i \in Items PROVE DocBacked(docs[r][i], i)'
  <2>1. PICK e : e = docs'[r][i]
    OBVIOUS
  <2>2. DocBacked(e, i)'
    <3>1. CASE e = docs[r][i]
      BY <1>4, <1>5, <3>1
    <3>2. CASE e # docs[r][i]
      <4>1. PICK j \in Items : \E d : DocBacked(d, j)' /\ docs' = [docs EXCEPT ![s][j] = d]
        BY <2>1, <3>2
      <4>2. PICK d : DocBacked(d, j)' /\ docs' = [docs EXCEPT ![s][j] = d]
        BY <4>1
      <4>3. i = j /\ e = d
        BY <1>1, <2>1, <3>2, <4>2
      <4> QED BY <4>2, <4>3
    <3> QED BY <3>1, <3>2
  <2> QED BY <2>1, <2>2 DEF DocBacked, Safe
<1>7. PlaceholderStored'
  BY <1>6 DEF PlaceholderStored, DocBacked, Safe
<1> QED BY <1>3, <1>7 DEF BackedInv

\* A step that leaves the store alone.
LEMMA QuietStep ==
  ASSUME SavingInv, BackedInv, NEW s \in Processes, NEW t, task' = [task EXCEPT ![s] = t],
         UNCHANGED <<kind, secret, dropped>>, PlaceholdersBacked(t),
         (UNCHANGED cache /\ t.pc # "idle") \/ cache' = [cache EXCEPT ![s] = Unread],
         \/ UNCHANGED docs
         \/ \E i \in Items : \E d : DocBacked(d, i) /\ docs' = [docs EXCEPT ![s][i] = d]
  PROVE  BackedInv'
<1>1. task \in [Processes -> TaskType] /\ cache \in [Processes -> [read: BOOLEAN, map: Stored]]
  BY DEF SavingInv, SaveDataOK
<1>2. \A k : Safe(k) <=> Safe(k)'
  BY DEF Safe
<1>3. PlaceholdersBacked(t)'
  BY <1>2 DEF PlaceholdersBacked
<1>4. SnapshotsFresh'
  <2>1. Unread.read = FALSE
    BY DEF Unread
  <2>2. task'[s] = t /\ \A r \in Processes \ {s} : task'[r] = task[r]
    BY <1>1
  <2>3. CASE UNCHANGED cache /\ t.pc # "idle"
    BY <2>2, <2>3 DEF BackedInv, SnapshotsFresh
  <2>4. CASE cache' = [cache EXCEPT ![s] = Unread]
    BY <1>1, <2>1, <2>2, <2>4 DEF BackedInv, SnapshotsFresh
  <2> QED BY <2>3, <2>4
<1>5. \A i \in Items : \A d : DocBacked(d, i) => DocBacked(d, i)'
  BY <1>2 DEF DocBacked
<1> QED BY <1>2, <1>3, <1>4, <1>5, BackedStep

\* A process that runs nothing holds no placeholder.
LEMMA IdleBacked == PlaceholdersBacked(IdleTask)
BY IdleTaskOK DEF PlaceholdersBacked

\* A secret is stored by the only writer, or in the Vault.
LEMMA PutStep ==
  ASSUME SavingInv, BackedInv, OneWriter, NEW s \in Processes, NEW k \in Keys, NEW v \in Plains, PutSecret(s, k, v),
         dropped' = dropped \ {k}, NEW t, task' = [task EXCEPT ![s] = t], t.pc # "idle", UNCHANGED <<kind, docs>>,
         Safe(k)' => PlaceholdersBacked(t)'
  PROVE  BackedInv'
<1>1. /\ SaveDataOK /\ task \in [Processes -> TaskType] /\ kind \in StoreKinds
  BY DEF SavingInv, SaveDataOK
<1>2. kind = "file" => (cache[s].read => cache[s].map = secret) /\ \A r \in Processes : r = s
  BY <1>1 DEF BackedInv, SnapshotsFresh, OneWriter
<1>3. /\ secret'[k] = v /\ (kind = "file" => cache'[s].map = secret')
      /\ \A q \in Keys \ {k} : secret'[q] = secret[q]
  BY <1>1, <1>2, PutSecretKeeps
<1>4. Safe(k)' /\ \A q \in Keys : Safe(q) => Safe(q)'
  BY <1>3, SaveAssumption DEF Safe
<1>5. SnapshotsFresh'
  <2>1. task'[s] = t
    BY <1>1
  <2> QED BY <1>2, <1>3, <2>1 DEF SnapshotsFresh
<1> QED BY <1>4, <1>5, BackedStep

\* A command that ends loses no secret.
LEMMA EndTaskBacked ==
  ASSUME SavingInv, BackedInv, NEW s \in Processes, EndTask(s), UNCHANGED <<kind, secret, dropped>>,
         \/ UNCHANGED docs
         \/ \E i \in Items : \E d : DocBacked(d, i) /\ docs' = [docs EXCEPT ![s][i] = d]
  PROVE  BackedInv'
BY IdleBacked, QuietStep DEF EndTask

\* The start of a save of one resource: its placeholders are old ones.
LEMMA SaveOneBacked ==
  ASSUME SavingInv, BackedInv, NEW s \in Processes, NEW i \in Items, NEW payload \in PayloadType,
         NEW enabled \in BOOLEAN, NEW requested \in RequestSets, NEW allow \in BOOLEAN, NEW force \in BOOLEAN,
         SaveOne(s, i, payload, enabled, requested, allow, force)
  PROVE  BackedInv'
<1>1. PICK candidates, selected, t :
        /\ t = [IdleTask EXCEPT !.pc = "store", !.entries[i] = AsDoc(payload), !.left = {i},
                  !.todo = {i} \X selected, !.selected = selected, !.unhandled = candidates \ selected,
                  !.requested = requested, !.enabled = enabled, !.allow = allow]
        /\ task' = [task EXCEPT ![s] = t]
  BY DEF SaveOne
<1>2. t.pc = "store"
  BY <1>1 DEF IdleTask
<1>3. PICK entries : entries = [[j \in Items |-> Missing] EXCEPT ![i] = AsDoc(payload)]
  OBVIOUS
<1>4. t.entries = entries
  <2>1. IdleTask.entries = [j \in Items |-> Missing]
    BY DEF IdleTask
  <2> QED BY <1>1, <1>3, <2>1 DEF IdleTask
<1>5. /\ entries[i].attrs = payload
      /\ \A j \in Items, a \in Attrs : j # i => entries[j].attrs[a] = "absent"
  BY <1>3, IdleTaskOK DEF AsDoc
<1>6. \A a \in Attrs : payload[a] = "mask" => Safe(<<i, a>>)
  BY DEF SaveOne, Plausible, BackedInv, PlaceholderStored, Safe
<1>7. PlaceholdersBacked(t)
  BY <1>2, <1>4, <1>5, <1>6 DEF PlaceholdersBacked
<1> QED BY <1>1, <1>2, <1>7, QuietStep DEF SaveOne

\* The start of a save of a list: it holds no placeholders.
LEMMA SaveItemsBacked ==
  ASSUME SavingInv, BackedInv, NEW s \in Processes, NEW es \in RemoteLists, NEW enabled \in BOOLEAN,
         NEW requested \in RequestSets, NEW allow \in BOOLEAN, NEW force \in BOOLEAN,
         SaveItems(s, es, enabled, requested, allow, force)
  PROVE  BackedInv'
<1>1. PICK all : all = [i \in Items |-> AsDoc(es[i])]
  OBVIOUS
<1>2. PICK candidates, selected, todo, t :
        /\ t = [IdleTask EXCEPT !.pc = "store", !.list = TRUE, !.entries = all, !.left = Items,
                  !.todo = todo, !.selected = selected, !.unhandled = candidates \ selected,
                  !.requested = requested, !.enabled = enabled, !.allow = allow]
        /\ task' = [task EXCEPT ![s] = t]
  BY <1>1 DEF SaveItems
<1>3. t.pc = "store" /\ t.entries = all
  BY <1>2 DEF IdleTask
<1>4. \A i \in Items, a \in Attrs : all[i].attrs[a] # "mask"
  BY <1>1, SaveAssumption DEF AsDoc, RemoteLists
<1>5. PlaceholdersBacked(t)
  BY <1>3, <1>4 DEF PlaceholdersBacked
<1> QED BY <1>2, <1>3, <1>5, QuietStep DEF SaveItems

\* The start of a save as a secret loses no secret.
LEMMA SaveWholeBacked ==
  ASSUME SavingInv, BackedInv, NEW s \in Processes, NEW i \in Items, NEW force \in BOOLEAN, SaveWhole(s, i, force)
  PROVE  BackedInv'
<1>1. PICK t : t = [IdleTask EXCEPT !.pc = "whole", !.left = {i}]
  OBVIOUS
<1>2. t.pc = "whole" /\ t.entries = IdleTask.entries
  BY <1>1 DEF IdleTask
<1>3. PlaceholdersBacked(t)
  BY <1>2, IdleTaskOK DEF PlaceholdersBacked
<1> QED BY <1>1, <1>2, <1>3, QuietStep DEF SaveWhole

\* secret delete takes away only what it records.
LEMMA SecretDeleteBacked ==
  ASSUME SavingInv, BackedInv, OneWriter, NEW s \in Processes, NEW k \in Keys, SecretDelete(s, k)
  PROVE  BackedInv'
<1>1. /\ secret \in [Keys -> Plains \cup {"none"}] /\ kind \in StoreKinds /\ task \in [Processes -> TaskType]
      /\ UNCHANGED <<kind, docs, cache, task>> /\ task[s].pc = "idle"
  BY DEF SavingInv, SaveDataOK, Stored, SecretDelete
<1>2. \A q \in Keys : Safe(q) => Safe(q)'
  BY <1>1 DEF SecretDelete, Safe
<1>3. SnapshotsFresh'
  <2>1. kind = "file" => \A r \in Processes : r = s
    BY <1>1 DEF OneWriter
  <2> QED BY <1>1, <2>1 DEF BackedInv, SnapshotsFresh
<1>4. PICK t \in TaskType : t = task[s]
  BY <1>1
<1>5. PlaceholdersBacked(t)'
  <2>1. PlaceholdersBacked(t) /\ t.pc = "idle"
    BY <1>1, <1>4 DEF BackedInv
  <2>2. \A i \in Items, a \in Attrs : Safe(<<i, a>>) => Safe(<<i, a>>)'
    BY <1>2 DEF Keys
  <2> QED BY <2>1, <2>2 DEF PlaceholdersBacked
<1>6. task' = [task EXCEPT ![s] = t]
  BY <1>1, <1>4
<1> QED BY <1>1, <1>2, <1>3, <1>5, <1>6, BackedStep

\* secret detect --fix loses no secret.
LEMMA DetectFixBacked ==
  ASSUME BackedInv, NEW s \in Processes, DetectFix(s)
  PROVE  BackedInv'
BY DEF DetectFix, BackedInv, PlaceholderStored, SnapshotsFresh, PlaceholdersBacked, Safe

\* An attribute is masked once its value is stored.
LEMMA StoreAndMaskBacked ==
  ASSUME SavingInv, BackedInv, OneWriter, NEW s \in Processes, StoreAndMaskAttribute(s)
  PROVE  BackedInv'
<1>1. /\ SaveDataOK /\ task[s].pc = "store" /\ UNCHANGED <<kind, docs, itemMeta, collMeta>>
      /\ TaskOK(s, task[s])
  BY DEF StoreAndMaskAttribute, SavingInv
<1>2. PICK k \in task[s].todo :
        \/ /\ PutSecret(s, k, task[s].entries[k[1]].attrs[k[2]])
           /\ task' = [task EXCEPT ![s].todo = @ \ {k}, ![s].entries[k[1]].attrs[k[2]] = "mask"]
           /\ dropped' = dropped \ {k}
           /\ UNCHANGED saveUsed
        \/ EndTask(s) /\ Break /\ UNCHANGED <<secret, dropped>>
  BY DEF StoreAndMaskAttribute
<1>3. CASE EndTask(s) /\ Break /\ UNCHANGED <<secret, dropped>>
  BY <1>1, <1>3, EndTaskBacked
<1>4. CASE /\ PutSecret(s, k, task[s].entries[k[1]].attrs[k[2]])
           /\ task' = [task EXCEPT ![s].todo = @ \ {k}, ![s].entries[k[1]].attrs[k[2]] = "mask"]
           /\ dropped' = dropped \ {k}
           /\ UNCHANGED saveUsed
  <2>1. PICK t \in TaskType :
           /\ task' = [task EXCEPT ![s] = t] /\ t.todo = task[s].todo \ {k}
           /\ \A i \in Items : t.entries[i].kind = task[s].entries[i].kind
           /\ \A i \in Items, a \in Attrs :
                t.entries[i].attrs[a] = IF <<i, a>> = k THEN "mask" ELSE task[s].entries[i].attrs[a]
           /\ t.pc = task[s].pc /\ t.list = task[s].list /\ t.selected = task[s].selected
           /\ t.unhandled = task[s].unhandled /\ t.requested = task[s].requested
           /\ t.allow = task[s].allow /\ t.left = task[s].left
    BY <1>4, StoredTask
  <2>2. k \in Keys /\ task[s].entries[k[1]].attrs[k[2]] \in Plains
    BY <1>1 DEF TaskOK, Keys
  <2>3. PICK v \in Plains : v = task[s].entries[k[1]].attrs[k[2]]
    BY <2>2
  <2>4. kind = "file" => (cache[s].read => cache[s].map = secret)
    BY DEF BackedInv, SnapshotsFresh
  <2>5. \A q \in Keys \ {k} : Safe(q) => Safe(q)'
    <3>1. \A q \in Keys \ {k} : secret'[q] = secret[q]
      BY <1>1, <1>4, <2>2, <2>3, <2>4, PutSecretKeeps
    <3> QED BY <1>4, <3>1 DEF Safe
  <2>6. ASSUME Safe(k)' PROVE PlaceholdersBacked(t)'
    <3>1. PlaceholdersBacked(task[s]) /\ t.pc = "store"
      BY <1>1, <2>1 DEF BackedInv
    <3>2. \A i \in Items, a \in Attrs : task[s].entries[i].attrs[a] = "mask" => Safe(<<i, a>>)
      BY <3>1 DEF PlaceholdersBacked
    <3>3. \A i \in Items, a \in Attrs : t.entries[i].attrs[a] = "mask" => Safe(<<i, a>>)'
      <4> SUFFICES ASSUME NEW i \in Items, NEW a \in Attrs, t.entries[i].attrs[a] = "mask"
                   PROVE  Safe(<<i, a>>)'
        OBVIOUS
      <4>1. PICK q : q = <<i, a>>
        OBVIOUS
      <4>2. q \in Keys
        BY <4>1 DEF Keys
      <4>3. Safe(q)'
        BY <2>1, <2>5, <2>6, <3>2, <4>1, <4>2
      <4> QED BY <4>1, <4>3
    <3> QED BY <3>1, <3>3 DEF PlaceholdersBacked
  <2> QED BY <1>1, <1>4, <2>1, <2>2, <2>3, <2>6, PutStep
<1> QED BY <1>2, <1>3, <1>4

\* Declaring attributes and the safety check lose no secret.
LEMMA PersistBacked ==
  ASSUME SavingInv, BackedInv, NEW s \in Processes, PersistDetectedAttributes(s) \/ EnforceSaveSecretSafety(s)
  PROVE  BackedInv'
<1>1. UNCHANGED <<kind, docs, secret, dropped>> /\ task \in [Processes -> TaskType]
  BY DEF PersistDetectedAttributes, EnforceSaveSecretSafety, SavingInv
<1>2. CASE EndTask(s)
  BY <1>1, <1>2, EndTaskBacked
<1>3. ASSUME NEW pc \in {"check", "write"}, task' = [task EXCEPT ![s].pc = pc], UNCHANGED cache
      PROVE  BackedInv'
  <2>1. PICK t, u : t = task[s] /\ u = [t EXCEPT !.pc = pc]
    OBVIOUS
  <2>2. task' = [task EXCEPT ![s] = u]
    BY <1>1, <1>3, <2>1
  <2>3. u.pc = pc /\ u.entries = t.entries
    BY <1>1, <2>1 DEF TaskType
  <2>4. PlaceholdersBacked(u)
    BY <2>1, <2>3 DEF BackedInv, PlaceholdersBacked
  <2> QED BY <1>1, <1>3, <2>2, <2>3, <2>4, QuietStep
<1> QED BY <1>2, <1>3 DEF PersistDetectedAttributes, EnforceSaveSecretSafety

\* The write of an entry brings only placeholders that are backed.
LEMMA WriteEntryBacked ==
  ASSUME SavingInv, BackedInv, NEW s \in Processes, WriteEntry(s)
  PROVE  BackedInv'
<1>1. PICK t : t = task[s]
  OBVIOUS
<1>2. /\ t.pc = "write" /\ UNCHANGED <<kind, secret, dropped>> /\ TaskOK(s, t)
      /\ t \in TaskType /\ task \in [Processes -> TaskType] /\ PlaceholdersBacked(t)
  BY <1>1 DEF WriteEntry, SavingInv, BackedInv
<1>3. CASE EndTask(s) /\ UNCHANGED docs
  BY <1>2, <1>3, EndTaskBacked
<1>4. ASSUME NEW i \in t.left, docs' = [docs EXCEPT ![s][i] = t.entries[i]],
             EndTask(s) \/ (task' = [task EXCEPT ![s].left = @ \ {i}] /\ UNCHANGED cache)
      PROVE  BackedInv'
  <2>1. i \in Items
    BY <1>2 DEF TaskType
  <2>2. PICK d : d = t.entries[i]
    OBVIOUS
  <2>3. DocBacked(d, i) /\ docs' = [docs EXCEPT ![s][i] = d]
    BY <1>2, <1>4, <2>1, <2>2 DEF DocBacked, PlaceholdersBacked, TaskOK
  <2>4. CASE EndTask(s)
    BY <1>2, <2>1, <2>3, <2>4, EndTaskBacked
  <2>5. CASE task' = [task EXCEPT ![s].left = @ \ {i}] /\ UNCHANGED cache
    <3>1. PICK u : u = [t EXCEPT !.left = t.left \ {i}]
      OBVIOUS
    <3>2. task' = [task EXCEPT ![s] = u] /\ u.pc = "write" /\ u.entries = t.entries
      BY <1>1, <1>2, <2>5, <3>1 DEF TaskType
    <3>3. PlaceholdersBacked(u)
      BY <1>2, <3>2 DEF PlaceholdersBacked
    <3> QED BY <1>2, <2>1, <2>3, <2>5, <3>2, <3>3, QuietStep
  <2> QED BY <1>4, <2>4, <2>5
<1> QED BY <1>1, <1>3, <1>4 DEF WriteEntry

\* The placeholder of a whole resource follows its secret.
LEMMA SaveAsSecretBacked ==
  ASSUME SavingInv, BackedInv, OneWriter, NEW s \in Processes, SaveResolvedPathAsSecret(s)
  PROVE  BackedInv'
<1>1. PICK t : t = task[s]
  OBVIOUS
<1>2. /\ UNCHANGED kind /\ TaskOK(s, t) /\ t \in TaskType /\ task \in [Processes -> TaskType]
      /\ PlaceholdersBacked(t) /\ t.left \subseteq Items /\ SaveDataOK
  BY <1>1 DEF SaveResolvedPathAsSecret, SavingInv, BackedInv, TaskType
<1>3. ASSUME NEW pc \in {"wholeWrite", "wholeMeta"}, task' = [task EXCEPT ![s].pc = pc]
      PROVE  \E u : /\ task' = [task EXCEPT ![s] = u] /\ u.pc = pc /\ u.entries = t.entries
                    /\ u.left = t.left
  <2>1. PICK u : u = [t EXCEPT !.pc = pc]
    OBVIOUS
  <2>2. task' = [task EXCEPT ![s] = u] /\ u.pc = pc /\ u.entries = t.entries /\ u.left = t.left
    BY <1>1, <1>2, <1>3, <2>1 DEF TaskType
  <2> QED BY <2>2
<1>4. ASSUME NEW i \in t.left, NEW v \in Plains, PutSecret(s, <<i, ".">>, v), t.pc = "whole",
             dropped' = dropped \ {<<i, ".">>}, UNCHANGED docs,
             task' = [task EXCEPT ![s].pc = "wholeWrite"]
      PROVE  BackedInv'
  <2>1. PICK u : /\ task' = [task EXCEPT ![s] = u] /\ u.pc = "wholeWrite" /\ u.entries = t.entries
                 /\ u.left = t.left
    BY <1>3, <1>4
  <2>2. PICK k \in Keys : k = <<i, ".">>
    BY <1>2 DEF Keys
  <2>3. kind = "file" => (cache[s].read => cache[s].map = secret)
    BY DEF BackedInv, SnapshotsFresh
  <2>4. \A q \in Keys \ {k} : Safe(q) => Safe(q)'
    <3>1. \A q \in Keys \ {k} : secret'[q] = secret[q]
      BY <1>2, <1>4, <2>2, <2>3, PutSecretKeeps
    <3> QED BY <1>4, <2>2, <3>1 DEF Safe
  <2>5. ASSUME Safe(k)' PROVE PlaceholdersBacked(u)'
    <3>1. \A j \in u.left : j = i
      BY <1>2, <1>4, <2>1 DEF TaskOK
    <3>2. ASSUME NEW j \in Items, NEW a \in Attrs, u.entries[j].attrs[a] = "mask" PROVE Safe(<<j, a>>)'
      <4>1. PICK q \in Keys : q = <<j, a>>
        BY DEF Keys
      <4>2. Safe(q)
        BY <1>2, <2>1, <3>2, <4>1 DEF PlaceholdersBacked
      <4>3. Safe(q)'
        BY <2>4, <2>5, <4>2
      <4> QED BY <4>1, <4>3
    <3> QED BY <2>2, <2>5, <3>1, <3>2 DEF PlaceholdersBacked
  <2> QED BY <1>2, <1>4, <2>1, <2>2, <2>5, PutStep
<1>5. ASSUME NEW i \in t.left, UNCHANGED <<secret, dropped, cache>>, t.pc = "wholeWrite",
             docs' = [docs EXCEPT ![s][i] = WholeDoc], task' = [task EXCEPT ![s].pc = "wholeMeta"]
      PROVE  BackedInv'
  <2>1. PICK u : /\ task' = [task EXCEPT ![s] = u] /\ u.pc = "wholeMeta" /\ u.entries = t.entries
                 /\ u.left = t.left
    BY <1>3, <1>5
  <2>2. PlaceholdersBacked(u) /\ Safe(<<i, ".">>)
    BY <1>2, <1>5, <2>1 DEF PlaceholdersBacked
  <2>3. \A a \in Attrs : WholeDoc.attrs[a] # "mask"
    BY DEF WholeDoc, Blank
  <2>4. DocBacked(WholeDoc, i) /\ i \in Items
    BY <1>2, <2>2, <2>3 DEF DocBacked
  <2> QED BY <1>2, <1>5, <2>1, <2>2, <2>4, QuietStep
<1>6. ASSUME EndTask(s), UNCHANGED <<secret, dropped, docs>>
      PROVE  BackedInv'
  BY <1>2, <1>6, EndTaskBacked
<1> QED BY <1>1, <1>4, <1>5, <1>6, WholeSteps

\* A kill loses no secret.
LEMMA KillSaveBacked ==
  ASSUME SavingInv, BackedInv, NEW s \in Processes, KillSave(s)
  PROVE  BackedInv'
BY EndTaskBacked DEF KillSave

\* Every step loses no secret.
LEMMA SaveStepBacked ==
  ASSUME SavingInv, BackedInv, OneWriter, SaveNext
  PROVE  BackedInv'
<1> PICK s \in Processes :
    \/ \E i \in Items, p \in PayloadType, e, a, f \in BOOLEAN, r \in RequestSets :
         SaveOne(s, i, p, e, r, a, f)
    \/ \E es \in RemoteLists, e, a, f \in BOOLEAN, r \in RequestSets :
         SaveItems(s, es, e, r, a, f)
    \/ \E i \in Items, f \in BOOLEAN : SaveWhole(s, i, f)
    \/ \E k \in Keys : SecretDelete(s, k)
    \/ DetectFix(s)
    \/ StoreAndMaskAttribute(s) \/ PersistDetectedAttributes(s) \/ EnforceSaveSecretSafety(s)
    \/ WriteEntry(s) \/ SaveResolvedPathAsSecret(s) \/ KillSave(s)
  BY DEF SaveNext
<1> QED
  BY SaveOneBacked, SaveItemsBacked, SaveWholeBacked, SecretDeleteBacked, DetectFixBacked, StoreAndMaskBacked,
     PersistBacked, WriteEntryBacked, SaveAsSecretBacked, KillSaveBacked

\* A placeholder in the repository has its secret in the store, at whatever step a
\* save is killed or fails (service.go, as_secret.go, the stores): with the Vault
\* for any number of processes, with the file store for one.
THEOREM SecretsKept ==
  ASSUME OneWriter
  PROVE  SaveSpec => NoSecretLostOrShown
<1>1. SavingInv /\ BackedInv /\ [SaveNext]_saveVars => BackedInv'
  <2>1. ASSUME BackedInv, UNCHANGED saveVars PROVE BackedInv'
    BY <2>1 DEF saveVars, BackedInv, PlaceholderStored, SnapshotsFresh, PlaceholdersBacked, Safe
  <2> QED BY <2>1, SaveStepBacked
<1>2. BackedInv => PlaceholderStored
  BY DEF BackedInv
<1>3. SaveSpec => []PlaceholderStored
  BY <1>1, <1>2, SaveInitInv, SavingInvariant, PTL DEF SaveSpec
<1> QED BY <1>3, DeclaredIsMasked DEF NoSecretLostOrShown

-----------------------------------------------------------------------------
(***************************************************************************)
(* The orchestrator. The inductive invariant: an identifier is one item's,  *)
(* an identifier in the repository or in the hands of a command is that of  *)
(* the resource it was asked for, and every step of a lookup knows what the *)
(* steps before it have ruled out.                                          *)
(***************************************************************************)

\* An identifier the service has given, to nobody but n.
Issued(x) == \E k \in 1..serial : x = Serials[k]
OwnId(n, x) ==
  \/ x = n
  \/ n \in Aliases /\ ~service.byName /\ Issued(x) /\ \A i \in items : i.id = x => i.name = n

OneItemPerId == \A i, j \in items : i.id = j.id => i = j
IdsAreGiven == \A i \in items : IF service.byName THEN i.id = i.name ELSE Issued(i.id)
LocalIdsOwn == \A n \in Aliases : local[n].id # None => OwnId(n, local[n].id)

\* What is left of the requested resource, seen by job j.
OnlyOne(j, x) == \A i \in items : i.name = j.seg \/ i.id = j.seg => i.id = x
NoneNamed(j) == \A i \in items : i.name # j.seg
NoneWithId(x) == \A i \in items : i.id # x

IsDelete(j) == j.op \in {"delete", "DELETE"}

JobIds(j) ==
  /\ OwnId(j.seg, j.rid) /\ OwnId(j.seg, j.at)
  /\ j.pc = "get" \/ (j.pc = "remove" /\ ~j.found) => j.at = j.seg
  /\ j.visited \subseteq {j.seg, j.at}
  /\ j.pc \in {"check", "candidate"} => j.pick \in ItemType /\ OwnId(j.seg, j.pick.id)

JobOps(j) ==
  /\ j.op \in {"apply", "create", "update", "diff"} => j.seg \in Aliases /\ j.want \in Bodies
  /\ j.pc = "remove" => IsDelete(j)
  /\ j.pc = "create" => j.op \in {"apply", "create"}
  /\ j.pc = "update" => j.op \in {"apply", "update", "PUT"} /\ j.want \in Bodies
  /\ j.pc = "idle" => j.op = "get"
  /\ j.pc # "idle" => j.outcome = "none"

JobRulesOut(j) ==
  /\ j.pc \in {"expand", "reget", "scan"} => NoneWithId(j.rid)
  /\ j.pc \in Calls /\ IsDelete(j) => j.rid = j.seg /\ j.pc # "check" /\ NoneWithId(j.seg)
  /\ j.pc \in {"expand", "reget"} /\ j.at # j.seg => OnlyOne(j, j.at)
  /\ j.pc = "expand" /\ j.at # j.seg /\ ~j.blind => NoneNamed(j)
  /\ j.pc = "scan" /\ service.identity /\ service.listable /\ ~j.blind => NoneNamed(j)
  /\ j.pc = "candidate" /\ IsDelete(j) => OnlyOne(j, j.pick.id)
  /\ j.pc = "remove" /\ j.found => OnlyOne(j, j.rid)
  /\ j.pc = "remove" /\ ~j.found => j.rid = j.seg
  /\ j.pc = "create" /\ j.op = "apply" /\ service.identity /\ service.listable
       /\ (j.rid = j.seg \/ ~j.blind) => NoneNamed(j)

JobOK(j) == j \in JobType /\ JobIds(j) /\ JobOps(j) /\ JobRulesOut(j)

\* The service's lists are not filtered.
ServiceOK == service \in ServiceType /\ ~service.jq /\ (service.byName => service.unique)
ItemsOK == IsFiniteSet(items) /\ OneItemPerId /\ IdsAreGiven
OrchestratorInv == OrchestratorTypeOK /\ ServiceOK /\ ItemsOK /\ LocalIdsOwn /\ JobOK(job)

Rest == UNCHANGED <<service, local, items, serial>>
BudgetType == [faults: 0..MaxFaults, others: 0..MaxOthers]

\* A finite set that has not more than one element.
LEMMA AtMostOne ==
  ASSUME NEW S, IsFiniteSet(S), ~(Cardinality(S) > 1)
  PROVE  \A x, y \in S : x = y
<1> SUFFICES ASSUME NEW x \in S, NEW y \in S, x # y PROVE FALSE
  OBVIOUS
<1>1. IsFiniteSet({x}) /\ Cardinality({x}) = 1
  BY FS_Singleton
<1>2. IsFiniteSet({x, y}) /\ Cardinality({x, y}) = 2
  <2>1. {x, y} = {x} \cup {y} /\ y \notin {x}
    OBVIOUS
  <2> QED BY <1>1, <2>1, FS_AddElement
<1>3. Cardinality({x, y}) <= Cardinality(S)
  BY FS_Subset
<1>4. Cardinality(S) \in Nat
  BY FS_CardinalityType
<1> QED BY <1>2, <1>3, <1>4

\* A command that is over satisfies what is asked of commands.
LEMMA IdleJobOK ==
  ASSUME OrchestratorInv, NEW o \in Outcomes
  PROVE  JobOK([IdleJob EXCEPT !.outcome = o])
<1> AnyName \in Aliases
  BY OrchestratorAssumption DEF AnyName
<1> QED
  BY DEF JobOK, JobIds, JobOps, JobRulesOut, IdleJob, JobType, Steps, Calls, Ops, Ids, IsDelete, OwnId

\* A step that changes nothing but the command.
LEMMA JobStepKeeps ==
  ASSUME OrchestratorInv, Rest, budget' \in BudgetType, NEW j, JobOK(j), job' = j
  PROVE  OrchestratorInv'
<1>1. OrchestratorTypeOK' /\ ServiceOK' /\ ItemsOK' /\ LocalIdsOwn'
  BY DEF OrchestratorInv, Rest, OrchestratorTypeOK, ServiceOK, ItemsOK, LocalIdsOwn, BudgetType, JobOK,
         OneItemPerId, IdsAreGiven, Issued, OwnId
<1>2. JobOK(job)'
  BY DEF Rest, JobOK, JobIds, JobOps, JobRulesOut, OnlyOne, NoneNamed, NoneWithId, OwnId, Issued, IsDelete
<1> QED BY <1>1, <1>2 DEF OrchestratorInv

\* A command ends.
LEMMA FinishKeeps ==
  ASSUME OrchestratorInv, Rest, budget' \in BudgetType, NEW o \in Outcomes, Finish(o)
  PROVE  OrchestratorInv'
BY IdleJobOK, JobStepKeeps DEF Finish

\* An alias is an identifier of its own resource only.
LEMMA OwnAliasId ==
  ASSUME OrchestratorInv, NEW n, NEW x \in Aliases, OwnId(n, x)
  PROVE  x = n
<1>1. serial \in 0..Len(Serials)
  BY DEF OrchestratorInv, OrchestratorTypeOK
<1>2. ~Issued(x)
  BY <1>1, OrchestratorAssumption DEF Issued
<1> QED BY <1>2 DEF OwnId

\* The identifier of an item is one of its own name.
LEMMA OwnItemId ==
  ASSUME OrchestratorInv, NEW i \in items
  PROVE  OwnId(i.name, i.id) /\ i \in ItemType
BY DEF OrchestratorInv, OrchestratorTypeOK, ItemsOK, OneItemPerId, IdsAreGiven, OwnId, ItemType

\* The lookup has found the resource.
LEMMA FoundKeeps ==
  ASSUME OrchestratorInv, job.pc \in Calls, NEW i \in ItemType, OwnId(job.seg, i.id),
         IsDelete(job) => OnlyOne(job, i.id), Rest, budget' \in BudgetType, Found(i)
  PROVE  OrchestratorInv'
<1> USE DEF OrchestratorInv, JobOK
<1>1. CASE job.op = "apply" /\ i.value = job.want /\ ~job.force
  BY <1>1, FinishKeeps DEF Found, Outcomes
<1>2. CASE job.op = "apply" /\ ~(i.value = job.want /\ ~job.force)
  <2> DEFINE j == [job EXCEPT !.pc = "update", !.rid = i.id]
  <2>1. job' = j
    BY <1>2 DEF Found, Goto
  <2>2. j \in JobType
    BY DEF JobType, ItemType, Steps
  <2>3. JobIds(j)
    BY DEF JobType, JobIds, Calls
  <2>4. JobOps(j)
    BY <1>2 DEF JobType, JobOps, Calls, IsDelete
  <2>5. JobRulesOut(j)
    BY DEF JobType, JobRulesOut, Calls
  <2> QED BY <2>1, <2>2, <2>3, <2>4, <2>5, JobStepKeeps
<1>3. CASE IsDelete(job)
  <2> DEFINE j == [job EXCEPT !.pc = "remove", !.found = TRUE, !.rid = i.id]
  <2>1. job' = j
    BY <1>3 DEF Found, Goto, IsDelete
  <2>2. j \in JobType
    BY DEF JobType, ItemType, Steps
  <2>3. OnlyOne(j, i.id)
    BY <1>3 DEF OnlyOne, JobType
  <2>4. JobIds(j) /\ JobOps(j)
    BY <1>3 DEF JobType, JobIds, JobOps, Calls, IsDelete
  <2>5. JobRulesOut(j)
    BY <2>3 DEF JobType, JobRulesOut, Calls
  <2> QED BY <2>1, <2>2, <2>4, <2>5, JobStepKeeps
<1>4. CASE job.op # "apply" /\ ~IsDelete(job)
  BY <1>4, FinishKeeps DEF Found, Outcomes, IsDelete
<1> QED BY <1>1, <1>2, <1>3, <1>4

\* The lookup has ruled the resource out.
LEMMA NotFoundKeeps ==
  ASSUME OrchestratorInv, job.pc = "scan", service.listable => Matched(job.rid) = {}, Rest,
         budget' \in BudgetType, NotFound
  PROVE  OrchestratorInv'
<1> USE DEF OrchestratorInv, JobOK
<1>1. CASE job.op # "apply"
  BY <1>1, FinishKeeps DEF NotFound, Outcomes
<1>2. CASE job.op = "apply"
  <2> DEFINE j == [job EXCEPT !.pc = "create"]
  <2>1. job' = j
    BY <1>2 DEF NotFound, Goto
  <2>2. j \in JobType
    BY DEF JobType, Steps
  <2>3. ASSUME service.identity, service.listable, job.rid = job.seg \/ ~job.blind
        PROVE  NoneNamed(j)
    BY <2>3 DEF NoneNamed, Matched, MatchesFallbackIdentity, JobRulesOut, JobType
  <2>4. JobIds(j) /\ JobOps(j)
    BY <1>2 DEF JobType, JobIds, JobOps, IsDelete
  <2>5. JobRulesOut(j)
    BY <2>3 DEF JobType, JobRulesOut, Calls
  <2> QED BY <2>1, <2>2, <2>4, <2>5, JobStepKeeps
<1> QED BY <1>1, <1>2

\* A command starts on an identifier of its resource.
LEMMA StartJobKeeps ==
  ASSUME OrchestratorInv, Rest, budget' \in BudgetType,
         NEW op \in Ops, NEW n \in Ids, NEW x \in Ids, NEW v \in Bodies \cup {None}, NEW f \in BOOLEAN,
         NEW pc \in {"get", "create", "update", "remove"}, OwnId(n, x),
         op \in {"apply", "create", "update", "diff"} => n \in Aliases /\ v \in Bodies,
         pc = "get" => op \in {"apply", "diff", "get", "GET"},
         pc = "create" => op = "create",
         pc = "update" => op \in {"update", "PUT"} /\ v \in Bodies,
         pc = "remove" => IsDelete([op |-> op]) /\ x = n,
         StartJob(op, n, x, v, pc, f)
  PROVE  OrchestratorInv'
<1> DEFINE j == [IdleJob EXCEPT !.pc = pc, !.op = op, !.seg = n, !.at = n, !.rid = x,
                                !.want = v, !.force = f, !.visited = {n}]
<1>1. job' = j
  BY DEF StartJob, Goto
<1>2. j \in JobType
  <2>1. AnyName \in Ids
    BY OrchestratorAssumption DEF AnyName, Ids
  <2> QED BY <2>1 DEF JobType, IdleJob, Steps, Calls, Outcomes
<1>3. /\ j.pc = pc /\ j.op = op /\ j.seg = n /\ j.at = n /\ j.rid = x /\ j.want = v
      /\ j.visited = {n} /\ j.outcome = "none" /\ j.found = FALSE
  BY DEF IdleJob
<1> HIDE DEF j
<1>4. JobIds(j)
  BY <1>3 DEF JobIds, OwnId
<1>5. JobOps(j)
  BY <1>3 DEF JobOps, IsDelete
<1>6. JobRulesOut(j)
  BY <1>3 DEF JobRulesOut, IsDelete, Calls
<1> QED BY <1>1, <1>2, <1>4, <1>5, <1>6, JobStepKeeps DEF JobOK

\* Faults and other clients stay within their bounds.
LEMMA BudgetKept ==
  ASSUME OrchestratorInv, UNCHANGED budget \/ Fault \/ Other
  PROVE  budget' \in BudgetType
BY OrchestratorAssumption DEF OrchestratorInv, OrchestratorTypeOK, BudgetType, Fault, Other

\* A command on a resource of the repository starts.
LEMMA StartLocalKeeps ==
  ASSUME OrchestratorInv, NEW op \in Ops, NEW s \in Ids, NEW f \in BOOLEAN, StartLocal(op, s, f)
  PROVE  OrchestratorInv'
<1> DEFINE found == ResolveLocal(s)
<1>1. Rest /\ budget' \in BudgetType
  BY BudgetKept DEF StartLocal, Rest
<1>2. CASE Cardinality(found) # 1
  BY <1>1, <1>2, FinishKeeps DEF StartLocal, Outcomes
<1>3. CASE Cardinality(found) = 1
  <2>1. PICK n \in found : StartJob(op, n, ResolveRemoteID(n), local[n].value,
                                    IF op \in {"apply", "diff"} THEN "get" ELSE op, f)
    BY <1>3 DEF StartLocal
  <2>2. n \in Aliases /\ local[n].value \in Bodies
    BY DEF ResolveLocal, OrchestratorInv, OrchestratorTypeOK
  <2>3. ResolveRemoteID(n) \in Ids /\ OwnId(n, ResolveRemoteID(n))
    BY <2>2 DEF ResolveRemoteID, OrchestratorInv, OrchestratorTypeOK, LocalIdsOwn, OwnId, Ids
  <2>4. op \in {"apply", "create", "update", "diff"}
    BY DEF StartLocal
  <2> QED
    BY <1>1, <2>1, <2>2, <2>3, <2>4, StartJobKeeps DEF Ids
<1> QED BY <1>2, <1>3

\* A command on a resource of the service starts.
LEMMA StartRemoteKeeps ==
  ASSUME OrchestratorInv, NEW op \in Ops, NEW s \in Ids, StartRemote(op, s)
  PROVE  OrchestratorInv'
<1>1. Rest /\ budget' \in BudgetType
  BY BudgetKept DEF StartRemote, Rest
<1>2. OwnId(s, s)
  BY DEF OwnId
<1>3. CASE op \in {"get", "GET"} /\ StartJob(op, s, s, None, "get", FALSE)
  BY <1>1, <1>2, <1>3, StartJobKeeps
<1>4. CASE op \in {"delete", "DELETE"} /\ StartJob(op, s, s, None, "remove", FALSE)
  BY <1>1, <1>2, <1>4, StartJobKeeps DEF IsDelete
<1>5. CASE op = "PUT" /\ \E v \in Bodies : StartJob(op, s, s, v, "update", FALSE)
  BY <1>1, <1>2, <1>5, StartJobKeeps
<1> QED BY <1>3, <1>4, <1>5 DEF StartRemote

\* The read by identifier keeps the invariant.
LEMMA GetKeeps ==
  ASSUME OrchestratorInv, Get
  PROVE  OrchestratorInv'
<1> USE DEF OrchestratorInv, JobOK
<1>1. Rest /\ budget' \in BudgetType /\ job.pc = "get" /\ job.at = job.seg
  BY BudgetKept DEF Get, Rest, JobIds
<1>2. CASE ById(job.rid) = {}
  <2> DEFINE j == [job EXCEPT !.pc = "expand"]
  <2>1. job' = j
    BY <1>2 DEF Get, Goto
  <2>2. j \in JobType
    BY DEF JobType, Steps, Calls
  <2>3. NoneWithId(j.rid)
    BY <1>2 DEF NoneWithId, ById, JobType
  <2>4. JobIds(j) /\ JobOps(j)
    BY <1>1 DEF JobType, JobIds, JobOps, IsDelete
  <2>5. JobRulesOut(j)
    BY <1>1, <2>3 DEF JobType, JobRulesOut, Calls, IsDelete
  <2> QED BY <1>1, <2>1, <2>2, <2>4, <2>5, JobStepKeeps
<1>3. CASE ById(job.rid) # {}
  <2>1. PICK i \in ById(job.rid) : IF ShouldCheckRemoteIdentityAmbiguity
            THEN Goto([job EXCEPT !.pc = "check", !.pick = i]) ELSE Found(i)
    BY <1>3 DEF Get
  <2>2. i \in ItemType /\ i.id = job.rid /\ i \in items
    BY OwnItemId DEF ById
  <2>3. OwnId(job.seg, i.id) /\ ~IsDelete(job)
    BY <1>1, <2>2 DEF JobIds, JobRulesOut, Calls, NoneWithId
  <2>4. CASE ~ShouldCheckRemoteIdentityAmbiguity
    BY <1>1, <2>1, <2>2, <2>3, <2>4, FoundKeeps DEF Calls
  <2>5. CASE ShouldCheckRemoteIdentityAmbiguity
    <3> DEFINE j == [job EXCEPT !.pc = "check", !.pick = i]
    <3>1. job' = j
      BY <2>1, <2>5 DEF Goto
    <3>2. j \in JobType
      BY <2>2 DEF JobType, Steps, Calls
    <3>3. JobIds(j) /\ JobOps(j) /\ JobRulesOut(j)
      BY <1>1, <2>2, <2>3 DEF JobType, JobIds, JobOps, JobRulesOut, Calls, IsDelete
    <3> QED BY <1>1, <3>1, <3>2, <3>3, JobStepKeeps
  <2> QED BY <2>4, <2>5
<1> QED BY <1>2, <1>3

\* The search for a second resource of that name keeps the invariant.
LEMMA DetectAmbiguityKeeps ==
  ASSUME OrchestratorInv, DetectAmbiguity
  PROVE  OrchestratorInv'
<1>1. Rest /\ budget' \in BudgetType /\ job.pc = "check"
  BY BudgetKept DEF DetectAmbiguity, Rest
<1>2. job.pick \in ItemType /\ OwnId(job.seg, job.pick.id) /\ ~IsDelete(job)
  BY <1>1 DEF OrchestratorInv, JobOK, JobIds, JobRulesOut, Calls
<1>3. Finish("conflict") \/ Found(job.pick)
  BY DEF DetectAmbiguity
<1> QED BY <1>1, <1>2, <1>3, FinishKeeps, FoundKeeps DEF Calls, Outcomes

\* An item listed under the alias a lookup has reached is the one it looks for.
LEMMA ListedUnderAlias ==
  ASSUME OrchestratorInv, NEW x, OwnId(job.seg, x), NEW i \in items, i.name = x
  PROVE  x = job.seg /\ OwnId(job.seg, i.id)
<1>1. i \in ItemType /\ OwnId(i.name, i.id)
  BY OwnItemId
<1> QED BY <1>1, OwnAliasId DEF ItemType

\* The expansion of the path by a list probe keeps the invariant.
LEMMA ExpandPathKeeps ==
  ASSUME OrchestratorInv, ExpandPath
  PROVE  OrchestratorInv'
<1> USE DEF OrchestratorInv, JobOK
<1> DEFINE m == Matched(job.at)
           next == IF ~service.identity \/ ~service.listable THEN {} ELSE m
           fresh == {i \in next : i.id # job.at /\ i.id \notin job.visited}
<1>1. Rest /\ budget' \in BudgetType /\ job.pc = "expand" /\ job \in JobType
  BY BudgetKept DEF ExpandPath, Rest
<1>2. \/ Cardinality(next) > 1 /\ Finish("conflict")
      \/ ~(Cardinality(next) > 1) /\ fresh = {} /\ Goto([job EXCEPT !.pc = "scan"])
      \/ /\ ~(Cardinality(next) > 1) /\ fresh # {}
         /\ \E i \in fresh :
              Goto([job EXCEPT !.pc = "reget", !.at = i.id, !.visited = @ \cup {i.id}])
  BY DEF ExpandPath, ServiceOK, AllowsSingletonListIdentityFallback
<1>3. NoneWithId(job.rid) /\ OwnId(job.seg, job.at) /\ job.visited \subseteq {job.seg, job.at}
  BY <1>1 DEF JobRulesOut, JobIds
<1>4. CASE Cardinality(next) > 1 /\ Finish("conflict")
  BY <1>1, <1>4, FinishKeeps DEF Outcomes
<1>5. CASE fresh = {} /\ Goto([job EXCEPT !.pc = "scan"])
  <2> DEFINE j == [job EXCEPT !.pc = "scan"]
  <2>1. job' = j
    BY <1>5 DEF Goto
  <2>2. j \in JobType
    BY DEF JobType, Steps, Calls
  <2>3. ASSUME service.identity, service.listable, ~job.blind
        PROVE  NoneNamed(j)
    <3>1. CASE job.at # job.seg
      BY <1>1, <2>3, <3>1 DEF JobRulesOut, NoneNamed, JobType
    <3>2. CASE job.at = job.seg
      <4>1. SUFFICES ASSUME NEW i \in items, i.name = job.seg PROVE FALSE
        BY DEF NoneNamed, JobType
      <4>2. i \in next
        BY <2>3, <3>2, <4>1 DEF Matched, MatchesFallbackIdentity
      <4>3. i.id = job.seg
        BY <1>3, <1>5, <3>2, <4>2
      <4>4. job.seg \in Aliases
        BY <4>1, OwnItemId DEF ItemType
      <4>5. OwnId(job.seg, job.rid)
        BY DEF JobIds
      <4>6. ~Issued(job.seg)
        BY <4>4, OrchestratorAssumption DEF Issued, OrchestratorTypeOK
      <4>7. service.byName
        BY <4>3, <4>6 DEF ItemsOK, IdsAreGiven
      <4>8. job.rid = job.seg
        BY <4>5, <4>7 DEF OwnId
      <4> QED BY <1>3, <4>3, <4>8 DEF NoneWithId
    <3> QED BY <3>1, <3>2
  <2>4. JobIds(j)
    BY <1>1 DEF JobType, JobIds
  <2>5. JobOps(j)
    BY <1>1 DEF JobType, JobOps, IsDelete
  <2>6. JobRulesOut(j)
    BY <1>1, <2>3 DEF JobType, JobRulesOut, Calls, IsDelete
  <2> QED BY <1>1, <2>1, <2>2, <2>4, <2>5, <2>6, JobStepKeeps
<1>6. ASSUME ~(Cardinality(next) > 1), NEW i \in fresh,
             Goto([job EXCEPT !.pc = "reget", !.at = i.id, !.visited = @ \cup {i.id}])
      PROVE  OrchestratorInv'
  <2> DEFINE j == [job EXCEPT !.pc = "reget", !.at = i.id, !.visited = @ \cup {i.id}]
  <2>1. job' = j
    BY <1>6 DEF Goto
  <2>2. i \in items /\ i \in next /\ i \in ItemType /\ next = m
    BY <1>6, OwnItemId DEF Matched
  <2>3. i.name = job.at
    BY <2>2, <1>6 DEF Matched, MatchesFallbackIdentity
  <2>4. job.at = job.seg /\ OwnId(job.seg, i.id)
    BY <1>3, <2>2, <2>3, ListedUnderAlias
  <2>5. IsFiniteSet(next)
    <3>1. next \subseteq items
      BY DEF Matched
    <3> QED BY <3>1, FS_Subset DEF ItemsOK
  <2>6. \A x \in m : x = i
    BY <1>6, <2>2, <2>5, AtMostOne
  <2>7. OnlyOne(job, i.id)
    BY <2>4, <2>6 DEF OnlyOne, Matched, MatchesFallbackIdentity
  <2>8. /\ j.pc = "reget" /\ j.at = i.id /\ j.visited = job.visited \cup {i.id} /\ j.op = job.op
        /\ j.seg = job.seg /\ j.rid = job.rid /\ j.outcome = job.outcome /\ j.want = job.want
    BY <1>1 DEF JobType
  <2>9. j \in JobType
    BY <1>1, <2>2 DEF JobType, Steps, Calls, ItemType
  <2> HIDE DEF j
  <2>10. JobIds(j)
    BY <1>3, <2>4, <2>8 DEF JobIds
  <2>11. JobOps(j)
    BY <1>1, <2>8 DEF JobOps, IsDelete
  <2>12. JobRulesOut(j)
    BY <1>1, <2>7, <2>8 DEF JobRulesOut, Calls, IsDelete, OnlyOne
  <2> QED BY <1>1, <2>1, <2>9, <2>10, <2>11, <2>12, JobStepKeeps
<1> QED BY <1>2, <1>4, <1>5, <1>6

\* The second read, by the expanded path, keeps the invariant.
LEMMA RegetKeeps ==
  ASSUME OrchestratorInv, Reget
  PROVE  OrchestratorInv'
<1> USE DEF OrchestratorInv, JobOK
<1>1. Rest /\ budget' \in BudgetType /\ job.pc = "reget" /\ job \in JobType
  BY BudgetKept DEF Reget, Rest
<1>2. CASE ById(job.at) = {}
  <2> DEFINE j == [job EXCEPT !.pc = "expand"]
  <2>1. job' = j
    BY <1>2 DEF Reget, Goto
  <2>2. j \in JobType
    BY <1>1 DEF JobType, Steps, Calls
  <2>3. job.at # job.seg => NoneNamed(j) /\ OnlyOne(j, job.at)
    BY <1>1, <1>2 DEF JobType, JobRulesOut, OnlyOne, NoneNamed, ById
  <2>4. JobIds(j)
    BY <1>1 DEF JobType, JobIds
  <2>5. JobOps(j)
    BY <1>1 DEF JobType, JobOps, IsDelete
  <2>6. JobRulesOut(j)
    BY <1>1, <2>3 DEF JobType, JobRulesOut, Calls, IsDelete
  <2> QED BY <1>1, <2>1, <2>2, <2>4, <2>5, <2>6, JobStepKeeps
<1>3. ASSUME NEW i \in ById(job.at), Found(i)
      PROVE  OrchestratorInv'
  <2>1. i \in items /\ i.id = job.at /\ i \in ItemType
    BY OwnItemId DEF ById
  <2>2. OwnId(job.seg, i.id)
    BY <2>1 DEF JobIds
  <2>3. IsDelete(job) => OnlyOne(job, i.id)
    BY <1>1, <2>1 DEF JobRulesOut, Calls, NoneWithId
  <2> QED BY <1>1, <1>3, <2>1, <2>2, <2>3, FoundKeeps DEF Calls
<1> QED BY <1>2, <1>3 DEF Reget

\* The search of the last list keeps the invariant.
LEMMA ScanKeeps ==
  ASSUME OrchestratorInv, Scan
  PROVE  OrchestratorInv'
<1> USE DEF OrchestratorInv, JobOK
<1> DEFINE m == Matched(job.rid)
<1>1. Rest /\ budget' \in BudgetType /\ job.pc = "scan" /\ job \in JobType
  BY BudgetKept DEF Scan, Rest
<1>2. \/ (service.listable => m = {}) /\ NotFound
      \/ Finish("conflict")
      \/ ~(Cardinality(m) > 1) /\ \E i \in m : Goto([job EXCEPT !.pc = "candidate", !.pick = i])
  BY DEF Scan, ServiceOK, AllowsSingletonListIdentityFallback
<1>3. NoneWithId(job.rid) /\ OwnId(job.seg, job.rid)
  BY <1>1 DEF JobRulesOut, JobIds
<1>4. ASSUME ~(Cardinality(m) > 1), NEW i \in m, Goto([job EXCEPT !.pc = "candidate", !.pick = i])
      PROVE  OrchestratorInv'
  <2> DEFINE j == [job EXCEPT !.pc = "candidate", !.pick = i]
  <2>1. job' = j
    BY <1>4 DEF Goto
  <2>2. i \in items /\ i \in ItemType /\ i.name = job.rid
    BY <1>3, OwnItemId DEF Matched, MatchesFallbackIdentity, NoneWithId
  <2>3. job.rid = job.seg /\ OwnId(job.seg, i.id)
    BY <1>3, <2>2, ListedUnderAlias
  <2>4. IsFiniteSet(m)
    <3>1. m \subseteq items
      BY DEF Matched
    <3> QED BY <3>1, FS_Subset DEF ItemsOK
  <2>5. \A x \in m : x = i
    BY <1>4, <2>4, AtMostOne
  <2>6. OnlyOne(job, i.id)
    BY <2>3, <2>5 DEF OnlyOne, Matched, MatchesFallbackIdentity
  <2>7. /\ j.pc = "candidate" /\ j.pick = i /\ j.op = job.op /\ j.at = job.at
        /\ j.visited = job.visited /\ j.seg = job.seg /\ j.rid = job.rid
        /\ j.outcome = job.outcome /\ j.want = job.want
    BY <1>1 DEF JobType
  <2>8. j \in JobType
    BY <1>1, <2>2 DEF JobType, Steps, Calls
  <2> HIDE DEF j
  <2>9. JobIds(j)
    BY <2>2, <2>3, <2>7 DEF JobIds
  <2>10. JobOps(j)
    BY <1>1, <2>7 DEF JobOps, IsDelete
  <2>11. JobRulesOut(j)
    BY <1>1, <2>6, <2>7 DEF JobRulesOut, Calls, IsDelete, OnlyOne
  <2> QED BY <1>1, <2>1, <2>8, <2>9, <2>10, <2>11, JobStepKeeps
<1> QED BY <1>1, <1>2, <1>4, NotFoundKeeps, FinishKeeps DEF Outcomes

\* The read of a candidate keeps the invariant.
LEMMA CandidateKeeps ==
  ASSUME OrchestratorInv, Candidate
  PROVE  OrchestratorInv'
<1> USE DEF OrchestratorInv, JobOK
<1>1. Rest /\ budget' \in BudgetType /\ job.pc = "candidate"
  BY BudgetKept DEF Candidate, Rest
<1>2. /\ job.pick \in ItemType /\ OwnId(job.seg, job.pick.id)
      /\ IsDelete(job) => OnlyOne(job, job.pick.id)
  BY <1>1 DEF JobIds, JobRulesOut
<1>3. Found(job.pick) \/ Finish("conflict") \/ \E i \in ById(job.pick.id) : Found(i)
  BY DEF Candidate
<1>4. \A i \in ById(job.pick.id) : i \in ItemType /\ i.id = job.pick.id
  BY OwnItemId DEF ById
<1> QED BY <1>1, <1>2, <1>3, <1>4, FoundKeeps, FinishKeeps DEF Calls, Outcomes

\* A read that fails keeps the invariant.
LEMMA FetchFailsKeeps ==
  ASSUME OrchestratorInv, FetchFails
  PROVE  OrchestratorInv'
<1> USE DEF OrchestratorInv, JobOK
<1>1. Rest /\ budget' \in BudgetType /\ job.pc \in Calls /\ job \in JobType
  BY BudgetKept DEF FetchFails, Rest
<1>2. ASSUME NEW pc \in {"scan", "expand"}, Goto([job EXCEPT !.pc = pc, !.blind = TRUE]),
             job.pc = IF pc = "scan" THEN "expand" ELSE "reget"
      PROVE  OrchestratorInv'
  <2> DEFINE j == [job EXCEPT !.pc = pc, !.blind = TRUE]
  <2>1. job' = j
    BY <1>2 DEF Goto
  <2>2. j \in JobType
    BY <1>1 DEF JobType, Steps, Calls
  <2>3. /\ j.pc = pc /\ j.blind = TRUE /\ j.op = job.op /\ j.at = job.at
        /\ j.visited = job.visited /\ j.seg = job.seg /\ j.rid = job.rid
        /\ j.outcome = job.outcome /\ j.want = job.want
    BY <1>1 DEF JobType
  <2> HIDE DEF j
  <2>4. JobIds(j)
    BY <2>3 DEF JobIds
  <2>5. JobOps(j)
    BY <1>2, <2>3 DEF JobOps, IsDelete
  <2>6. JobRulesOut(j)
    BY <1>2, <2>3 DEF JobRulesOut, Calls, IsDelete, OnlyOne
  <2> QED BY <1>1, <2>1, <2>2, <2>4, <2>5, <2>6, JobStepKeeps
<1>3. CASE job.pc = "expand"
  BY <1>2, <1>3 DEF FetchFails
<1>4. CASE job.pc = "reget"
  BY <1>2, <1>4 DEF FetchFails
<1>5. CASE job.pc = "check"
  <2>1. job.pick \in ItemType /\ OwnId(job.seg, job.pick.id) /\ ~IsDelete(job)
    BY <1>5 DEF JobIds, JobRulesOut, Calls
  <2> QED BY <1>1, <1>5, <2>1, FoundKeeps DEF FetchFails
<1>6. CASE job.pc \notin {"expand", "reget", "check"}
  BY <1>1, <1>6, FinishKeeps DEF FetchFails, Outcomes
<1> QED BY <1>3, <1>4, <1>5, <1>6

-----------------------------------------------------------------------------
(* The steps that change the service *)

\* The items of the next state were there before, under their identifier and
\* their alias.
NoNewItems ==
  /\ IsFiniteSet(items') /\ items' \subseteq ItemType
  /\ \A i \in items' : \E o \in items : o.id = i.id /\ o.name = i.name
  /\ \A i, j \in items' : i.id = j.id => i = j

\* Identifiers stay unique and given when items go or change.
LEMMA FewerItemsKeep ==
  ASSUME OrchestratorInv, NoNewItems, UNCHANGED <<service, local, serial>>, budget' \in BudgetType
  PROVE  /\ ItemsOK' /\ LocalIdsOwn' /\ ServiceOK'
         /\ JobOK(job) /\ job' = job => OrchestratorInv'
         /\ \A o \in Outcomes : Finish(o) => OrchestratorInv'
<1> USE DEF OrchestratorInv
<1>1. \A n, x : OwnId(n, x) => OwnId(n, x)'
  BY DEF OwnId, Issued, NoNewItems
<1>2. ItemsOK' /\ LocalIdsOwn' /\ ServiceOK'
  BY <1>1 DEF ItemsOK, OneItemPerId, IdsAreGiven, Issued, NoNewItems, LocalIdsOwn, ServiceOK
<1>3. job' \in JobType => OrchestratorTypeOK'
  BY DEF OrchestratorTypeOK, NoNewItems, BudgetType
<1>4. ASSUME JobOK(job), job' = job
      PROVE  OrchestratorInv'
  <2>1. JobIds(job)'
    BY <1>1, <1>4 DEF JobOK, JobIds
  <2>2. JobOps(job)'
    BY <1>4 DEF JobOK, JobOps, IsDelete
  <2>3. /\ \A x : NoneWithId(x) => NoneWithId(x)'
        /\ \A x : OnlyOne(job, x) => OnlyOne(job, x)'
        /\ NoneNamed(job) => NoneNamed(job)'
    BY <1>4 DEF NoneWithId, OnlyOne, NoneNamed, NoNewItems
  <2>4. JobRulesOut(job)'
    BY <1>4, <2>3 DEF JobOK, JobRulesOut, IsDelete
  <2> QED BY <1>2, <1>3, <1>4, <2>1, <2>2, <2>4 DEF JobOK
<1>5. ASSUME NEW o \in Outcomes, Finish(o)
      PROVE  OrchestratorInv'
  <2> DEFINE j == [IdleJob EXCEPT !.outcome = o]
  <2>1. JobOK(j) /\ job' = j
    BY <1>5, IdleJobOK DEF Finish
  <2>2. AnyName \in Aliases
    BY OrchestratorAssumption DEF AnyName
  <2>3. /\ j.pc = "idle" /\ j.op = "get" /\ j.seg = AnyName /\ j.rid = AnyName /\ j.at = AnyName
        /\ j.visited = {}
    BY DEF IdleJob
  <2> HIDE DEF j
  <2>4. JobOK(job)'
    BY <2>1, <2>2, <2>3 DEF JobOK, JobIds, JobOps, JobRulesOut, OwnId, Calls, IsDelete
  <2> QED BY <1>2, <1>3, <2>1, <2>4 DEF JobOK
<1> QED BY <1>2, <1>4, <1>5

\* The items after the payload of one was replaced.
LEMMA ReplacedItems ==
  ASSUME OrchestratorInv, NEW x, items' = Replaced(x), job.want \in Bodies
  PROVE  NoNewItems
<1> DEFINE f == [i \in items |-> IF i.id = x THEN [i EXCEPT !.value = job.want] ELSE i]
<1>1. items' = {f[i] : i \in items}
  BY DEF Replaced
<1>2. IsFiniteSet(items')
  <2>1. f \in Surjection(items, items')
    BY <1>1 DEF Surjection
  <2>2. IsFiniteSet(items)
    BY DEF OrchestratorInv, ItemsOK
  <2> HIDE DEF f
  <2> QED BY <2>1, <2>2, FS_Surjection
<1>3. \A i \in items : f[i] \in ItemType /\ f[i].id = i.id /\ f[i].name = i.name
  BY OwnItemId DEF ItemType
<1> HIDE DEF f
<1> QED BY <1>1, <1>2, <1>3 DEF NoNewItems, OrchestratorInv, ItemsOK, OneItemPerId

\* The items after one was removed.
LEMMA RemovedItems ==
  ASSUME OrchestratorInv, items' \subseteq items
  PROVE  NoNewItems
BY FS_Subset DEF NoNewItems, OrchestratorInv, ItemsOK, OneItemPerId, OrchestratorTypeOK

\* A new item has an identifier nobody had.
LEMMA CreateItemKeeps ==
  ASSUME OrchestratorInv, job.pc = "create", CreateItem, UNCHANGED <<service, local>>, budget' \in BudgetType,
         NEW o \in Outcomes, Finish(o)
  PROVE  OrchestratorInv'
<1> USE DEF OrchestratorInv, JobOK
<1> DEFINE id == NewId(job.seg)
<1>1. /\ serial \in Nat /\ serial' \in 0..Len(Serials) /\ serial' \in Nat /\ serial <= serial'
      /\ ~service.byName => serial' = serial + 1 /\ serial + 1 \in 1..Len(Serials)
  <2>1. Len(Serials) \in Nat /\ serial \in 0..Len(Serials)
    BY OrchestratorAssumption DEF OrchestratorTypeOK
  <2>2. CASE service.byName
    BY <2>1, <2>2 DEF CreateItem
  <2>3. CASE ~service.byName
    <3>1. serial' = serial + 1 /\ serial # Len(Serials)
      BY <2>3 DEF CreateItem, Full
    <3> QED BY <2>1, <2>3, <3>1
  <2> QED BY <2>2, <2>3
<1>2. Created = [id |-> id, name |-> job.seg, value |-> job.want]
  BY DEF Created
<1>3. job.seg \in Aliases /\ job.want \in Bodies
  BY DEF JobOps
<1>4. id \in Ids /\ (service.byName => id = job.seg) /\ (~service.byName => id = Serials[serial + 1])
  BY <1>1, <1>3, OrchestratorAssumption DEF NewId, Ids
<1>5. \A x : Issued(x) => Issued(x)' /\ (~service.byName => x # id)
  BY <1>1, <1>4, OrchestratorAssumption DEF Issued, OrchestratorTypeOK
<1>6. \A i \in items : i.id # id
  <2>1. CASE service.byName
    BY <1>4, <2>1 DEF ServiceOK, ItemsOK, IdsAreGiven, CreateItem, NameTaken
  <2>2. CASE ~service.byName
    BY <1>5, <2>2 DEF ItemsOK, IdsAreGiven
  <2> QED BY <2>1, <2>2
<1>7. Created \in ItemType /\ items' = items \cup {Created}
  BY <1>2, <1>3, <1>4 DEF ItemType, CreateItem
<1>8. ItemsOK'
  <2>1. IsFiniteSet(items')
    BY <1>7, FS_AddElement DEF ItemsOK
  <2>2. OneItemPerId'
    BY <1>2, <1>6, <1>7 DEF ItemsOK, OneItemPerId
  <2>3. PICK c : c = Created
    OBVIOUS
  <2>4. ~service.byName => \E k \in 1..serial' : c.id = Serials[k]
    BY <1>1, <1>2, <1>4, <2>3
  <2>5. (service.byName => c.id = c.name) /\ (~service.byName => Issued(c.id)')
    BY <1>2, <1>4, <2>3, <2>4 DEF Issued
  <2>6. \A i \in items' : IF service'.byName THEN i.id = i.name ELSE Issued(i.id)'
    BY <1>5, <1>7, <2>3, <2>5 DEF ItemsOK, IdsAreGiven
  <2>7. IdsAreGiven'
    BY <2>6 DEF IdsAreGiven
  <2> QED BY <2>1, <2>2, <2>7 DEF ItemsOK
<1>9. LocalIdsOwn'
  <2>1. \A n, x : OwnId(n, x) => OwnId(n, x)'
    BY <1>2, <1>5, <1>7 DEF OwnId
  <2> QED BY <2>1 DEF LocalIdsOwn
<1> DEFINE j == [IdleJob EXCEPT !.outcome = o]
<1>10. j \in JobType /\ job' = j
  BY IdleJobOK DEF Finish
<1>11. AnyName \in Aliases
  BY OrchestratorAssumption DEF AnyName
<1>12. /\ j.pc = "idle" /\ j.op = "get" /\ j.seg = AnyName /\ j.rid = AnyName /\ j.at = AnyName
       /\ j.visited = {}
  BY DEF IdleJob
<1> HIDE DEF j
<1>13. JobOK(job)'
  BY <1>10, <1>11, <1>12 DEF JobIds, JobOps, JobRulesOut, OwnId, Calls, IsDelete
<1>14. OrchestratorTypeOK'
  BY <1>1, <1>7, <1>10 DEF OrchestratorTypeOK, BudgetType
<1> QED BY <1>8, <1>9, <1>13, <1>14 DEF ServiceOK

\* The creation, also one whose answer is lost, keeps the invariant.
LEMMA CreateRemoteKeeps ==
  ASSUME OrchestratorInv, CreateRemote
  PROVE  OrchestratorInv'
<1> USE DEF OrchestratorInv, JobOK
<1>1. /\ job.pc = "create" /\ job \in JobType /\ UNCHANGED <<service, local>>
      /\ budget' \in BudgetType
  BY BudgetKept DEF CreateRemote
<1>2. CASE CreateItem /\ Finish("ok")
  BY <1>1, <1>2, CreateItemKeeps DEF Outcomes
<1>3. CASE Rest /\ (Finish("error") \/ Finish("conflict"))
  BY <1>1, <1>3, FinishKeeps DEF Outcomes
<1>4. CASE Rest /\ job.op = "apply" /\ Goto([job EXCEPT !.pc = "update"])
  <2> DEFINE j == [job EXCEPT !.pc = "update"]
  <2>1. job' = j
    BY <1>4 DEF Goto
  <2>2. j \in JobType
    BY <1>1 DEF JobType, Steps
  <2>3. /\ j.pc = "update" /\ j.op = job.op /\ j.at = job.at
        /\ j.visited = job.visited /\ j.seg = job.seg /\ j.rid = job.rid
        /\ j.outcome = job.outcome /\ j.want = job.want
    BY <1>1 DEF JobType
  <2> HIDE DEF j
  <2>4. JobIds(j)
    BY <1>1, <2>3 DEF JobIds
  <2>5. JobOps(j)
    BY <1>1, <1>4, <2>3 DEF JobOps, IsDelete
  <2>6. JobRulesOut(j)
    BY <2>3 DEF JobRulesOut, Calls
  <2> QED BY <1>1, <1>4, <2>1, <2>2, <2>4, <2>5, <2>6, JobStepKeeps
<1> QED BY <1>1, <1>2, <1>3, <1>4 DEF CreateRemote, Rest

\* The update keeps the invariant.
LEMMA UpdateRemoteKeeps ==
  ASSUME OrchestratorInv, UpdateRemote
  PROVE  OrchestratorInv'
<1>1. /\ job.pc = "update" /\ job.want \in Bodies /\ UNCHANGED <<service, local, serial>>
      /\ budget' \in BudgetType
  BY BudgetKept DEF UpdateRemote, OrchestratorInv, JobOK, JobOps
<1>2. CASE Finish("notfound") /\ UNCHANGED items
  BY <1>1, <1>2, FinishKeeps DEF Outcomes, Rest
<1>3. CASE items' = Replaced(job.rid) /\ Finish("ok")
  BY <1>1, <1>3, ReplacedItems, FewerItemsKeep DEF Outcomes
<1> QED BY <1>2, <1>3 DEF UpdateRemote

\* The removal keeps the invariant.
LEMMA RemoveRemoteKeeps ==
  ASSUME OrchestratorInv, RemoveRemote
  PROVE  OrchestratorInv'
<1> USE DEF OrchestratorInv, JobOK
<1>1. /\ job.pc = "remove" /\ job \in JobType /\ IsDelete(job)
      /\ UNCHANGED <<service, local, serial>> /\ budget' \in BudgetType
  BY BudgetKept DEF RemoveRemote, JobOps
<1>2. CASE items' = items \ ById(job.rid) /\ Finish("ok")
  BY <1>1, <1>2, RemovedItems, FewerItemsKeep DEF Outcomes
<1>3. CASE UNCHANGED items /\ Finish("notfound")
  BY <1>1, <1>3, FinishKeeps DEF Outcomes, Rest
<1>4. CASE /\ UNCHANGED items /\ ById(job.rid) = {} /\ ~job.found
           /\ Goto([job EXCEPT !.pc = "get"])
  <2> DEFINE j == [job EXCEPT !.pc = "get"]
  <2>1. job' = j
    BY <1>4 DEF Goto
  <2>2. j \in JobType
    BY <1>1 DEF JobType, Steps, Calls
  <2>3. /\ j.pc = "get" /\ j.op = job.op /\ j.at = job.at
        /\ j.visited = job.visited /\ j.seg = job.seg /\ j.rid = job.rid
        /\ j.outcome = job.outcome /\ j.want = job.want
    BY <1>1 DEF JobType
  <2> HIDE DEF j
  <2>4. JobIds(j)
    BY <1>1, <1>4, <2>3 DEF JobIds
  <2>5. JobOps(j)
    BY <1>1, <2>3 DEF JobOps, IsDelete
  <2>6. j.rid = j.seg /\ NoneWithId(j.seg)
    BY <1>1, <1>4, <2>3 DEF JobRulesOut, NoneWithId, ById
  <2>7. JobRulesOut(j)
    BY <2>3, <2>6 DEF JobRulesOut, Calls
  <2> QED BY <1>1, <1>4, <2>1, <2>2, <2>4, <2>5, <2>7, JobStepKeeps DEF Rest
<1> QED BY <1>2, <1>3, <1>4 DEF RemoveRemote

\* A change that fails keeps the invariant.
LEMMA MutationFailsKeeps ==
  ASSUME OrchestratorInv, MutationFails
  PROVE  OrchestratorInv'
<1>1. UNCHANGED <<service, local>> /\ budget' \in BudgetType /\ Finish("error") /\ "error" \in Outcomes
  BY BudgetKept DEF MutationFails, Outcomes
<1>2. CASE UNCHANGED <<items, serial>>
  BY <1>1, <1>2, FinishKeeps DEF Rest
<1>3. CASE job.pc = "create" /\ CreateItem
  BY <1>1, <1>3, CreateItemKeeps
<1>4. CASE job.pc = "update" /\ items' = Replaced(job.rid) /\ UNCHANGED serial
  <2>1. job.want \in Bodies
    BY <1>4 DEF OrchestratorInv, JobOK, JobOps
  <2> QED BY <1>1, <1>4, <2>1, ReplacedItems, FewerItemsKeep
<1>5. CASE job.pc = "remove" /\ items' = items \ ById(job.rid) /\ UNCHANGED serial
  BY <1>1, <1>5, RemovedItems, FewerItemsKeep
<1> QED BY <1>2, <1>3, <1>4, <1>5 DEF MutationFails

-----------------------------------------------------------------------------
(* The repository and the other client *)

\* A change of the repository alone.
LEMMA LocalStepKeeps ==
  ASSUME OrchestratorInv, UNCHANGED <<service, items, serial, job>>, budget' \in BudgetType, LocalIdsOwn',
         local' \in [Aliases -> [value: Bodies \cup {None}, id: Ids \cup {None}]]
  PROVE  OrchestratorInv'
<1> USE DEF OrchestratorInv
<1>1. OrchestratorTypeOK' /\ ServiceOK' /\ ItemsOK'
  BY DEF OrchestratorTypeOK, ServiceOK, ItemsOK, BudgetType, OneItemPerId, IdsAreGiven, Issued
<1>2. JobOK(job)'
  BY DEF JobOK, JobIds, JobOps, JobRulesOut, OnlyOne, NoneNamed, NoneWithId, OwnId, Issued, IsDelete
<1> QED BY <1>1, <1>2

\* An edit of the repository keeps the invariant.
LEMMA EditLocalKeeps ==
  ASSUME OrchestratorInv, NEW n \in Aliases, NEW v \in Bodies, EditLocal(n, v)
  PROVE  OrchestratorInv'
<1>1. UNCHANGED <<service, items, serial, job>> /\ budget' \in BudgetType
  BY BudgetKept DEF EditLocal
<1>2. local' \in [Aliases -> [value: Bodies \cup {None}, id: Ids \cup {None}]]
  BY DEF EditLocal, OrchestratorInv, OrchestratorTypeOK
<1>3. \A a \in Aliases : local'[a].id = local[a].id
  BY DEF EditLocal, OrchestratorInv, OrchestratorTypeOK
<1>4. LocalIdsOwn'
  BY <1>1, <1>3 DEF OrchestratorInv, LocalIdsOwn, OwnId, Issued
<1> QED BY <1>1, <1>2, <1>4, LocalStepKeeps

\* A save of what the service holds keeps the invariant.
LEMMA SaveLocalKeeps ==
  ASSUME OrchestratorInv, NEW n \in Aliases, SaveLocal(n)
  PROVE  OrchestratorInv'
<1>1. UNCHANGED <<service, items, serial, job>> /\ budget' \in BudgetType
  BY BudgetKept DEF SaveLocal
<1>2. PICK i \in items : i.name = n /\ local' = [local EXCEPT ![n] = [value |-> i.value, id |-> i.id]]
  BY DEF SaveLocal
<1>3. i \in ItemType /\ OwnId(n, i.id)
  BY <1>2, OwnItemId
<1>4. local' \in [Aliases -> [value: Bodies \cup {None}, id: Ids \cup {None}]]
  BY <1>2, <1>3 DEF OrchestratorInv, OrchestratorTypeOK, ItemType
<1>5. \A a \in Aliases : local'[a].id = IF a = n THEN i.id ELSE local[a].id
  BY <1>2 DEF OrchestratorInv, OrchestratorTypeOK
<1>6. LocalIdsOwn'
  BY <1>1, <1>3, <1>5 DEF OrchestratorInv, LocalIdsOwn, OwnId, Issued
<1> QED BY <1>1, <1>4, <1>6, LocalStepKeeps

\* What another client does to the service keeps the invariant.
LEMMA OtherClientKeeps ==
  ASSUME OrchestratorInv, NEW i \in items, OtherClient(i)
  PROVE  OrchestratorInv'
<1>1. UNCHANGED <<service, local, serial, job>> /\ budget' \in BudgetType
  BY BudgetKept DEF OtherClient
<1>2. NoNewItems
  <2>1. CASE items' = items \ {i}
    BY <2>1, RemovedItems
  <2>2. ASSUME NEW v \in Bodies, items' = (items \ {i}) \cup {[i EXCEPT !.value = v]}
        PROVE  NoNewItems
    <3>1. IsFiniteSet(items \ {i})
      BY FS_Subset DEF OrchestratorInv, ItemsOK
    <3>2. IsFiniteSet(items')
      BY <2>2, <3>1, FS_AddElement
    <3>3. PICK c : c = [i EXCEPT !.value = v]
      OBVIOUS
    <3>4. c \in ItemType /\ c.id = i.id /\ c.name = i.name
      BY <3>3, OwnItemId DEF ItemType
    <3>5. \A x \in items' : x = c \/ (x \in items /\ x # i)
      BY <2>2, <3>3
    <3>6. \A x \in items' : x \in ItemType
      BY <3>4, <3>5, OwnItemId
    <3> QED BY <3>2, <3>4, <3>5, <3>6 DEF NoNewItems, OrchestratorInv, ItemsOK, OneItemPerId
  <2> QED BY <2>1, <2>2 DEF OtherClient
<1> QED BY <1>1, <1>2, FewerItemsKeep DEF OrchestratorInv

\* The invariant holds at first.
LEMMA OrchestratorInitOK ==
  ASSUME \A k \in Services : ~k.jq, OrchestratorInit
  PROVE  OrchestratorInv
<1>1. AnyName \in Aliases
  BY OrchestratorAssumption DEF AnyName
<1>2. IdleJob \in JobType
  BY <1>1 DEF IdleJob, JobType, Steps, Calls, Ops, Ids, Outcomes
<1>3. JobOK(job)
  BY <1>1, <1>2 DEF OrchestratorInit, JobOK, JobIds, JobOps, JobRulesOut, IdleJob, OwnId, Calls, IsDelete
<1>4. OrchestratorTypeOK
  BY <1>2, OrchestratorAssumption DEF OrchestratorInit, OrchestratorTypeOK
<1>5. ServiceOK
  BY OrchestratorAssumption DEF OrchestratorInit, ServiceOK
<1>6. ItemsOK /\ LocalIdsOwn
  BY FS_EmptySet DEF OrchestratorInit, ItemsOK, LocalIdsOwn, OneItemPerId, IdsAreGiven
<1> QED BY <1>3, <1>4, <1>5, <1>6 DEF OrchestratorInv

\* Every step keeps the invariant.
LEMMA OrchestratorStep ==
  ASSUME OrchestratorInv, [OrchestratorNext]_orchestratorVars
  PROVE  OrchestratorInv'
<1>1. ASSUME BetweenCommands PROVE OrchestratorInv'
  <2>1. ASSUME NEW n \in Aliases, SkipOwned(n) PROVE OrchestratorInv'
    <3>1. Rest /\ budget' \in BudgetType
      BY <2>1, BudgetKept DEF SkipOwned, Rest
    <3> QED BY <2>1, <3>1, FinishKeeps DEF SkipOwned, Outcomes
  <2> QED
    BY <1>1, <2>1, StartRemoteKeeps, StartLocalKeeps, SaveLocalKeeps, EditLocalKeeps DEF BetweenCommands
<1>2. ASSUME JobStep PROVE OrchestratorInv'
  BY <1>2, GetKeeps, DetectAmbiguityKeeps, ExpandPathKeeps, RegetKeeps, ScanKeeps, CandidateKeeps,
     CreateRemoteKeeps, UpdateRemoteKeeps, RemoveRemoteKeeps DEF JobStep
<1>3. ASSUME UNCHANGED orchestratorVars PROVE OrchestratorInv'
  <2>1. Rest /\ budget' \in BudgetType /\ job' = job
    BY <1>3, BudgetKept DEF orchestratorVars, Rest
  <2> QED BY <2>1, JobStepKeeps DEF OrchestratorInv
<1> QED BY <1>1, <1>2, <1>3, FetchFailsKeeps, MutationFailsKeeps, OtherClientKeeps DEF OrchestratorNext

\* The inductive invariant of the orchestrator (commands.go, fetch.go), for services
\* whose lists are not filtered by a jq expression.
THEOREM OrchestratorInvariant ==
  ASSUME \A k \in Services : ~k.jq
  PROVE  OrchestratorSpec => []OrchestratorInv
<1>1. OrchestratorInit => OrchestratorInv
  BY OrchestratorInitOK
<1>2. OrchestratorInv /\ [OrchestratorNext]_orchestratorVars => OrchestratorInv'
  BY OrchestratorStep
<1> QED BY <1>1, <1>2, PTL DEF OrchestratorSpec

-----------------------------------------------------------------------------
(* What the invariant gives *)

\* The items that go are those of the identifier in hand.
LEMMA TouchesOwn ==
  ASSUME OrchestratorInv, job.pc # "idle", NEW i \in items, i.id = job.rid
  PROVE  i.name = job.seg \/ i.id = job.seg
BY DEF OrchestratorInv, JobOK, JobIds, OwnId

\* A step of a command takes nothing away but what it was asked for.
LEMMA StepActsOnRequested ==
  ASSUME OrchestratorInv, [OrchestratorNext]_orchestratorVars, job.pc # "idle", job' # job,
         NEW i \in items \ items'
  PROVE  i.name = job.seg \/ i.id = job.seg
<1>1. JobStep \/ FetchFails \/ MutationFails
  BY DEF OrchestratorNext, orchestratorVars, OtherClient
<1>2. \/ items' = items \ ById(job.rid) \/ items' = Replaced(job.rid)
      \/ items' = items \/ items' = items \cup {Created}
  BY <1>1 DEF JobStep, Get, DetectAmbiguity, ExpandPath, Reget, Scan, Candidate, CreateRemote,
     CreateItem, UpdateRemote, RemoveRemote, FetchFails, MutationFails
<1>3. i.id = job.rid
  BY <1>2 DEF ById, Replaced
<1> QED BY <1>3, TouchesOwn

\* A step of apply that creates finds no item of that alias.
LEMMA StepCreatesOnce ==
  ASSUME OrchestratorInv, job.pc = "create", job.op = "apply", service.identity, service.listable,
         job.rid = job.seg \/ ~job.blind
  PROVE  \A i \in items : i.name # job.seg
BY DEF OrchestratorInv, JobOK, JobRulesOut, NoneNamed

\* A delete that reports success leaves nothing behind.
LEMMA StepDeletes ==
  ASSUME OrchestratorInv, [OrchestratorNext]_orchestratorVars, IsDelete(job), job'.outcome = "ok"
  PROVE  \A i \in items' : i.name # job.seg /\ i.id # job.seg
<1> USE DEF OrchestratorInv, JobOK
<1>1. job.pc # "idle" /\ job.outcome = "none"
  BY DEF JobOps, IsDelete
<1>2. \A i : ~Found(i) \/ job'.outcome = "none"
  BY <1>1 DEF Found, Goto, JobType, IsDelete
<1>3. RemoveRemote
  <2>1. ~NotFound
    BY DEF NotFound, Finish, IdleJob, IsDelete
  <2>2. ASSUME NEW o \in Outcomes, o # "ok" PROVE ~Finish(o)
    BY <2>2 DEF Finish, IdleJob
  <2>3. ASSUME NEW pc, Goto([job EXCEPT !.pc = pc]) PROVE FALSE
    BY <1>1, <2>3 DEF Goto, JobType
  <2>4. ~Get
    BY <1>1, <1>2 DEF Get, Goto, JobType
  <2>5. ~DetectAmbiguity /\ ~Reget /\ ~Candidate
    BY <1>1, <1>2, <2>2, <2>3 DEF DetectAmbiguity, Reget, Candidate, Outcomes
  <2>6. ~ExpandPath
    BY <1>1, <2>2 DEF ExpandPath, Goto, JobType, Outcomes
  <2>7. ~Scan
    BY <1>1, <1>2, <2>1, <2>2 DEF Scan, Goto, JobType, Outcomes
  <2>8. ~FetchFails
    BY <1>1, <1>2, <2>2 DEF FetchFails, Goto, JobType, Outcomes
  <2>9. ~MutationFails
    BY <2>2 DEF MutationFails, Outcomes
  <2>10. ~CreateRemote /\ ~UpdateRemote
    BY DEF CreateRemote, UpdateRemote, JobOps, IsDelete
  <2>11. job' # job
    BY <1>1
  <2> QED BY <1>1, <2>4, <2>5, <2>6, <2>7, <2>8, <2>9, <2>10, <2>11
          DEF OrchestratorNext, JobStep, orchestratorVars, OtherClient
<1>4. items' = items \ ById(job.rid) /\ ById(job.rid) # {} /\ job.pc = "remove"
  BY <1>1, <1>3 DEF RemoveRemote, Finish, IdleJob, Goto, JobType
<1>5. CASE job.found
  BY <1>4, <1>5 DEF JobRulesOut, OnlyOne, ById
<1>6. CASE ~job.found
  <2>1. job.rid = job.seg
    BY <1>4, <1>6 DEF JobRulesOut
  <2>2. PICK o \in items : o.id = job.seg
    BY <1>4, <2>1 DEF ById
  <2>3. ASSUME NEW i \in items, i.name = job.seg PROVE i.id = job.seg
    <3>1. job.seg \in Aliases
      BY <2>3, OwnItemId DEF ItemType
    <3>2. OwnId(o.name, job.seg)
      BY <2>2, OwnItemId
    <3>3. ~Issued(job.seg)
      BY <3>1, OrchestratorAssumption DEF Issued, OrchestratorTypeOK
    <3>4. service.byName
      BY <2>2, <3>3 DEF ItemsOK, IdsAreGiven
    <3> QED BY <2>3, <3>4 DEF ItemsOK, IdsAreGiven
  <2> QED BY <1>4, <2>1, <2>3 DEF ById
<1> QED BY <1>5, <1>6

\* Apply creates no second item of one alias, a command changes no resource but its
\* own and a delete that succeeds leaves nothing (commands.go, fetch.go): for any
\* number of aliases, identifiers, faults and other clients, where no jq expression
\* filters the lists.
THEOREM ApplyExact ==
  ASSUME \A k \in Services : ~k.jq
  PROVE  OrchestratorSpec => ApplyIsExact
<1>1. OrchestratorSpec => []OrchestratorInv
  BY OrchestratorInvariant
<1> DEFINE Once == job.pc = "create" /\ job.op = "apply" /\ service.identity /\ service.listable
                     /\ (job.rid = job.seg \/ ~job.blind)
                     /\ job' # job /\ items' # items => \A i \in items : i.name # job.seg
           Acts == job.pc # "idle" /\ job' # job =>
                     \A i \in items \ items' : i.name = job.seg \/ i.id = job.seg
           Gone == job.op \in {"delete", "DELETE"} /\ job'.outcome = "ok" =>
                     \A i \in items' : i.name # job.seg /\ i.id # job.seg
<1>2. OrchestratorInv /\ [OrchestratorNext]_orchestratorVars => Once /\ Acts /\ Gone
  BY StepCreatesOnce, StepActsOnRequested, StepDeletes DEF IsDelete
<1>3. OrchestratorInv /\ [OrchestratorNext]_orchestratorVars =>
        [Once]_orchestratorVars /\ [Acts]_orchestratorVars /\ [Gone]_orchestratorVars
  BY <1>2
<1>4. OrchestratorSpec => [][Once]_orchestratorVars /\ [][Acts]_orchestratorVars /\ [][Gone]_orchestratorVars
  BY <1>1, <1>3, PTL DEF OrchestratorSpec
<1> QED BY <1>4 DEF ApplyIsExact, ApplyCreatesOnce, ActsOnRequested, DeleteMeansGone

\* The service's items, the repository and the commands are always well formed.
THEOREM OrchestratorTypes ==
  ASSUME \A k \in Services : ~k.jq
  PROVE  OrchestratorSpec => []OrchestratorTypeOK
<1>1. OrchestratorSpec => []OrchestratorInv
  BY OrchestratorInvariant
<1>2. OrchestratorInv => OrchestratorTypeOK
  BY DEF OrchestratorInv
<1> QED BY <1>1, <1>2, PTL

-----------------------------------------------------------------------------
(* Prompted credentials. The first part of the invariant holds whatever runs *)
(* at the same time: what was entered in a command stays under a key that    *)
(* the command registered for the credential it was entered for. The second  *)
(* part is about commands that run one after the other.                      *)

FieldNames == {"username", "password"}
SessionKeys == {Key(c, f) : c \in Credentials, f \in FieldNames}
Sources == Commands \cup {"literal", "environment"}
Entered == [of : Credentials, field : FieldNames, by : Sources, at : Nat]
CommandFields == {"stage", "session", "resolved", "owners", "tasks", "asked", "failed", "count", "since", "results"}
TaskFields == {"at", "cred", "values", "saving"}
Begun == {q \in Commands : commands[q].stage # "new"}

\* A map of the session: values under the keys of their fields, entered in
\* commands that have begun.
SessionMap(map, begun) ==
  /\ DOMAIN map \subseteq SessionKeys
  /\ \A k \in DOMAIN map : /\ map[k] \in Entered /\ map[k].field = k[2]
                           /\ map[k].by \in Commands => map[k].by \in begun

\* The values of a credential so far: what was entered in p was entered for it.
ValuesFor(p, c, values) ==
  /\ values \in Seq(Entered) /\ Len(values) <= 2
  /\ \A i \in 1..Len(values) : values[i].field = Fields[i] /\ (values[i].by = p => values[i].of = c)

\* A resolution that goes on: its keys are its credential's.
WorkOK(p, owners, work, begun) ==
  /\ DOMAIN work = TaskFields /\ work.at \in {"field", "answer", "save"} /\ work.cred \in Credentials
  /\ ValuesFor(p, work.cred, work.values) /\ SessionMap(work.saving, begun)
  /\ work.at = "answer" => Len(work.values) < 2
  /\ work.at = "save" => Len(work.values) # 0
  /\ \A f \in FieldNames : Key(work.cred, f) \in DOMAIN owners /\ owners[Key(work.cred, f)] = work.cred

\* One command: what was entered in it is under a key of whom it was entered for.
CommandOK(p, command, begun) ==
  /\ DOMAIN command = CommandFields /\ command.stage \in {"new", "running", "ended"}
  /\ command.count \in 0..MaxResolves /\ command.since \in Nat /\ command.failed \in Nat
  /\ command.asked \in [Credentials \X FieldNames -> Nat]
  /\ SessionMap(command.session, begun)
  /\ \A k \in DOMAIN command.session : command.session[k].by = p =>
        k \in DOMAIN command.owners /\ command.owners[k] = command.session[k].of
  /\ DOMAIN command.tasks = Tasks
  /\ \A t \in Tasks : command.tasks[t] = NoTask \/ WorkOK(p, command.owners, command.tasks[t], begun)
  /\ \A r \in command.results : ValuesFor(p, r.cred, r.values) /\ Len(r.values) = 2

PromptShape ==
  /\ DOMAIN commands = Commands /\ \A p \in Commands : CommandOK(p, commands[p], Begun)
  /\ SessionMap(sessionFile, Begun)
  /\ shells \in 0..MaxShells /\ DOMAIN cleans = {"count", "by"} /\ cleans.count \in Nat

\* All but some fields of a command stay.
CommandBut(s, r, fields) == DOMAIN r = CommandFields /\ \A f \in CommandFields \ fields : r[f] = s[f]

-----------------------------------------------------------------------------
(* Facts about the definitions. *)

\* A map stays a map when more commands have begun.
LEMMA MapGrows ==
  ASSUME NEW map, NEW begun, NEW more, begun \subseteq more, SessionMap(map, begun)
  PROVE  SessionMap(map, more)
BY DEF SessionMap

\* No values are values.
LEMMA NothingIsMap ==
  ASSUME NEW begun
  PROVE  SessionMap(NoMap, begun)
BY DEF SessionMap, NoMap

\* A value is put under its key.
LEMMA PutMap ==
  ASSUME NEW map, NEW begun, SessionMap(map, begun), NEW c \in Credentials, NEW f \in FieldNames,
        NEW value \in Entered,
         value.field = f, value.by \in begun
  PROVE  SessionMap(Put(map, Key(c, f), value), begun)
<1>1. Key(c, f) \in SessionKeys /\ Key(c, f)[2] = f
  BY DEF SessionKeys, Key
<1>2. DOMAIN Put(map, Key(c, f), value) = DOMAIN map \cup {Key(c, f)}
      /\ \A k \in DOMAIN Put(map, Key(c, f), value) :
            Put(map, Key(c, f), value)[k] = IF k = Key(c, f) THEN value ELSE map[k]
  BY DEF Put
<1> QED BY <1>1, <1>2 DEF SessionMap

\* A resolution that goes on is not idle.
LEMMA TaskIsNotIdle ==
  ASSUME NEW p, NEW owners, NEW work, NEW begun, WorkOK(p, owners, work, begun)
  PROVE  work # NoTask
BY DEF WorkOK, NoTask, TaskFields

\* One more value for a credential.
LEMMA ValuesAppend ==
  ASSUME NEW p, NEW c, NEW values, ValuesFor(p, c, values), Len(values) < 2, NEW value \in Entered,
         value.field = Fields[Len(values) + 1], value.by = p => value.of = c
  PROVE  ValuesFor(p, c, Append(values, value)) /\ Len(Append(values, value)) = Len(values) + 1
<1>1. values \in Seq(Entered) /\ Len(values) \in Nat
  BY DEF ValuesFor
<1>2. PICK more : more = Append(values, value)
  OBVIOUS
<1>3. /\ more \in Seq(Entered) /\ Len(more) = Len(values) + 1
      /\ \A i \in 1..Len(values) : more[i] = values[i]
      /\ more[Len(values) + 1] = value
  BY <1>1, <1>2
<1>4. \A i \in 1..Len(more) : i \in 1..Len(values) \/ i = Len(values) + 1
  BY <1>1, <1>3
<1>5. Len(more) <= 2
  BY <1>1, <1>3
<1> QED BY <1>2, <1>3, <1>4, <1>5 DEF ValuesFor

\* The next field of a resolution.
LEMMA NextField ==
  ASSUME NEW p, NEW c, NEW values, ValuesFor(p, c, values), Len(values) < 2
  PROVE  Fields[Len(values) + 1] \in FieldNames
<1>1. values \in Seq(Entered) /\ Len(values) \in Nat
  BY DEF ValuesFor
<1>2. PICK n \in Nat : n = Len(values)
  BY <1>1
<1>3. n = 0 \/ n = 1
  BY <1>2
<1> QED BY <1>2, <1>3 DEF Fields, FieldNames

\* A literal is a value.
LEMMA LiteralIsEntered ==
  ASSUME NEW c \in Credentials, NEW f \in FieldNames
  PROVE  Literal(c, f) \in Entered /\ Literal(c, f).field = f /\ Literal(c, f).of = c
        /\ Literal(c, f).by \notin Commands
BY PromptAssumption DEF Literal, Entered, Sources

\* A command is well formed when more have begun.
LEMMA CommandGrows ==
  ASSUME NEW p, NEW command, NEW begun, NEW more, begun \subseteq more, CommandOK(p, command, begun)
  PROVE  CommandOK(p, command, more)
<1>1. SessionMap(command.session, more)
  BY MapGrows DEF CommandOK
<1>2. \A t \in Tasks : command.tasks[t] = NoTask \/ WorkOK(p, command.owners, command.tasks[t], more)
  <2>1. SUFFICES ASSUME NEW t \in Tasks, WorkOK(p, command.owners, command.tasks[t], begun)
                 PROVE  WorkOK(p, command.owners, command.tasks[t], more)
    BY DEF CommandOK
  <2>2. SessionMap(command.tasks[t].saving, more)
    BY <2>1, MapGrows DEF WorkOK
  <2> QED BY <2>1, <2>2 DEF WorkOK
<1> QED BY <1>1, <1>2 DEF CommandOK

\* One command moves; the others are as they were.
LEMMA OneMoves ==
  ASSUME PromptShape, NEW p \in Commands, NEW new, commands' = [commands EXCEPT ![p] = new], new.stage # "new",
         CommandOK(p, new, Begun \cup {p}), SessionMap(sessionFile', Begun \cup {p}), shells' = shells,
               cleans' = cleans
  PROVE  PromptShape' /\ Begun' = Begun \cup {p}
<1>1. DOMAIN commands' = Commands /\ commands'[p] = new /\ \A q \in Commands : q # p => commands'[q] = commands[q]
  BY DEF PromptShape
<1>2. Begun' = Begun \cup {p}
  BY <1>1 DEF Begun
<1>3. \A q \in Commands : CommandOK(q, commands[q], Begun \cup {p})
  <2>1. SUFFICES ASSUME NEW q \in Commands PROVE CommandOK(q, commands[q], Begun \cup {p})
    OBVIOUS
  <2>2. CommandOK(q, commands[q], Begun)
    BY DEF PromptShape
  <2> QED BY <2>2, CommandGrows
<1>4. \A q \in Commands : CommandOK(q, commands'[q], Begun')
  BY <1>1, <1>2, <1>3
<1> QED BY <1>1, <1>2, <1>4 DEF PromptShape

\* A resolution of a running command moves: its record is replaced.
LEMMA TaskMoves ==
  ASSUME PromptShape, NEW p \in Commands, NEW t \in Tasks, Running(p), NEW work, NEW new,
         work = NoTask \/ WorkOK(p, new.owners, work, Begun),
         CommandBut(commands[p], new, {"tasks"}), new.tasks = WithTask(p, t, work)
  PROVE  CommandOK(p, new, Begun)
<1>1. CommandOK(p, commands[p], Begun)
  BY DEF PromptShape
<1>2. /\ DOMAIN new = CommandFields /\ new.stage = commands[p].stage /\ new.session = commands[p].session
      /\ new.owners = commands[p].owners /\ new.asked = commands[p].asked /\ new.failed = commands[p].failed
      /\ new.count = commands[p].count /\ new.since = commands[p].since /\ new.results = commands[p].results
  BY DEF CommandBut, CommandFields
<1>3. DOMAIN new.tasks = Tasks /\ \A u \in Tasks : new.tasks[u] = IF u = t THEN work ELSE commands[p].tasks[u]
  BY <1>1 DEF WithTask, CommandOK
<1>4. \A u \in Tasks : new.tasks[u] = NoTask \/ WorkOK(p, new.owners, new.tasks[u], Begun)
  BY <1>1, <1>2, <1>3 DEF CommandOK
<1> QED BY <1>1, <1>2, <1>3, <1>4 DEF CommandOK

\* A running command has begun.
LEMMA RunningBegun ==
  ASSUME NEW p \in Commands, Running(p)
  PROVE  p \in Begun /\ Begun \cup {p} = Begun /\ commands[p].stage # "new"
BY DEF Running, Begun

\* What is known of a running resolution.
LEMMA TaskFacts ==
  ASSUME PromptShape, NEW p \in Commands, NEW t \in Tasks, NEW at, At(p, t, at)
  PROVE  /\ Running(p) /\ CommandOK(p, commands[p], Begun) /\ Task(p, t) = commands[p].tasks[t]
         /\ WorkOK(p, commands[p].owners, Task(p, t), Begun) /\ Task(p, t).at = at /\ Task(p, t) # NoTask
         /\ DOMAIN commands[p] = CommandFields /\ DOMAIN Task(p, t) = TaskFields
<1>1. Running(p) /\ Task(p, t) # NoTask /\ Task(p, t).at = at
  BY DEF At
<1>2. CommandOK(p, commands[p], Begun)
  BY DEF PromptShape
<1>3. WorkOK(p, commands[p].owners, Task(p, t), Begun)
  BY <1>1, <1>2 DEF CommandOK, Task
<1> QED BY <1>1, <1>2, <1>3 DEF CommandOK, WorkOK, Task

-----------------------------------------------------------------------------
(* The steps, as far as every command is concerned. *)

\* A command starts with the session as it is.
LEMMA StartShape ==
  ASSUME PromptShape, NEW p \in Commands, Start(p)
  PROVE  PromptShape'
<1>1. CommandOK(p, commands[p], Begun) /\ SessionMap(sessionFile, Begun) /\ cleans.count \in Nat
  BY DEF PromptShape
<1>2. commands[p].stage = "new" /\ shells' = shells /\ cleans' = cleans /\ sessionFile' = sessionFile
  BY DEF Start
<1>3. PICK new : new = [commands[p] EXCEPT !.stage = "running", !.session = sessionFile, !.since = cleans.count]
  OBVIOUS
<1>4. commands' = [commands EXCEPT ![p] = new]
  BY <1>3 DEF Start, Becomes
<1>5. DOMAIN commands[p] = CommandFields
  BY <1>1 DEF CommandOK
<1>6. CommandBut(commands[p], new, {"stage", "session", "since"}) /\ new.stage = "running"
      /\ new.session = sessionFile
      /\ new.since = cleans.count
  BY <1>3, <1>5 DEF CommandBut, CommandFields
<1>7. /\ DOMAIN new = CommandFields /\ new.owners = commands[p].owners /\ new.asked = commands[p].asked
      /\ new.failed = commands[p].failed /\ new.count = commands[p].count /\ new.tasks = commands[p].tasks
      /\ new.results = commands[p].results
  BY <1>6 DEF CommandBut, CommandFields
<1>8. \A k \in DOMAIN sessionFile : sessionFile[k].by # p
  BY <1>1, <1>2 DEF SessionMap, Begun
<1>9. CommandOK(p, new, Begun)
  BY <1>1, <1>6, <1>7, <1>8 DEF CommandOK
<1>10. CommandOK(p, new, Begun \cup {p}) /\ SessionMap(sessionFile', Begun \cup {p})
  BY <1>1, <1>2, <1>9, CommandGrows, MapGrows
<1> QED BY <1>2, <1>4, <1>6, <1>10, OneMoves

\* A command ends.
LEMMA EndShape ==
  ASSUME PromptShape, NEW p \in Commands, End(p)
  PROVE  PromptShape'
<1>1. CommandOK(p, commands[p], Begun) /\ SessionMap(sessionFile, Begun)
  BY DEF PromptShape
<1>2. Running(p) /\ shells' = shells /\ cleans' = cleans /\ sessionFile' = sessionFile
  BY DEF End
<1>3. PICK tasks : tasks = [t \in Tasks |-> NoTask]
  OBVIOUS
<1>4. PICK new : new = [commands[p] EXCEPT !.stage = "ended", !.tasks = tasks]
  OBVIOUS
<1>5. commands' = [commands EXCEPT ![p] = new]
  BY <1>3, <1>4 DEF End, Becomes
<1>6. DOMAIN commands[p] = CommandFields
  BY <1>1 DEF CommandOK
<1>7. CommandBut(commands[p], new, {"stage", "tasks"}) /\ new.stage = "ended" /\ new.tasks = tasks
  BY <1>4, <1>6 DEF CommandBut, CommandFields
<1>8. /\ DOMAIN new = CommandFields /\ new.owners = commands[p].owners /\ new.asked = commands[p].asked
      /\ new.failed = commands[p].failed /\ new.count = commands[p].count /\ new.session = commands[p].session
      /\ new.results = commands[p].results /\ new.since = commands[p].since
  BY <1>7 DEF CommandBut, CommandFields
<1>9. CommandOK(p, new, Begun)
  BY <1>1, <1>3, <1>7, <1>8 DEF CommandOK
<1> QED BY <1>1, <1>2, <1>5, <1>7, <1>9, OneMoves, RunningBegun

\* A resolution that ends at once.
LEMMA CountShape ==
  ASSUME PromptShape, NEW p \in Commands, Running(p), commands[p].count < MaxResolves,
         Becomes(p, [commands[p] EXCEPT !.count = @ + 1]),
         shells' = shells, cleans' = cleans, sessionFile' = sessionFile
  PROVE  PromptShape'
<1>1. CommandOK(p, commands[p], Begun) /\ SessionMap(sessionFile, Begun) /\ DOMAIN commands[p] = CommandFields
  BY DEF PromptShape, CommandOK
<1>2. PICK new : new = [commands[p] EXCEPT !.count = commands[p].count + 1]
  OBVIOUS
<1>3. commands' = [commands EXCEPT ![p] = new]
  BY <1>2 DEF Becomes
<1>4. CommandBut(commands[p], new, {"count"}) /\ new.count = commands[p].count + 1
  BY <1>1, <1>2 DEF CommandBut, CommandFields
<1>5. /\ DOMAIN new = CommandFields /\ new.stage = commands[p].stage /\ new.asked = commands[p].asked
      /\ new.failed = commands[p].failed /\ new.session = commands[p].session /\ new.owners = commands[p].owners
      /\ new.tasks = commands[p].tasks /\ new.results = commands[p].results /\ new.since = commands[p].since
  BY <1>4 DEF CommandBut, CommandFields
<1>6. new.count \in 0..MaxResolves
  BY <1>1, <1>4, PromptAssumption DEF CommandOK
<1>7. CommandOK(p, new, Begun)
  BY <1>1, <1>5, <1>6 DEF CommandOK
<1> QED BY <1>1, <1>3, <1>5, <1>7, OneMoves, RunningBegun

\* A resolution begins with its keys registered.
LEMMA BeginShape ==
  ASSUME PromptShape, NEW p \in Commands, NEW t \in Tasks, NEW c \in Credentials, Running(p),
         Task(p, t) = NoTask, commands[p].count < MaxResolves, OwnsKeys(p, c),
         Becomes(p, [commands[p] EXCEPT !.count = @ + 1, !.owners = Registered(p, c),
                                          !.tasks = WithTask(p, t, Begin(c))]),
         shells' = shells, cleans' = cleans, sessionFile' = sessionFile
  PROVE  PromptShape'
<1>1. CommandOK(p, commands[p], Begun) /\ SessionMap(sessionFile, Begun) /\ DOMAIN commands[p] = CommandFields
  BY DEF PromptShape, CommandOK
<1>2. PICK owners, tasks, begun : owners = Registered(p, c) /\ begun = Begin(c) /\ tasks = WithTask(p, t, begun)
  OBVIOUS
<1>3. PICK new : new = [commands[p] EXCEPT !.count = commands[p].count + 1, !.owners = owners, !.tasks = tasks]
  OBVIOUS
<1>4. commands' = [commands EXCEPT ![p] = new]
  BY <1>2, <1>3 DEF Becomes
<1>5. CommandBut(commands[p], new, {"count", "owners", "tasks"}) /\ new.count = commands[p].count + 1
       /\ new.owners = owners /\ new.tasks = tasks
  BY <1>1, <1>3 DEF CommandBut, CommandFields
<1>6. /\ DOMAIN new = CommandFields /\ new.stage = commands[p].stage /\ new.asked = commands[p].asked
      /\ new.failed = commands[p].failed /\ new.session = commands[p].session
      /\ new.results = commands[p].results /\ new.since = commands[p].since
  BY <1>5 DEF CommandBut, CommandFields
<1>7. new.count \in 0..MaxResolves
  BY <1>1, <1>5, PromptAssumption DEF CommandOK
<1>8. /\ \A k \in DOMAIN commands[p].owners : k \in DOMAIN owners /\ owners[k] = commands[p].owners[k]
      /\ \A f \in FieldNames : Key(c, f) \in DOMAIN owners /\ owners[Key(c, f)] = c
  <2>1. \A f \in FieldNames : Key(c, f) \in DOMAIN commands[p].owners => commands[p].owners[Key(c, f)] = c
    <3>1. 1 \in DOMAIN Fields /\ 2 \in DOMAIN Fields /\ Fields[1] = "username" /\ Fields[2] = "password"
      BY DEF Fields
    <3> QED BY <3>1 DEF OwnsKeys, FieldNames
  <2>2. PICK first : first = Put(commands[p].owners, Key(c, "username"), c)
    OBVIOUS
  <2>3. owners = Put(first, Key(c, "password"), c)
    BY <1>2, <2>2 DEF Registered
  <2>4. DOMAIN first = DOMAIN commands[p].owners \cup {Key(c, "username")}
        /\ \A k \in DOMAIN first : first[k] = IF k = Key(c, "username") THEN c ELSE commands[p].owners[k]
    BY <2>2 DEF Put
  <2>5. DOMAIN owners = DOMAIN first \cup {Key(c, "password")}
        /\ \A k \in DOMAIN owners : owners[k] = IF k = Key(c, "password") THEN c ELSE first[k]
    BY <2>3 DEF Put
  <2> QED BY <2>1, <2>4, <2>5 DEF FieldNames
<1>9. \A u \in Tasks : commands[p].tasks[u] = NoTask \/ WorkOK(p, owners, commands[p].tasks[u], Begun)
  BY <1>1, <1>8 DEF CommandOK, WorkOK
<1>10. WorkOK(p, owners, begun, Begun)
  <2>1. ValuesFor(p, c, <<>>)
    BY DEF ValuesFor
  <2>2. DOMAIN begun = TaskFields /\ begun.at = "field" /\ begun.cred = c /\ begun.values = <<>>
        /\ begun.saving = NoMap
    BY <1>2 DEF TaskFields, Begin
  <2> QED BY <1>8, <2>1, <2>2, NothingIsMap DEF WorkOK
<1>11. DOMAIN tasks = Tasks /\ \A u \in Tasks : tasks[u] = IF u = t THEN begun ELSE commands[p].tasks[u]
  BY <1>1, <1>2 DEF WithTask, CommandOK
<1>12. \A u \in Tasks : tasks[u] = NoTask \/ WorkOK(p, owners, tasks[u], Begun)
  BY <1>9, <1>10, <1>11
<1>13. \A k \in DOMAIN new.session : new.session[k].by = p => k \in DOMAIN new.owners
       /\ new.owners[k] = new.session[k].of
  BY <1>1, <1>5, <1>6, <1>8 DEF CommandOK
<1>14. CommandOK(p, new, Begun)
  BY <1>1, <1>5, <1>6, <1>7, <1>11, <1>12, <1>13 DEF CommandOK
<1> QED BY <1>1, <1>4, <1>6, <1>14, OneMoves, RunningBegun

\* A resolution ends at once or begins.
LEMMA ResolveShape ==
  ASSUME PromptShape, NEW p \in Commands, NEW t \in Tasks, Resolve(p, t)
  PROVE  PromptShape'
BY CountShape, BeginShape DEF Resolve

\* Only the record of one resolution is replaced.
LEMMA OnlyTask ==
  ASSUME PromptShape, NEW p \in Commands, NEW t \in Tasks, Running(p), NEW work,
         work = NoTask \/ WorkOK(p, commands[p].owners, work, Begun),
         Becomes(p, [commands[p] EXCEPT !.tasks = WithTask(p, t, work)]),
         shells' = shells, cleans' = cleans, SessionMap(sessionFile', Begun)
  PROVE  PromptShape'
<1>1. CommandOK(p, commands[p], Begun) /\ DOMAIN commands[p] = CommandFields
  BY DEF PromptShape, CommandOK
<1>2. PICK tasks : tasks = WithTask(p, t, work)
  OBVIOUS
<1>3. PICK new : new = [commands[p] EXCEPT !.tasks = tasks]
  OBVIOUS
<1>4. commands' = [commands EXCEPT ![p] = new]
  BY <1>2, <1>3 DEF Becomes
<1>5. CommandBut(commands[p], new, {"tasks"}) /\ new.tasks = tasks
  BY <1>1, <1>3 DEF CommandBut, CommandFields
<1>6. new.owners = commands[p].owners /\ new.stage = commands[p].stage
  BY <1>5 DEF CommandBut, CommandFields
<1>7. CommandOK(p, new, Begun)
  BY <1>2, <1>5, <1>6, TaskMoves
<1> QED BY <1>4, <1>6, <1>7, OneMoves, RunningBegun

\* The key of a field of a running resolution is its credential's.
LEMMA KnownIsFor ==
  ASSUME PromptShape, NEW p \in Commands, NEW t \in Tasks, At(p, t, "field"),
         NEW f \in FieldNames, Known(p, Key(Task(p, t).cred, f))
  PROVE  LET value == KnownValue(p, Key(Task(p, t).cred, f))
         IN value \in Entered /\ value.field = f /\ (value.by = p => value.of = Task(p, t).cred)
<1>1. CommandOK(p, commands[p], Begun) /\ WorkOK(p, commands[p].owners, Task(p, t), Begun)
  BY TaskFacts
<1>2. PICK key : key = Key(Task(p, t).cred, f)
  OBVIOUS
<1>3. key[2] = f /\ commands[p].owners[key] = Task(p, t).cred
  BY <1>1, <1>2 DEF Key, WorkOK
<1>4. CASE key \in DOMAIN commands[p].session
  <2>1. KnownValue(p, key) = commands[p].session[key]
    BY <1>4 DEF KnownValue
  <2> QED BY <1>1, <1>2, <1>3, <1>4, <2>1 DEF CommandOK, SessionMap
<1>5. CASE key \notin DOMAIN commands[p].session
  <2>1. KnownValue(p, key) = Exported[key] /\ key \in DOMAIN Exported
    BY <1>2, <1>5 DEF KnownValue, Known
  <2>2. PICK value : value = Exported[key]
    OBVIOUS
  <2>3. value \in [of : Credentials, field : {key[2]}, by : {"environment"}, at : {0}]
    BY <2>1, <2>2, PromptAssumption
  <2>4. value \in Entered /\ value.field = f /\ value.by = "environment"
    BY <1>3, <2>3 DEF Entered, Sources
  <2>5. value.by # p
    BY <2>4, PromptAssumption
  <2> QED BY <1>2, <2>1, <2>2, <2>4, <2>5
<1> QED BY <1>4, <1>5

\* A literal or a known value is taken.
LEMMA TakeShape ==
  ASSUME PromptShape, NEW p \in Commands, NEW t \in Tasks, TakeField(p, t)
  PROVE  PromptShape'
<1>1. At(p, t, "field") /\ Len(Task(p, t).values) < 2 /\ shells' = shells /\ cleans' = cleans
      /\ sessionFile' = sessionFile
  BY DEF TakeField
<1>2. Running(p) /\ WorkOK(p, commands[p].owners, Task(p, t), Begun) /\ DOMAIN Task(p, t) = TaskFields
      /\ Task(p, t).at = "field"
  BY <1>1, TaskFacts
<1>3. PICK c, f : c = Task(p, t).cred /\ f = Field(p, t)
  OBVIOUS
<1>4. c \in Credentials /\ ValuesFor(p, c, Task(p, t).values)
  BY <1>2, <1>3 DEF WorkOK
<1>5. f \in FieldNames /\ f = Fields[Len(Task(p, t).values) + 1]
  BY <1>1, <1>3, <1>4, NextField DEF Field
<1>6. PICK value : value = IF f \in Prompted[c] THEN KnownValue(p, Key(c, f)) ELSE Literal(c, f)
  OBVIOUS
<1>7. f \in Prompted[c] => Known(p, Key(c, f))
  BY <1>3 DEF TakeField
<1>8. Becomes(p, [commands[p] EXCEPT !.tasks = WithTask(p, t, Took(p, t, value))])
  BY <1>3, <1>6 DEF TakeField
<1>9. value \in Entered /\ value.field = f /\ (value.by = p => value.of = c)
  <2>1. CASE f \in Prompted[c]
    BY <1>1, <1>3, <1>5, <1>6, <1>7, <2>1, KnownIsFor
  <2>2. CASE f \notin Prompted[c]
    BY <1>4, <1>5, <1>6, <2>2, LiteralIsEntered
  <2> QED BY <2>1, <2>2
<1>10. PICK values : values = Append(Task(p, t).values, value)
  OBVIOUS
<1>11. ValuesFor(p, c, values)
  BY <1>1, <1>4, <1>5, <1>9, <1>10, ValuesAppend
<1>12. PICK work : work = Took(p, t, value)
  OBVIOUS
<1>13. DOMAIN work = TaskFields /\ work.at = "field" /\ work.cred = c /\ work.values = values
       /\ work.saving = Task(p, t).saving
  BY <1>2, <1>3, <1>10, <1>12 DEF Took, TaskFields
<1>14. WorkOK(p, commands[p].owners, work, Begun)
  BY <1>2, <1>3, <1>11, <1>13 DEF WorkOK
<1>15. SessionMap(sessionFile', Begun)
  BY <1>1 DEF PromptShape
<1> QED BY <1>1, <1>2, <1>8, <1>12, <1>14, <1>15, OnlyTask

\* The user is asked.
LEMMA AskShape ==
  ASSUME PromptShape, NEW p \in Commands, NEW t \in Tasks, Ask(p, t)
  PROVE  PromptShape'
<1>1. At(p, t, "field") /\ Len(Task(p, t).values) < 2 /\ shells' = shells /\ cleans' = cleans
      /\ sessionFile' = sessionFile
      /\ Becomes(p, [commands[p] EXCEPT !.tasks = WithTask(p, t, Moved(p, t, "answer"))])
  BY DEF Ask
<1>2. Running(p) /\ WorkOK(p, commands[p].owners, Task(p, t), Begun) /\ DOMAIN Task(p, t) = TaskFields
  BY <1>1, TaskFacts
<1>3. PICK work : work = Moved(p, t, "answer")
  OBVIOUS
<1>4. DOMAIN work = TaskFields /\ work.at = "answer" /\ work.cred = Task(p, t).cred /\ work.values = Task(p, t).values
      /\ work.saving = Task(p, t).saving
  BY <1>2, <1>3 DEF Moved, TaskFields
<1>5. WorkOK(p, commands[p].owners, work, Begun)
  BY <1>1, <1>2, <1>4 DEF WorkOK
<1>6. SessionMap(sessionFile', Begun)
  BY <1>1 DEF PromptShape
<1> QED BY <1>1, <1>2, <1>3, <1>5, <1>6, OnlyTask

\* The file is replaced by what the resolution saves.
LEMMA SaveShape ==
  ASSUME PromptShape, NEW p \in Commands, NEW t \in Tasks, SaveSession(p, t)
  PROVE  PromptShape'
<1>1. At(p, t, "save") /\ shells' = shells /\ cleans' = cleans /\ sessionFile' = Task(p, t).saving
      /\ Becomes(p, [commands[p] EXCEPT !.tasks = WithTask(p, t, Moved(p, t, "field"))])
  BY DEF SaveSession, SavedFile
<1>2. Running(p) /\ WorkOK(p, commands[p].owners, Task(p, t), Begun) /\ DOMAIN Task(p, t) = TaskFields
  BY <1>1, TaskFacts
<1>3. PICK work : work = Moved(p, t, "field")
  OBVIOUS
<1>4. DOMAIN work = TaskFields /\ work.at = "field" /\ work.cred = Task(p, t).cred /\ work.values = Task(p, t).values
      /\ work.saving = Task(p, t).saving
  BY <1>2, <1>3 DEF Moved, TaskFields
<1>5. WorkOK(p, commands[p].owners, work, Begun)
  BY <1>2, <1>4 DEF WorkOK
<1>6. SessionMap(sessionFile', Begun)
  BY <1>1, <1>2 DEF WorkOK
<1> QED BY <1>1, <1>2, <1>3, <1>5, <1>6, OnlyTask

\* A resolution fails.
LEMMA InterruptedShape ==
  ASSUME PromptShape, NEW p \in Commands, NEW t \in Tasks, Interrupted(p, t)
  PROVE  PromptShape'
<1>1. Running(p) /\ shells' = shells /\ cleans' = cleans /\ sessionFile' = sessionFile
      /\ Becomes(p, [commands[p] EXCEPT !.tasks = WithTask(p, t, NoTask), !.failed = @ + 1])
  BY DEF Interrupted, At
<1>2. CommandOK(p, commands[p], Begun) /\ DOMAIN commands[p] = CommandFields /\ SessionMap(sessionFile, Begun)
  BY DEF PromptShape, CommandOK
<1>3. PICK tasks : tasks = WithTask(p, t, NoTask)
  OBVIOUS
<1>4. PICK new : new = [commands[p] EXCEPT !.tasks = tasks, !.failed = commands[p].failed + 1]
  OBVIOUS
<1>5. commands' = [commands EXCEPT ![p] = new]
  BY <1>1, <1>3, <1>4 DEF Becomes
<1>6. CommandBut(commands[p], new, {"tasks", "failed"}) /\ new.tasks = tasks /\ new.failed = commands[p].failed + 1
  BY <1>2, <1>4 DEF CommandBut, CommandFields
<1>7. /\ DOMAIN new = CommandFields /\ new.stage = commands[p].stage /\ new.asked = commands[p].asked
      /\ new.session = commands[p].session /\ new.owners = commands[p].owners /\ new.count = commands[p].count
      /\ new.results = commands[p].results /\ new.since = commands[p].since
  BY <1>6 DEF CommandBut, CommandFields
<1>8. new.failed \in Nat
  BY <1>2, <1>6 DEF CommandOK
<1>9. DOMAIN tasks = Tasks /\ \A u \in Tasks : tasks[u] = IF u = t THEN NoTask ELSE commands[p].tasks[u]
  BY <1>2, <1>3 DEF WithTask, CommandOK
<1>10. CommandOK(p, new, Begun)
  BY <1>2, <1>6, <1>7, <1>8, <1>9 DEF CommandOK
<1> QED BY <1>1, <1>2, <1>5, <1>7, <1>10, OneMoves, RunningBegun

\* A resolution returns both of its values.
LEMMA ReturnShape ==
  ASSUME PromptShape, NEW p \in Commands, NEW t \in Tasks, Return(p, t)
  PROVE  PromptShape'
<1>1. At(p, t, "field") /\ Len(Task(p, t).values) = 2 /\ shells' = shells /\ cleans' = cleans
      /\ sessionFile' = sessionFile
  BY DEF Return
<1>2. /\ Running(p) /\ CommandOK(p, commands[p], Begun) /\ DOMAIN commands[p] = CommandFields
      /\ WorkOK(p, commands[p].owners, Task(p, t), Begun)
  BY <1>1, TaskFacts
<1>3. PICK tasks, resolved, result : tasks = WithTask(p, t, NoTask) /\ resolved = Remembered(p, Task(p, t).cred)
                                     /\ result = [cred |-> Task(p, t).cred, values |-> Task(p, t).values]
  OBVIOUS
<1>4. PICK results : results = commands[p].results \cup {result}
  OBVIOUS
<1>5. PICK new : new = [commands[p] EXCEPT !.tasks = tasks, !.resolved = resolved, !.results = results]
  OBVIOUS
<1>6. commands' = [commands EXCEPT ![p] = new]
  BY <1>3, <1>4, <1>5 DEF Becomes, Return
<1>7. CommandBut(commands[p], new, {"tasks", "resolved", "results"}) /\ new.tasks = tasks /\ new.results = results
  BY <1>2, <1>5 DEF CommandBut, CommandFields
<1>8. /\ DOMAIN new = CommandFields /\ new.stage = commands[p].stage /\ new.asked = commands[p].asked
      /\ new.session = commands[p].session /\ new.owners = commands[p].owners /\ new.count = commands[p].count
      /\ new.failed = commands[p].failed /\ new.since = commands[p].since
  BY <1>7 DEF CommandBut, CommandFields
<1>9. DOMAIN tasks = Tasks /\ \A u \in Tasks : tasks[u] = IF u = t THEN NoTask ELSE commands[p].tasks[u]
  BY <1>2, <1>3 DEF WithTask, CommandOK
<1>10. \A r \in results : ValuesFor(p, r.cred, r.values) /\ Len(r.values) = 2
  <2>1. result.cred = Task(p, t).cred /\ result.values = Task(p, t).values
    BY <1>3
  <2>2. ValuesFor(p, result.cred, result.values) /\ Len(result.values) = 2
    BY <1>1, <1>2, <2>1 DEF WorkOK
  <2>3. \A r \in commands[p].results : ValuesFor(p, r.cred, r.values) /\ Len(r.values) = 2
    BY <1>2 DEF CommandOK
  <2> QED BY <1>4, <2>2, <2>3
<1>11. CommandOK(p, new, Begun)
  BY <1>2, <1>7, <1>8, <1>9, <1>10 DEF CommandOK
<1>12. SessionMap(sessionFile', Begun)
  BY <1>1 DEF PromptShape
<1> QED BY <1>1, <1>2, <1>6, <1>8, <1>11, <1>12, OneMoves, RunningBegun

\* What an answer changes in a command.
AnswerStep(p, t, c, f, value, session, work, new) ==
  /\ c \in Credentials /\ f \in FieldNames /\ value \in Entered
  /\ c = Task(p, t).cred /\ f = Field(p, t) /\ f = Fields[Len(Task(p, t).values) + 1]
  /\ value.of = c /\ value.field = f /\ value.by = p /\ value.at = commands[p].since
  /\ session = IF c \in Persistent THEN Put(commands[p].session, Key(c, f), value) ELSE commands[p].session
  /\ DOMAIN work = TaskFields /\ work.cred = c /\ work.saving = session
  /\ work.at = (IF c \in Persistent THEN "save" ELSE "field") /\ work.values = Append(Task(p, t).values, value)
  /\ CommandBut(commands[p], new, {"session", "asked", "tasks"}) /\ new.session = session
  /\ new.asked = AskedAgain(p, c, f) /\ new.tasks = WithTask(p, t, work)
  /\ commands' = [commands EXCEPT ![p] = new]

\* An answer: what it changes in a command.
LEMMA AnswerFacts ==
  ASSUME PromptShape, NEW p \in Commands, NEW t \in Tasks, Answer(p, t)
  PROVE  \E c, f, value, session, work, new : AnswerStep(p, t, c, f, value, session, work, new)
<1>1. At(p, t, "answer")
  BY DEF Answer
<1>2. /\ Running(p) /\ CommandOK(p, commands[p], Begun) /\ DOMAIN commands[p] = CommandFields
      /\ WorkOK(p, commands[p].owners, Task(p, t), Begun) /\ DOMAIN Task(p, t) = TaskFields
            /\ Task(p, t).at = "answer"
  BY <1>1, TaskFacts
<1>3. PICK c, f : c = Task(p, t).cred /\ f = Field(p, t)
  OBVIOUS
<1>4. c \in Credentials /\ ValuesFor(p, c, Task(p, t).values) /\ Len(Task(p, t).values) < 2
  BY <1>2, <1>3 DEF WorkOK
<1>5. f \in FieldNames /\ f = Fields[Len(Task(p, t).values) + 1]
  BY <1>3, <1>4, NextField DEF Field
<1>6. PICK value : value = [of |-> c, field |-> f, by |-> p, at |-> commands[p].since]
  OBVIOUS
<1>7. value \in Entered /\ value.of = c /\ value.field = f /\ value.by = p /\ value.at = commands[p].since
  BY <1>2, <1>4, <1>5, <1>6 DEF Entered, Sources, CommandOK
<1>8. PICK session : session = IF c \in Persistent THEN
      Put(commands[p].session, Key(c, f), value) ELSE commands[p].session
  OBVIOUS
<1>9. PICK at : at = IF c \in Persistent THEN "save" ELSE "field"
  OBVIOUS
<1>10. PICK values : values = Append(Task(p, t).values, value)
  OBVIOUS
<1>11. PICK work : work = [Task(p, t) EXCEPT !.at = at, !.saving = session, !.values = values]
  OBVIOUS
<1>12. DOMAIN work = TaskFields /\ work.cred = c /\ work.saving = session /\ work.at = at /\ work.values = values
  BY <1>2, <1>3, <1>11 DEF TaskFields
<1>13. PICK tasks, asked : tasks = WithTask(p, t, work) /\ asked = AskedAgain(p, c, f)
  OBVIOUS
<1>14. PICK new : new = [commands[p] EXCEPT !.session = session, !.asked = asked, !.tasks = tasks]
  OBVIOUS
<1>15. CommandBut(commands[p], new, {"session", "asked", "tasks"}) /\ new.session = session
       /\ new.asked = asked /\ new.tasks = tasks
  BY <1>2, <1>14 DEF CommandBut, CommandFields
<1>16. commands' = [commands EXCEPT ![p] = new]
  BY <1>3, <1>6, <1>8, <1>9, <1>10, <1>11, <1>13, <1>14 DEF Answer, Becomes
<1>17. AnswerStep(p, t, c, f, value, session, work, new)
  BY <1>3, <1>4, <1>5, <1>7, <1>8, <1>9, <1>10, <1>12, <1>13, <1>15, <1>16 DEF AnswerStep
<1> QED BY <1>17

\* The user answers: the value is put under a key of its credential.
LEMMA AnswerShape ==
  ASSUME PromptShape, NEW p \in Commands, NEW t \in Tasks, Answer(p, t)
  PROVE  PromptShape'
<1>1. At(p, t, "answer") /\ shells' = shells /\ cleans' = cleans /\ sessionFile' = sessionFile
  BY DEF Answer
<1>2. /\ Running(p) /\ CommandOK(p, commands[p], Begun) /\ DOMAIN commands[p] = CommandFields
      /\ WorkOK(p, commands[p].owners, Task(p, t), Begun) /\ DOMAIN Task(p, t) = TaskFields
            /\ Task(p, t).at = "answer"
  BY <1>1, TaskFacts
<1>3. PICK c, f, value, session, work, new : AnswerStep(p, t, c, f, value, session, work, new)
  BY AnswerFacts
<1> USE DEF AnswerStep
<1>4. /\ DOMAIN new = CommandFields /\ new.stage = commands[p].stage /\ new.owners = commands[p].owners
      /\ new.count = commands[p].count /\ new.results = commands[p].results
      /\ new.failed = commands[p].failed /\ new.since = commands[p].since
  BY <1>3 DEF CommandBut, CommandFields
<1>5. p \in Begun /\ SessionMap(commands[p].session, Begun)
  BY <1>2, RunningBegun DEF CommandOK
<1>6. SessionMap(session, Begun)
  BY <1>3, <1>5, PutMap
<1>7. \A k \in DOMAIN session : session[k].by = p =>
        k \in DOMAIN commands[p].owners /\ commands[p].owners[k] = session[k].of
  <2>1. \A k \in DOMAIN commands[p].session : commands[p].session[k].by = p =>
          k \in DOMAIN commands[p].owners /\ commands[p].owners[k] = commands[p].session[k].of
    BY <1>2 DEF CommandOK
  <2>2. Key(c, f) \in DOMAIN commands[p].owners /\ commands[p].owners[Key(c, f)] = c
    BY <1>2, <1>3 DEF WorkOK
  <2>3. c \in Persistent => /\ DOMAIN session = DOMAIN commands[p].session \cup {Key(c, f)}
                            /\ \A k \in DOMAIN session : session[k] = IF k = Key(c, f) THEN
                                  value ELSE commands[p].session[k]
    BY <1>3 DEF Put
  <2> QED BY <1>3, <2>1, <2>2, <2>3
<1>8. ValuesFor(p, c, Task(p, t).values) /\ Len(Task(p, t).values) < 2 /\ Len(Task(p, t).values) \in Nat
  BY <1>2, <1>3 DEF WorkOK, ValuesFor
<1>9. ValuesFor(p, c, work.values) /\ Len(work.values) = Len(Task(p, t).values) + 1
  BY <1>3, <1>8, ValuesAppend
<1>10. work.at \in {"field", "save"}
  BY <1>3
<1>11. Len(work.values) # 0
  BY <1>8, <1>9
<1>12. WorkOK(p, commands[p].owners, work, Begun)
  BY <1>2, <1>3, <1>6, <1>9, <1>10, <1>11 DEF WorkOK
<1>13. DOMAIN new.tasks = Tasks /\ \A u \in Tasks : new.tasks[u] = IF u = t THEN work ELSE commands[p].tasks[u]
  BY <1>2, <1>3 DEF WithTask, CommandOK
<1>14. \A u \in Tasks : new.tasks[u] = NoTask \/ WorkOK(p, new.owners, new.tasks[u], Begun)
  BY <1>2, <1>4, <1>12, <1>13 DEF CommandOK
<1>15. new.asked \in [Credentials \X FieldNames -> Nat]
  <2>1. commands[p].asked \in [Credentials \X FieldNames -> Nat]
    BY <1>2 DEF CommandOK
  <2>2. PICK cf \in Credentials \X FieldNames : cf = <<c, f>>
    BY <1>3
  <2>3. PICK n : n = commands[p].asked[cf] + 1
    OBVIOUS
  <2>4. n \in Nat
    BY <2>1, <2>2, <2>3
  <2>5. new.asked = [commands[p].asked EXCEPT ![cf] = n]
    BY <1>3, <2>2, <2>3 DEF AskedAgain
  <2> QED BY <2>1, <2>4, <2>5
<1>16. CommandOK(p, new, Begun)
  BY <1>2, <1>3, <1>4, <1>6, <1>7, <1>13, <1>14, <1>15 DEF CommandOK
<1>17. SessionMap(sessionFile', Begun)
  BY <1>1 DEF PromptShape
<1>18. commands' = [commands EXCEPT ![p] = new] /\ new.stage # "new"
  BY <1>2, <1>3, <1>4 DEF Running
<1> HIDE DEF AnswerStep
<1> QED BY <1>1, <1>2, <1>16, <1>17, <1>18, OneMoves, RunningBegun

\* The session is cleaned, or a shell opens or exits.
LEMMA ShellsShape ==
  ASSUME PromptShape, Clean \/ OpenShell \/ ExitShell
  PROVE  PromptShape' /\ commands' = commands
<1>1. commands' = commands /\ Begun' = Begun
  BY DEF Clean, OpenShell, ExitShell, Begun
<1>2. CASE Clean \/ ExitShell
  <2>1. \E by : cleans' = [count |-> cleans.count + 1, by |-> by] /\ sessionFile' = NoMap
    BY <1>2 DEF Clean, ExitShell, ClearSessionCredentials
  <2>2. DOMAIN cleans' = {"count", "by"} /\ cleans'.count \in Nat
    BY <2>1 DEF PromptShape
  <2>3. shells' \in 0..MaxShells
    <3>1. shells \in 0..MaxShells /\ MaxShells \in Nat
      BY PromptAssumption DEF PromptShape
    <3>2. shells' = shells \/ (shells > 0 /\ shells' = shells - 1)
      BY <1>2 DEF Clean, ExitShell
    <3> QED BY <3>1, <3>2
  <2>4. SessionMap(sessionFile', Begun')
    BY <2>1, NothingIsMap
  <2> QED BY <1>1, <2>2, <2>3, <2>4 DEF PromptShape
<1>3. CASE OpenShell
  <2>1. shells' \in 0..MaxShells /\ cleans' = cleans /\ sessionFile' = sessionFile
    BY <1>3, PromptAssumption DEF OpenShell, PromptShape
  <2> QED BY <1>1, <2>1 DEF PromptShape
<1> QED BY <1>2, <1>3

\* In the beginning no command has begun.
LEMMA InitShape ==
  ASSUME PromptInit
  PROVE  PromptShape
<1>1. DOMAIN commands = Commands /\ \A p \in Commands : commands[p] = NewCommand
  BY DEF PromptInit
<1>2. PICK new : new = NewCommand
  OBVIOUS
<1>3. /\ DOMAIN new = CommandFields /\ new.stage = "new" /\ new.session = NoMap /\ new.owners = <<>>
      /\ new.tasks = [t \in Tasks |-> NoTask] /\ new.asked = [cf \in Credentials \X FieldNames |-> 0]
      /\ new.failed = 0 /\ new.count = 0 /\ new.since = 0 /\ new.results = {}
  BY <1>2 DEF NewCommand, CommandFields, FieldNames
<1>4. SessionMap(NoMap, Begun) /\ DOMAIN NoMap = {}
  BY NothingIsMap DEF NoMap
<1>5. new.asked \in [Credentials \X FieldNames -> Nat] /\ new.count \in 0..MaxResolves
  BY <1>3, PromptAssumption
<1>6. \A p \in Commands : CommandOK(p, new, Begun)
  BY <1>3, <1>4, <1>5 DEF CommandOK
<1>7. shells \in 0..MaxShells /\ DOMAIN cleans = {"count", "by"} /\ cleans.count \in Nat
  BY PromptAssumption DEF PromptInit
<1>8. sessionFile = NoMap
  BY DEF PromptInit
<1> QED BY <1>1, <1>2, <1>4, <1>6, <1>7, <1>8 DEF PromptShape

\* Every step keeps it.
LEMMA PromptShapeStep ==
  ASSUME PromptShape, [PromptNext]_promptVars
  PROVE  PromptShape'
<1>1. CASE UNCHANGED promptVars
  <2>1. Begun' = Begun
    BY <1>1 DEF promptVars, Begun
  <2> QED BY <1>1, <2>1 DEF promptVars, PromptShape
<1>2. CASE PromptNext
  BY <1>2, StartShape, EndShape, ResolveShape, TakeShape, AskShape, AnswerShape, InterruptedShape, SaveShape,
     ReturnShape, ShellsShape DEF PromptNext
<1> QED BY <1>1, <1>2

\* The shape gives the types.
LEMMA ShapeGivesTypes ==
  ASSUME PromptShape
  PROVE  PromptTypeOK
<1>1. 1 \in DOMAIN Fields /\ 2 \in DOMAIN Fields /\ Fields[1] = "username" /\ Fields[2] = "password"
  BY DEF Fields
<1>2. DOMAIN sessionFile \subseteq {Key(c, Fields[i]) : c \in Credentials, i \in DOMAIN Fields}
  BY <1>1 DEF PromptShape, SessionMap, SessionKeys, FieldNames
<1>3. \A p \in Commands : CommandOK(p, commands[p], Begun)
  BY DEF PromptShape
<1>4. \A p \in Commands : \A r \in commands[p].results :
        Len(r.values) = 2 /\ r.values[1].field = "username" /\ r.values[2].field = "password"
  BY <1>1, <1>3 DEF CommandOK, ValuesFor
<1> QED BY <1>2, <1>3, <1>4 DEF PromptTypeOK, PromptShape, CommandOK

\* The shape keeps the credentials of a command apart.
LEMMA ShapeKeepsApart ==
  ASSUME PromptShape
  PROVE  NoMixingInCommand
<1>1. \A p \in Commands : \A r \in commands[p].results : ValuesFor(p, r.cred, r.values) /\ Len(r.values) = 2
  BY DEF PromptShape, CommandOK
<1> QED BY <1>1 DEF NoMixingInCommand, ValuesFor

\* PromptTypeOK holds always: the session file has keys of credentials, and what
\* is returned is a user name and a password (runtime.go).
THEOREM PromptTypes == PromptSpec => []PromptTypeOK
<1>1. PromptSpec => []PromptShape
  BY InitShape, PromptShapeStep, PTL DEF PromptSpec
<1> QED BY <1>1, ShapeGivesTypes, PTL

\* A command never returns for one credential what was entered in it for
\* another, however many commands and tasks share the session: names with one
\* session key are refused (registerEnvKeyOwner).
THEOREM CredentialsApart == PromptSpec => []NoMixingInCommand
<1>1. PromptSpec => []PromptShape
  BY InitShape, PromptShapeStep, PTL DEF PromptSpec
<1> QED BY <1>1, ShapeKeepsApart, PTL

-----------------------------------------------------------------------------
(* Commands one after the other, with one work each. *)

\* Values that were entered were entered after n cleanings.
EnteredAt(values, n) == \A i \in 1..Len(values) : values[i].by \in Commands => values[i].at = n

\* A command that does not run resolves nothing; one that has not begun returned nothing.
Rested(command) ==
  /\ command.stage # "running" => \A t \in Tasks : command.tasks[t] = NoTask
  /\ command.stage = "new" => command.results = {}

\* What a command has was entered since the cleaning before its start.
Timely(command) ==
  /\ command.stage = "running" => \A k \in DOMAIN command.session : command.session[k].by \in Commands =>
        command.session[k].at = command.since
  /\ \A t \in Tasks : command.tasks[t] # NoTask => EnteredAt(command.tasks[t].values, command.since)
  /\ \A r \in command.results : EnteredAt(r.values, command.since)

\* A resolution is of a credential not resolved before, and writes all that the command knows.
InTurn(command) ==
  \A t \in Tasks : command.tasks[t] # NoTask =>
     /\ command.tasks[t].cred \notin command.resolved
     /\ command.tasks[t].at = "save" =>
          /\ command.tasks[t].saving = command.session
          /\ Key(command.tasks[t].cred, Fields[Len(command.tasks[t].values)]) \in DOMAIN command.session

\* A field is settled when its credential or its value is there.
Given(work, f) == \E i \in 1..Len(work.values) : Fields[i] = f
Settled(command, c, f) ==
  \/ command.stage = "ended" \/ c \in command.resolved
  \/ \E t \in Tasks : command.tasks[t] # NoTask /\ command.tasks[t].cred = c /\ Given(command.tasks[t], f)

\* A field was asked for once for each failure, and once more when it is settled.
AskedFew(command) ==
  \A c \in Credentials, f \in FieldNames :
     /\ command.asked[<<c, f>>] <= command.failed + 1
     /\ ~Settled(command, c, f) => command.asked[<<c, f>>] <= command.failed

CommandInOrder(command) == Rested(command) /\ Timely(command) /\ InTurn(command) /\ AskedFew(command)

\* The file has what was saved since the last cleaning, and nothing older.
FileInOrder ==
  /\ \A k \in DOMAIN sessionFile : sessionFile[k].by \in Commands => sessionFile[k].at = cleans.count
  /\ kept \subseteq DOMAIN sessionFile

\* A running command knows what is in the file.
Informed(command, file, n) == command.stage = "running" => command.since = n
      /\ DOMAIN file \subseteq DOMAIN command.session

InOrder ==
  /\ \A p, q \in Commands : Running(p) /\ Running(q) => p = q
  /\ \A p \in Commands : CommandInOrder(commands[p]) /\ Informed(commands[p], sessionFile, cleans.count)
  /\ FileInOrder

OneTask == \A t, u \in Tasks : t = u

\* One command moves, and no other runs.
LEMMA MovesInOrder ==
  ASSUME PromptShape, InOrder, NEW p \in Commands, NEW new, commands' = [commands EXCEPT ![p] = new],
         \A q \in Commands : Running(q) => q = p, CommandInOrder(new),
         Informed(new, sessionFile', cleans'.count), FileInOrder',
         (sessionFile' = sessionFile /\ cleans' = cleans) \/ Running(p)
  PROVE  InOrder'
<1>1. DOMAIN commands = Commands
  BY DEF PromptShape
<1>2. commands'[p] = new /\ \A q \in Commands : q # p => commands'[q] = commands[q] /\ commands'[q].stage # "running"
  BY <1>1 DEF Running
<1>3. \A q \in Commands : CommandInOrder(commands'[q])
  BY <1>2 DEF InOrder
<1>4. \A q \in Commands : Informed(commands'[q], sessionFile', cleans'.count)
  BY <1>2 DEF Informed
<1>5. \A q, r \in Commands : Running(q)' /\ Running(r)' => q = r
  BY <1>2 DEF Running
<1> QED BY <1>3, <1>4, <1>5 DEF InOrder

\* A running command is the only one.
LEMMA RunsAlone ==
  ASSUME InOrder, NEW p \in Commands, Running(p)
  PROVE  /\ \A q \in Commands : Running(q) => q = p
         /\ CommandInOrder(commands[p]) /\ Informed(commands[p], sessionFile, cleans.count)
         /\ commands[p].stage = "running"
BY DEF InOrder, Running

\* The fields an invariant reads are the same.
LEMMA SameInOrder ==
  ASSUME NEW command, NEW new, CommandBut(command, new, {"count", "owners"}), CommandInOrder(command)
  PROVE  CommandInOrder(new)
<1>1. /\ new.stage = command.stage /\ new.session = command.session /\ new.resolved = command.resolved
      /\ new.tasks = command.tasks
      /\ new.asked = command.asked /\ new.failed = command.failed /\ new.since = command.since
            /\ new.results = command.results
  BY DEF CommandBut, CommandFields
<1>2. \A c, f : Settled(new, c, f) <=> Settled(command, c, f)
  BY <1>1 DEF Settled
<1>3. AskedFew(new)
  BY <1>1, <1>2 DEF AskedFew, CommandInOrder
<1>4. Rested(new) /\ Timely(new) /\ InTurn(new)
  BY <1>1 DEF Rested, Timely, InTurn, CommandInOrder
<1> QED BY <1>3, <1>4 DEF CommandInOrder

\* A resolution goes on with what it has.
LEMMA TaskInOrder ==
  ASSUME NEW command, NEW new, NEW t \in Tasks, NEW work, CommandBut(command, new, {"count", "owners", "tasks"}),
         CommandInOrder(command), command.stage = "running", DOMAIN command.tasks = Tasks,
               new.tasks = [command.tasks EXCEPT ![t] = work],
         work.cred \notin command.resolved, EnteredAt(work.values, command.since),
         work.at # "save",
         command.tasks[t] # NoTask => work # NoTask /\ work.cred = command.tasks[t].cred
               /\ \A f : Given(command.tasks[t], f) => Given(work, f)
  PROVE  CommandInOrder(new)
<1>1. /\ new.stage = command.stage /\ new.session = command.session /\ new.resolved = command.resolved
      /\ new.asked = command.asked /\ new.failed = command.failed /\ new.since = command.since
            /\ new.results = command.results
  BY DEF CommandBut, CommandFields
<1>2. new.tasks[t] = work /\ \A u \in Tasks : u # t => new.tasks[u] = command.tasks[u]
  OBVIOUS
<1>3. \A c, f : Settled(command, c, f) => Settled(new, c, f)
  BY <1>1, <1>2 DEF Settled
<1>4. AskedFew(new)
  BY <1>1, <1>3 DEF AskedFew, CommandInOrder
<1>5. Rested(new)
  BY <1>1 DEF Rested, CommandInOrder
<1>6. Timely(new)
  BY <1>1, <1>2 DEF Timely, CommandInOrder
<1>7. InTurn(new)
  BY <1>1, <1>2 DEF InTurn, CommandInOrder
<1> QED BY <1>4, <1>5, <1>6, <1>7 DEF CommandInOrder

\* One more value, and those there were.
LEMMA GivenAppend ==
  ASSUME NEW values \in Seq(Entered), NEW value \in Entered, NEW n
  PROVE  /\ \A work, new : work.values = values /\ new.values = Append(values, value) =>
              \A f : Given(work, f) => Given(new, f)
         /\ \A new : new.values = Append(values, value) => Given(new, Fields[Len(values) + 1])
         /\ EnteredAt(values, n) /\ (value.by \in Commands => value.at = n) => EnteredAt(Append(values, value), n)
<1>1. PICK more : more = Append(values, value)
  OBVIOUS
<1>2. /\ Len(more) = Len(values) + 1 /\ Len(values) \in Nat
      /\ \A i \in 1..Len(values) : more[i] = values[i]
      /\ more[Len(values) + 1] = value
  BY <1>1
<1>3. \A i \in 1..Len(more) : i \in 1..Len(values) \/ i = Len(values) + 1
  BY <1>2
<1>4. \A i \in 1..Len(values) : i \in 1..Len(more)
  BY <1>2
<1>5. Len(values) + 1 \in 1..Len(more)
  BY <1>2
<1>6. \A work, new : work.values = values /\ new.values = more => \A f : Given(work, f) => Given(new, f)
  BY <1>4 DEF Given
<1>7. \A new : new.values = more => Given(new, Fields[Len(values) + 1])
  BY <1>5 DEF Given
<1>8. EnteredAt(values, n) /\ (value.by \in Commands => value.at = n) => EnteredAt(more, n)
  BY <1>2, <1>3 DEF EnteredAt
<1> QED BY <1>1, <1>6, <1>7, <1>8

-----------------------------------------------------------------------------
(* The steps, when commands come one after the other. *)

\* A command starts: no other runs, and it knows the file.
LEMMA StartInOrder ==
  ASSUME PromptShape, InOrder, ~Together, NEW p \in Commands, Start(p)
  PROVE  InOrder'
<1>1. commands[p].stage = "new" /\ cleans' = cleans /\ sessionFile' = sessionFile /\ kept' = kept
      /\ \A q \in Commands : ~Running(q)
  BY DEF Start
<1>2. DOMAIN commands[p] = CommandFields /\ CommandInOrder(commands[p]) /\ FileInOrder
  BY DEF PromptShape, CommandOK, InOrder
<1>3. PICK new : new = [commands[p] EXCEPT !.stage = "running", !.session = sessionFile, !.since = cleans.count]
  OBVIOUS
<1>4. commands' = [commands EXCEPT ![p] = new]
  BY <1>3 DEF Start, Becomes
<1>5. CommandBut(commands[p], new, {"stage", "session", "since"}) /\ new.stage = "running"
      /\ new.session = sessionFile
      /\ new.since = cleans.count
  BY <1>2, <1>3 DEF CommandBut, CommandFields
<1>6. /\ new.asked = commands[p].asked /\ new.failed = commands[p].failed /\ new.tasks = commands[p].tasks
      /\ new.results = commands[p].results /\ new.resolved = commands[p].resolved
  BY <1>5 DEF CommandBut, CommandFields
<1>7. new.results = {} /\ \A t \in Tasks : new.tasks[t] = NoTask
  BY <1>1, <1>2, <1>6 DEF CommandInOrder, Rested
<1>8. \A c, f : Settled(commands[p], c, f) => Settled(new, c, f)
  BY <1>1, <1>6 DEF Settled
<1>9. AskedFew(new)
  BY <1>2, <1>6, <1>8 DEF AskedFew, CommandInOrder
<1>10. Rested(new) /\ Timely(new) /\ InTurn(new)
  BY <1>2, <1>5, <1>7 DEF Rested, Timely, InTurn, FileInOrder
<1>11. Informed(new, sessionFile', cleans'.count)
  BY <1>1, <1>5 DEF Informed
<1>12. FileInOrder'
  BY <1>1, <1>2 DEF FileInOrder
<1> QED BY <1>1, <1>4, <1>9, <1>10, <1>11, <1>12, MovesInOrder DEF CommandInOrder

\* A command ends.
LEMMA EndInOrder ==
  ASSUME PromptShape, InOrder, NEW p \in Commands, End(p)
  PROVE  InOrder'
<1>1. Running(p) /\ cleans' = cleans /\ sessionFile' = sessionFile /\ kept' = kept
  BY DEF End
<1>2. DOMAIN commands[p] = CommandFields /\ CommandInOrder(commands[p]) /\ FileInOrder
  BY DEF PromptShape, CommandOK, InOrder
<1>3. PICK tasks : tasks = [t \in Tasks |-> NoTask]
  OBVIOUS
<1>4. PICK new : new = [commands[p] EXCEPT !.stage = "ended", !.tasks = tasks]
  OBVIOUS
<1>5. commands' = [commands EXCEPT ![p] = new]
  BY <1>3, <1>4 DEF End, Becomes
<1>6. CommandBut(commands[p], new, {"stage", "tasks"}) /\ new.stage = "ended" /\ new.tasks = tasks
  BY <1>2, <1>4 DEF CommandBut, CommandFields
<1>7. /\ new.asked = commands[p].asked /\ new.failed = commands[p].failed /\ new.since = commands[p].since
      /\ new.results = commands[p].results
  BY <1>6 DEF CommandBut, CommandFields
<1>8. \A t \in Tasks : new.tasks[t] = NoTask
  BY <1>3, <1>6
<1>9. AskedFew(new)
  BY <1>2, <1>6, <1>7 DEF AskedFew, CommandInOrder, Settled
<1>10. Rested(new) /\ Timely(new) /\ InTurn(new)
  BY <1>2, <1>6, <1>7, <1>8 DEF Rested, Timely, InTurn, CommandInOrder
<1>11. Informed(new, sessionFile', cleans'.count)
  BY <1>6 DEF Informed
<1>12. FileInOrder'
  BY <1>1, <1>2 DEF FileInOrder
<1>13. \A q \in Commands : Running(q) => q = p
  BY <1>1, RunsAlone
<1> QED BY <1>1, <1>5, <1>9, <1>10, <1>11, <1>12, <1>13, MovesInOrder DEF CommandInOrder

\* A step of a running command that leaves session and file alone.
LEMMA QuietInOrder ==
  ASSUME PromptShape, InOrder, NEW p \in Commands, Running(p), NEW new, commands' = [commands EXCEPT ![p] = new],
         CommandInOrder(new), new.session = commands[p].session, new.since = commands[p].since,
         sessionFile' = sessionFile, cleans' = cleans, kept' = kept
  PROVE  InOrder'
<1>1. /\ \A q \in Commands : Running(q) => q = p
      /\ Informed(commands[p], sessionFile, cleans.count) /\ commands[p].stage = "running"
  BY RunsAlone
<1>2. Informed(new, sessionFile', cleans'.count)
  BY <1>1 DEF Informed
<1>3. FileInOrder'
  BY DEF FileInOrder, InOrder
<1> QED BY <1>1, <1>2, <1>3, MovesInOrder

\* A resolution ends at once or begins.
LEMMA ResolveInOrder ==
  ASSUME PromptShape, InOrder, NEW p \in Commands, NEW t \in Tasks, Resolve(p, t)
  PROVE  InOrder'
<1>1. /\ Running(p) /\ Task(p, t) = NoTask /\ sessionFile' = sessionFile /\ cleans' = cleans /\ kept' = kept
  BY DEF Resolve
<1>2. /\ CommandInOrder(commands[p]) /\ commands[p].stage = "running" /\ DOMAIN commands[p] = CommandFields
      /\ DOMAIN commands[p].tasks = Tasks
  BY <1>1, RunsAlone DEF PromptShape, CommandOK
<1>3. CASE Becomes(p, [commands[p] EXCEPT !.count = @ + 1])
  <2>1. PICK new : new = [commands[p] EXCEPT !.count = commands[p].count + 1]
    OBVIOUS
  <2>2. commands' = [commands EXCEPT ![p] = new]
    BY <1>3, <2>1 DEF Becomes
  <2>3. CommandBut(commands[p], new, {"count", "owners"})
    BY <1>2, <2>1 DEF CommandBut, CommandFields
  <2>4. CommandInOrder(new)
    BY <1>2, <2>3, SameInOrder
  <2>5. new.session = commands[p].session /\ new.since = commands[p].since
    BY <2>3 DEF CommandBut, CommandFields
  <2> QED BY <1>1, <2>2, <2>4, <2>5, QuietInOrder
<1>4. ASSUME NEW c \in Credentials, c \notin commands[p].resolved,
             Becomes(p, [commands[p] EXCEPT !.count = @ + 1, !.owners = Registered(p, c),
                                            !.tasks = WithTask(p, t, Begin(c))])
      PROVE  InOrder'
  <2>1. PICK owners, tasks, work : owners = Registered(p, c) /\ work = Begin(c) /\ tasks = WithTask(p, t, work)
    OBVIOUS
  <2>2. PICK new : new = [commands[p] EXCEPT !.count = commands[p].count + 1, !.owners = owners, !.tasks = tasks]
    OBVIOUS
  <2>3. commands' = [commands EXCEPT ![p] = new]
    BY <1>4, <2>1, <2>2 DEF Becomes
  <2>4. CommandBut(commands[p], new, {"count", "owners", "tasks"}) /\ new.tasks = tasks
    BY <1>2, <2>2 DEF CommandBut, CommandFields
  <2>5. work.cred = c /\ work.at = "field" /\ work.values = <<>>
    BY <2>1 DEF Begin
  <2>6. EnteredAt(work.values, commands[p].since)
    BY <2>5 DEF EnteredAt
  <2>7. new.tasks = [commands[p].tasks EXCEPT ![t] = work] /\ commands[p].tasks[t] = NoTask
    BY <1>1, <2>1, <2>4 DEF WithTask, Task
  <2>8. CommandInOrder(new)
    BY <1>2, <1>4, <2>4, <2>5, <2>6, <2>7, TaskInOrder
  <2>9. new.session = commands[p].session /\ new.since = commands[p].since
    BY <2>4 DEF CommandBut, CommandFields
  <2> QED BY <1>1, <2>3, <2>8, <2>9, QuietInOrder
<1> QED BY <1>3, <1>4 DEF Resolve

\* A known value was entered since the cleaning before the start.
LEMMA KnownIsTimely ==
  ASSUME PromptShape, InOrder, NEW p \in Commands, Running(p), NEW key, Known(p, key)
  PROVE  KnownValue(p, key).by \in Commands => KnownValue(p, key).at = commands[p].since
<1>1. Timely(commands[p]) /\ commands[p].stage = "running"
  BY RunsAlone DEF CommandInOrder
<1>2. CASE key \in DOMAIN commands[p].session
  BY <1>1, <1>2 DEF Timely, KnownValue
<1>3. CASE key \notin DOMAIN commands[p].session
  <2>1. KnownValue(p, key) = Exported[key] /\ key \in DOMAIN Exported
    BY <1>3 DEF KnownValue, Known
  <2>2. PICK value : value = Exported[key]
    OBVIOUS
  <2>3. value \in [of : Credentials, field : {key[2]}, by : {"environment"}, at : {0}]
    BY <2>1, <2>2, PromptAssumption
  <2>4. value.by = "environment"
    BY <2>3
  <2> QED BY <2>1, <2>2, <2>4, PromptAssumption
<1> QED BY <1>2, <1>3

\* The record of a running resolution is replaced by one that has what it had.
LEMMA OnlyTaskInOrder ==
  ASSUME PromptShape, InOrder, NEW p \in Commands, NEW t \in Tasks, NEW at, At(p, t, at), NEW work,
         Becomes(p, [commands[p] EXCEPT !.tasks = WithTask(p, t, work)]),
         DOMAIN work = TaskFields, work.at # "save", work.cred = Task(p, t).cred,
         EnteredAt(work.values, commands[p].since),
         \A f : Given(Task(p, t), f) => Given(work, f)
  PROVE  \E new : /\ commands' = [commands EXCEPT ![p] = new] /\ CommandInOrder(new)
                  /\ new.session = commands[p].session /\ new.since = commands[p].since
<1>1. Running(p) /\ Task(p, t) = commands[p].tasks[t] /\ Task(p, t) # NoTask
      /\ DOMAIN commands[p] = CommandFields /\ DOMAIN commands[p].tasks = Tasks
  <2>1. Running(p) /\ Task(p, t) = commands[p].tasks[t] /\ Task(p, t) # NoTask
    BY TaskFacts
  <2> QED BY <2>1 DEF PromptShape, CommandOK
<1>2. CommandInOrder(commands[p]) /\ commands[p].stage = "running"
  BY <1>1, RunsAlone
<1>3. work # NoTask
  BY DEF TaskFields, NoTask
<1>4. work.cred \notin commands[p].resolved
  BY <1>1, <1>2 DEF CommandInOrder, InTurn
<1>5. PICK tasks : tasks = WithTask(p, t, work)
  OBVIOUS
<1>6. PICK new : new = [commands[p] EXCEPT !.tasks = tasks]
  OBVIOUS
<1>7. commands' = [commands EXCEPT ![p] = new]
  BY <1>5, <1>6 DEF Becomes
<1>8. CommandBut(commands[p], new, {"count", "owners", "tasks"}) /\ new.tasks = tasks
  BY <1>1, <1>6 DEF CommandBut, CommandFields
<1>9. new.tasks = [commands[p].tasks EXCEPT ![t] = work]
  BY <1>5, <1>8 DEF WithTask
<1>10. CommandInOrder(new)
  BY <1>1, <1>2, <1>3, <1>4, <1>8, <1>9, TaskInOrder
<1>11. new.session = commands[p].session /\ new.since = commands[p].since
  BY <1>8 DEF CommandBut, CommandFields
<1> QED BY <1>7, <1>10, <1>11

\* A literal or a known value is taken.
LEMMA TakeInOrder ==
  ASSUME PromptShape, InOrder, NEW p \in Commands, NEW t \in Tasks, TakeField(p, t)
  PROVE  InOrder'
<1>1. /\ At(p, t, "field") /\ Len(Task(p, t).values) < 2
      /\ sessionFile' = sessionFile /\ cleans' = cleans /\ kept' = kept
  BY DEF TakeField
<1>2. /\ Running(p) /\ Task(p, t) = commands[p].tasks[t] /\ WorkOK(p, commands[p].owners, Task(p, t), Begun)
      /\ DOMAIN Task(p, t) = TaskFields /\ Task(p, t).at = "field" /\ Task(p, t) # NoTask
  BY <1>1, TaskFacts
<1>3. PICK c, f : c = Task(p, t).cred /\ f = Field(p, t)
  OBVIOUS
<1>4. c \in Credentials /\ ValuesFor(p, c, Task(p, t).values)
  BY <1>2, <1>3 DEF WorkOK
<1>5. f \in FieldNames
  BY <1>1, <1>3, <1>4, NextField DEF Field
<1>6. PICK value : value = IF f \in Prompted[c] THEN KnownValue(p, Key(c, f)) ELSE Literal(c, f)
  OBVIOUS
<1>7. f \in Prompted[c] => Known(p, Key(c, f))
  BY <1>3 DEF TakeField
<1>8. Becomes(p, [commands[p] EXCEPT !.tasks = WithTask(p, t, Took(p, t, value))])
  BY <1>3, <1>6 DEF TakeField
<1>9. value \in Entered /\ (value.by \in Commands => value.at = commands[p].since)
  <2>1. CASE f \in Prompted[c]
    <3>1. Known(p, Key(c, f)) /\ value = KnownValue(p, Key(c, f))
      BY <1>6, <1>7, <2>1
    <3>2. value \in Entered
      BY <1>1, <1>3, <1>5, <3>1, KnownIsFor
    <3>3. value.by \in Commands => value.at = commands[p].since
      BY <1>2, <3>1, KnownIsTimely
    <3> QED BY <3>2, <3>3
  <2>2. CASE f \notin Prompted[c]
    BY <1>4, <1>5, <1>6, <2>2, LiteralIsEntered
  <2> QED BY <2>1, <2>2
<1>10. PICK values : values = Task(p, t).values
  OBVIOUS
<1>11. values \in Seq(Entered)
  BY <1>4, <1>10 DEF ValuesFor
<1>12. PICK work : work = Took(p, t, value)
  OBVIOUS
<1>13. DOMAIN work = TaskFields /\ work.at = "field" /\ work.cred = c /\ work.values = Append(values, value)
  BY <1>2, <1>3, <1>10, <1>12 DEF Took, TaskFields
<1>14. EnteredAt(values, commands[p].since)
  <2>1. Timely(commands[p])
    BY <1>2, RunsAlone DEF CommandInOrder
  <2> QED BY <1>2, <1>10, <2>1 DEF Timely
<1>15. EnteredAt(work.values, commands[p].since) /\ \A g : Given(Task(p, t), g) => Given(work, g)
  BY <1>9, <1>10, <1>11, <1>13, <1>14, GivenAppend
<1>16. work.at # "save"
  BY <1>13
<1>17. \E new : /\ commands' = [commands EXCEPT ![p] = new] /\ CommandInOrder(new)
                /\ new.session = commands[p].session /\ new.since = commands[p].since
  BY <1>1, <1>3, <1>8, <1>12, <1>13, <1>15, <1>16, OnlyTaskInOrder
<1> QED BY <1>1, <1>2, <1>17, QuietInOrder

\* A resolution moves on with the same values.
LEMMA MovedInOrder ==
  ASSUME PromptShape, InOrder, NEW p \in Commands, NEW t \in Tasks, NEW from, At(p, t, from), NEW at, at # "save",
         Becomes(p, [commands[p] EXCEPT !.tasks = WithTask(p, t, Moved(p, t, at))])
  PROVE  \E new : /\ commands' = [commands EXCEPT ![p] = new] /\ CommandInOrder(new)
                  /\ new.session = commands[p].session /\ new.since = commands[p].since
<1>1. Running(p) /\ Task(p, t) = commands[p].tasks[t] /\ DOMAIN Task(p, t) = TaskFields /\ Task(p, t) # NoTask
  BY TaskFacts
<1>2. PICK work : work = Moved(p, t, at)
  OBVIOUS
<1>3. DOMAIN work = TaskFields /\ work.at = at /\ work.cred = Task(p, t).cred /\ work.values = Task(p, t).values
  BY <1>1, <1>2 DEF Moved, TaskFields
<1>4. EnteredAt(work.values, commands[p].since)
  <2>1. Timely(commands[p])
    BY <1>1, RunsAlone DEF CommandInOrder
  <2> QED BY <1>1, <1>3, <2>1 DEF Timely
<1>5. \A f : Given(Task(p, t), f) => Given(work, f)
  BY <1>3 DEF Given
<1> QED BY <1>2, <1>3, <1>4, <1>5, OnlyTaskInOrder

\* The user is asked.
LEMMA AskInOrder ==
  ASSUME PromptShape, InOrder, NEW p \in Commands, NEW t \in Tasks, Ask(p, t)
  PROVE  InOrder'
<1>1. /\ At(p, t, "field") /\ sessionFile' = sessionFile /\ cleans' = cleans /\ kept' = kept
      /\ Becomes(p, [commands[p] EXCEPT !.tasks = WithTask(p, t, Moved(p, t, "answer"))])
  BY DEF Ask
<1>2. Running(p)
  BY <1>1 DEF At
<1>3. PICK at : at = "answer"
  OBVIOUS
<1>4. at # "save"
  BY <1>3
<1>5. \E new : /\ commands' = [commands EXCEPT ![p] = new] /\ CommandInOrder(new)
               /\ new.session = commands[p].session /\ new.since = commands[p].since
  BY <1>1, <1>3, <1>4, MovedInOrder
<1> QED BY <1>1, <1>2, <1>5, QuietInOrder

\* The file gets all that the command knows, the value just entered with it.
LEMMA SaveInOrder ==
  ASSUME PromptShape, InOrder, NEW p \in Commands, NEW t \in Tasks, SaveSession(p, t)
  PROVE  InOrder'
<1>1. /\ At(p, t, "save") /\ cleans' = cleans /\ sessionFile' = Task(p, t).saving
      /\ kept' = kept \cup {Key(Task(p, t).cred, Fields[Len(Task(p, t).values)])}
      /\ Becomes(p, [commands[p] EXCEPT !.tasks = WithTask(p, t, Moved(p, t, "field"))])
  BY DEF SaveSession, SavedFile
<1>2. Running(p) /\ Task(p, t) = commands[p].tasks[t] /\ Task(p, t).at = "save" /\ Task(p, t) # NoTask
  BY <1>1, TaskFacts
<1>3. /\ \A q \in Commands : Running(q) => q = p
      /\ Informed(commands[p], sessionFile, cleans.count) /\ commands[p].stage = "running"
      /\ Timely(commands[p]) /\ InTurn(commands[p])
  BY <1>2, RunsAlone DEF CommandInOrder
<1>4. PICK at : at = "field"
  OBVIOUS
<1>5. at # "save"
  BY <1>4
<1>6. PICK new : /\ commands' = [commands EXCEPT ![p] = new] /\ CommandInOrder(new)
                 /\ new.session = commands[p].session /\ new.since = commands[p].since
  BY <1>1, <1>4, <1>5, MovedInOrder
<1>7. sessionFile' = commands[p].session
      /\ Key(Task(p, t).cred, Fields[Len(Task(p, t).values)]) \in DOMAIN commands[p].session
  BY <1>1, <1>2, <1>3 DEF InTurn
<1>8. commands[p].since = cleans.count /\ DOMAIN sessionFile \subseteq DOMAIN commands[p].session
  BY <1>3 DEF Informed
<1>9. Informed(new, sessionFile', cleans'.count)
  BY <1>1, <1>6, <1>7, <1>8 DEF Informed
<1>10. FileInOrder
  BY DEF InOrder
<1>11. FileInOrder'
  <2>1. \A k \in DOMAIN sessionFile' : sessionFile'[k].by \in Commands => sessionFile'[k].at = cleans'.count
    BY <1>1, <1>3, <1>7, <1>8 DEF Timely
  <2>2. kept' \subseteq DOMAIN sessionFile'
    BY <1>1, <1>7, <1>8, <1>10 DEF FileInOrder
  <2> QED BY <2>1, <2>2 DEF FileInOrder
<1> QED BY <1>2, <1>3, <1>6, <1>9, <1>11, MovesInOrder

\* A resolution fails: one failure more covers what was asked for.
LEMMA InterruptedInOrder ==
  ASSUME PromptShape, InOrder, NEW p \in Commands, NEW t \in Tasks, Interrupted(p, t)
  PROVE  InOrder'
<1>1. Running(p) /\ sessionFile' = sessionFile /\ cleans' = cleans /\ kept' = kept
      /\ Becomes(p, [commands[p] EXCEPT !.tasks = WithTask(p, t, NoTask), !.failed = @ + 1])
  BY DEF Interrupted, At
<1>2. /\ CommandOK(p, commands[p], Begun) /\ DOMAIN commands[p] = CommandFields
  BY DEF PromptShape, CommandOK
<1>3. CommandInOrder(commands[p]) /\ commands[p].stage = "running"
  BY <1>1, RunsAlone
<1>4. PICK tasks : tasks = WithTask(p, t, NoTask)
  OBVIOUS
<1>5. PICK new : new = [commands[p] EXCEPT !.tasks = tasks, !.failed = commands[p].failed + 1]
  OBVIOUS
<1>6. commands' = [commands EXCEPT ![p] = new]
  BY <1>1, <1>4, <1>5 DEF Becomes
<1>7. CommandBut(commands[p], new, {"tasks", "failed"}) /\ new.tasks = tasks /\ new.failed = commands[p].failed + 1
  BY <1>2, <1>5 DEF CommandBut, CommandFields
<1>8. /\ new.stage = "running" /\ new.asked = commands[p].asked /\ new.session = commands[p].session
      /\ new.resolved = commands[p].resolved /\ new.results = commands[p].results /\ new.since = commands[p].since
  BY <1>3, <1>7 DEF CommandBut, CommandFields
<1>9. \A u \in Tasks : new.tasks[u] = IF u = t THEN NoTask ELSE commands[p].tasks[u]
  BY <1>2, <1>4, <1>7 DEF WithTask, CommandOK
<1>10. AskedFew(new)
  <2>1. SUFFICES ASSUME NEW c \in Credentials, NEW f \in FieldNames
                 PROVE  new.asked[<<c, f>>] <= new.failed
    <3>1. new.failed \in Nat /\ new.asked \in [Credentials \X FieldNames -> Nat]
      BY <1>2, <1>7, <1>8 DEF CommandOK
    <3>2. \A c \in Credentials, f \in FieldNames : new.asked[<<c, f>>] \in Nat
      BY <3>1
    <3>3. \A c \in Credentials, f \in FieldNames : new.asked[<<c, f>>] <= new.failed =>
          new.asked[<<c, f>>] <= new.failed + 1
      BY <3>1, <3>2
    <3> QED BY <2>1, <3>3 DEF AskedFew
  <2> QED BY <1>3, <1>7, <1>8 DEF CommandInOrder, AskedFew
<1>11. Rested(new) /\ Timely(new) /\ InTurn(new)
  BY <1>3, <1>8, <1>9 DEF Rested, Timely, InTurn, CommandInOrder
<1> QED BY <1>1, <1>6, <1>8, <1>10, <1>11, QuietInOrder DEF CommandInOrder

\* A resolution returns: its credential is remembered.
LEMMA ReturnInOrder ==
  ASSUME PromptShape, InOrder, OneTask, NEW p \in Commands, NEW t \in Tasks, Return(p, t)
  PROVE  InOrder'
<1>1. /\ At(p, t, "field") /\ Len(Task(p, t).values) = 2
      /\ sessionFile' = sessionFile /\ cleans' = cleans /\ kept' = kept
  BY DEF Return
<1>2. /\ Running(p) /\ CommandOK(p, commands[p], Begun) /\ DOMAIN commands[p] = CommandFields
      /\ Task(p, t) = commands[p].tasks[t] /\ Task(p, t) # NoTask
  BY <1>1, TaskFacts
<1>3. CommandInOrder(commands[p]) /\ commands[p].stage = "running"
  BY <1>2, RunsAlone
<1>4. PICK tasks, resolved, result : tasks = WithTask(p, t, NoTask) /\ resolved = Remembered(p, Task(p, t).cred)
                                     /\ result = [cred |-> Task(p, t).cred, values |-> Task(p, t).values]
  OBVIOUS
<1>5. PICK results : results = commands[p].results \cup {result}
  OBVIOUS
<1>6. PICK new : new = [commands[p] EXCEPT !.tasks = tasks, !.resolved = resolved, !.results = results]
  OBVIOUS
<1>7. commands' = [commands EXCEPT ![p] = new]
  BY <1>4, <1>5, <1>6 DEF Becomes, Return
<1>8. /\ CommandBut(commands[p], new, {"tasks", "resolved", "results"})
      /\ new.tasks = tasks /\ new.results = results /\ new.resolved = resolved
  BY <1>2, <1>6 DEF CommandBut, CommandFields
<1>9. /\ new.stage = "running" /\ new.asked = commands[p].asked /\ new.session = commands[p].session
      /\ new.failed = commands[p].failed /\ new.since = commands[p].since
  BY <1>3, <1>8 DEF CommandBut, CommandFields
<1>10. \A u \in Tasks : new.tasks[u] = NoTask
  <2>1. new.tasks[t] = NoTask
    BY <1>2, <1>4, <1>8 DEF WithTask, CommandOK
  <2> QED BY <2>1 DEF OneTask
<1>11. EnteredAt(result.values, commands[p].since)
  <2>1. EnteredAt(Task(p, t).values, commands[p].since)
    BY <1>2, <1>3 DEF CommandInOrder, Timely
  <2> QED BY <1>4, <2>1
<1>12. \A r \in results : EnteredAt(r.values, commands[p].since)
  BY <1>3, <1>5, <1>11 DEF CommandInOrder, Timely
<1>13. new.resolved = commands[p].resolved \cup {Task(p, t).cred}
  BY <1>4, <1>8 DEF Remembered
<1>14. \A c, f : Settled(commands[p], c, f) => Settled(new, c, f)
  <2>1. SUFFICES ASSUME NEW c, NEW f, Settled(commands[p], c, f), c \notin commands[p].resolved
                 PROVE  c = Task(p, t).cred
    BY <1>13 DEF Settled
  <2>2. PICK u \in Tasks : commands[p].tasks[u].cred = c
    BY <1>3, <2>1 DEF Settled
  <2> QED BY <1>2, <2>2 DEF OneTask
<1>15. AskedFew(new)
  BY <1>3, <1>9, <1>14 DEF AskedFew, CommandInOrder
<1>16. Rested(new) /\ InTurn(new)
  BY <1>9, <1>10 DEF Rested, InTurn
<1>17. Timely(new)
  BY <1>3, <1>8, <1>9, <1>10, <1>12 DEF Timely, CommandInOrder
<1> QED BY <1>1, <1>2, <1>7, <1>9, <1>15, <1>16, <1>17, QuietInOrder DEF CommandInOrder

\* The user answers: the field is settled, and the value is of this session.
LEMMA AnswerInOrder ==
  ASSUME PromptShape, InOrder, OneTask, NEW p \in Commands, NEW t \in Tasks, Answer(p, t)
  PROVE  InOrder'
<1>1. /\ At(p, t, "answer") /\ sessionFile' = sessionFile /\ cleans' = cleans /\ kept' = kept
  BY DEF Answer
<1>2. /\ Running(p) /\ CommandOK(p, commands[p], Begun) /\ Task(p, t) = commands[p].tasks[t] /\ Task(p, t) # NoTask
      /\ WorkOK(p, commands[p].owners, Task(p, t), Begun) /\ Task(p, t).at = "answer"
  BY <1>1, TaskFacts
<1>3. /\ \A q \in Commands : Running(q) => q = p
      /\ CommandInOrder(commands[p]) /\ Informed(commands[p], sessionFile, cleans.count)
            /\ commands[p].stage = "running"
  BY <1>2, RunsAlone
<1>4. PICK c, f, value, session, work, new : AnswerStep(p, t, c, f, value, session, work, new)
  BY AnswerFacts
<1>5. /\ c \in Credentials /\ f \in FieldNames /\ value \in Entered /\ c = Task(p, t).cred
      /\ f = Fields[Len(Task(p, t).values) + 1] /\ value.by = p /\ value.at = commands[p].since
      /\ work.cred = c /\ work.saving = session /\ DOMAIN work = TaskFields
      /\ work.values = Append(Task(p, t).values, value)
      /\ new.session = session /\ new.asked = AskedAgain(p, c, f) /\ new.tasks = WithTask(p, t, work)
      /\ commands' = [commands EXCEPT ![p] = new]
  BY <1>4 DEF AnswerStep
<1>6. /\ new.stage = commands[p].stage /\ new.resolved = commands[p].resolved /\ new.results = commands[p].results
      /\ new.failed = commands[p].failed /\ new.since = commands[p].since
  BY <1>4 DEF AnswerStep, CommandBut, CommandFields
<1>7. \/ session = commands[p].session /\ work.at = "field"
      \/ /\ DOMAIN session = DOMAIN commands[p].session \cup {Key(c, f)}
         /\ \A k \in DOMAIN session : session[k] = IF k = Key(c, f) THEN value ELSE commands[p].session[k]
  BY <1>4 DEF AnswerStep, Put
<1>8. new.tasks[t] = work /\ work # NoTask
  <2>1. new.tasks[t] = work
    BY <1>2, <1>5 DEF WithTask, CommandOK
  <2>2. DOMAIN NoTask = {"at"} /\ DOMAIN work # {"at"}
    BY <1>5 DEF TaskFields, NoTask
  <2> QED BY <2>1, <2>2
<1>9. \A u \in Tasks : u = t
  BY DEF OneTask
<1>10. PICK values \in Seq(Entered) : values = Task(p, t).values
  BY <1>2 DEF WorkOK, ValuesFor
<1>11. ~Given(Task(p, t), f)
  <2>1. Len(values) \in Nat /\ Len(values) < 2
    BY <1>2, <1>10 DEF WorkOK
  <2>2. \A i \in 1..Len(values) : i = 1 /\ Len(values) + 1 = 2
    BY <2>1
  <2>3. Fields[1] # Fields[2]
    BY DEF Fields
  <2> QED BY <1>5, <1>10, <2>2, <2>3 DEF Given
<1>12. EnteredAt(values, commands[p].since)
  BY <1>2, <1>3, <1>10 DEF CommandInOrder, Timely
<1>13. /\ EnteredAt(work.values, commands[p].since) /\ Given(work, f)
       /\ \A g : Given(Task(p, t), g) => Given(work, g)
  BY <1>5, <1>10, <1>12, GivenAppend
<1>14. c \notin commands[p].resolved
  BY <1>2, <1>3, <1>5 DEF CommandInOrder, InTurn
<1>15. Rested(new)
  BY <1>3, <1>6 DEF Rested
<1>16. Timely(new)
  <2>1. \A k \in DOMAIN session : session[k].by \in Commands => session[k].at = commands[p].since
    <3>1. \A k \in DOMAIN commands[p].session : commands[p].session[k].by \in Commands =>
          commands[p].session[k].at = commands[p].since
      BY <1>3 DEF CommandInOrder, Timely
    <3> QED BY <1>5, <1>7, <3>1
  <2> QED BY <1>3, <1>5, <1>6, <1>8, <1>9, <1>13, <2>1 DEF Timely, CommandInOrder
<1>17. InTurn(new)
  <2>1. work.at = "save" => Key(c, Fields[Len(work.values)]) \in DOMAIN session
    <3>1. Len(work.values) = Len(values) + 1
      BY <1>5, <1>10
    <3>2. f = Fields[Len(work.values)]
      BY <1>5, <1>10, <3>1
    <3> QED BY <1>7, <3>2
  <2> QED BY <1>5, <1>6, <1>8, <1>9, <1>14, <2>1 DEF InTurn
<1>18. AskedFew(new)
  <2>1. SUFFICES ASSUME NEW d \in Credentials, NEW g \in FieldNames
                 PROVE  /\ new.asked[<<d, g>>] <= new.failed + 1
                        /\ ~Settled(new, d, g) => new.asked[<<d, g>>] <= new.failed
    BY DEF AskedFew
  <2>2. commands[p].asked \in [Credentials \X FieldNames -> Nat] /\ commands[p].failed \in Nat
    BY <1>2 DEF CommandOK
  <2>3. PICK cf \in Credentials \X FieldNames : cf = <<c, f>>
    BY <1>5
  <2>4. PICK dg \in Credentials \X FieldNames : dg = <<d, g>>
    OBVIOUS
  <2>5. PICK n \in Nat : n = commands[p].asked[cf]
    BY <2>2
  <2>6. new.asked = [commands[p].asked EXCEPT ![cf] = n + 1]
    BY <1>5, <2>3, <2>5 DEF AskedAgain
  <2>7. /\ commands[p].asked[dg] <= commands[p].failed + 1
        /\ ~Settled(commands[p], d, g) => commands[p].asked[dg] <= commands[p].failed
    BY <1>3, <2>4 DEF CommandInOrder, AskedFew
  <2>8. CASE dg = cf
    <3>1. d = c /\ g = f
      BY <2>3, <2>4, <2>8
    <3>2. ~Settled(commands[p], c, f)
      BY <1>2, <1>3, <1>9, <1>11, <1>14 DEF Settled
    <3>3. n <= commands[p].failed
      BY <2>5, <2>7, <2>8, <3>1, <3>2
    <3>4. new.asked[dg] = n + 1
      BY <2>2, <2>6, <2>8
    <3>5. new.asked[dg] <= new.failed + 1
      BY <1>6, <2>2, <3>3, <3>4
    <3>6. Settled(new, c, f)
      BY <1>5, <1>8, <1>13 DEF Settled
    <3> QED BY <2>4, <3>1, <3>5, <3>6
  <2>9. CASE dg # cf
    <3>1. new.asked[dg] = commands[p].asked[dg]
      BY <2>2, <2>6, <2>9
    <3>2. Settled(commands[p], d, g) => Settled(new, d, g)
      BY <1>2, <1>5, <1>6, <1>8, <1>9, <1>13 DEF Settled
    <3> QED BY <1>6, <2>4, <2>7, <3>1, <3>2
  <2> QED BY <2>8, <2>9
<1>19. Informed(new, sessionFile', cleans'.count)
  BY <1>1, <1>3, <1>5, <1>6, <1>7 DEF Informed
<1>20. FileInOrder'
  BY <1>1 DEF InOrder, FileInOrder
<1> QED BY <1>2, <1>3, <1>5, <1>15, <1>16, <1>17, <1>18, <1>19, <1>20, MovesInOrder DEF CommandInOrder

\* The session is cleaned, or a shell opens or exits, when no command runs.
LEMMA ShellsInOrder ==
  ASSUME PromptShape, InOrder, ~Together, Clean \/ OpenShell \/ ExitShell
  PROVE  InOrder'
<1>1. commands' = commands
  BY ShellsShape
<1>2. CASE Clean \/ ExitShell
  <2>1. (\A q \in Commands : ~Running(q)) /\ sessionFile' = NoMap /\ kept' = {}
    BY <1>2 DEF Clean, ExitShell, ClearSessionCredentials
  <2>2. FileInOrder'
    BY <2>1 DEF FileInOrder, NoMap
  <2>3. \A q \in Commands : commands'[q].stage # "running"
    BY <1>1, <2>1 DEF Running
  <2>4. \A q \in Commands : Informed(commands'[q], sessionFile', cleans'.count)
    BY <2>3 DEF Informed
  <2> QED BY <1>1, <2>2, <2>4 DEF InOrder, Running
<1>3. CASE OpenShell
  <2>1. cleans' = cleans /\ sessionFile' = sessionFile /\ kept' = kept
    BY <1>3 DEF OpenShell
  <2> QED BY <1>1, <2>1 DEF InOrder, FileInOrder, Running
<1> QED BY <1>2, <1>3

\* In the beginning nothing was asked for.
LEMMA InitInOrder ==
  ASSUME PromptInit
  PROVE  InOrder
<1>1. \A p \in Commands : commands[p] = NewCommand
  BY DEF PromptInit
<1>2. PICK new : new = NewCommand
  OBVIOUS
<1>3. /\ new.stage = "new" /\ new.tasks = [t \in Tasks |-> NoTask]
      /\ new.asked = [cf \in Credentials \X FieldNames |-> 0]
      /\ new.failed = 0 /\ new.results = {}
  BY <1>2 DEF NewCommand, FieldNames
<1>4. \A c \in Credentials, f \in FieldNames : new.asked[<<c, f>>] = 0
  BY <1>3
<1>5. AskedFew(new)
  <2>1. new.failed + 1 = 1 /\ 0 <= new.failed /\ 0 <= 1
    BY <1>3
  <2> QED BY <1>4, <2>1 DEF AskedFew
<1>6. Rested(new) /\ Timely(new) /\ InTurn(new)
  BY <1>3 DEF Rested, Timely, InTurn
<1>7. CommandInOrder(new)
  BY <1>5, <1>6 DEF CommandInOrder
<1>8. \A p \in Commands : commands[p].stage # "running"
  BY <1>1, <1>2, <1>3
<1>9. FileInOrder
  BY DEF PromptInit, FileInOrder, NoMap
<1> QED BY <1>1, <1>2, <1>7, <1>8, <1>9 DEF InOrder, Informed, Running

\* Every step keeps the order.
LEMMA InOrderStep ==
  ASSUME PromptShape, InOrder, ~Together, OneTask, [PromptNext]_promptVars
  PROVE  InOrder'
<1>1. CASE UNCHANGED promptVars
  BY <1>1 DEF promptVars, InOrder, FileInOrder, Running
<1>2. CASE PromptNext
  BY <1>2, StartInOrder, EndInOrder, ResolveInOrder, TakeInOrder, AskInOrder, AnswerInOrder, InterruptedInOrder,
     SaveInOrder, ReturnInOrder, ShellsInOrder DEF PromptNext
<1> QED BY <1>1, <1>2

\* The order gives the property.
LEMMA OrderIsFaithful ==
  ASSUME PromptShape, InOrder, NEW t, Tasks = {t}
  PROVE  SessionFaithful
<1>1. NoMixingInCommand
  BY ShapeKeepsApart
<1>2. \A p \in Commands : CommandOK(p, commands[p], Begun) /\ CommandInOrder(commands[p])
  BY DEF PromptShape, InOrder
<1>3. AskedOnce
  <2>1. Cardinality(Tasks) = 1
    BY FS_Singleton
  <2>2. SUFFICES ASSUME NEW p \in Commands, NEW c \in Credentials, NEW f \in FieldNames
                 PROVE  commands[p].asked[<<c, f>>] <= 1 + commands[p].failed
    BY <2>1 DEF AskedOnce, FieldNames
  <2>3. PICK n \in Nat : n = commands[p].failed
    BY <1>2 DEF CommandOK
  <2>4. commands[p].asked[<<c, f>>] <= n + 1
    BY <1>2, <2>2, <2>3 DEF CommandInOrder, AskedFew
  <2>5. n + 1 = 1 + n
    BY <2>3
  <2> QED BY <2>3, <2>4, <2>5
<1>4. SavedIsThere
  BY DEF InOrder, FileInOrder, SavedIsThere
<1>5. CleanedIsGone
  <2>1. \A p \in Commands : \A r \in commands[p].results : Len(r.values) = 2 /\ EnteredAt(r.values, commands[p].since)
    BY <1>2 DEF CommandOK, CommandInOrder, Timely
  <2> QED BY <2>1 DEF CleanedIsGone, EnteredAt
<1> QED BY <1>1, <1>3, <1>4, <1>5 DEF SessionFaithful

\* SessionFaithful holds when commands run one after the other and resolve one
\* credential at a time: nothing is asked for twice, what was saved is found by the
\* next command, and nothing from before a cleaning is used (package promptauth).
THEOREM SessionKept ==
  ASSUME ~Together, NEW t, Tasks = {t}
  PROVE  PromptSpec => []SessionFaithful
<1>1. OneTask
  BY DEF OneTask
<1>2. PromptInit => PromptShape /\ InOrder
  BY InitShape, InitInOrder
<1>3. PromptShape /\ InOrder /\ [PromptNext]_promptVars => (PromptShape /\ InOrder)'
  BY <1>1, PromptShapeStep, InOrderStep
<1>4. PromptShape /\ InOrder => SessionFaithful
  BY OrderIsFaithful
<1> QED BY <1>2, <1>3, <1>4, PTL DEF PromptSpec
=============================================================================
