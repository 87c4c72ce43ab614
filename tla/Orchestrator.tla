---------------------------- MODULE Orchestrator ----------------------------
(***************************************************************************)
(* The orchestrator's commands on one collection (internal/orchestrator):   *)
(* apply, create, update, delete, get, diff and the raw requests, as the    *)
(* sequence of calls each makes on the managed service, which another       *)
(* client changes meanwhile and whose answers may be lost.                  *)
(*                                                                          *)
(* A resource is known by its alias, the last segment of its path, and by   *)
(* the identifier the service gave it. What is not found under one is       *)
(* looked for under the other, in the list of the collection.               *)
(***************************************************************************)
EXTENDS Integers, FiniteSets, Sequences

CONSTANTS
  Aliases,    \* aliases of resources in one collection
  Serials,    \* identifiers the service assigns, in the order of their use
  Bodies,     \* payloads
  None,       \* no payload, no identifier
  Services,   \* the kinds of service and metadata to consider
  MaxFaults,  \* bound: failed calls and lost answers
  MaxOthers   \* bound: edits of the repository and changes by the other client

Ids == Aliases \cup {Serials[k] : k \in DOMAIN Serials}
ItemType == [id: Ids, name: Aliases, value: Bodies]
Ops == {"apply", "create", "update", "delete", "get", "diff", "GET", "PUT", "DELETE"}

\* byName: the alias is the identifier; unique: aliases are unique; listable:
\* the collection can be listed; identity: the metadata declare identity
\* templates; jq: the list is filtered and no collection template is declared.
ServiceType == [byName: BOOLEAN, unique: BOOLEAN, listable: BOOLEAN,
                identity: BOOLEAN, jq: BOOLEAN]

\* Identifiers are given once and are nobody's alias; an alias that serves as
\* identifier is unique.
ASSUME OrchestratorAssumption ==
  /\ Aliases # {} /\ DOMAIN Serials = 1..Len(Serials) /\ Len(Serials) \in Nat
  /\ \A k \in DOMAIN Serials : Serials[k] \notin Aliases
  /\ \A j, k \in DOMAIN Serials : Serials[j] = Serials[k] => j = k
  /\ \A k \in Services : k \in ServiceType /\ (k.byName => k.unique)
  /\ MaxFaults \in Nat /\ MaxOthers \in Nat

VARIABLES
  service,   \* the kind of service
  local,     \* the repository: payload and the identifier stored in it
  items,     \* the managed service
  serial,    \* identifiers used so far
  job,       \* the command under way
  budget

orchestratorVars == <<service, local, items, serial, job, budget>>

Calls == {"get", "check", "expand", "reget", "scan", "candidate"}
Steps == Calls \cup {"idle", "create", "update", "remove"}
Outcomes == {"ok", "unchanged", "notfound", "conflict", "error", "skipped", "none"}
\* seg: last segment of the resource's path; at: the path the fallback has
\* reached; rid: the identifier of the request; blind: a probe on the way failed
\* (history: no guard reads it).
JobType == [pc: Steps, op: Ops, seg: Ids, at: Ids, rid: Ids, want: Bodies \cup {None},
            found: BOOLEAN, force: BOOLEAN, blind: BOOLEAN, visited: SUBSET Ids,
            pick: ItemType \cup {None}, outcome: Outcomes]

OrchestratorTypeOK ==
  /\ service \in ServiceType
  /\ local \in [Aliases -> [value: Bodies \cup {None}, id: Ids \cup {None}]]
  /\ items \subseteq ItemType /\ serial \in 0..Len(Serials)
  /\ job \in JobType
  /\ budget \in [faults: 0..MaxFaults, others: 0..MaxOthers]

AnyName == CHOOSE n \in Aliases : TRUE
IdleJob == [pc |-> "idle", op |-> "get", seg |-> AnyName, at |-> AnyName,
            rid |-> AnyName, want |-> None, found |-> FALSE, force |-> FALSE,
            blind |-> FALSE, visited |-> {}, pick |-> None, outcome |-> "none"]

OrchestratorInit ==
  /\ service \in Services
  /\ local \in [Aliases -> [value: Bodies \cup {None}, id: {None}]]
  /\ items = {} /\ serial = 0 /\ job = IdleJob
  /\ budget = [faults |-> 0, others |-> 0]

-----------------------------------------------------------------------------
(* Identity *)

ById(id) == {i \in items : i.id = id}

\* Mutant of MatchesFallbackIdentity: an item in the list always matches.
MatchesAnything(segment, i) == TRUE

\* By identifier, by alias, or by an attribute that commonly holds one.
MatchesFallbackIdentity(segment, i) == i.id = segment \/ i.name = segment
Matched(segment) == {i \in items : MatchesFallbackIdentity(segment, i)}

MatchesResolvedIdentityCandidate(i) == i.name = job.seg \/ i.id = job.rid

ShouldCheckRemoteIdentityAmbiguity == service.identity /\ job.seg # job.rid

\* A filtered list of one item stands for whatever was asked for; the depth of
\* the collection template, when there is one, rules it out for an item's path.
AllowsSingletonListIdentityFallback == service.jq /\ Cardinality(items) = 1

\* ResolveAliasAndRemoteID: the identifier is the one in the payload, or else the
\* last segment of the path.
ResolveRemoteID(n) == IF local[n].id = None THEN n ELSE local[n].id

\* resolveLocalResourceForRead: a resource that is not at its path is looked for
\* by the identifier in its payload.
ResolveLocal(segment) ==
  IF segment \in Aliases /\ local[segment].value # None THEN {segment}
  ELSE IF ~service.identity THEN {}
  ELSE {n \in Aliases : local[n].value # None /\ ResolveRemoteID(n) = segment}

-----------------------------------------------------------------------------
(* Commands *)

Finish(outcome) == job' = [IdleJob EXCEPT !.outcome = outcome]

Goto(j) == job' = j

Fault == budget.faults < MaxFaults /\ budget' = [budget EXCEPT !.faults = @ + 1]
Other == budget.others < MaxOthers /\ budget' = [budget EXCEPT !.others = @ + 1]

StartJob(op, segment, rid, want, pc, force) ==
  Goto([IdleJob EXCEPT !.pc = pc, !.op = op, !.seg = segment, !.at = segment, !.rid = rid,
                       !.want = want, !.force = force, !.visited = {segment}])

\* Apply and DiffDocument, from the repository; Create and Update take the
\* payload the repository holds.
StartLocal(op, segment, force) ==
  /\ job.pc = "idle" /\ op \in {"apply", "create", "update", "diff"}
  /\ LET found == ResolveLocal(segment)
         pc == IF op \in {"apply", "diff"} THEN "get" ELSE op
     IN IF Cardinality(found) # 1
        THEN Finish(IF found = {} THEN "notfound" ELSE "conflict")
        ELSE \E n \in found :
               StartJob(op, n, ResolveRemoteID(n), local[n].value, pc, force)
  /\ UNCHANGED <<service, local, items, serial, budget>>

\* The conflict checker tells apply to leave the resource alone.
SkipOwned(n) ==
  /\ job.pc = "idle" /\ local[n].value # None
  /\ Finish("skipped")
  /\ UNCHANGED <<service, local, items, serial, budget>>

\* GetRemote, Delete and the raw requests know the path alone.
StartRemote(op, segment) ==
  /\ job.pc = "idle"
  /\ \/ op \in {"get", "GET"} /\ StartJob(op, segment, segment, None, "get", FALSE)
     \/ op \in {"delete", "DELETE"} /\ StartJob(op, segment, segment, None, "remove", FALSE)
     \/ /\ op = "PUT"
        /\ \E v \in Bodies : StartJob(op, segment, segment, v, "update", FALSE)
  /\ UNCHANGED <<service, local, items, serial, budget>>

-----------------------------------------------------------------------------
(* Reading the remote value *)

\* applyDesiredState, Delete and the others, with the value in hand.
Found(i) ==
  IF job.op = "apply"
  THEN IF i.value = job.want /\ ~job.force THEN Finish("unchanged")
       ELSE Goto([job EXCEPT !.pc = "update", !.rid = i.id])
  ELSE IF job.op \in {"delete", "DELETE"}
  THEN Goto([job EXCEPT !.pc = "remove", !.found = TRUE, !.rid = i.id])
  ELSE Finish("ok")

\* Without one.
NotFound ==
  IF job.op = "apply" THEN Goto([job EXCEPT !.pc = "create"])
  ELSE Finish(IF job.op = "diff" THEN "ok" ELSE "notfound")

\* fetchRemoteValue: the direct read first.
Get ==
  /\ job.pc = "get"
  /\ IF ById(job.rid) = {} THEN Goto([job EXCEPT !.pc = "expand"])
     ELSE \E i \in ById(job.rid) :
            IF ShouldCheckRemoteIdentityAmbiguity
            THEN Goto([job EXCEPT !.pc = "check", !.pick = i]) ELSE Found(i)
  /\ UNCHANGED <<service, local, items, serial, budget>>

\* Two resources that answer to this identity are a conflict; a list that is
\* refused is passed over.
DetectAmbiguity ==
  /\ job.pc = "check"
  /\ IF service.listable
        /\ Cardinality({i \in items : MatchesResolvedIdentityCandidate(i)}) > 1
     THEN Finish("conflict") ELSE Found(job.pick)
  /\ UNCHANGED <<service, local, items, serial, budget>>

\* resolveNextRemoteMetadataFallbackPaths: the segment is replaced by the
\* identifier of the one item that matches it.
ExpandPath ==
  /\ job.pc = "expand"
  /\ LET m == Matched(job.at)
         next == IF ~service.identity \/ ~service.listable THEN {}
                 ELSE IF m = {} /\ AllowsSingletonListIdentityFallback THEN items ELSE m
         fresh == {i \in next : i.id # job.at /\ i.id \notin job.visited}
     IN IF Cardinality(next) > 1 THEN Finish("conflict")
        ELSE IF fresh = {} THEN Goto([job EXCEPT !.pc = "scan"])
        ELSE \E i \in fresh :
               Goto([job EXCEPT !.pc = "reget", !.at = i.id, !.visited = @ \cup {i.id}])
  /\ UNCHANGED <<service, local, items, serial, budget>>

\* fetchRemoteMetadataPathFallbackValue: the path just made is read, and expanded
\* in turn when it is not there either.
Reget ==
  /\ job.pc = "reget"
  /\ IF ById(job.at) = {} THEN Goto([job EXCEPT !.pc = "expand"])
     ELSE \E i \in ById(job.at) : Found(i)
  /\ UNCHANGED <<service, local, items, serial, budget>>

\* remoteFallbackCandidates: the last resort is the collection itself, matched by
\* identifier. Every list that is missing stands for "not found".
Scan ==
  /\ job.pc = "scan"
  /\ LET m == Matched(job.rid)
     IN IF ~service.listable THEN NotFound
        ELSE IF Cardinality(m) > 1 THEN Finish("conflict")
        ELSE IF m # {} THEN \E i \in m : Goto([job EXCEPT !.pc = "candidate", !.pick = i])
        ELSE IF AllowsSingletonListIdentityFallback THEN \E i \in items : Found(i)
        ELSE NotFound
  /\ UNCHANGED <<service, local, items, serial, budget>>

\* fetchRemoteValueForCandidate: the listed content stands in for a read that
\* finds nothing.
Candidate ==
  /\ job.pc = "candidate"
  /\ IF ById(job.pick.id) = {} THEN Found(job.pick)
     ELSE IF /\ service.identity /\ job.pick.name # job.pick.id
             /\ Cardinality({i \in items : i.name = job.pick.name \/ i.id = job.pick.id}) > 1
          THEN Finish("conflict")
     ELSE \E i \in ById(job.pick.id) : Found(i)
  /\ UNCHANGED <<service, local, items, serial, budget>>

\* Mutant of FetchFails: a list that fails counts as a list without matches.
FetchFailsEmpty ==
  /\ job.pc \in Calls
  /\ Fault
  /\ IF job.pc = "scan" THEN NotFound
     ELSE IF job.pc = "expand" THEN Goto([job EXCEPT !.pc = "scan", !.blind = TRUE])
     ELSE IF job.pc = "reget" THEN Goto([job EXCEPT !.pc = "expand", !.blind = TRUE])
     ELSE IF job.pc = "check" THEN Found(job.pick)
     ELSE Finish("error")
  /\ UNCHANGED <<service, local, items, serial>>

\* A call that fails for another reason than a missing resource. The probes on
\* the way are best effort; the first read and the last list are not.
FetchFails ==
  /\ job.pc \in Calls
  /\ Fault
  /\ IF job.pc = "expand" THEN Goto([job EXCEPT !.pc = "scan", !.blind = TRUE])
     ELSE IF job.pc = "reget" THEN Goto([job EXCEPT !.pc = "expand", !.blind = TRUE])
     ELSE IF job.pc = "check" THEN Found(job.pick)
     ELSE Finish("error")
  /\ UNCHANGED <<service, local, items, serial>>

-----------------------------------------------------------------------------
(* Changing the service *)

NewId(n) == IF service.byName THEN n ELSE Serials[serial + 1]
Created == [id |-> NewId(job.seg), name |-> job.seg, value |-> job.want]
NameTaken == service.unique /\ \E i \in items : i.name = job.seg
Full == ~service.byName /\ serial = Len(Serials)   \* bound: the service takes no more
CreateItem ==
  /\ ~NameTaken /\ ~Full
  /\ items' = items \cup {Created}
  /\ serial' = IF service.byName THEN serial ELSE serial + 1
Replaced(id) == {IF i.id = id THEN [i EXCEPT !.value = job.want] ELSE i : i \in items}

\* executeRemoteMutation; apply updates what turns out to exist.
CreateRemote ==
  /\ job.pc = "create"
  /\ \/ CreateItem /\ Finish("ok")
     \/ ~NameTaken /\ Full /\ Finish("error") /\ UNCHANGED <<items, serial>>
     \/ /\ NameTaken
        /\ IF job.op = "apply" THEN Goto([job EXCEPT !.pc = "update"]) ELSE Finish("conflict")
        /\ UNCHANGED <<items, serial>>
  /\ UNCHANGED <<service, local, budget>>

UpdateRemote ==
  /\ job.pc = "update"
  /\ IF ById(job.rid) = {} THEN Finish("notfound") /\ UNCHANGED items
     ELSE items' = Replaced(job.rid) /\ Finish("ok")
  /\ UNCHANGED <<service, local, serial, budget>>

\* Mutant of RemoveRemote: what is not found under its alias is taken for gone.
RemoveRemoteQuiet ==
  /\ job.pc = "remove"
  /\ items' = items \ ById(job.rid)
  /\ Finish("ok")
  /\ UNCHANGED <<service, local, serial, budget>>

\* Delete: under the path's own segment first; what is not there is looked for
\* and removed under the identifier found.
RemoveRemote ==
  /\ job.pc = "remove"
  /\ IF ById(job.rid) # {} THEN items' = items \ ById(job.rid) /\ Finish("ok")
     ELSE /\ UNCHANGED items
          /\ IF job.found THEN Finish("notfound") ELSE Goto([job EXCEPT !.pc = "get"])
  /\ UNCHANGED <<service, local, serial, budget>>

\* The call fails, with or without effect.
MutationFails ==
  /\ job.pc \in {"create", "update", "remove"}
  /\ Fault
  /\ Finish("error")
  /\ \/ UNCHANGED <<items, serial>>
     \/ job.pc = "create" /\ CreateItem
     \/ job.pc = "update" /\ items' = Replaced(job.rid) /\ UNCHANGED serial
     \/ job.pc = "remove" /\ items' = items \ ById(job.rid) /\ UNCHANGED serial
  /\ UNCHANGED <<service, local>>

-----------------------------------------------------------------------------
(* The repository and the other client *)

EditLocal(n, v) ==
  /\ job.pc = "idle" /\ Other
  /\ local' = [local EXCEPT ![n].value = v]
  /\ UNCHANGED <<service, items, serial, job>>

\* saveLocalResource with what the service holds, identifier included.
SaveLocal(n) ==
  /\ job.pc = "idle"
  /\ \E i \in items :
       /\ i.name = n
       /\ local' = [local EXCEPT ![n] = [value |-> i.value, id |-> i.id]]
  /\ UNCHANGED <<service, items, serial, job, budget>>

OtherClient(i) ==
  /\ Other
  /\ \/ items' = items \ {i}
     \/ \E v \in Bodies \ {i.value} : items' = (items \ {i}) \cup {[i EXCEPT !.value = v]}
  /\ UNCHANGED <<service, local, serial, job>>

JobStep == Get \/ DetectAmbiguity \/ ExpandPath \/ Reget \/ Scan \/ Candidate
             \/ CreateRemote \/ UpdateRemote \/ RemoveRemote

BetweenCommands ==
  \/ \E op \in Ops, s \in Ids :
       StartRemote(op, s) \/ (\E f \in BOOLEAN : StartLocal(op, s, f))
  \/ \E n \in Aliases : SkipOwned(n) \/ SaveLocal(n) \/ (\E v \in Bodies : EditLocal(n, v))

OrchestratorNext ==
  \/ job.pc = "idle" /\ BetweenCommands
  \/ job.pc # "idle" /\ (JobStep \/ FetchFails \/ MutationFails)
  \/ \E i \in items : OtherClient(i)

OrchestratorSpec == OrchestratorInit /\ [][OrchestratorNext]_orchestratorVars

-----------------------------------------------------------------------------
(* Properties *)

\* Apply creates only what does not exist: also after a lost answer, a failed
\* list or an item removed and made again, it never makes a second item of one
\* alias in a service that can be listed. The last list is searched for the
\* identifier alone: with one in the repository that is not the alias, it takes
\* the probes on the way, which look for the alias, to have been answered.
ApplyCreatesOnce ==
  [][job.pc = "create" /\ job.op = "apply" /\ service.identity /\ service.listable
       /\ (job.rid = job.seg \/ ~job.blind)
       /\ job' # job /\ items' # items => \A i \in items : i.name # job.seg]_orchestratorVars

\* A command changes no resource but the one it was asked for, by its alias or by
\* its identifier.
ActsOnRequested ==
  [][job.pc # "idle" /\ job' # job =>
       \A i \in items \ items' : i.name = job.seg \/ i.id = job.seg]_orchestratorVars

\* A delete that reports success leaves nothing under the name it was given.
DeleteMeansGone ==
  [][job.op \in {"delete", "DELETE"} /\ job'.outcome = "ok" =>
       \A i \in items' : i.name # job.seg /\ i.id # job.seg]_orchestratorVars

\* Apply makes no second resource of one alias, also after a lost answer and a
\* failed list; a command changes no resource but the one it was asked for; and a
\* delete that reports success leaves nothing under that name (orchestrator).
ApplyIsExact == ApplyCreatesOnce /\ ActsOnRequested /\ DeleteMeansGone
=============================================================================
