---------------------------- MODULE DefaultsProbe ----------------------------
(* "resource defaults infer --from managed-service": for every selected     *)
(* item two temporary resources, the probes, are created in the managed     *)
(* service from the attributes a create needs, read back until they are     *)
(* stable, and deleted again; the attributes all of them agree on are the   *)
(* inferred defaults.  The service may refuse a request, lose an answer,    *)
(* reject an expired token, and complete a probe some time after it was     *)
(* created; the user may interrupt the command.                             *)
EXTENDS Naturals, Sequences, FiniteSets

CONSTANTS
    Items,          \* the items of the collection, in the order of their paths
    RawPathWorks,   \* whether the service is addressed by logical paths
    AliasAttributes,\* the attributes resource.alias refers to
    LosesAnswers,   \* whether a created probe's answer may be lost
    MaxProbeFaults, \* refused requests and rejected tokens
    ReadAttempts,   \* managedServiceProbeReadAttempts
    ReadMinAttempts \* managedServiceProbeReadMinAttempts

VARIABLES
    probing,        \* the command
    remote          \* the managed service: its items, the probes, the token

ItemSet == {Items[i] : i \in DOMAIN Items}

TempName(item, half) == <<item, half>>

ASSUME ProbeAssumption ==
    /\ Items \in Seq(ItemSet) /\ \A i, j \in DOMAIN Items : Items[i] = Items[j] => i = j
    /\ \A i, j \in ItemSet, h \in 1..2 : TempName(i, h) # j
    /\ RawPathWorks \in BOOLEAN /\ LosesAnswers \in BOOLEAN
    /\ MaxProbeFaults \in Nat /\ ReadAttempts \in Nat \ {0} /\ ReadMinAttempts \in Nat

probeVars == <<probing, remote>>

(***************************************************************************)
(* The payload of a probe.                                                 *)
(***************************************************************************)

\* An item has its name as alias and identifier, and one more attribute.
PayloadAttributes == {"alias", "id", "x"}
Payload(item) == [a \in PayloadAttributes |-> IF a = "x" THEN "x" ELSE item]

\* EffectiveCreatePayloadRequiredAttributes: what a create requires and
\* always what the alias refers to.
EffectiveCreateRequired(required) == required \cup AliasAttributes

\* selectManagedServiceProbePayload
SelectProbePayload(payload, selected) == [a \in selected \cap DOMAIN payload |-> payload[a]]

\* SimpleAliasPointer, SimpleIDPointer: templates that are one pointer.
SimplePointers == (IF Cardinality(AliasAttributes) = 1 THEN AliasAttributes ELSE {}) \cup {"id"}

\* applyManagedServiceProbeIdentityFallback: without required attributes,
\* every attribute that carries the identity of the item.
IdentityFallback(payload, item, temp) ==
    [a \in {b \in DOMAIN payload : payload[b] = item} |-> temp]

\* Mutant of BuildProbePayload: the identity of the item is kept.
BuildProbePayloadCopy(item, half, required) ==
    SelectProbePayload(Payload(item), EffectiveCreateRequired(required))

\* buildManagedServiceProbePayload
BuildProbePayload(item, half, required) ==
    LET selected == EffectiveCreateRequired(required)
        next == SelectProbePayload(Payload(item), selected)
    IN IF selected = {} THEN IdentityFallback(Payload(item), item, TempName(item, half))
       ELSE [a \in DOMAIN next |->
               IF a \in SimplePointers THEN TempName(item, half) ELSE next[a]]

\* What the service identifies a resource by: the alias attributes.
IdentityOf(payload) == [a \in AliasAttributes \cap DOMAIN payload |-> payload[a]]

(***************************************************************************)
(* The service.                                                            *)
(***************************************************************************)

\* A probe's content: what it was created with, and what the service adds
\* once it has completed it.
ContentOf(p) == [a \in DOMAIN p.payload \cup {"d"} |->
                    IF a = "d" THEN p.version ELSE p.payload[a]]

Fault == probing.faults < MaxProbeFaults
Faulted(s) == [s EXCEPT !.faults = @ + 1]
Cancelled == probing.cancelled

ServiceCompletes ==
    /\ \E p \in DOMAIN remote.probes :
         /\ remote.probes[p].version < 2
         /\ remote' = [remote EXCEPT !.probes[p].version = @ + 1]
    /\ UNCHANGED probing

TokenExpires ==
    /\ remote.token /\ Fault
    /\ remote' = [remote EXCEPT !.token = FALSE]
    /\ probing' = Faulted(probing)

(***************************************************************************)
(* The command.                                                            *)
(***************************************************************************)

Failing(s) == [s EXCEPT !.stage = "cleanup", !.error = TRUE]

\* parseDefaultsInferItems: the named items in the order they are named, each once.
Selections ==
    {named \in UNION {[1..n -> ItemSet] : n \in 0..Len(Items)} :
        \A i, j \in DOMAIN named : named[i] = named[j] => i = j}

\* resolveInferTemplateItems: all items, or the named ones.  An inference from
\* the repository alone creates no probe.
ResolveInferTemplateItems ==
    /\ probing.stage = "start"
    /\ \E named \in Selections, required \in {{}, {"x"}, {"id"}},
          managed \in BOOLEAN :
         probing' = [probing EXCEPT !.required = required, !.managed = managed,
            !.stage = IF managed THEN "create" ELSE "cleanup",
            !.items = IF named = <<>> THEN Items ELSE named]
    /\ UNCHANGED remote

NextProbe == <<probing.items[(Len(probing.temp) \div 2) + 1], (Len(probing.temp) % 2) + 1>>
AllCreated == Len(probing.temp) = 2 * Len(probing.items)

\* Create, whose answer decides whether the probe is remembered.
CreateProbe ==
    /\ probing.stage = "create" /\ ~AllCreated
    /\ LET name == NextProbe
           payload == BuildProbePayload(name[1], name[2], probing.required)
           made == [n \in DOMAIN remote.probes \cup {name} |->
                      IF n = name THEN [payload |-> payload, version |-> 1] ELSE remote.probes[n]]
           collides == \E i \in ItemSet : IdentityOf(payload) = IdentityOf(Payload(i))
       IN \/ /\ ~Cancelled /\ remote.token
             /\ remote' = [remote EXCEPT !.probes = made,
                             !.touched = @ \/ collides]
             /\ \/ probing' = [probing EXCEPT !.temp = Append(@, name)]
                \/ LosesAnswers /\ Fault /\ probing' = Failing(Faulted(probing))
          \/ /\ Cancelled \/ ~remote.token \/ Fault
             /\ probing' = Failing(IF Cancelled \/ ~remote.token THEN probing
                                   ELSE Faulted(probing))
             /\ UNCHANGED remote

\* The wait before the first read; the cached token is forgotten.
WaitAndInvalidate ==
    /\ probing.stage = "create" /\ AllCreated
    /\ IF Cancelled THEN probing' = Failing(probing) /\ UNCHANGED remote
       ELSE /\ probing' = [probing EXCEPT !.stage = "read"]
            /\ remote' = [remote EXCEPT !.token = TRUE]

\* Mutant of StableReads: an equal read counts however long ago it was.
StableReadsEver(last, content, attempt, stable) ==
    IF attempt > 0 /\ content = last THEN stable + 1 ELSE stable

StableReads(last, content, attempt, stable) ==
    IF attempt > 0 /\ content = last THEN stable + 1 ELSE 1

\* readManagedServiceProbeContent: one read of a probe.
ReadProbe ==
    /\ probing.stage = "read" /\ Len(probing.outputs) < Len(probing.temp)
    /\ LET name == probing.temp[Len(probing.outputs) + 1]
       IN \/ /\ ~Cancelled /\ remote.token
             /\ LET content == ContentOf(remote.probes[name])
                    stable == StableReads(probing.last, content, probing.attempt, probing.stable)
                    done == \/ probing.attempt + 1 >= ReadMinAttempts /\ stable >= 2
                            \/ probing.attempt + 1 = ReadAttempts
                IN probing' = IF done
                     THEN [probing EXCEPT !.outputs = Append(@, content), !.attempt = 0,
                             !.stable = 0, !.last = <<>>,
                             !.unstable = @ \/ (content # probing.last
                                                /\ probing.attempt + 1 < ReadAttempts)]
                     ELSE [probing EXCEPT !.attempt = @ + 1, !.stable = stable, !.last = content]
          \/ /\ Cancelled \/ ~remote.token \/ Fault
             /\ probing' = Failing(IF Cancelled \/ ~remote.token THEN probing ELSE Faulted(probing))
    /\ UNCHANGED remote

\* Mutant of InferDefaultsFromValues: one sample is enough.
InferFromFirst(samples) == IF samples = <<>> THEN {} ELSE DOMAIN samples[1]

\* InferDefaultsFromValues: the attributes on which all samples agree.
InferDefaultsFromValues(samples) ==
    IF Len(samples) < 2 THEN {}
    ELSE {a \in DOMAIN samples[1] : \A i \in DOMAIN samples :
             a \in DOMAIN samples[i] /\ samples[i][a] = samples[1][a]}

\* All probes are read; the deferred cleanup runs before anything is inferred.
AllRead ==
    /\ probing.stage = "read" /\ Len(probing.outputs) = Len(probing.temp)
    /\ probing' = [probing EXCEPT !.stage = "cleanup"]
    /\ UNCHANGED remote

Dropped(name) == [p \in DOMAIN remote.probes \ {name} |-> remote.probes[p]]
LastProbe == probing.temp[Len(probing.temp)]
Tidied == [probing EXCEPT !.temp = SubSeq(@, 1, Len(@) - 1), !.retry = 0]
Leftover == [Tidied EXCEPT !.error = TRUE]

\* cleanupManagedServiceProbe, from the last probe to the first: a delete
\* through the orchestrator; only a rejected token is tried again.
CleanupProbe ==
    /\ probing.stage = "cleanup" /\ probing.temp # <<>> /\ probing.retry = 0
    /\ LET name == LastProbe
       IN \/ /\ ~Cancelled /\ remote.token
             /\ remote' = [remote EXCEPT !.probes = Dropped(name)]
             /\ probing' = Tidied
          \/ /\ ~Cancelled /\ ~remote.token
             /\ probing' = [probing EXCEPT !.retry = 1] /\ UNCHANGED remote
          \/ /\ Cancelled \/ Fault
             /\ probing' = IF Cancelled THEN Leftover ELSE Faulted(Leftover)
             /\ UNCHANGED remote

\* retryManagedServiceProbeDelete: a new token, then a DELETE on the logical
\* path itself; what is not found counts as deleted.
RetryDelete ==
    /\ probing.stage = "cleanup" /\ probing.retry > 0
    /\ \/ /\ ~Cancelled
          /\ remote' = [remote EXCEPT !.token = TRUE,
                !.probes = IF RawPathWorks THEN Dropped(LastProbe) ELSE @]
          /\ probing' = Tidied
       \/ /\ ~Cancelled /\ Fault      \* rejected once more, or refused
          /\ probing' \in {Faulted(Leftover)} \cup
               (IF probing.retry = 1 THEN {Faulted([probing EXCEPT !.retry = 2])} ELSE {})
          /\ UNCHANGED remote
       \/ /\ Cancelled
          /\ probing' = Leftover /\ UNCHANGED remote

\* inferFromRepository: the items as they are stored.
RepositorySamples == [i \in DOMAIN probing.items |-> Payload(probing.items[i])]

\* Infer: the samples of the sources; no sample survives an error.
Infer(withRepository) ==
    InferDefaultsFromValues(
        (IF withRepository THEN RepositorySamples ELSE <<>>) \o probing.outputs)

\* Mutant of EndInference: the baseline is saved before the error is reported.
EndInferenceSaves ==
    /\ probing.stage = "cleanup" /\ probing.temp = <<>>
    /\ \E withRepository \in BOOLEAN, mode \in {"print", "save"} :
         probing' = [probing EXCEPT !.stage = "done", !.inferred = Infer(withRepository),
                       !.saved = IF mode = "save" THEN Infer(withRepository) ELSE @]
    /\ UNCHANGED remote

\* The command's end: an error, or the inferred defaults are printed, saved
\* as the baseline of the collection, or compared with it.
EndInference ==
    /\ probing.stage = "cleanup" /\ probing.temp = <<>>
    /\ IF probing.error THEN probing' = [probing EXCEPT !.stage = "done"]
       ELSE \E withRepository \in BOOLEAN, mode \in {"print", "save", "check"} :
              /\ withRepository \/ probing.managed
              /\ LET found == Infer(withRepository)
                 IN probing' = [probing EXCEPT !.stage = "done", !.inferred = found,
                      !.saved = IF mode = "save" THEN found ELSE @,
                      !.error = mode = "check" /\ found # probing.saved]
    /\ UNCHANGED remote

Interrupt ==
    /\ probing.stage # "done" /\ ~Cancelled
    /\ probing' = [probing EXCEPT !.cancelled = TRUE]
    /\ UNCHANGED remote

ProbeInit ==
    /\ probing = [stage |-> "start", items |-> <<>>, required |-> {}, temp |-> <<>>,
                  outputs |-> <<>>, attempt |-> 0, stable |-> 0, last |-> <<>>,
                  retry |-> 0, inferred |-> {}, saved |-> {}, managed |-> FALSE, error |-> FALSE, unstable |-> FALSE,
                  cancelled |-> FALSE, faults |-> 0]
    /\ remote = [probes |-> <<>>, touched |-> FALSE, token |-> TRUE]

ProbeNext ==
    \/ ResolveInferTemplateItems \/ CreateProbe \/ WaitAndInvalidate \/ ReadProbe
    \/ AllRead \/ CleanupProbe \/ RetryDelete \/ EndInference
    \/ ServiceCompletes \/ TokenExpires \/ Interrupt

ProbeSpec == ProbeInit /\ [][ProbeNext]_probeVars

(***************************************************************************)
(* Properties.                                                             *)
(***************************************************************************)

ProbeTypeOK ==
    /\ probing.attempt < ReadAttempts /\ probing.stable <= ReadAttempts
    /\ Len(probing.outputs) <= 2 * Len(probing.items)
    /\ probing.retry \in 0..2 /\ probing.faults <= MaxProbeFaults
    /\ \A k \in DOMAIN probing.temp : probing.temp[k] \in {TempName(i, h) : i \in ItemSet, h \in 1..2}
    /\ \A p \in DOMAIN remote.probes : remote.probes[p].version \in 1..2

\* A command that ends without an error, or saves what it inferred, has left
\* no probe in the service.
NoSilentLeftover ==
    (probing.stage = "done" /\ (~probing.error \/ probing.saved # {}))
        => DOMAIN remote.probes = {}

\* However the command ends, it has deleted every probe it created, unless
\* it could not reach the service (agents/reference/cli.md, rule 40).
AllProbesRemoved ==
    (probing.stage = "done" /\ ~probing.cancelled) => DOMAIN remote.probes = {}

\* A probe is never created with the identity of an item of the collection.
ItemsUntouched == ~remote.touched

\* What tells one resource from another is not inferred as a default.
IdentityNotInferred == probing.inferred \cap AliasAttributes = {}

\* What is taken for a probe's content was read twice in a row, or is what
\* the last attempt read.
ReadIsStable == ~probing.unstable

\* A probe that could not be removed is reported; items of the user are not
\* touched; identity attributes are not inferred; and a value counts as read only
\* when it stayed the same (infer_managed.go, managed_probe.go).
ProbesSafe == NoSilentLeftover /\ ItemsUntouched /\ IdentityNotInferred /\ ReadIsStable
=============================================================================
