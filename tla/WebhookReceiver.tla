--------------------------- MODULE WebhookReceiver ---------------------------
(***************************************************************************)
(* The repository webhook server: the RepositoryWebhook endpoint            *)
(* (internal/operator/webhookreceiver/handler.go), its delivery cache       *)
(* (dedupe.go), which all endpoints of the process share, and the legacy    *)
(* endpoint (controllers/repository_webhook_server.go).  Requests run in    *)
(* goroutines of their own; a Git provider may deliver an event again,      *)
(* whether or not it got an answer.                                         *)
(*                                                                          *)
(* genuine: size, signature or token of the payload pass.  matches: its     *)
(* kind is one of spec.events and its branch passes the filter.             *)
(***************************************************************************)
EXTENDS Integers, Sequences

CONSTANTS
  Hooks,          \* RepositoryWebhook objects
  Legacy,         \* stands for a webhook embedded in a ResourceRepository
  Ids,            \* delivery ids
  NoId,           \* the header is missing
  Events,         \* what providers deliver
  Requests,       \* goroutines that serve at the same time
  Capacity,       \* maxEntries of the delivery cache
  MaxSends,       \* bound: deliveries, repeated ones included
  MaxFaults,      \* bound: failed API calls and restarts
  MaxExpiries,    \* bound: cache entries that outlive the TTL
  MaxEdits        \* bound: changes of a webhook or its repository

EventType == [hook: Hooks \cup {Legacy}, id: Ids \cup {NoId},
              kind: {"push", "ping", "other"}, genuine: BOOLEAN,
              matches: BOOLEAN]

ASSUME ConstantsAssumption ==
  /\ Legacy \notin Hooks /\ NoId \notin Ids
  /\ Events \subseteq EventType /\ Events # {}
  /\ Capacity \in Nat \ {0}
  /\ {MaxSends, MaxFaults, MaxExpiries, MaxEdits} \subseteq Nat

VARIABLES
  hooks,      \* each RepositoryWebhook, as the informer shows it
  found,      \* whether the ResourceRepository each endpoint names exists
  entries,    \* the delivery cache, oldest first
  requests,   \* the request each goroutine serves
  receipts,   \* how often each event was recorded on its repository
  answers,    \* what providers were told
  lastId,     \* status.lastDeliveryID of each RepositoryWebhook
  budget      \* environment steps spent, per bound

vars == <<hooks, found, entries, requests, receipts, answers, lastId, budget>>

-----------------------------------------------------------------------------

HookStates == {"active", "suspended", "gone"}
Steps == {"idle", "lookup", "verify", "dedupe", "dispatch", "patch", "finish"}
Accepted == {"accepted", "duplicate", "suspended", "ignored", "filtered", "pong"}
Answers == Accepted \cup {"notFound", "unauthorized", "error"}

RequestType == [pc: Steps, event: Events]
BudgetType == [sends: 0..MaxSends, faults: 0..MaxFaults,
               expiries: 0..MaxExpiries, edits: 0..MaxEdits]

\* Requests on no connection; their event is what was served last.
Waiting == [q \in Requests |->
              [pc |-> "idle", event |-> CHOOSE e \in Events : TRUE]]

Remembered == {entries[i] : i \in DOMAIN entries}

TypeOK ==
  /\ hooks \in [Hooks -> HookStates]
  /\ found \in [Hooks \cup {Legacy} -> BOOLEAN]
  /\ entries \in Seq(Ids)
  /\ requests \in [Requests -> RequestType]
  /\ receipts \in [Events -> Nat]
  /\ answers \subseteq Events \X Answers
  /\ lastId \in [Hooks -> Ids \cup {NoId}]
  /\ budget \in BudgetType

Init ==
  /\ hooks = [h \in Hooks |-> "active"]
  /\ found = [h \in Hooks \cup {Legacy} |-> TRUE]
  /\ entries = <<>>
  /\ requests = Waiting
  /\ receipts = [e \in Events |-> 0]
  /\ answers = {}
  /\ lastId = [h \in Hooks |-> NoId]
  /\ budget = [sends |-> 0, faults |-> 0, expiries |-> 0, edits |-> 0]

Spend(b) == budget' = [budget EXCEPT ![b] = @ + 1]

-----------------------------------------------------------------------------
(* Serving a request *)

At(q, pc) == requests[q].pc = pc
Event(q) == requests[q].event
Goto(q, pc) == requests' = [requests EXCEPT ![q].pc = pc] /\ UNCHANGED answers
Answer(q, a) ==
  /\ requests' = [requests EXCEPT ![q].pc = "idle"]
  /\ answers' = answers \cup {<<Event(q), a>>}

\* The RepositoryWebhook, or the repository with an embedded webhook, is read.
Lookup(q) ==
  /\ At(q, "lookup")
  /\ LET h == Event(q).hook
     IN \/ /\ h = Legacy
           /\ IF found[h] THEN Goto(q, "verify") ELSE Answer(q, "notFound")
        \/ /\ h # Legacy
           /\ \/ hooks[h] = "gone" /\ Answer(q, "notFound")
              \/ hooks[h] = "suspended" /\ Answer(q, "suspended")
              \/ hooks[h] = "active" /\ Goto(q, "verify")
  /\ UNCHANGED <<hooks, found, entries, receipts, lastId, budget>>

\* Mutant of Verify: a signature that does not verify is only logged.
VerifyLogs(q) ==
  /\ At(q, "verify")
  /\ Goto(q, IF Event(q).hook = Legacy THEN "dispatch" ELSE "dedupe")
  /\ UNCHANGED <<hooks, found, entries, receipts, lastId, budget>>

\* The Secret is read and the signature or token verified.
Verify(q) ==
  /\ At(q, "verify")
  /\ \/ ~Event(q).genuine /\ Answer(q, "unauthorized")
     \/ /\ Event(q).genuine
        /\ Goto(q, IF Event(q).hook = Legacy THEN "dispatch" ELSE "dedupe")
  /\ UNCHANGED <<hooks, found, entries, receipts, lastId, budget>>

\* A known id becomes the youngest.
Refresh(id) ==
  LET i == CHOOSE n \in DOMAIN entries : entries[n] = id
  IN Append(SubSeq(entries, 1, i - 1) \o SubSeq(entries, i + 1, Len(entries)), id)

\* Mutant of Remember: the cache grows beyond its bound.
RememberAll(id) == Append(entries, id)

\* Record a new id; a full cache loses its oldest entry.
Remember(id) ==
  Append(IF Len(entries) >= Capacity THEN Tail(entries) ELSE entries, id)

\* Mutant of Deduplicate: the empty id is an id like any other.
DeduplicateEmptyToo(q) ==
  /\ At(q, "dedupe")
  /\ LET id == Event(q).id
     IN \/ /\ id \in Remembered
           /\ entries' = Refresh(id)
           /\ Answer(q, "duplicate")
        \/ /\ id \notin Remembered
           /\ entries' = Remember(id)
           /\ Goto(q, "dispatch")
  /\ UNCHANGED <<hooks, found, receipts, lastId, budget>>

\* IsDuplicate, under the cache's mutex.
Deduplicate(q) ==
  /\ At(q, "dedupe")
  /\ LET id == Event(q).id
     IN \/ /\ id = NoId
           /\ Goto(q, "dispatch")
           /\ UNCHANGED entries
        \/ /\ id \in Remembered
           /\ entries' = Refresh(id)
           /\ Answer(q, "duplicate")
        \/ /\ id \in Ids \ Remembered
           /\ entries' = Remember(id)
           /\ Goto(q, "dispatch")
  /\ UNCHANGED <<hooks, found, receipts, lastId, budget>>

\* updateWebhookStatus: a refused write is only logged.
UpdateWebhookStatus(e) ==
  \/ UNCHANGED lastId
  \/ /\ e.hook \in Hooks /\ hooks[e.hook] # "gone"
     /\ e.id # NoId
     /\ lastId' = [lastId EXCEPT ![e.hook] = e.id]

\* Pings are answered, pushes to the branch go on, the rest is ignored.
Dispatch(q) ==
  /\ At(q, "dispatch")
  /\ LET e == Event(q)
         ping == e.kind = "ping" /\ e.hook # Legacy /\ e.matches
     IN \/ /\ ping
           /\ UpdateWebhookStatus(e)
           /\ Answer(q, "pong")
        \/ /\ ~ping /\ e.kind # "push"
           /\ Answer(q, "ignored")
           /\ UNCHANGED lastId
        \/ /\ e.kind = "push"
           /\ IF e.matches THEN Goto(q, "patch") ELSE Answer(q, "filtered")
           /\ UNCHANGED lastId
  /\ UNCHANGED <<hooks, found, entries, receipts, budget>>

\* Mutant of PatchReceipt: the answer does not wait for the patch.
PatchReceiptAfter(q) ==
  /\ At(q, "patch")
  /\ Answer(q, "accepted")
  /\ UNCHANGED <<hooks, found, entries, receipts, lastId, budget>>

\* The repository is read and its annotations are patched (without a
\* resourceVersion: the patch never conflicts).
PatchReceipt(q) ==
  /\ At(q, "patch")
  /\ \/ /\ found[Event(q).hook]
        /\ receipts' = [receipts EXCEPT ![Event(q)] = @ + 1]
        /\ Goto(q, "finish")
     \/ /\ ~found[Event(q).hook]
        /\ Answer(q, IF Event(q).hook = Legacy THEN "error" ELSE "notFound")
        /\ UNCHANGED receipts
  /\ UNCHANGED <<hooks, found, entries, lastId, budget>>

Finish(q) ==
  /\ At(q, "finish")
  /\ UpdateWebhookStatus(Event(q))
  /\ Answer(q, "accepted")
  /\ UNCHANGED <<hooks, found, entries, receipts, budget>>

\* An API call fails: 500.  A failed patch may have taken effect.
CallFails(q) ==
  /\ requests[q].pc \in {"lookup", "verify", "patch"}
  /\ budget.faults < MaxFaults /\ Spend("faults")
  /\ Answer(q, "error")
  /\ \/ UNCHANGED receipts
     \/ /\ At(q, "patch") /\ found[Event(q).hook]
        /\ receipts' = [receipts EXCEPT ![Event(q)] = @ + 1]
  /\ UNCHANGED <<hooks, found, entries, lastId>>

Serve(q) ==
  \/ Lookup(q) \/ Verify(q) \/ Deduplicate(q) \/ Dispatch(q)
  \/ PatchReceipt(q) \/ Finish(q)

-----------------------------------------------------------------------------
(* The environment *)

\* A provider delivers an event, for the first time or again.
Deliver(q, e) ==
  /\ At(q, "idle")
  /\ budget.sends < MaxSends /\ Spend("sends")
  /\ requests' = [requests EXCEPT ![q] = [pc |-> "lookup", event |-> e]]
  /\ UNCHANGED <<hooks, found, entries, receipts, answers, lastId>>

\* The oldest entry outlives its TTL.
Expire ==
  /\ entries # <<>>
  /\ budget.expiries < MaxExpiries /\ Spend("expiries")
  /\ entries' = Tail(entries)
  /\ UNCHANGED <<hooks, found, requests, receipts, answers, lastId>>

\* A user suspends, resumes or deletes a RepositoryWebhook.
EditHook(h, state) ==
  /\ hooks[h] # "gone" /\ state # hooks[h]
  /\ budget.edits < MaxEdits /\ Spend("edits")
  /\ hooks' = [hooks EXCEPT ![h] = state]
  /\ UNCHANGED <<found, entries, requests, receipts, answers, lastId>>

\* A ResourceRepository is deleted, or created again.
RepositoryChanges(h) ==
  /\ budget.edits < MaxEdits /\ Spend("edits")
  /\ found' = [found EXCEPT ![h] = ~@]
  /\ UNCHANGED <<hooks, entries, requests, receipts, answers, lastId>>

\* The process restarts: open requests are cut off, the cache is lost.
Restart ==
  /\ budget.faults < MaxFaults /\ Spend("faults")
  /\ entries' = <<>>
  /\ requests' = Waiting
  /\ UNCHANGED <<hooks, found, receipts, answers, lastId>>

Next ==
  \/ \E q \in Requests : Serve(q) \/ CallFails(q)
  \/ \E q \in Requests, e \in Events : Deliver(q, e)
  \/ Expire
  \/ \E h \in Hooks, state \in HookStates : EditHook(h, state)
  \/ \E h \in Hooks \cup {Legacy} : RepositoryChanges(h)
  \/ Restart

Spec == Init /\ [][Next]_vars

-----------------------------------------------------------------------------
(* Properties *)

\* The cache holds an id once and never more than maxEntries of them.
CacheBounded ==
  /\ Len(entries) <= Capacity
  /\ \A i, j \in DOMAIN entries : entries[i] = entries[j] => i = j

\* Only genuine pushes to the branch reach a repository, and a request that
\* does not authenticate leaves no trace: neither its id in the cache, which
\* would suppress the genuine delivery, nor one in a status.
OnlyAuthenticEvents ==
  /\ \A e \in Events : receipts[e] > 0 => e.genuine /\ e.kind = "push" /\ e.matches
  /\ \A id \in Remembered \cup {lastId[h] : h \in Hooks} :
       id # NoId => \E e \in Events : e.genuine /\ e.id = id

\* "accepted" is said only of an event that is recorded on its repository.
AcceptedIsRecorded ==
  \A e \in Events : <<e, "accepted">> \in answers => receipts[e] > 0

\* While the cache keeps an id, deliveries of it that run at the same time
\* record it once.
RecordedOnce ==
  \A e \in Events : e.hook # Legacy /\ e.id # NoId => receipts[e] <= 1

\* A genuine push to the branch that is answered with success is recorded,
\* by this delivery or an earlier one, unless another is still being served.
SuccessIsRecorded ==
  \A e \in Events :
    /\ <<e, "accepted">> \in answers \/ <<e, "duplicate">> \in answers
    /\ e.kind = "push" /\ e.matches
    /\ \A q \in Requests : At(q, "idle") \/ Event(q) # e
    => receipts[e] > 0
=============================================================================
