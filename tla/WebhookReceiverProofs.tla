------------------------ MODULE WebhookReceiverProofs ------------------------
(***************************************************************************)
(* Proofs about WebhookReceiver, for any number of webhooks, ids, events    *)
(* and requests and any capacity of the delivery cache.                     *)
(***************************************************************************)
EXTENDS WebhookReceiver, SequenceTheorems, TLAPS

-----------------------------------------------------------------------------
(* The delivery cache *)

\* A sequence with its i-th element taken out.
LEMMA TakenOut ==
  ASSUME NEW S, NEW s \in Seq(S), NEW i \in 1..Len(s)
  PROVE  LET t == SubSeq(s, 1, i - 1) \o SubSeq(s, i + 1, Len(s))
         IN /\ t \in Seq(S)
            /\ Len(t) = Len(s) - 1
            /\ \A j \in 1..(Len(s) - 1) : t[j] = IF j < i THEN s[j] ELSE s[j + 1]
<1>. DEFINE a == SubSeq(s, 1, i - 1)
            b == SubSeq(s, i + 1, Len(s))
            t == a \o b
<1>0. Len(s) \in Nat /\ i \in Nat /\ i >= 1 /\ i <= Len(s)
  BY LenProperties
<1>1. /\ a \in Seq(S) /\ Len(a) = i - 1
      /\ \A j \in 1..(i - 1) : a[j] = s[j]
  <2>1. \A j \in 1..(i - 1) : s[j] \in S
    BY <1>0, ElementOfSeq
  <2>. QED BY <1>0, <2>1, SubSeqProperties
<1>2. /\ b \in Seq(S) /\ Len(b) = Len(s) - i
      /\ \A j \in 1..(Len(s) - i) : b[j] = s[i + j]
  <2>1. \A j \in (i + 1)..Len(s) : s[j] \in S
    BY <1>0, ElementOfSeq
  <2>. QED BY <1>0, <2>1, SubSeqProperties
<1>3. /\ t \in Seq(S) /\ Len(t) = Len(a) + Len(b)
      /\ \A j \in 1..(Len(a) + Len(b)) :
           t[j] = IF j <= Len(a) THEN a[j] ELSE b[j - Len(a)]
  BY <1>1, <1>2, ConcatProperties
<1>. HIDE DEF a, b, t
<1>4. Len(t) = Len(s) - 1
  BY <1>0, <1>1, <1>2, <1>3
<1>5. Len(a) \in Nat /\ Len(b) \in Nat
  BY <1>0, <1>1, <1>2
<1>6. \A j \in 1..(Len(s) - 1) : t[j] = IF j < i THEN s[j] ELSE s[j + 1]
  <2>1. PICK n \in Nat, la \in Nat, lb \in Nat :
          n = Len(s) /\ la = Len(a) /\ lb = Len(b)
    BY <1>0, <1>5
  <2>2. i \in 1..n /\ la = i - 1 /\ lb = n - i
    BY <1>1, <1>2, <2>1
  <2>3. /\ \A j \in 1..(i - 1) : a[j] = s[j]
        /\ \A j \in 1..(n - i) : b[j] = s[i + j]
        /\ \A j \in 1..(la + lb) : t[j] = IF j <= la THEN a[j] ELSE b[j - la]
    BY <1>1, <1>2, <1>3, <2>1, Zenon
  <2>4. \A j \in 1..(n - 1) : t[j] = IF j < i THEN s[j] ELSE s[j + 1]
    <3>. TAKE j \in 1..(n - 1)
    <3>1. j \in 1..(la + lb)
      BY <2>2
    <3>2. CASE j < i
      BY <2>2, <2>3, <3>1, <3>2
    <3>3. CASE ~(j < i)
      <4>1. PICK k \in 1..(n - i) : k = j - la
        BY <2>2, <3>3
      <4>2. ~(j <= la) /\ i + k = j + 1
        BY <2>2, <3>3, <4>1
      <4>3. t[j] = b[k]
        BY <2>3, <3>1, <4>1, <4>2, Zenon
      <4>4. b[k] = s[j + 1]
        BY <2>3, <4>1, <4>2, Zenon
      <4>. QED BY <3>3, <4>3, <4>4
    <3>. QED BY <3>2, <3>3
  <2>. QED BY <2>1, <2>4, Zenon
<1>. QED BY <1>3, <1>4, <1>6 DEF t, a, b

\* A cache of distinct ids, within its bound.
Sound(s) ==
  /\ s \in Seq(Ids)
  /\ Len(s) <= Capacity
  /\ \A i, j \in 1..Len(s) : s[i] = s[j] => i = j

\* Every id of s is in T.
From(s, T) == \A i \in 1..Len(s) : s[i] \in T

\* Adding an id that s has not.
LEMMA AppendKeeps ==
  ASSUME NEW s, Sound(s), Len(s) < Capacity, NEW id \in Ids,
         \A i \in 1..Len(s) : s[i] # id
  PROVE  Sound(Append(s, id)) /\ From(Append(s, id), {s[i] : i \in 1..Len(s)} \cup {id})
<1>. DEFINE t == Append(s, id)
<1>1. Len(s) \in Nat /\ s \in Seq(Ids)
  BY LenProperties DEF Sound
<1>2. /\ t \in Seq(Ids) /\ Len(t) = Len(s) + 1 /\ t[Len(s) + 1] = id
      /\ \A i \in 1..Len(s) : t[i] = s[i]
  BY <1>1, AppendProperties
<1>. HIDE DEF t
<1>3. Len(t) <= Capacity
  BY <1>1, <1>2, ConstantsAssumption
<1>4. \A i, j \in 1..Len(t) : t[i] = t[j] => i = j
  BY <1>1, <1>2 DEF Sound
<1>5. \A i \in 1..Len(t) : t[i] \in {s[j] : j \in 1..Len(s)} \cup {id}
  BY <1>1, <1>2
<1>. QED BY <1>2, <1>3, <1>4, <1>5 DEF Sound, From, t

\* Dropping the oldest id.
LEMMA TailKeeps ==
  ASSUME NEW s, Sound(s), s # <<>>
  PROVE  /\ Sound(Tail(s)) /\ Len(Tail(s)) < Capacity
         /\ From(Tail(s), {s[i] : i \in 1..Len(s)})
<1>. DEFINE t == Tail(s)
<1>1. Len(s) \in Nat /\ s \in Seq(Ids)
  BY LenProperties DEF Sound
<1>2. /\ t \in Seq(Ids) /\ Len(t) = Len(s) - 1 /\ Len(s) > 0
      /\ \A i \in 1..Len(t) : t[i] = s[i + 1]
  BY <1>1, HeadTailProperties, EmptySeq
<1>. HIDE DEF t
<1>3. Len(t) < Capacity
  BY <1>1, <1>2, ConstantsAssumption DEF Sound
<1>4. \A i, j \in 1..Len(t) : t[i] = t[j] => i = j
  BY <1>1, <1>2 DEF Sound
<1>5. \A i \in 1..Len(t) : t[i] \in {s[j] : j \in 1..Len(s)}
  BY <1>1, <1>2
<1>. QED BY <1>1, <1>2, <1>3, <1>4, <1>5, ConstantsAssumption DEF Sound, From, t

\* Remember evicts before it appends.
LEMMA RememberKeeps ==
  ASSUME Sound(entries), NEW T, From(entries, T),
         NEW id \in Ids \ Remembered, id \in T
  PROVE  Sound(Remember(id)) /\ From(Remember(id), T)
<1>. DEFINE s == IF Len(entries) >= Capacity THEN Tail(entries) ELSE entries
<1>1. /\ entries \in Seq(Ids) /\ Len(entries) \in Nat
      /\ DOMAIN entries = 1..Len(entries)
      /\ \A i \in 1..Len(entries) : entries[i] # id
  BY LenProperties DEF Sound, Remembered
<1>2. /\ Sound(s) /\ Len(s) < Capacity
      /\ From(s, {entries[i] : i \in 1..Len(entries)})
  <2>1. CASE Len(entries) >= Capacity
    <3>1. entries # <<>>
      BY <1>1, <2>1, EmptySeq, ConstantsAssumption
    <3>. QED BY <2>1, <3>1, TailKeeps
  <2>2. CASE ~(Len(entries) >= Capacity)
    BY <1>1, <2>2, ConstantsAssumption DEF From
  <2>. QED BY <2>1, <2>2
<1>. HIDE DEF s
<1>3. \A i \in 1..Len(s) : s[i] # id /\ s[i] \in T
  BY <1>1, <1>2 DEF From
<1>4. Sound(Append(s, id)) /\ From(Append(s, id), {s[i] : i \in 1..Len(s)} \cup {id})
  BY <1>2, <1>3, AppendKeeps
<1>5. From(Append(s, id), T)
  BY <1>3, <1>4 DEF From
<1>. QED BY <1>4, <1>5 DEF Remember, s

\* Refresh moves an id, and neither adds nor loses one.
LEMMA RefreshKeeps ==
  ASSUME Sound(entries), NEW T, From(entries, T), NEW id \in Remembered
  PROVE  Sound(Refresh(id)) /\ From(Refresh(id), T)
<1>. DEFINE i == CHOOSE n \in DOMAIN entries : entries[n] = id
            s == SubSeq(entries, 1, i - 1) \o SubSeq(entries, i + 1, Len(entries))
<1>1. /\ entries \in Seq(Ids) /\ Len(entries) \in Nat
      /\ DOMAIN entries = 1..Len(entries) /\ Len(entries) <= Capacity
  BY LenProperties DEF Sound
<1>2. i \in 1..Len(entries) /\ entries[i] = id
  BY <1>1 DEF Remembered
<1>. HIDE DEF i
<1>3. /\ s \in Seq(Ids) /\ Len(s) = Len(entries) - 1
      /\ \A j \in 1..(Len(entries) - 1) :
           s[j] = IF j < i THEN entries[j] ELSE entries[j + 1]
  BY <1>1, <1>2, TakenOut
<1>. HIDE DEF s
<1>4. PICK n \in Nat : n = Len(entries)
  BY <1>1
<1>5. /\ i \in 1..n /\ Len(s) = n - 1 /\ n <= Capacity
      /\ \A j \in 1..(n - 1) : s[j] = IF j < i THEN entries[j] ELSE entries[j + 1]
      /\ \A j, k \in 1..n : entries[j] = entries[k] => j = k
      /\ \A j \in 1..n : entries[j] \in T
  BY <1>1, <1>2, <1>3, <1>4, Zenon DEF Sound, From
<1>6. /\ \A j, k \in 1..(n - 1) : s[j] = s[k] => j = k
      /\ \A j \in 1..(n - 1) : s[j] # id /\ s[j] \in T
  <2>1. ASSUME NEW j \in 1..(n - 1)
        PROVE  \E k \in 1..n : /\ s[j] = entries[k] /\ k # i
                               /\ k = IF j < i THEN j ELSE j + 1
    <3>1. CASE j < i
      BY <1>5, <3>1
    <3>2. CASE ~(j < i)
      BY <1>5, <3>2
    <3>. QED BY <3>1, <3>2
  <2>2. \A j \in 1..(n - 1) : s[j] # id /\ s[j] \in T
    <3>. TAKE j \in 1..(n - 1)
    <3>1. PICK k \in 1..n : s[j] = entries[k] /\ k # i
      BY <2>1
    <3>2. entries[k] # entries[i]
      BY <1>5, <3>1, Zenon
    <3>. QED BY <1>2, <1>5, <3>1, <3>2
  <2>3. ASSUME NEW j \in 1..(n - 1), NEW k \in 1..(n - 1), s[j] = s[k]
        PROVE  j = k
    BY <1>5, <2>1, <2>3
  <2>. QED BY <2>2, <2>3
<1>7. Sound(s) /\ Len(s) < Capacity
  BY <1>3, <1>5, <1>6, ConstantsAssumption DEF Sound
<1>8. \A j \in 1..Len(s) : s[j] # id /\ s[j] \in T
  BY <1>5, <1>6
<1>9. id \in Ids /\ id \in T
  BY <1>1, <1>2, <1>4, <1>5, ElementOfSeq
<1>10. Sound(Append(s, id)) /\ From(Append(s, id), {s[j] : j \in 1..Len(s)} \cup {id})
  BY <1>7, <1>8, <1>9, AppendKeeps
<1>11. From(Append(s, id), T)
  BY <1>8, <1>9, <1>10 DEF From
<1>. QED BY <1>10, <1>11 DEF Refresh, s, i

-----------------------------------------------------------------------------
(* The inductive invariant *)

GenuineIds == {NoId} \cup {e.id : e \in {f \in Events : f.genuine}}

CacheOK == Sound(entries) /\ From(entries, GenuineIds)

StatusOK == \A h \in Hooks : lastId[h] \in GenuineIds

ReceiptsOK ==
  \A e \in Events : receipts[e] > 0 => e.genuine /\ e.kind = "push" /\ e.matches

\* What a request that got this far knows of its event.
Checked ==
  \A q \in Requests :
    /\ requests[q].pc \in {"dedupe", "dispatch", "patch", "finish"} =>
         requests[q].event.genuine
    /\ requests[q].pc \in {"patch", "finish"} =>
         requests[q].event.kind = "push" /\ requests[q].event.matches
    /\ requests[q].pc = "finish" => receipts[requests[q].event] > 0

IInv == TypeOK /\ CacheOK /\ StatusOK /\ ReceiptsOK /\ Checked /\ AcceptedIsRecorded

\* Nothing is served at first.
LEMMA InitIInv == Init => IInv
<1>. SUFFICES ASSUME Init PROVE IInv
  OBVIOUS
<1>1. requests \in [Requests -> RequestType] /\ \A q \in Requests : requests[q].pc = "idle"
  BY ConstantsAssumption DEF Init, Waiting, RequestType, Steps
<1>2. entries = <<>> /\ entries \in Seq(Ids) /\ Len(entries) = 0
  BY EmptySeq DEF Init
<1>3. TypeOK
  BY <1>1, <1>2, ConstantsAssumption DEF Init, TypeOK, HookStates, BudgetType
<1>4. CacheOK /\ StatusOK
  BY <1>2, ConstantsAssumption DEF Init, CacheOK, StatusOK, Sound, From, GenuineIds
<1>5. ReceiptsOK /\ Checked /\ AcceptedIsRecorded
  BY <1>1 DEF Init, ReceiptsOK, Checked, AcceptedIsRecorded
<1>. QED BY <1>3, <1>4, <1>5 DEF IInv

\* What has to be shown of a step of one request: where it goes, and what it
\* leaves in cache, status, receipts and answers.
LEMMA StepKeepsIInv ==
  ASSUME IInv, NEW q \in Requests, NEW pc \in Steps, NEW e \in Events,
         e = requests[q].event,
         requests' = [requests EXCEPT ![q].pc = pc],
         UNCHANGED <<hooks, found>>, budget' \in BudgetType,
         CacheOK', StatusOK', lastId' \in [Hooks -> Ids \cup {NoId}],
         pc \in {"dedupe", "dispatch", "patch", "finish"} => e.genuine,
         pc \in {"patch", "finish"} => e.kind = "push" /\ e.matches,
         pc = "finish" => receipts'[e] > 0,
         \/ UNCHANGED receipts
         \/ /\ receipts' = [receipts EXCEPT ![e] = @ + 1]
            /\ e.genuine /\ e.kind = "push" /\ e.matches,
         \/ UNCHANGED answers
         \/ \E a \in Answers : /\ answers' = answers \cup {<<e, a>>}
                               /\ a = "accepted" => receipts'[e] > 0
  PROVE  IInv'
<1>0. receipts \in [Events -> Nat] /\ requests \in [Requests -> RequestType]
  BY DEF IInv, TypeOK
<1>1. receipts' \in [Events -> Nat] /\ \A f \in Events : receipts[f] > 0 => receipts'[f] > 0
  BY <1>0
<1>2. /\ requests' \in [Requests -> RequestType]
      /\ requests'[q].pc = pc /\ requests'[q].event = e
      /\ \A p \in Requests \ {q} : requests'[p] = requests[p]
  BY <1>0 DEF RequestType
<1>3. TypeOK'
  <2>1. entries' \in Seq(Ids)
    BY DEF CacheOK, Sound
  <2>2. answers' \subseteq Events \X Answers
    BY DEF IInv, TypeOK
  <2>. QED BY <1>1, <1>2, <2>1, <2>2 DEF IInv, TypeOK
<1>4. ReceiptsOK'
  BY DEF IInv, TypeOK, ReceiptsOK
<1>5. Checked'
  <2>1. ASSUME NEW p \in Requests \ {q}
        PROVE  /\ requests'[p] = requests[p]
               /\ requests[p].event \in Events
    BY <1>2 DEF IInv, TypeOK, RequestType
  <2>. QED BY <1>1, <1>2, <2>1 DEF IInv, Checked
<1>6. AcceptedIsRecorded'
  BY <1>1 DEF IInv, AcceptedIsRecorded
<1>. QED BY <1>3, <1>4, <1>5, <1>6 DEF IInv

\* Where no id is touched, cache and status stay sound.
LEMMA SameIds ==
  ASSUME IInv, UNCHANGED <<entries, lastId>>
  PROVE  CacheOK' /\ StatusOK' /\ lastId' \in [Hooks -> Ids \cup {NoId}]
BY DEF IInv, CacheOK, StatusOK, TypeOK, Sound, From

\* The status of a webhook only names ids of genuine events.
LEMMA StatusUpdate ==
  ASSUME IInv, NEW e \in Events, e.genuine, UpdateWebhookStatus(e)
  PROVE  StatusOK' /\ lastId' \in [Hooks -> Ids \cup {NoId}]
<1>1. e.id \in Ids \cup {NoId} /\ e.id \in GenuineIds
  BY ConstantsAssumption DEF EventType, GenuineIds
<1>. QED BY <1>1 DEF IInv, TypeOK, StatusOK, UpdateWebhookStatus

\* Each step of a request.
LEMMA ServeKeepsIInv ==
  ASSUME IInv, NEW q \in Requests, Serve(q)
  PROVE  IInv'
<1>. DEFINE e == requests[q].event
<1>0. /\ e \in Events /\ requests[q].pc \in Steps
      /\ budget \in BudgetType /\ receipts \in [Events -> Nat]
  BY DEF IInv, TypeOK, RequestType
<1>1. CASE Lookup(q)
  BY <1>0, <1>1, SameIds, StepKeepsIInv
     DEF Lookup, Goto, Answer, Event, Steps, Answers, Accepted
<1>2. CASE Verify(q)
  BY <1>0, <1>2, SameIds, StepKeepsIInv
     DEF Verify, Goto, Answer, Event, Steps, Answers, Accepted
<1>3. CASE Deduplicate(q)
  <2>1. requests[q].pc = "dedupe" /\ e.genuine
    BY <1>3 DEF Deduplicate, At, IInv, Checked
  <2>2. e.id \in GenuineIds /\ e.id \in Ids \cup {NoId}
    BY <1>0, <2>1, ConstantsAssumption DEF GenuineIds, EventType
  <2>3. CacheOK'
    <3>1. CASE UNCHANGED entries
      BY <3>1 DEF IInv, CacheOK, Sound, From
    <3>2. CASE e.id \in Remembered /\ entries' = Refresh(e.id)
      BY <3>2, RefreshKeeps DEF IInv, CacheOK, Sound, From
    <3>3. CASE e.id \in Ids \ Remembered /\ entries' = Remember(e.id)
      BY <2>2, <3>3, RememberKeeps DEF IInv, CacheOK, Sound, From
    <3>. QED BY <1>3, <3>1, <3>2, <3>3 DEF Deduplicate, Event
  <2>4. StatusOK' /\ lastId' \in [Hooks -> Ids \cup {NoId}]
    BY <1>3 DEF Deduplicate, IInv, TypeOK, StatusOK
  <2>. QED BY <1>0, <1>3, <2>1, <2>3, <2>4, StepKeepsIInv
           DEF Deduplicate, Goto, Answer, Event, Steps, Answers, Accepted
<1>4. CASE Dispatch(q)
  <2>1. requests[q].pc = "dispatch" /\ e.genuine
    BY <1>4 DEF Dispatch, At, IInv, Checked
  <2>2. CacheOK'
    BY <1>4 DEF Dispatch, IInv, CacheOK, Sound, From
  <2>3. StatusOK' /\ lastId' \in [Hooks -> Ids \cup {NoId}]
    <3>1. UpdateWebhookStatus(e) \/ UNCHANGED lastId
      BY <1>4 DEF Dispatch, Event
    <3>2. UpdateWebhookStatus(e)
      BY <3>1 DEF UpdateWebhookStatus
    <3>. QED BY <1>0, <2>1, <3>2, StatusUpdate
  <2>. QED BY <1>0, <1>4, <2>1, <2>2, <2>3, StepKeepsIInv
           DEF Dispatch, Goto, Answer, Event, Steps, Answers, Accepted
<1>5. CASE PatchReceipt(q)
  <2>1. e.genuine /\ e.kind = "push" /\ e.matches
    BY <1>5 DEF PatchReceipt, At, IInv, Checked
  <2>. QED BY <1>0, <1>5, <2>1, SameIds, StepKeepsIInv
           DEF PatchReceipt, Goto, Answer, Event, Steps, Answers, Accepted
<1>6. CASE Finish(q)
  <2>1. e.genuine /\ receipts[e] > 0
    BY <1>6 DEF Finish, At, IInv, Checked
  <2>2. CacheOK' /\ StatusOK' /\ lastId' \in [Hooks -> Ids \cup {NoId}]
    BY <1>0, <1>6, <2>1, StatusUpdate DEF Finish, Event, IInv, CacheOK, Sound, From
  <2>. QED BY <1>0, <1>6, <2>1, <2>2, StepKeepsIInv
           DEF Finish, Answer, Event, Steps, Answers, Accepted
<1>. QED BY <1>1, <1>2, <1>3, <1>4, <1>5, <1>6 DEF Serve

\* Spending within a bound keeps the type of the budget.
LEMMA SpendType ==
  ASSUME TypeOK,
         \/ budget.sends < MaxSends /\ Spend("sends")
         \/ budget.faults < MaxFaults /\ Spend("faults")
         \/ budget.expiries < MaxExpiries /\ Spend("expiries")
         \/ budget.edits < MaxEdits /\ Spend("edits")
  PROVE  budget' \in BudgetType
<1>1. /\ budget \in BudgetType /\ MaxSends \in Nat /\ MaxFaults \in Nat
      /\ MaxExpiries \in Nat /\ MaxEdits \in Nat
  BY ConstantsAssumption DEF TypeOK
<1>2. CASE budget.sends < MaxSends /\ Spend("sends")
  BY <1>1, <1>2 DEF Spend, BudgetType
<1>3. CASE budget.faults < MaxFaults /\ Spend("faults")
  BY <1>1, <1>3 DEF Spend, BudgetType
<1>4. CASE budget.expiries < MaxExpiries /\ Spend("expiries")
  BY <1>1, <1>4 DEF Spend, BudgetType
<1>5. CASE budget.edits < MaxEdits /\ Spend("edits")
  BY <1>1, <1>5 DEF Spend, BudgetType
<1>. QED BY <1>2, <1>3, <1>4, <1>5

\* Failed calls, deliveries, expiries, edits and restarts.
LEMMA EnvironmentKeepsIInv ==
  ASSUME IInv, Next, ~\E q \in Requests : Serve(q)
  PROVE  IInv'
<1>0. TypeOK
  BY DEF IInv
<1>1. ASSUME NEW q \in Requests, CallFails(q) PROVE IInv'
  <2>. DEFINE e == requests[q].event
  <2>1. e \in Events /\ receipts \in [Events -> Nat]
    BY DEF IInv, TypeOK, RequestType
  <2>2. requests[q].pc = "patch" => e.genuine /\ e.kind = "push" /\ e.matches
    BY DEF IInv, Checked
  <2>3. budget' \in BudgetType /\ CacheOK' /\ StatusOK'
        /\ lastId' \in [Hooks -> Ids \cup {NoId}]
    BY <1>0, <1>1, SpendType, SameIds DEF CallFails
  <2>4. /\ requests' = [requests EXCEPT ![q].pc = "idle"]
        /\ UNCHANGED <<hooks, found>>
        /\ answers' = answers \cup {<<e, "error">>}
        /\ \/ UNCHANGED receipts
           \/ /\ receipts' = [receipts EXCEPT ![e] = @ + 1]
              /\ requests[q].pc = "patch"
    BY <1>1 DEF CallFails, At, Answer, Event
  <2>5. "idle" \in Steps /\ "error" \in Answers
    BY DEF Steps, Answers
  <2>. HIDE DEF e
  <2>6. e = requests[q].event
    BY DEF e
  <2>7. /\ \/ UNCHANGED receipts
           \/ /\ receipts' = [receipts EXCEPT ![e] = @ + 1]
              /\ e.genuine /\ e.kind = "push" /\ e.matches
        /\ \E a \in Answers : /\ answers' = answers \cup {<<e, a>>}
                              /\ a = "accepted" => receipts'[e] > 0
    BY <2>2, <2>4, <2>5
  <2>. QED BY <2>1, <2>3, <2>4, <2>5, <2>6, <2>7, StepKeepsIInv
<1>2. ASSUME NEW q \in Requests, NEW e \in Events, Deliver(q, e) PROVE IInv'
  <2>1. /\ requests' \in [Requests -> RequestType]
        /\ requests'[q] = [pc |-> "lookup", event |-> e]
        /\ \A p \in Requests \ {q} : requests'[p] = requests[p]
        /\ budget' \in BudgetType
        /\ UNCHANGED <<hooks, found, entries, receipts, answers, lastId>>
    BY <1>0, <1>2, SpendType DEF Deliver, TypeOK, RequestType, Steps
  <2>2. TypeOK'
    BY <1>0, <2>1 DEF TypeOK
  <2>3. Checked'
    BY <2>1 DEF IInv, Checked
  <2>. QED BY <2>1, <2>2, <2>3
           DEF IInv, CacheOK, StatusOK, ReceiptsOK, AcceptedIsRecorded, Sound, From
<1>3. CASE Expire
  <2>1. CacheOK'
    <3>1. Sound(Tail(entries)) /\ From(Tail(entries), {entries[i] : i \in 1..Len(entries)})
      BY <1>3, TailKeeps DEF Expire, IInv, CacheOK
    <3>. QED BY <1>3, <3>1 DEF Expire, IInv, CacheOK, Sound, From
  <2>2. TypeOK'
    BY <1>0, <1>3, <2>1, SpendType DEF Expire, TypeOK, CacheOK, Sound
  <2>. QED BY <1>3, <2>1, <2>2
           DEF Expire, IInv, StatusOK, ReceiptsOK, Checked, AcceptedIsRecorded
<1>4. CASE (\E h \in Hooks, state \in HookStates : EditHook(h, state))
         \/ (\E h \in Hooks \cup {Legacy} : RepositoryChanges(h))
  <2>1. /\ hooks' \in [Hooks -> HookStates] /\ found' \in [Hooks \cup {Legacy} -> BOOLEAN]
        /\ budget' \in BudgetType
        /\ UNCHANGED <<entries, requests, receipts, answers, lastId>>
    BY <1>0, <1>4, SpendType DEF EditHook, RepositoryChanges, TypeOK
  <2>2. TypeOK'
    BY <1>0, <2>1 DEF TypeOK
  <2>. QED BY <2>1, <2>2
           DEF IInv, CacheOK, StatusOK, ReceiptsOK, Checked, AcceptedIsRecorded, Sound, From
<1>5. CASE Restart
  <2>1. /\ requests' \in [Requests -> RequestType]
        /\ \A q \in Requests : requests'[q].pc = "idle"
    BY <1>5, ConstantsAssumption DEF Restart, Waiting, RequestType, Steps
  <2>2. entries' = <<>> /\ entries' \in Seq(Ids) /\ Len(entries') = 0
    BY <1>5, EmptySeq DEF Restart
  <2>3. CacheOK'
    BY <2>2, ConstantsAssumption DEF CacheOK, Sound, From
  <2>4. TypeOK'
    BY <1>0, <1>5, <2>1, <2>2, SpendType DEF Restart, TypeOK
  <2>. QED BY <1>5, <2>1, <2>3, <2>4
           DEF Restart, IInv, StatusOK, ReceiptsOK, Checked, AcceptedIsRecorded
<1>. QED BY <1>1, <1>2, <1>3, <1>4, <1>5 DEF Next

\* The invariant is inductive.
THEOREM Invariance == Spec => []IInv
<1>1. IInv /\ [Next]_vars => IInv'
  <2>1. CASE IInv /\ UNCHANGED vars
    BY <2>1 DEF vars, IInv, TypeOK, CacheOK, StatusOK, ReceiptsOK, Checked,
                AcceptedIsRecorded, Sound, From
  <2>2. CASE IInv /\ Next
    BY <2>2, ServeKeepsIInv, EnvironmentKeepsIInv
  <2>. QED BY <2>1, <2>2
<1>. QED BY <1>1, InitIInv, PTL DEF Spec

\* The state of the receiver is always well formed.
THEOREM TypeCorrect == Spec => []TypeOK
<1>1. IInv => TypeOK
  BY DEF IInv
<1>. QED BY <1>1, Invariance, PTL

\* IsDuplicate never lets the delivery cache grow beyond maxEntries, and
\* never holds an id twice.
THEOREM CacheStaysBounded == Spec => []CacheBounded
<1>1. IInv => CacheBounded
  BY LenProperties DEF IInv, CacheOK, Sound, CacheBounded
<1>. QED BY <1>1, Invariance, PTL

\* A request that fails verification leaves no trace, whatever other requests
\* do at the same time.
THEOREM OnlyAuthentic == Spec => []OnlyAuthenticEvents
<1>1. IInv => OnlyAuthenticEvents
  BY LenProperties
     DEF IInv, CacheOK, StatusOK, ReceiptsOK, Sound, From, GenuineIds, Remembered,
         OnlyAuthenticEvents
<1>. QED BY <1>1, Invariance, PTL

\* "accepted" is the answer to an event that is recorded on its repository.
THEOREM AcceptedRecorded == Spec => []AcceptedIsRecorded
<1>1. IInv => AcceptedIsRecorded
  BY DEF IInv
<1>. QED BY <1>1, Invariance, PTL
=============================================================================
