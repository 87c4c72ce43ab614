------------------------- MODULE ServiceAccessProofs -------------------------
(***************************************************************************)
(* Proofs about ServiceClient, for every number of goroutines, clients and  *)
(* throttle settings, every authentication and document source and every    *)
(* number of calls, failures and ticks; and about BundleCache, for every    *)
(* set of references, archives, goroutines and processes and every bound;   *)
(* and about DefaultsProbe, for every collection and every bound.           *)
(*                                                                          *)
(* The inductive invariant of the client says who holds what, caller by     *)
(* caller: the stack of requests and the place in the current one determine *)
(* whether the caller holds the mutex of the document, the mutex of the     *)
(* token, a place in the queue and a slot.  Every step of a call replaces   *)
(* the record of the caller and the three things it may hold; MoveKeepsIInv *)
(* is the one lemma about such a step.                                      *)
(*                                                                          *)
(* That of the cache, BundleInv, says which entry of the lock table a       *)
(* worker refers to and when it holds it (Turns), and that a directory      *)
(* holds files of one archive that was offered for it, and all of them when *)
(* nobody is removing it (Wholeness); ReturnInv says what was returned and  *)
(* that a reference that resolved finds its directory as it was.            *)
(*                                                                          *)
(* That of the probes, ProbeInv, says that what the command remembers is a   *)
(* prefix of the probes in their order, what the service keeps of them, and  *)
(* that without an error it keeps no other.                                  *)
(***************************************************************************)
EXTENDS ServiceClient, BundleCache, DefaultsProbe, FiniteSetTheorems, SequenceTheorems, TLAPS

\* The stacks a call goes through: the resource, the document it may need, and
\* the token each of them may need; T alone is GetAccessToken.
R == <<"resource">>
RO == <<"resource", "openapi">>
T == <<"oauth2-token">>
RT == <<"resource", "oauth2-token">>
ROT == <<"resource", "openapi", "oauth2-token">>

\* Inside the current request, after authentication and locks.
InRequest == {"enter", "wait", "limit", "sent"}

\* The requests a call is in, by its place.
StackOK(r) ==
    /\ r.pc \in {"idle", "done"} => r.stack = <<>>
    /\ r.pc = "auth" => r.stack \in {R, RO}
    /\ r.pc = "lock" => r.stack \in {RO, T, RT, ROT}
    /\ r.pc \in InRequest => r.stack \in {R, RO, T, RT, ROT}

\* Under the mutex of the document: from its lock until the answer.
Loading(r) ==
    \/ r.stack = ROT
    \/ r.stack = RO /\ r.pc # "lock"

\* Under the mutex of the token: the request for it has begun.
Asking(r) == r.stack \in {T, RT, ROT} /\ r.pc \in InRequest

\* At the two places of the throttle, and the callers there for one setting.
Waits(r) == r.pc = "wait"
Out(r) == r.pc \in {"limit", "sent"}
AtWait(cfg) == {c \in Callers : Waits(caller[c]) /\ Cl(c).config = cfg}
AtOut(cfg) == {c \in Callers : Out(caller[c]) /\ Cl(c).config = cfg}

\* Every call has the stack of its place.
Stacks == \A c \in Callers : StackOK(caller[c])

\* The callers that load or ask are those that hold the mutex of their client.
MutexesHeld ==
    \A c \in Callers :
       /\ Loading(caller[c]) <=> Cl(c).openapiMu = c
       /\ Asking(caller[c]) <=> Cl(c).oauthMu = c

\* A mutex is held by a goroutine of its own client, and that of the token only
\* while the cached token is of no use.
MutexesOwn ==
    \A k \in Clients :
       /\ client[k].openapiMu # Nobody => ClientOf[client[k].openapiMu] = k
       /\ client[k].oauthMu # Nobody => ClientOf[client[k].oauthMu] = k
                                        /\ ~Fresh(client[k].token)

\* A gate holds exactly the callers that are in it, within its limit.
GatesHeld ==
    \A cfg \in Configs :
       /\ gates[cfg].queue = IF cfg.queue = 0 THEN {} ELSE AtWait(cfg)
       /\ gates[cfg].inFlight = IF cfg.max = 0 THEN {} ELSE AtOut(cfg)
       /\ cfg.max > 0 => Cardinality(gates[cfg].inFlight) <= cfg.max

\* The inductive invariant.
IInv == ClientTypeOK /\ Stacks /\ MutexesHeld /\ MutexesOwn /\ GatesHeld
        /\ ExistsIsTruth

-----------------------------------------------------------------------------
(* Stacks *)

\* The stacks are sequences of requests, with these last elements, remainders
\* and extensions.
LEMMA StackFacts ==
  /\ {<<>>, R, RO, T, RT, ROT} \subseteq Seq(Purposes)
  /\ Len(R) = 1 /\ R[1] = "resource"
  /\ Len(T) = 1 /\ T[1] = "oauth2-token"
  /\ Len(RO) = 2 /\ RO[2] = "openapi"
  /\ Len(RT) = 2 /\ RT[2] = "oauth2-token"
  /\ Len(ROT) = 3 /\ ROT[3] = "oauth2-token"
  /\ SubSeq(RO, 1, 1) = R /\ SubSeq(RT, 1, 1) = R /\ SubSeq(ROT, 1, 2) = RO
  /\ Append(R, "oauth2-token") = RT /\ Append(RO, "oauth2-token") = ROT
<1>1. {<<>>, R, RO, T, RT, ROT} \subseteq Seq(Purposes)
  BY DEF R, RO, T, RT, ROT, Purposes
<1>2. /\ Len(R) = 1 /\ R[1] = "resource"
      /\ Len(T) = 1 /\ T[1] = "oauth2-token"
      /\ Len(RO) = 2 /\ RO[1] = "resource" /\ RO[2] = "openapi"
      /\ Len(RT) = 2 /\ RT[1] = "resource" /\ RT[2] = "oauth2-token"
      /\ Len(ROT) = 3 /\ ROT[1] = "resource" /\ ROT[2] = "openapi"
      /\ ROT[3] = "oauth2-token"
  BY DEF R, RO, T, RT, ROT
<1>3. \A s \in {RO, RT} : SubSeq(s, 1, 1) = R
  <2>. SUFFICES ASSUME NEW s \in {RO, RT} PROVE SubSeq(s, 1, 1) = R
    OBVIOUS
  <2>1. s[1] = "resource" /\ R \in Seq(Purposes)
    BY <1>1, <1>2
  <2>2. \A i \in 1..1 : s[i] \in Purposes
    BY <2>1 DEF Purposes
  <2>3. /\ SubSeq(s, 1, 1) \in Seq(Purposes) /\ Len(SubSeq(s, 1, 1)) = 1
        /\ \A i \in 1..1 : SubSeq(s, 1, 1)[i] = s[1 + i - 1]
    BY <2>2, SubSeqProperties
  <2>4. SubSeq(s, 1, 1)[1] = "resource"
    BY <2>1, <2>3
  <2>. QED BY <1>2, <2>1, <2>3, <2>4, SeqEqual
<1>4. SubSeq(ROT, 1, 2) = RO
  <2>1. RO \in Seq(Purposes)
    BY <1>1
  <2>2. \A i \in 1..2 : ROT[i] \in Purposes
    BY <1>2 DEF Purposes
  <2>3. /\ SubSeq(ROT, 1, 2) \in Seq(Purposes) /\ Len(SubSeq(ROT, 1, 2)) = 2
        /\ \A i \in 1..2 : SubSeq(ROT, 1, 2)[i] = ROT[1 + i - 1]
    BY <2>2, SubSeqProperties
  <2>4. SubSeq(ROT, 1, 2)[1] = "resource" /\ SubSeq(ROT, 1, 2)[2] = "openapi"
    BY <1>2, <2>3
  <2>5. \A i \in 1..2 : i = 1 \/ i = 2
    OBVIOUS
  <2>. QED BY <1>2, <2>1, <2>3, <2>4, <2>5, SeqEqual
<1>5. Append(R, "oauth2-token") = RT
  <2>1. R \in Seq(Purposes) /\ RT \in Seq(Purposes) /\ "oauth2-token" \in Purposes
    BY <1>1 DEF Purposes
  <2>a. /\ Append(R, "oauth2-token") \in Seq(Purposes)
        /\ Len(Append(R, "oauth2-token")) = Len(R) + 1
        /\ \A i \in 1..Len(R) : Append(R, "oauth2-token")[i] = R[i]
        /\ Append(R, "oauth2-token")[Len(R) + 1] = "oauth2-token"
    BY <2>1, AppendProperties
  <2>2. /\ Append(R, "oauth2-token") \in Seq(Purposes)
        /\ Len(Append(R, "oauth2-token")) = 2
        /\ Append(R, "oauth2-token")[1] = "resource"
        /\ Append(R, "oauth2-token")[2] = "oauth2-token"
    BY <1>2, <2>a
  <2>3. \A i \in 1..2 : i = 1 \/ i = 2
    OBVIOUS
  <2>. QED BY <1>2, <2>1, <2>2, <2>3, SeqEqual
<1>6. Append(RO, "oauth2-token") = ROT
  <2>1. RO \in Seq(Purposes) /\ ROT \in Seq(Purposes) /\ "oauth2-token" \in Purposes
    BY <1>1 DEF Purposes
  <2>a. /\ Append(RO, "oauth2-token") \in Seq(Purposes)
        /\ Len(Append(RO, "oauth2-token")) = Len(RO) + 1
        /\ \A i \in 1..Len(RO) : Append(RO, "oauth2-token")[i] = RO[i]
        /\ Append(RO, "oauth2-token")[Len(RO) + 1] = "oauth2-token"
    BY <2>1, AppendProperties
  <2>2. /\ Append(RO, "oauth2-token") \in Seq(Purposes)
        /\ Len(Append(RO, "oauth2-token")) = 3
        /\ Append(RO, "oauth2-token")[1] = "resource"
        /\ Append(RO, "oauth2-token")[2] = "openapi"
        /\ Append(RO, "oauth2-token")[3] = "oauth2-token"
    BY <1>2, <2>a
  <2>3. \A i \in 1..3 : i = 1 \/ i = 2 \/ i = 3
    OBVIOUS
  <2>. QED BY <1>2, <2>1, <2>2, <2>3, SeqEqual
<1>. QED BY <1>1, <1>2, <1>3, <1>4, <1>5, <1>6

\* No two of the stacks are equal.
LEMMA StacksDiffer ==
  /\ R # RO /\ R # T /\ R # RT /\ R # ROT /\ RO # T /\ RO # RT /\ RO # ROT
  /\ T # RT /\ T # ROT /\ RT # ROT
  /\ <<>> # R /\ <<>> # RO /\ <<>> # T /\ <<>> # RT /\ <<>> # ROT
BY DEF R, RO, T, RT, ROT

-----------------------------------------------------------------------------
(* A step of one call *)

\* The holder of a mutex after a step of c.
Passed(holds, c, mu) == IF holds THEN c ELSE IF mu = c THEN Nobody ELSE mu

\* The callers in some place of the gate after a step of c.
Placed(there, c, S) == (S \ {c}) \cup (IF there THEN {c} ELSE {})

\* Caller c goes on as n, its client as m and its gate as g, and holds what its
\* new place requires.
CallerPart(c, n) ==
    /\ caller' = [caller EXCEPT ![c] = n]
    /\ n \in CallerType /\ StackOK(n) /\ (n.result = "false" => n.absent)

ClientPart(c, n, m) ==
    /\ client' = [client EXCEPT ![ClientOf[c]] = m]
    /\ m \in ClientState /\ m.config = Cl(c).config
    /\ m.openapiMu = Passed(Loading(n), c, Cl(c).openapiMu)
    /\ m.oauthMu = Passed(Asking(n), c, Cl(c).oauthMu)
    /\ Loading(n) => Cl(c).openapiMu \in {c, Nobody}
    /\ Asking(n) => Cl(c).oauthMu \in {c, Nobody}
    /\ m.oauthMu # Nobody => ~Fresh(m.token)

GatePart(c, n, g) ==
    /\ gates' = [gates EXCEPT ![Cl(c).config] = g]
    /\ g \in GateType /\ g.bucket <= BurstOf(Cl(c).config)
    /\ g.queue = Placed(Waits(n) /\ Cl(c).config.queue > 0, c, Gate(c).queue)
    /\ g.inFlight = Placed(Out(n) /\ Cl(c).config.max > 0, c, Gate(c).inFlight)
    /\ Out(n) => Out(caller[c]) \/ SlotFree(c)

OtherPart ==
    /\ clock' = clock /\ server' \in ServerType
    /\ budget' \in [calls : 0..MaxCalls, faults : 0..MaxFaults]

Move(c, n, m, g) ==
    CallerPart(c, n) /\ ClientPart(c, n, m) /\ GatePart(c, n, g) /\ OtherPart

\* Typing of a caller, its client and its gate.
LEMMA CallerFacts ==
  ASSUME ClientTypeOK, NEW c \in Callers
  PROVE  /\ caller[c] \in CallerType /\ ClientOf[c] \in Clients
         /\ Cl(c) \in ClientState /\ Cl(c).config \in Configs
         /\ Gate(c) \in GateType /\ Cl(c).config \in ConfigType
         /\ Gate(c).bucket <= BurstOf(Cl(c).config)
<1>1. caller[c] \in CallerType /\ ClientOf[c] \in Clients
  BY ClientAssumption DEF ClientTypeOK
<1>2. Cl(c) \in ClientState
  BY <1>1 DEF ClientTypeOK, Cl
<1>3. Cl(c).config \in Configs
  BY <1>2 DEF ClientState
<1>. QED BY <1>1, <1>2, <1>3, ClientAssumption DEF ClientTypeOK, Gate

\* A step of one call keeps the invariant.
LEMMA MoveKeepsIInv ==
  ASSUME IInv, NEW c \in Callers, NEW n, NEW m, NEW g,
         Move(c, n, m, g)
  PROVE  IInv'
<1>. DEFINE k == ClientOf[c]
            cfg == Cl(c).config
<1>1. /\ ClientTypeOK /\ Stacks /\ MutexesHeld /\ MutexesOwn /\ GatesHeld
      /\ ExistsIsTruth
  BY DEF IInv
<1>2. /\ caller[c] \in CallerType /\ k \in Clients /\ cfg \in Configs
      /\ client[k] = Cl(c) /\ client[k] \in ClientState /\ cfg \in ConfigType
      /\ gates[cfg] = Gate(c) /\ gates[cfg] \in GateType
  BY <1>1, CallerFacts DEF Cl, Gate
<1>3. /\ caller'[c] = n /\ \A d \in Callers : d # c => caller'[d] = caller[d]
      /\ caller' \in [Callers -> CallerType]
  BY <1>1 DEF Move, CallerPart, ClientPart, GatePart, OtherPart, ClientTypeOK
<1>4. /\ client'[k] = m /\ \A l \in Clients : l # k => client'[l] = client[l]
      /\ client' \in [Clients -> ClientState]
  BY <1>1, <1>2 DEF Move, CallerPart, ClientPart, GatePart, OtherPart, ClientTypeOK
<1>5. /\ gates'[cfg] = g /\ \A d \in Configs : d # cfg => gates'[d] = gates[d]
      /\ gates' \in [Configs -> GateType]
  BY <1>1, <1>2 DEF Move, CallerPart, ClientPart, GatePart, OtherPart, ClientTypeOK
<1>6. /\ ClientOf \in [Callers -> Clients] /\ Nobody \notin Callers
      /\ IsFiniteSet(Callers) /\ Configs \subseteq ConfigType
  BY ClientAssumption
<1>7. ClientTypeOK'
  BY <1>1, <1>3, <1>4, <1>5 DEF Move, CallerPart, ClientPart, GatePart, OtherPart, ClientTypeOK, BurstOf
<1>8. Stacks'
  BY <1>1, <1>3 DEF Move, CallerPart, ClientPart, GatePart, OtherPart, Stacks
<1>9. ExistsIsTruth'
  BY <1>1, <1>3 DEF Move, CallerPart, ClientPart, GatePart, OtherPart, ExistsIsTruth
<1>10. MutexesHeld'
  <2>. SUFFICES ASSUME NEW d \in Callers
                PROVE  /\ Loading(caller'[d]) <=> client'[ClientOf[d]].openapiMu = d
                       /\ Asking(caller'[d]) <=> client'[ClientOf[d]].oauthMu = d
    BY DEF MutexesHeld, Cl, Loading, Asking
  <2>1. /\ Loading(caller[d]) <=> client[ClientOf[d]].openapiMu = d
        /\ Asking(caller[d]) <=> client[ClientOf[d]].oauthMu = d
    BY <1>1 DEF MutexesHeld, Cl
  <2>2. CASE d = c
    BY <1>2, <1>3, <1>4, <1>6, <2>2 DEF Move, CallerPart, ClientPart, GatePart, OtherPart, Passed
  <2>3. CASE d # c /\ ClientOf[d] # k
    BY <1>3, <1>4, <1>6, <2>1, <2>3
  <2>4. CASE d # c /\ ClientOf[d] = k
    <3>1. m.openapiMu = d <=> client[k].openapiMu = d
      BY <1>2, <1>6, <2>4 DEF Move, CallerPart, ClientPart, GatePart, OtherPart, Passed
    <3>2. m.oauthMu = d <=> client[k].oauthMu = d
      BY <1>2, <1>6, <2>4 DEF Move, CallerPart, ClientPart, GatePart, OtherPart, Passed
    <3>. QED BY <1>3, <1>4, <2>1, <2>4, <3>1, <3>2
  <2>. QED BY <2>2, <2>3, <2>4
<1>11. MutexesOwn'
  <2>. SUFFICES ASSUME NEW l \in Clients
       PROVE  /\ client'[l].openapiMu # Nobody => ClientOf[client'[l].openapiMu] = l
              /\ client'[l].oauthMu # Nobody => /\ ClientOf[client'[l].oauthMu] = l
                                               /\ ~Fresh(client'[l].token)
    BY DEF MutexesOwn, Fresh, Move, ClientPart, OtherPart
  <2>1. CASE l # k
    BY <1>1, <1>4, <2>1 DEF MutexesOwn, Fresh, Move, ClientPart, OtherPart
  <2>2. CASE l = k
    BY <1>1, <1>2, <1>4, <2>2 DEF MutexesOwn, Fresh, Move, ClientPart, OtherPart, Passed
  <2>. QED BY <2>1, <2>2
<1>12. \A d \in Callers : client'[ClientOf[d]].config = client[ClientOf[d]].config
  BY <1>2, <1>4, <1>6 DEF Move, CallerPart, ClientPart, GatePart, OtherPart
<1>13. GatesHeld'
  <2>. SUFFICES ASSUME NEW x \in Configs
       PROVE  /\ gates'[x].queue = IF x.queue = 0 THEN {} ELSE AtWait(x)'
              /\ gates'[x].inFlight = IF x.max = 0 THEN {} ELSE AtOut(x)'
              /\ x.max > 0 => Cardinality(gates'[x].inFlight) <= x.max
    BY DEF GatesHeld
  <2>1. /\ gates[x].queue = IF x.queue = 0 THEN {} ELSE AtWait(x)
        /\ gates[x].inFlight = IF x.max = 0 THEN {} ELSE AtOut(x)
        /\ x.max > 0 => Cardinality(gates[x].inFlight) <= x.max
    BY <1>1 DEF GatesHeld
  <2>2. x.queue \in Nat /\ x.max \in Nat
    BY <1>6 DEF ConfigType
  <2>3. /\ AtWait(x)' = {d \in Callers : Waits(caller'[d]) /\ client[ClientOf[d]].config = x}
        /\ AtOut(x)' = {d \in Callers : Out(caller'[d]) /\ client[ClientOf[d]].config = x}
        /\ AtWait(x) = {d \in Callers : Waits(caller[d]) /\ client[ClientOf[d]].config = x}
        /\ AtOut(x) = {d \in Callers : Out(caller[d]) /\ client[ClientOf[d]].config = x}
    BY <1>12 DEF AtWait, AtOut, Cl, Waits, Out
  <2>4. CASE x # cfg
    <3>1. AtWait(x)' = AtWait(x) /\ AtOut(x)' = AtOut(x)
      BY <1>2, <1>3, <2>3, <2>4
    <3>. QED BY <1>5, <2>1, <2>4, <3>1
  <2>5. CASE x = cfg
    <3>1. g.queue = IF x.queue = 0 THEN {} ELSE AtWait(x)'
      BY <1>2, <1>3, <2>1, <2>2, <2>3, <2>5 DEF Move, CallerPart, ClientPart, GatePart, OtherPart, Placed
    <3>2. g.inFlight = IF x.max = 0 THEN {} ELSE AtOut(x)'
      BY <1>2, <1>3, <2>1, <2>2, <2>3, <2>5 DEF Move, CallerPart, ClientPart, GatePart, OtherPart, Placed
    <3>3. ASSUME x.max > 0 PROVE Cardinality(g.inFlight) <= x.max
      <4>1. IsFiniteSet(gates[x].inFlight) /\ gates[x].inFlight \subseteq Callers
        BY <1>2, <1>6, <2>5, FS_Subset DEF GateType
      <4>2. Cardinality(gates[x].inFlight) \in Nat
        BY <4>1, FS_CardinalityType
      <4>3. CASE Out(n) /\ ~Out(caller[c])
        <5>1. Cardinality(gates[x].inFlight) < x.max
          BY <1>2, <2>2, <2>5, <3>3, <4>3 DEF Move, CallerPart, ClientPart, GatePart, OtherPart, SlotFree
        <5>2. c \notin gates[x].inFlight
          BY <2>1, <2>3, <4>3
        <5>3. g.inFlight = gates[x].inFlight \cup {c}
          BY <1>2, <2>5, <3>3, <4>3, <5>2 DEF Move, CallerPart, ClientPart, GatePart, OtherPart, Placed
        <5>4. Cardinality(g.inFlight) = Cardinality(gates[x].inFlight) + 1
          BY <4>1, <5>2, <5>3, FS_AddElement
        <5>. QED BY <2>2, <4>2, <5>1, <5>4
      <4>4. CASE ~Out(n) \/ Out(caller[c])
        <5>1. g.inFlight \subseteq gates[x].inFlight
          BY <1>2, <2>1, <2>3, <2>5, <3>3, <4>4 DEF Move, CallerPart, ClientPart, GatePart, OtherPart, Placed
        <5>2. Cardinality(g.inFlight) <= Cardinality(gates[x].inFlight)
              /\ Cardinality(g.inFlight) \in Nat
          BY <4>1, <5>1, FS_Subset, FS_CardinalityType
        <5>. QED BY <2>1, <2>2, <3>3, <4>2, <5>2
      <4>. QED BY <4>3, <4>4
    <3>. QED BY <1>5, <2>5, <3>1, <3>2, <3>3
  <2>. QED BY <2>4, <2>5
<1>. QED BY <1>7, <1>8, <1>9, <1>10, <1>11, <1>13 DEF IInv

-----------------------------------------------------------------------------
(* What a caller knows *)

\* The request on top of the stack, by the stack.
LEMMA TopFacts ==
  ASSUME NEW c \in Callers, caller[c].stack \in {R, RO, T, RT, ROT}
  PROVE  /\ Top(c) = "resource" <=> caller[c].stack = R
         /\ Top(c) = "openapi" <=> caller[c].stack = RO
         /\ Top(c) = "oauth2-token" <=> caller[c].stack \in {T, RT, ROT}
         /\ Len(caller[c].stack) = 1 <=> caller[c].stack \in {R, T}
         /\ caller[c].stack \in {RO, RT} => Popped(c) = R
         /\ caller[c].stack = ROT => Popped(c) = RO
<1>1. CASE caller[c].stack = R
  BY <1>1, StackFacts, StacksDiffer DEF Top
<1>2. CASE caller[c].stack = RO
  BY <1>2, StackFacts, StacksDiffer DEF Top, Popped
<1>3. CASE caller[c].stack = T
  BY <1>3, StackFacts, StacksDiffer DEF Top
<1>4. CASE caller[c].stack = RT
  BY <1>4, StackFacts, StacksDiffer DEF Top, Popped
<1>5. CASE caller[c].stack = ROT
  BY <1>5, StackFacts, StacksDiffer DEF Top, Popped
<1>. QED BY <1>1, <1>2, <1>3, <1>4, <1>5

\* What a caller holds, by its place.
LEMMA HeldFacts ==
  ASSUME IInv, NEW c \in Callers
  PROVE  /\ StackOK(caller[c]) /\ (caller[c].result = "false" => caller[c].absent)
         /\ Cl(c).openapiMu = c <=> Loading(caller[c])
         /\ Cl(c).oauthMu = c <=> Asking(caller[c])
         /\ Cl(c).oauthMu # Nobody => ~Fresh(Cl(c).token)
         /\ c \in Gate(c).queue <=> Waits(caller[c]) /\ Cl(c).config.queue > 0
         /\ c \in Gate(c).inFlight <=> Out(caller[c]) /\ Cl(c).config.max > 0
<1>1. /\ ClientOf[c] \in Clients /\ Cl(c).config \in Configs
      /\ Cl(c).config.queue \in Nat /\ Cl(c).config.max \in Nat
  BY CallerFacts DEF IInv, ConfigType
<1>2. /\ StackOK(caller[c]) /\ (caller[c].result = "false" => caller[c].absent)
      /\ Cl(c).openapiMu = c <=> Loading(caller[c])
      /\ Cl(c).oauthMu = c <=> Asking(caller[c])
      /\ Cl(c).oauthMu # Nobody => ~Fresh(Cl(c).token)
  BY <1>1 DEF IInv, Stacks, ExistsIsTruth, MutexesHeld, MutexesOwn, Cl
<1>3. /\ Gate(c).queue = IF Cl(c).config.queue = 0 THEN {} ELSE AtWait(Cl(c).config)
      /\ Gate(c).inFlight = IF Cl(c).config.max = 0 THEN {} ELSE AtOut(Cl(c).config)
  BY <1>1 DEF IInv, GatesHeld, Gate
<1>. QED BY <1>1, <1>2, <1>3 DEF AtWait, AtOut

\* The gate is left alone by a caller that keeps its place in it.
LEMMA GateKept ==
  ASSUME IInv, NEW c \in Callers, NEW n, gates' = gates,
         Waits(n) <=> Waits(caller[c]), Out(n) <=> Out(caller[c])
  PROVE  GatePart(c, n, Gate(c))
<1>1. gates \in [Configs -> GateType] /\ Cl(c).config \in Configs
      /\ Gate(c) \in GateType /\ Gate(c).bucket <= BurstOf(Cl(c).config)
  BY CallerFacts DEF IInv, ClientTypeOK
<1>2. gates' = [gates EXCEPT ![Cl(c).config] = Gate(c)]
  BY <1>1 DEF Gate
<1>. QED BY <1>1, <1>2, HeldFacts DEF GatePart, Placed

\* A caller that ends its request gives back what it has of the gate.
LEMMA GateReleased ==
  ASSUME IInv, NEW c \in Callers, NEW n, gates' = Released(c),
         ~Waits(n), ~Out(n)
  PROVE  GatePart(c, n, [Gate(c) EXCEPT !.queue = @ \ {c}, !.inFlight = @ \ {c}])
<1>. DEFINE g == [Gate(c) EXCEPT !.queue = @ \ {c}, !.inFlight = @ \ {c}]
<1>1. gates \in [Configs -> GateType] /\ Cl(c).config \in Configs
      /\ Gate(c) \in GateType /\ Gate(c).bucket <= BurstOf(Cl(c).config)
  BY CallerFacts DEF IInv, ClientTypeOK
<1>2. gates' = [gates EXCEPT ![Cl(c).config] = g]
  BY <1>1 DEF Gate, Released
<1>3. g \in GateType /\ g.bucket = Gate(c).bucket /\ g.queue = Gate(c).queue \ {c}
      /\ g.inFlight = Gate(c).inFlight \ {c}
  BY <1>1 DEF GateType
<1>. QED BY <1>1, <1>2, <1>3 DEF GatePart, Placed

\* The client is left alone by a caller that keeps its mutexes.
LEMMA ClientKept ==
  ASSUME IInv, NEW c \in Callers, NEW n, client' = client,
         Loading(n) <=> Loading(caller[c]), Asking(n) <=> Asking(caller[c])
  PROVE  ClientPart(c, n, Cl(c))
<1>1. client \in [Clients -> ClientState] /\ ClientOf[c] \in Clients /\ Cl(c) \in ClientState
  BY CallerFacts DEF IInv, ClientTypeOK
<1>2. client' = [client EXCEPT ![ClientOf[c]] = Cl(c)]
  BY <1>1 DEF Cl
<1>. QED BY <1>1, <1>2, HeldFacts DEF ClientPart, Passed

\* A caller that ends its call unlocks what it has locked.
LEMMA ClientUnlocked ==
  ASSUME IInv, NEW c \in Callers, NEW n, client' = Unlocked(c),
         ~Loading(n), ~Asking(n)
  PROVE  \E m : ClientPart(c, n, m)
<1>. DEFINE m == [Cl(c) EXCEPT !.oauthMu = IF @ = c THEN Nobody ELSE @,
                               !.openapiMu = IF @ = c THEN Nobody ELSE @]
<1>1. client \in [Clients -> ClientState] /\ ClientOf[c] \in Clients /\ Cl(c) \in ClientState
  BY CallerFacts DEF IInv, ClientTypeOK
<1>2. client' = [client EXCEPT ![ClientOf[c]] = m]
  BY <1>1 DEF Cl, Unlocked
<1>3. /\ m \in ClientState /\ m.config = Cl(c).config /\ m.token = Cl(c).token
      /\ m.openapiMu = IF Cl(c).openapiMu = c THEN Nobody ELSE Cl(c).openapiMu
      /\ m.oauthMu = IF Cl(c).oauthMu = c THEN Nobody ELSE Cl(c).oauthMu
  BY <1>1 DEF ClientState
<1>4. ClientPart(c, n, m)
  BY <1>2, <1>3, HeldFacts DEF ClientPart, Passed
<1>. QED BY <1>4

-----------------------------------------------------------------------------
(* The steps of a call *)

\* A call that ends, with whatever result, keeps the invariant.
LEMMA FinishKeepsIInv ==
  ASSUME IInv, NEW c \in Callers, NEW result \in Categories,
         NEW cause \in {"", "full", "answer", "other"}, NEW absent \in BOOLEAN,
         Finish(c, result, cause, absent), result = "false" => absent,
         client' = Unlocked(c), OtherPart
  PROVE  IInv'
<1>. DEFINE n == [Idle EXCEPT !.op = caller[c].op, !.pc = "done", !.result = result,
                              !.cause = cause, !.absent = absent]
<1>1. caller[c].op \in Ops
  BY CallerFacts DEF IInv, CallerType
<1>2. <<>> \in Seq(Purposes)
  BY StackFacts
<1>3. /\ n \in CallerType /\ n.pc = "done" /\ n.stack = <<>>
      /\ n.result = result /\ n.absent = absent
  BY <1>1, <1>2 DEF Idle, CallerType
<1>. HIDE DEF n
<1>4. CallerPart(c, n)
  BY <1>3 DEF Finish, CallerPart, StackOK, InRequest, n
<1>5. ~Waits(n) /\ ~Out(n) /\ ~Loading(n) /\ ~Asking(n)
  BY <1>3, StacksDiffer DEF Waits, Out, Loading, Asking, InRequest
<1>6. \E g : GatePart(c, n, g)
  BY <1>5, GateReleased DEF Finish
<1>7. \E m : ClientPart(c, n, m)
  BY <1>5, ClientUnlocked
<1>. QED BY <1>4, <1>6, <1>7, MoveKeepsIInv DEF Move

\* A call that fails keeps the invariant.
LEMMA FailKeepsIInv ==
  ASSUME IInv, NEW c \in Callers, NEW result \in Categories \ {"false"},
         NEW cause \in {"", "full", "answer", "other"}, Fail(c, result, cause), OtherPart
  PROVE  IInv'
BY FinishKeepsIInv DEF Fail

\* The rest of the state is left alone, or one use or fault is spent.
LEMMA OtherFacts ==
  ASSUME IInv, server' = server, clock' = clock,
         \/ budget' = budget
         \/ budget.calls > 0 /\ budget' = [budget EXCEPT !.calls = @ - 1]
         \/ budget.faults > 0 /\ budget' = [budget EXCEPT !.faults = @ - 1]
  PROVE  OtherPart
<1>1. server \in ServerType /\ budget \in [calls : 0..MaxCalls, faults : 0..MaxFaults]
      /\ MaxCalls \in Nat /\ MaxFaults \in Nat
  BY ClientAssumption DEF IInv, ClientTypeOK
<1>. QED BY <1>1 DEF OtherPart

\* A call begins.
LEMMA CallKeepsIInv ==
  ASSUME IInv, NEW c \in Callers, NEW op \in Ops, Call(c, op)
  PROVE  IInv'
<1>. DEFINE n == IF op = "token" THEN GetAccessToken(c) ELSE BuildRequestFromMetadata(c, op)
<1>1. /\ n \in CallerType /\ n.result = ""
      /\ \/ n.stack = T /\ n.pc = "lock"
         \/ n.stack = R /\ n.pc = "auth"
         \/ n.stack = RO /\ n.pc = "lock"
  <2>1. CASE op = "token"
    BY <2>1, StackFacts DEF GetAccessToken, Idle, CallerType, Ops, Categories, T
  <2>2. CASE op # "token" /\ OpenAPISource = "none"
    BY <2>2, StackFacts DEF BuildRequestFromMetadata, Idle, CallerType, Ops, Categories, R
  <2>3. CASE op # "token" /\ OpenAPISource # "none"
    BY <2>3, StackFacts DEF BuildRequestFromMetadata, Idle, CallerType, Ops, Categories, RO
  <2>. QED BY <2>1, <2>2, <2>3
<1>2. CallerPart(c, n)
  BY <1>1 DEF Call, CallerPart, StackOK, InRequest
<1>. HIDE DEF n
<1>3. ~Waits(n) /\ ~Out(n) /\ ~Loading(n) /\ ~Asking(n)
  BY <1>1, StacksDiffer DEF Waits, Out, Loading, Asking, InRequest
<1>4. /\ ~Waits(caller[c]) /\ ~Out(caller[c]) /\ ~Loading(caller[c])
      /\ ~Asking(caller[c])
  BY HeldFacts, StacksDiffer
     DEF Call, Busy, StackOK, Waits, Out, Loading, Asking, InRequest
<1>5. GatePart(c, n, Gate(c)) /\ ClientPart(c, n, Cl(c))
  BY <1>3, <1>4, GateKept, ClientKept DEF Call
<1>. QED BY <1>2, <1>5, OtherFacts, MoveKeepsIInv DEF Move, Call

\* BuildRequestFromMetadata refuses the payload.
LEMMA RefusePayloadKeepsIInv ==
  ASSUME IInv, NEW c \in Callers, RefusePayload(c)
  PROVE  IInv'
BY FailKeepsIInv, OtherFacts DEF RefusePayload, Categories

\* openAPIDocument: the document is there, cannot be had, or is asked for under
\* the mutex.
LEMMA OpenAPIDocumentKeepsIInv ==
  ASSUME IInv, NEW c \in Callers, OpenAPIDocument(c)
  PROVE  IInv'
<1>1. /\ caller[c] \in CallerType /\ Cl(c) \in ClientState
      /\ client \in [Clients -> ClientState] /\ ClientOf[c] \in Clients
      /\ caller \in [Callers -> CallerType]
  BY CallerFacts DEF IInv, ClientTypeOK
<1>2. /\ caller[c].stack = RO /\ caller[c].pc = "lock" /\ Popped(c) = R
      /\ caller[c].result = "false" => caller[c].absent
  BY HeldFacts, TopFacts, StacksDiffer DEF OpenAPIDocument, StackOK
<1>3. /\ ~Waits(caller[c]) /\ ~Out(caller[c]) /\ ~Loading(caller[c])
      /\ ~Asking(caller[c])
  BY <1>2, StacksDiffer DEF Waits, Out, Loading, Asking, InRequest
<1>4. OtherPart
  BY OtherFacts DEF OpenAPIDocument
<1>5. CASE /\ client' = [client EXCEPT ![ClientOf[c]].loaded = TRUE]
           /\ caller' = [caller EXCEPT ![c].stack = Popped(c), ![c].pc = "auth"]
           /\ UNCHANGED gates
  <2>. DEFINE n == [caller[c] EXCEPT !.stack = R, !.pc = "auth"]
              m == [Cl(c) EXCEPT !.loaded = TRUE]
  <2>1. /\ n \in CallerType /\ n.stack = R /\ n.pc = "auth"
        /\ n.result = caller[c].result /\ n.absent = caller[c].absent
    BY <1>1, StackFacts DEF CallerType
  <2>2. caller' = [caller EXCEPT ![c] = n]
    BY <1>1, <1>2, <1>5
  <2>3. /\ m \in ClientState /\ m.config = Cl(c).config /\ m.token = Cl(c).token
        /\ m.openapiMu = Cl(c).openapiMu /\ m.oauthMu = Cl(c).oauthMu
    BY <1>1 DEF ClientState
  <2>4. client' = [client EXCEPT ![ClientOf[c]] = m]
    BY <1>1, <1>5 DEF Cl
  <2>. HIDE DEF n, m
  <2>5. ~Waits(n) /\ ~Out(n) /\ ~Loading(n) /\ ~Asking(n)
    BY <2>1, StacksDiffer DEF Waits, Out, Loading, Asking, InRequest
  <2>6. CallerPart(c, n)
    BY <1>2, <2>1, <2>2 DEF CallerPart, StackOK, InRequest
  <2>7. ClientPart(c, n, m)
    BY <1>3, <2>3, <2>4, <2>5, HeldFacts DEF ClientPart, Passed
  <2>8. GatePart(c, n, Gate(c))
    BY <1>3, <1>5, <2>5, GateKept
  <2>. QED BY <1>4, <2>6, <2>7, <2>8, MoveKeepsIInv DEF Move
<1>6. CASE Fail(c, "NotFoundError", "other")
  BY <1>4, <1>6, FailKeepsIInv DEF Categories
<1>7. CASE /\ client' = [client EXCEPT ![ClientOf[c]].openapiMu = c]
           /\ caller' = [caller EXCEPT ![c].pc =
                 IF OpenAPISource = "sameOrigin" THEN "auth" ELSE "enter"]
           /\ UNCHANGED gates
  <2>. DEFINE pc == IF OpenAPISource = "sameOrigin" THEN "auth" ELSE "enter"
              n == [caller[c] EXCEPT !.pc = pc]
              m == [Cl(c) EXCEPT !.openapiMu = c]
  <2>1. /\ n \in CallerType /\ n.stack = RO /\ n.pc \in {"auth", "enter"}
        /\ n.result = caller[c].result /\ n.absent = caller[c].absent
    BY <1>1, <1>2 DEF CallerType
  <2>2. caller' = [caller EXCEPT ![c] = n]
    BY <1>1, <1>7
  <2>3. /\ m \in ClientState /\ m.config = Cl(c).config /\ m.token = Cl(c).token
        /\ m.openapiMu = c /\ m.oauthMu = Cl(c).oauthMu
    BY <1>1 DEF ClientState
  <2>4. client' = [client EXCEPT ![ClientOf[c]] = m]
    BY <1>1, <1>7 DEF Cl
  <2>. HIDE DEF n, m
  <2>5. ~Waits(n) /\ ~Out(n) /\ Loading(n) /\ ~Asking(n)
    BY <2>1, StacksDiffer DEF Waits, Out, Loading, Asking, InRequest
  <2>6. CallerPart(c, n)
    BY <1>2, <2>1, <2>2 DEF CallerPart, StackOK, InRequest
  <2>7. ClientPart(c, n, m)
    BY <1>3, <2>3, <2>4, <2>5, HeldFacts DEF ClientPart, Passed, OpenAPIDocument
  <2>8. GatePart(c, n, Gate(c))
    BY <1>3, <1>7, <2>5, GateKept
  <2>. QED BY <1>4, <2>6, <2>7, <2>8, MoveKeepsIInv DEF Move
<1>. QED BY <1>5, <1>6, <1>7 DEF OpenAPIDocument

\* applyAuth: a token is needed, or the credentials are at hand.
LEMMA ApplyAuthKeepsIInv ==
  ASSUME IInv, NEW c \in Callers, ApplyAuth(c)
  PROVE  IInv'
<1>1. caller[c] \in CallerType /\ caller \in [Callers -> CallerType]
  BY CallerFacts DEF IInv, ClientTypeOK
<1>2. /\ caller[c].stack \in {R, RO} /\ caller[c].pc = "auth"
      /\ caller[c].result = "false" => caller[c].absent
  BY HeldFacts DEF ApplyAuth, StackOK
<1>. DEFINE n == IF AuthMode = "oauth2"
                 THEN [caller[c] EXCEPT !.stack = Append(@, "oauth2-token"), !.pc = "lock"]
                 ELSE [caller[c] EXCEPT !.pc = "enter"]
<1>3. /\ n \in CallerType
      /\ \/ n.pc = "lock" /\ ((caller[c].stack = R /\ n.stack = RT) \/ (caller[c].stack = RO /\ n.stack = ROT))
         \/ n.pc = "enter" /\ n.stack = caller[c].stack
      /\ n.result = caller[c].result /\ n.absent = caller[c].absent
  <2>1. CASE AuthMode = "oauth2"
    <3>. DEFINE s == Append(caller[c].stack, "oauth2-token")
    <3>1. s \in Seq(Purposes) /\ ((caller[c].stack = R /\ s = RT) \/ (caller[c].stack = RO /\ s = ROT))
      <4>1. CASE caller[c].stack = R
        BY <4>1, StackFacts
      <4>2. CASE caller[c].stack = RO
        BY <4>2, StackFacts
      <4>. QED BY <1>2, <4>1, <4>2
    <3>. HIDE DEF s
    <3>2. n = [caller[c] EXCEPT !.stack = s, !.pc = "lock"]
      BY <1>1, <2>1 DEF s, CallerType
    <3>. QED BY <1>1, <3>1, <3>2 DEF CallerType
  <2>2. CASE AuthMode # "oauth2"
    BY <1>1, <2>2 DEF CallerType
  <2>. QED BY <2>1, <2>2
<1>4. caller' = [caller EXCEPT ![c] = n]
  <2>1. CASE AuthMode = "oauth2"
    BY <1>1, <2>1 DEF ApplyAuth
  <2>2. CASE AuthMode # "oauth2"
    BY <1>1, <2>2 DEF ApplyAuth
  <2>. QED BY <2>1, <2>2
<1>. HIDE DEF n
<1>5. /\ ~Waits(n) /\ ~Out(n) /\ ~Asking(n) /\ (Loading(n) <=> Loading(caller[c]))
      /\ ~Waits(caller[c]) /\ ~Out(caller[c]) /\ ~Asking(caller[c])
  BY <1>2, <1>3, StacksDiffer DEF Waits, Out, Loading, Asking, InRequest
<1>6. CallerPart(c, n)
  BY <1>2, <1>3, <1>4 DEF CallerPart, StackOK, InRequest
<1>7. ClientPart(c, n, Cl(c)) /\ GatePart(c, n, Gate(c))
  BY <1>5, ClientKept, GateKept DEF ApplyAuth
<1>. QED BY <1>6, <1>7, OtherFacts, MoveKeepsIInv DEF Move, ApplyAuth

\* The caller after it has got a token.
LEMMA WithTokenFacts ==
  ASSUME IInv, NEW c \in Callers, NEW id \in Nat,
         caller[c].stack \in {T, RT, ROT}
  PROVE  /\ WithToken(c, id) \in CallerType
         /\ \/ caller[c].stack = T /\ WithToken(c, id).stack = <<>>
               /\ WithToken(c, id).pc = "done"
            \/ caller[c].stack = RT /\ WithToken(c, id).stack = R
               /\ WithToken(c, id).pc = "enter"
            \/ caller[c].stack = ROT /\ WithToken(c, id).stack = RO
               /\ WithToken(c, id).pc = "enter"
         /\ WithToken(c, id).result = "false" => WithToken(c, id).absent
<1>1. caller[c] \in CallerType /\ (caller[c].result = "false" => caller[c].absent)
  BY CallerFacts, HeldFacts DEF IInv
<1>2. CASE caller[c].stack = T
  <2>1. WithToken(c, id) = [Idle EXCEPT !.op = "token", !.pc = "done", !.result = "ok",
                                        !.cause = "answer", !.token = id]
    BY <1>2, TopFacts DEF WithToken
  <2>. QED BY <1>2, <2>1, StackFacts DEF Idle, CallerType, Ops, Categories
<1>3. CASE caller[c].stack \in {RT, ROT}
  <2>1. /\ WithToken(c, id) = [caller[c] EXCEPT !.stack = Popped(c), !.pc = "enter",
                                                !.token = id]
        /\ \/ caller[c].stack = RT /\ Popped(c) = R
           \/ caller[c].stack = ROT /\ Popped(c) = RO
    BY <1>3, TopFacts, StacksDiffer DEF WithToken
  <2>2. PICK s \in Seq(Purposes) : s = Popped(c)
    BY <2>1, StackFacts
  <2>3. WithToken(c, id) = [caller[c] EXCEPT !.stack = s, !.pc = "enter", !.token = id]
    BY <2>1, <2>2
  <2>4. /\ WithToken(c, id) \in CallerType /\ WithToken(c, id).stack = s
        /\ WithToken(c, id).pc = "enter"
        /\ WithToken(c, id).result = caller[c].result
        /\ WithToken(c, id).absent = caller[c].absent
    BY <1>1, <2>3 DEF CallerType
  <2>. QED BY <1>1, <2>1, <2>2, <2>4
<1>. QED BY <1>2, <1>3

\* oauthToken: the cached token, or a request for one under the mutex.
LEMMA OAuthTokenKeepsIInv ==
  ASSUME IInv, NEW c \in Callers, OAuthToken(c)
  PROVE  IInv'
<1>1. /\ caller[c] \in CallerType /\ Cl(c) \in ClientState
      /\ client \in [Clients -> ClientState] /\ ClientOf[c] \in Clients
      /\ caller \in [Callers -> CallerType] /\ Cl(c).token.id \in Nat
  BY CallerFacts DEF IInv, ClientTypeOK, ClientState, TokenType
<1>2. /\ caller[c].stack \in {T, RT, ROT} /\ caller[c].pc = "lock"
      /\ caller[c].result = "false" => caller[c].absent
  BY HeldFacts, TopFacts, StacksDiffer DEF OAuthToken, StackOK
<1>3. /\ ~Waits(caller[c]) /\ ~Out(caller[c]) /\ ~Asking(caller[c])
      /\ Loading(caller[c]) <=> caller[c].stack = ROT
  BY <1>2, StacksDiffer DEF Waits, Out, Loading, Asking, InRequest
<1>4. OtherPart
  BY OtherFacts DEF OAuthToken
<1>5. CASE /\ caller' = [caller EXCEPT ![c] = WithToken(c, Cl(c).token.id)]
           /\ UNCHANGED client
  <2>. DEFINE n == WithToken(c, Cl(c).token.id)
  <2>1. /\ n \in CallerType
        /\ \/ caller[c].stack = T /\ n.stack = <<>> /\ n.pc = "done"
           \/ caller[c].stack = RT /\ n.stack = R /\ n.pc = "enter"
           \/ caller[c].stack = ROT /\ n.stack = RO /\ n.pc = "enter"
        /\ n.result = "false" => n.absent
    BY <1>1, <1>2, WithTokenFacts
  <2>. HIDE DEF n
  <2>2. /\ ~Waits(n) /\ ~Out(n) /\ ~Asking(n)
        /\ Loading(n) <=> caller[c].stack = ROT
    BY <2>1, StacksDiffer DEF Waits, Out, Loading, Asking, InRequest
  <2>3. CallerPart(c, n)
    BY <1>5, <2>1 DEF CallerPart, StackOK, InRequest, n
  <2>4. ClientPart(c, n, Cl(c)) /\ GatePart(c, n, Gate(c))
    BY <1>3, <1>5, <2>2, ClientKept, GateKept DEF OAuthToken
  <2>. QED BY <1>4, <2>3, <2>4, MoveKeepsIInv DEF Move
<1>6. CASE /\ ~Fresh(Cl(c).token)
           /\ client' = [client EXCEPT ![ClientOf[c]].oauthMu = c]
           /\ caller' = [caller EXCEPT ![c].pc = "enter"]
  <2>. DEFINE n == [caller[c] EXCEPT !.pc = "enter"]
              m == [Cl(c) EXCEPT !.oauthMu = c]
  <2>1. /\ n \in CallerType /\ n.stack = caller[c].stack /\ n.pc = "enter"
        /\ n.result = caller[c].result /\ n.absent = caller[c].absent
    BY <1>1 DEF CallerType
  <2>2. caller' = [caller EXCEPT ![c] = n]
    BY <1>1, <1>6
  <2>3. /\ m \in ClientState /\ m.config = Cl(c).config /\ m.token = Cl(c).token
        /\ m.openapiMu = Cl(c).openapiMu /\ m.oauthMu = c
    BY <1>1 DEF ClientState
  <2>4. client' = [client EXCEPT ![ClientOf[c]] = m]
    BY <1>1, <1>6 DEF Cl
  <2>. HIDE DEF n, m
  <2>5. /\ ~Waits(n) /\ ~Out(n) /\ Asking(n)
        /\ Loading(n) <=> Loading(caller[c])
    BY <1>2, <1>3, <2>1, StacksDiffer DEF Waits, Out, Loading, Asking, InRequest
  <2>6. CallerPart(c, n)
    BY <1>2, <2>1, <2>2 DEF CallerPart, StackOK, InRequest
  <2>7. ClientPart(c, n, m)
    BY <1>3, <1>6, <2>3, <2>4, <2>5, HeldFacts DEF ClientPart, Passed, OAuthToken
  <2>8. GatePart(c, n, Gate(c))
    BY <1>3, <2>5, GateKept DEF OAuthToken
  <2>. QED BY <1>4, <2>6, <2>7, <2>8, MoveKeepsIInv DEF Move
<1>. QED BY <1>5, <1>6 DEF OAuthToken

-----------------------------------------------------------------------------
(* The steps of a request *)

\* The caller goes on with the same request, holding the same mutexes.
LEMMA AdvanceFacts ==
  ASSUME IInv, NEW c \in Callers, caller[c].pc \in InRequest,
         NEW pc \in InRequest, caller' = [caller EXCEPT ![c].pc = pc], client' = client
  PROVE  \E n : /\ CallerPart(c, n) /\ ClientPart(c, n, Cl(c)) /\ n.pc = pc
<1>. DEFINE n == [caller[c] EXCEPT !.pc = pc]
<1>1. caller[c] \in CallerType /\ caller \in [Callers -> CallerType]
  BY CallerFacts DEF IInv, ClientTypeOK
<1>2. /\ n \in CallerType /\ n.pc = pc /\ n.stack = caller[c].stack
      /\ n.result = caller[c].result /\ n.absent = caller[c].absent
  BY <1>1 DEF CallerType, InRequest
<1>3. caller' = [caller EXCEPT ![c] = n]
  BY <1>1
<1>. HIDE DEF n
<1>4. CallerPart(c, n)
  BY <1>2, <1>3, HeldFacts DEF CallerPart, StackOK, InRequest
<1>5. (Loading(n) <=> Loading(caller[c])) /\ (Asking(n) <=> Asking(caller[c]))
  BY <1>2 DEF Loading, Asking, InRequest
<1>. QED BY <1>2, <1>4, <1>5, ClientKept

\* acquire, the waiting room.
LEMMA EnterQueueKeepsIInv ==
  ASSUME IInv, NEW c \in Callers, EnterQueue(c)
  PROVE  IInv'
<1>1. /\ gates \in [Configs -> GateType] /\ Cl(c).config \in Configs
      /\ Gate(c) \in GateType /\ Gate(c).bucket <= BurstOf(Cl(c).config)
      /\ Cl(c).config.queue \in Nat
  BY CallerFacts DEF IInv, ClientTypeOK, ConfigType
<1>2. /\ caller[c].pc = "enter" /\ caller[c].pc \in InRequest
      /\ ~Waits(caller[c]) /\ ~Out(caller[c])
  BY DEF EnterQueue, InRequest, Waits, Out
<1>3. c \notin Gate(c).queue /\ c \notin Gate(c).inFlight
  BY <1>2, HeldFacts
<1>4. OtherPart
  BY OtherFacts DEF EnterQueue
<1>5. CASE Fail(c, Wrapped("ConflictError"), "full")
  BY <1>4, <1>5, FailKeepsIInv DEF Wrapped, Categories
<1>6. CASE caller' = [caller EXCEPT ![c].pc = "wait"] /\ UNCHANGED client
           /\ (\/ Cl(c).config.queue = 0 /\ UNCHANGED gates
               \/ /\ Cardinality(Gate(c).queue) < Cl(c).config.queue
                  /\ gates' = [gates EXCEPT ![Cl(c).config].queue = @ \cup {c}])
  <2>1. PICK n : CallerPart(c, n) /\ ClientPart(c, n, Cl(c)) /\ n.pc = "wait"
    BY <1>2, <1>6, AdvanceFacts DEF InRequest
  <2>2. Waits(n) /\ ~Out(n)
    BY <2>1 DEF Waits, Out
  <2>3. CASE Cl(c).config.queue = 0 /\ UNCHANGED gates
    <3>1. gates' = [gates EXCEPT ![Cl(c).config] = Gate(c)]
      BY <1>1, <2>3 DEF Gate
    <3>a. ~(Waits(n) /\ Cl(c).config.queue > 0) /\ ~(Out(n) /\ Cl(c).config.max > 0)
      BY <1>1, <2>2, <2>3
    <3>b. /\ Gate(c).queue = Placed(Waits(n) /\ Cl(c).config.queue > 0, c, Gate(c).queue)
          /\ Gate(c).inFlight = Placed(Out(n) /\ Cl(c).config.max > 0, c, Gate(c).inFlight)
      BY <1>3, <3>a DEF Placed
    <3>2. GatePart(c, n, Gate(c))
      BY <1>1, <2>2, <3>1, <3>b DEF GatePart
    <3>. QED BY <1>4, <2>1, <3>2, MoveKeepsIInv DEF Move
  <2>4. CASE /\ Cardinality(Gate(c).queue) < Cl(c).config.queue
             /\ gates' = [gates EXCEPT ![Cl(c).config].queue = @ \cup {c}]
    <3>. DEFINE g == [Gate(c) EXCEPT !.queue = @ \cup {c}]
    <3>1. gates' = [gates EXCEPT ![Cl(c).config] = g]
      BY <1>1, <2>4 DEF Gate
    <3>2. /\ g \in GateType /\ g.queue = Gate(c).queue \cup {c}
          /\ g.inFlight = Gate(c).inFlight /\ g.bucket = Gate(c).bucket
      BY <1>1 DEF GateType
    <3>3. Cl(c).config.queue > 0
      <4>1. IsFiniteSet(Gate(c).queue)
        BY <1>1, FS_Subset, ClientAssumption DEF GateType
      <4>2. Cardinality(Gate(c).queue) \in Nat
        BY <4>1, FS_CardinalityType
      <4>. QED BY <1>1, <2>4, <4>2
    <3>. HIDE DEF g
    <3>4. GatePart(c, n, g)
      BY <1>1, <1>3, <2>2, <3>1, <3>2, <3>3 DEF GatePart, Placed
    <3>. QED BY <1>4, <2>1, <3>4, MoveKeepsIInv DEF Move
  <2>. QED BY <1>6, <2>3, <2>4
<1>. QED BY <1>5, <1>6 DEF EnterQueue

\* acquire, the slot.
LEMMA AcquireKeepsIInv ==
  ASSUME IInv, NEW c \in Callers, Acquire(c)
  PROVE  IInv'
<1>1. /\ gates \in [Configs -> GateType] /\ Cl(c).config \in Configs
      /\ Gate(c) \in GateType /\ Gate(c).bucket <= BurstOf(Cl(c).config)
      /\ Cl(c).config.max \in Nat
  BY CallerFacts DEF IInv, ClientTypeOK, ConfigType
<1>2. caller[c].pc \in InRequest /\ ~Out(caller[c]) /\ SlotFree(c)
  BY DEF Acquire, InRequest, Out
<1>3. c \notin Gate(c).inFlight
  BY <1>2, HeldFacts
<1>4. PICK n : CallerPart(c, n) /\ ClientPart(c, n, Cl(c)) /\ n.pc = "limit"
  BY <1>2, AdvanceFacts DEF InRequest, Acquire
<1>5. ~Waits(n) /\ Out(n)
  BY <1>4 DEF Waits, Out
<1>. DEFINE inFlight == IF Cl(c).config.max = 0 THEN Gate(c).inFlight
                        ELSE Gate(c).inFlight \cup {c}
            g == [Gate(c) EXCEPT !.queue = @ \ {c}, !.inFlight = inFlight]
<1>6. gates' = [gates EXCEPT ![Cl(c).config] = g]
  BY <1>1 DEF Gate, Acquire
<1>7. /\ g \in GateType /\ g.queue = Gate(c).queue \ {c}
      /\ g.inFlight = inFlight /\ g.bucket = Gate(c).bucket
  BY <1>1 DEF GateType
<1>. HIDE DEF g
<1>8. GatePart(c, n, g)
  BY <1>1, <1>2, <1>3, <1>5, <1>6, <1>7 DEF GatePart, Placed
<1>. QED BY <1>4, <1>8, OtherFacts, MoveKeepsIInv DEF Move, Acquire

\* The rate limiter lets the request go.
LEMMA LimiterWaitKeepsIInv ==
  ASSUME IInv, NEW c \in Callers, LimiterWait(c)
  PROVE  IInv'
<1>1. /\ gates \in [Configs -> GateType] /\ Cl(c).config \in Configs
      /\ Gate(c) \in GateType /\ Gate(c).bucket <= BurstOf(Cl(c).config)
      /\ Gate(c).bucket \in Nat /\ Cl(c).config \in ConfigType
  BY CallerFacts DEF IInv, ClientTypeOK, GateType
<1>2. caller[c].pc \in InRequest /\ Out(caller[c]) /\ ~Waits(caller[c])
  BY DEF LimiterWait, InRequest, Out, Waits
<1>4. PICK n : CallerPart(c, n) /\ ClientPart(c, n, Cl(c)) /\ n.pc = "sent"
  BY <1>2, AdvanceFacts DEF InRequest, LimiterWait
<1>5. ~Waits(n) /\ Out(n)
  BY <1>4 DEF Waits, Out
<1>6. PICK b \in Nat : /\ b = IF Cl(c).config.rps > 0 THEN Gate(c).bucket - 1 ELSE Gate(c).bucket
                       /\ b <= BurstOf(Cl(c).config)
  BY <1>1 DEF LimiterWait, BurstOf, ConfigType
<1>. DEFINE g == [Gate(c) EXCEPT !.bucket = b]
<1>7. gates' = [gates EXCEPT ![Cl(c).config] = g]
  BY <1>1, <1>6 DEF Gate, LimiterWait
<1>8. /\ g \in GateType /\ g.queue = Gate(c).queue
      /\ g.inFlight = Gate(c).inFlight /\ g.bucket = b
  BY <1>1 DEF GateType
<1>. HIDE DEF g
<1>9. GatePart(c, n, g)
  BY <1>1, <1>2, <1>5, <1>6, <1>7, <1>8, HeldFacts DEF GatePart, Placed
<1>. QED BY <1>4, <1>9, OtherFacts, MoveKeepsIInv DEF Move, LimiterWait

\* The request is cancelled or times out.
LEMMA CancelKeepsIInv ==
  ASSUME IInv, NEW c \in Callers, Cancel(c)
  PROVE  IInv'
BY FailKeepsIInv, OtherFacts DEF Cancel, Wrapped, Categories

\* The server fails.
LEMMA ServerFailsKeepsIInv ==
  ASSUME IInv, NEW c \in Callers, ServerFails(c)
  PROVE  IInv'
<1>. DEFINE result == IF Top(c) = "oauth2-token" THEN "AuthError"
                      ELSE ClassifyStatusError("serverError")
<1>1. result \in Categories \ {"false"}
  BY DEF ClassifyStatusError, Categories
<1>. QED BY <1>1, FailKeepsIInv, OtherFacts DEF ServerFails

\* The token endpoint answers.
LEMMA TokenAnswersKeepsIInv ==
  ASSUME IInv, NEW c \in Callers, NEW life \in Lifetimes,
         TokenAnswers(c, life)
  PROVE  IInv'
<1>1. /\ caller[c] \in CallerType /\ Cl(c) \in ClientState
      /\ client \in [Clients -> ClientState] /\ ClientOf[c] \in Clients
      /\ server \in ServerType /\ clock \in Nat
      /\ budget \in [calls : 0..MaxCalls, faults : 0..MaxFaults]
  BY CallerFacts, ClientAssumption DEF IInv, ClientTypeOK
<1>2. PICK id \in Nat : id = server.issued + 1
  BY <1>1 DEF ServerType
<1>3. PICK expires \in Nat : expires = clock + (IF life > 0 THEN life ELSE DefaultLife)
  BY <1>1, ClientAssumption
<1>4. /\ server' = [server EXCEPT !.issued = id, !.valid = @ \cup {id}]
      /\ client' = [Unlocked(c) EXCEPT
            ![ClientOf[c]].token = [id |-> id, expires |-> expires],
            ![ClientOf[c]].openapiMu = client[ClientOf[c]].openapiMu]
      /\ caller' = [caller EXCEPT ![c] = WithToken(c, id)]
      /\ gates' = Released(c) /\ UNCHANGED <<clock, budget>>
  BY <1>2, <1>3 DEF TokenAnswers
<1>5. caller[c].stack \in {T, RT, ROT} /\ caller[c].pc = "sent"
  BY HeldFacts, TopFacts DEF TokenAnswers, StackOK, InRequest
<1>6. OtherPart
  BY <1>1, <1>4 DEF OtherPart, ServerType
<1>. DEFINE n == WithToken(c, id)
<1>7. /\ n \in CallerType
      /\ \/ caller[c].stack = T /\ n.stack = <<>> /\ n.pc = "done"
         \/ caller[c].stack = RT /\ n.stack = R /\ n.pc = "enter"
         \/ caller[c].stack = ROT /\ n.stack = RO /\ n.pc = "enter"
      /\ n.result = "false" => n.absent
  BY <1>5, WithTokenFacts
<1>. HIDE DEF n
<1>8. CallerPart(c, n)
  BY <1>4, <1>7 DEF CallerPart, StackOK, InRequest, n
<1>9. /\ ~Waits(n) /\ ~Out(n) /\ ~Asking(n) /\ (Loading(n) <=> Loading(caller[c]))
      /\ Asking(caller[c])
  BY <1>5, <1>7, StacksDiffer DEF Waits, Out, Loading, Asking, InRequest
<1>10. \E g : GatePart(c, n, g)
  BY <1>4, <1>9, GateReleased
<1>. DEFINE tok == [id |-> id, expires |-> expires]
            m == [Cl(c) EXCEPT !.oauthMu = Nobody, !.token = tok]
<1>11. Cl(c).oauthMu = c
  BY <1>9, HeldFacts
<1>12. client' = [client EXCEPT ![ClientOf[c]] = m]
  <2>1. tok \in TokenType
    BY DEF TokenType
  <2>. HIDE DEF tok
  <2>2. client' = [Unlocked(c) EXCEPT ![ClientOf[c]].token = tok,
                                      ![ClientOf[c]].openapiMu = Cl(c).openapiMu]
    BY <1>4 DEF Cl, tok
  <2>3. Unlocked(c) = [client EXCEPT ![ClientOf[c]] =
          [Cl(c) EXCEPT !.oauthMu = Nobody,
                        !.openapiMu = IF Cl(c).openapiMu = c THEN Nobody ELSE Cl(c).openapiMu]]
    BY <1>1, <1>11 DEF Unlocked, Cl
  <2>. DEFINE u == [Cl(c) EXCEPT !.oauthMu = Nobody,
                      !.openapiMu = IF Cl(c).openapiMu = c THEN Nobody ELSE Cl(c).openapiMu]
  <2>4. u \in ClientState
    BY <1>1 DEF ClientState
  <2>5. [u EXCEPT !.token = tok, !.openapiMu = Cl(c).openapiMu] = m
    BY <1>1, <2>1 DEF ClientState
  <2>6. client' = [client EXCEPT ![ClientOf[c]] =
                     [u EXCEPT !.token = tok, !.openapiMu = Cl(c).openapiMu]]
    <3>. HIDE DEF u
    <3>. QED BY <1>1, <2>2, <2>3, <2>4 DEF u
  <2>. QED BY <2>5, <2>6
<1>13. /\ m \in ClientState /\ m.config = Cl(c).config /\ m.token = tok
       /\ m.openapiMu = Cl(c).openapiMu /\ m.oauthMu = Nobody
  BY <1>1 DEF ClientState, TokenType
<1>. HIDE DEF m
<1>14. ClientPart(c, n, m)
  BY <1>9, <1>11, <1>12, <1>13, HeldFacts DEF ClientPart, Passed
<1>. QED BY <1>6, <1>8, <1>10, <1>14, MoveKeepsIInv DEF Move

\* The document arrives, or cannot be had.
LEMMA DocumentAnswersKeepsIInv ==
  ASSUME IInv, NEW c \in Callers, DocumentAnswers(c)
  PROVE  IInv'
<1>1. /\ caller[c] \in CallerType /\ Cl(c) \in ClientState
      /\ client \in [Clients -> ClientState] /\ ClientOf[c] \in Clients
      /\ caller \in [Callers -> CallerType]
  BY CallerFacts DEF IInv, ClientTypeOK
<1>2. /\ caller[c].stack = RO /\ caller[c].pc = "sent" /\ Popped(c) = R
      /\ caller[c].result = "false" => caller[c].absent
  BY HeldFacts, TopFacts, StacksDiffer DEF DocumentAnswers, StackOK, InRequest
<1>3. Loading(caller[c]) /\ ~Asking(caller[c])
  BY <1>2, StacksDiffer DEF Loading, Asking
<1>4. OtherPart
  BY OtherFacts DEF DocumentAnswers
<1>5. CASE Fail(c, "NotFoundError", "other")
  BY <1>4, <1>5, FailKeepsIInv DEF Categories
<1>6. CASE /\ client' = [client EXCEPT ![ClientOf[c]].loaded = TRUE,
                                       ![ClientOf[c]].openapiMu = Nobody]
           /\ caller' = [caller EXCEPT ![c].stack = Popped(c), ![c].pc = "auth"]
           /\ gates' = Released(c)
  <2>. DEFINE n == [caller[c] EXCEPT !.stack = R, !.pc = "auth"]
              m == [Cl(c) EXCEPT !.loaded = TRUE, !.openapiMu = Nobody]
  <2>1. /\ n \in CallerType /\ n.stack = R /\ n.pc = "auth"
        /\ n.result = caller[c].result /\ n.absent = caller[c].absent
    BY <1>1, StackFacts DEF CallerType
  <2>2. caller' = [caller EXCEPT ![c] = n]
    BY <1>1, <1>2, <1>6
  <2>3. /\ m \in ClientState /\ m.config = Cl(c).config /\ m.token = Cl(c).token
        /\ m.openapiMu = Nobody /\ m.oauthMu = Cl(c).oauthMu
    BY <1>1 DEF ClientState
  <2>4. client' = [client EXCEPT ![ClientOf[c]] = m]
    BY <1>1, <1>6 DEF Cl
  <2>. HIDE DEF n, m
  <2>5. ~Waits(n) /\ ~Out(n) /\ ~Loading(n) /\ ~Asking(n)
    BY <2>1, StacksDiffer DEF Waits, Out, Loading, Asking, InRequest
  <2>6. CallerPart(c, n)
    BY <1>2, <2>1, <2>2 DEF CallerPart, StackOK, InRequest
  <2>7. ClientPart(c, n, m)
    BY <1>3, <2>3, <2>4, <2>5, HeldFacts DEF ClientPart, Passed
  <2>8. \E g : GatePart(c, n, g)
    BY <1>6, <2>5, GateReleased
  <2>. QED BY <1>4, <2>6, <2>7, <2>8, MoveKeepsIInv DEF Move
<1>. QED BY <1>5, <1>6 DEF DocumentAnswers

\* The service answers: Exists is false exactly for a resource not found.
LEMMA ResourceAnswersKeepsIInv ==
  ASSUME IInv, NEW c \in Callers, ResourceAnswers(c)
  PROVE  IInv'
<1>. DEFINE status == StatusOf(c)
            result == ResultOf(caller[c].op, ClassifyStatusError(status))
<1>1. /\ server \in ServerType /\ clock' = clock /\ budget' = budget
      /\ budget \in [calls : 0..MaxCalls, faults : 0..MaxFaults]
  BY DEF IInv, ClientTypeOK, ResourceAnswers
<1>2. status \in {"unauthorized", "notFound", "conflict", "ok"}
  BY DEF StatusOf
<1>3. result \in Categories /\ (result = "false" => status = "notFound")
  BY <1>2 DEF ResultOf, Exists, ClassifyStatusError, Categories
<1>4. server' \in ServerType
  BY <1>1 DEF ResourceAnswers, ServerType
<1>5. OtherPart
  BY <1>1, <1>4 DEF OtherPart
<1>6. Finish(c, result, "answer", status = "notFound") /\ client' = Unlocked(c)
  BY DEF ResourceAnswers
<1>7. (status = "notFound") \in BOOLEAN
  OBVIOUS
<1>. HIDE DEF status, result
<1>. QED BY <1>3, <1>5, <1>6, <1>7, FinishKeepsIInv

\* The cached token is dropped between two calls.
LEMMA InvalidateKeepsIInv ==
  ASSUME IInv, NEW c \in Callers, InvalidateAuthCache(c)
  PROVE  IInv'
<1>1. /\ caller[c] \in CallerType /\ Cl(c) \in ClientState
      /\ client \in [Clients -> ClientState] /\ ClientOf[c] \in Clients
      /\ caller \in [Callers -> CallerType]
  BY CallerFacts DEF IInv, ClientTypeOK
<1>. DEFINE m == [Cl(c) EXCEPT !.token = NoToken]
<1>2. /\ m \in ClientState /\ m.config = Cl(c).config
      /\ m.openapiMu = Cl(c).openapiMu /\ m.oauthMu = Cl(c).oauthMu
  BY <1>1 DEF ClientState, NoToken, TokenType
<1>3. client' = [client EXCEPT ![ClientOf[c]] = m]
  BY <1>1 DEF Cl, InvalidateAuthCache
<1>. HIDE DEF m
<1>4. ClientPart(c, caller[c], m)
  BY <1>2, <1>3, HeldFacts DEF ClientPart, Passed, InvalidateAuthCache
<1>5. CallerPart(c, caller[c])
  BY <1>1, HeldFacts DEF CallerPart, InvalidateAuthCache
<1>6. GatePart(c, caller[c], Gate(c))
  BY GateKept DEF InvalidateAuthCache
<1>. QED BY <1>4, <1>5, <1>6, OtherFacts, MoveKeepsIInv DEF Move, InvalidateAuthCache

-----------------------------------------------------------------------------
(* The rest of the steps *)

\* Time passes, the service changes, or nothing happens.
LEMMA QuietKeepsIInv ==
  ASSUME IInv,
         Tick \/ ServerChanges \/ UNCHANGED clientVars
  PROVE  IInv'
<1>1. UNCHANGED <<caller, client, gates>>
  BY DEF Tick, ServerChanges, clientVars
<1>2. /\ ClientTypeOK /\ clock \in Nat /\ AuthMargin \in Nat /\ MaxTime \in Nat
      /\ server \in ServerType /\ budget \in [calls : 0..MaxCalls, faults : 0..MaxFaults]
      /\ client \in [Clients -> ClientState] /\ MaxFaults \in Nat
  BY ClientAssumption DEF IInv, ClientTypeOK
<1>3. clock' \in 0..MaxTime /\ clock' >= clock
  BY <1>2 DEF Tick, ServerChanges, clientVars, ClientTypeOK
<1>4. server' \in ServerType
  BY <1>2 DEF Tick, ServerChanges, clientVars, ServerType
<1>5. budget' \in [calls : 0..MaxCalls, faults : 0..MaxFaults]
  BY <1>2 DEF Tick, ServerChanges, clientVars
<1>6. ClientTypeOK'
  BY <1>1, <1>2, <1>3, <1>4, <1>5 DEF ClientTypeOK
<1>7. MutexesOwn'
  <2>. SUFFICES ASSUME NEW k \in Clients, client[k].oauthMu # Nobody
                PROVE  ~(client[k].token.id > 0 /\ clock' < client[k].token.expires - AuthMargin)
    BY <1>1 DEF MutexesOwn, IInv, Fresh
  <2>1. client[k].token.expires \in Nat
    BY <1>2 DEF ClientState, TokenType
  <2>2. ~(client[k].token.id > 0 /\ clock < client[k].token.expires - AuthMargin)
    BY DEF MutexesOwn, IInv, Fresh
  <2>. QED BY <1>2, <1>3, <2>1, <2>2
<1>8. Stacks' /\ MutexesHeld' /\ GatesHeld' /\ ExistsIsTruth'
  BY <1>1 DEF IInv, Stacks, MutexesHeld, GatesHeld, ExistsIsTruth, Cl, AtWait, AtOut
<1>. QED BY <1>6, <1>7, <1>8 DEF IInv

\* The limiter refills.
LEMMA RefillKeepsIInv ==
  ASSUME IInv, NEW cfg \in Configs, Refill(cfg)
  PROVE  IInv'
<1>1. /\ UNCHANGED <<caller, client, server, clock, budget>>
      /\ gates \in [Configs -> GateType] /\ ClientTypeOK
      /\ gates[cfg].bucket \in Nat /\ cfg \in ConfigType
  BY ClientAssumption DEF IInv, ClientTypeOK, Refill, GateType
<1>2. PICK b \in Nat : b = gates[cfg].bucket + 1 /\ b <= BurstOf(cfg)
  BY <1>1 DEF Refill, BurstOf, ConfigType
<1>. DEFINE g == [gates[cfg] EXCEPT !.bucket = b]
<1>3. gates' = [gates EXCEPT ![cfg] = g]
  BY <1>1, <1>2 DEF Refill
<1>4. /\ g \in GateType /\ g.queue = gates[cfg].queue
      /\ g.inFlight = gates[cfg].inFlight /\ g.bucket = b
  BY <1>1 DEF GateType
<1>. HIDE DEF g
<1>5. /\ gates' \in [Configs -> GateType]
      /\ \A x \in Configs : /\ gates'[x].queue = gates[x].queue
                            /\ gates'[x].inFlight = gates[x].inFlight
                            /\ gates'[x].bucket <= BurstOf(x)
  BY <1>1, <1>2, <1>3, <1>4 DEF ClientTypeOK
<1>6. ClientTypeOK'
  BY <1>1, <1>5 DEF ClientTypeOK
<1>7. /\ Stacks' /\ MutexesHeld' /\ MutexesOwn' /\ ExistsIsTruth'
      /\ \A x \in Configs : AtWait(x)' = AtWait(x) /\ AtOut(x)' = AtOut(x)
  BY <1>1 DEF IInv, Stacks, MutexesHeld, MutexesOwn, ExistsIsTruth, Cl, Fresh, AtWait, AtOut
<1>8. GatesHeld'
  BY <1>5, <1>7 DEF IInv, GatesHeld
<1>. QED BY <1>6, <1>7, <1>8 DEF IInv

\* A client is built anew while nobody uses it; the gates stay as they are,
\* also that of the settings the client had before.
LEMMA NewClientKeepsIInv ==
  ASSUME IInv, NEW k \in Clients, NEW cfg \in Configs,
         NewClient(k, cfg)
  PROVE  IInv'
<1>. DEFINE m == NewClientState(cfg)
<1>1. /\ UNCHANGED <<caller, gates, server, clock>> /\ client' = [client EXCEPT ![k] = m]
      /\ \A c \in Callers : ClientOf[c] = k => caller[c].pc \in {"idle", "done"}
      /\ client \in [Clients -> ClientState] /\ ClientTypeOK
      /\ ClientOf \in [Callers -> Clients] /\ Nobody \notin Callers
  BY ClientAssumption DEF NewClient, IInv, ClientTypeOK, Busy
<1>2. /\ m \in ClientState /\ m.config = cfg /\ m.openapiMu = Nobody
      /\ m.oauthMu = Nobody
  BY DEF NewClientState, ClientState, NoToken, TokenType
<1>. HIDE DEF m
<1>3. /\ client'[k] = m /\ \A l \in Clients : l # k => client'[l] = client[l]
      /\ client' \in [Clients -> ClientState]
  BY <1>1, <1>2
<1>4. budget' \in [calls : 0..MaxCalls, faults : 0..MaxFaults]
  BY <1>1, ClientAssumption DEF NewClient, ClientTypeOK
<1>5. ClientTypeOK'
  BY <1>1, <1>3, <1>4 DEF ClientTypeOK
<1>6. \A c \in Callers : ClientOf[c] = k =>
        /\ ~Loading(caller[c]) /\ ~Asking(caller[c])
        /\ ~Waits(caller[c]) /\ ~Out(caller[c])
  BY <1>1, StacksDiffer
     DEF IInv, Stacks, StackOK, Loading, Asking, Waits, Out, InRequest
<1>7. MutexesHeld'
  <2>. SUFFICES ASSUME NEW c \in Callers
                PROVE  /\ Loading(caller[c]) <=> client'[ClientOf[c]].openapiMu = c
                       /\ Asking(caller[c]) <=> client'[ClientOf[c]].oauthMu = c
    BY <1>1 DEF MutexesHeld, Cl, Loading, Asking
  <2>1. CASE ClientOf[c] = k
    BY <1>1, <1>2, <1>3, <1>6, <2>1
  <2>2. CASE ClientOf[c] # k
    BY <1>1, <1>3, <2>2 DEF IInv, MutexesHeld, Cl
  <2>. QED BY <2>1, <2>2
<1>8. MutexesOwn'
  BY <1>1, <1>2, <1>3 DEF IInv, MutexesOwn, Fresh
<1>9. \A x \in Configs : AtWait(x)' = AtWait(x) /\ AtOut(x)' = AtOut(x)
  BY <1>1, <1>3, <1>6 DEF AtWait, AtOut, Cl, Waits, Out
<1>10. GatesHeld' /\ Stacks' /\ ExistsIsTruth'
  BY <1>1, <1>9 DEF IInv, GatesHeld, Stacks, ExistsIsTruth
<1>. QED BY <1>5, <1>7, <1>8, <1>10 DEF IInv

-----------------------------------------------------------------------------
(* The theorems *)

\* The invariant holds initially.
LEMMA InitIInv == ClientInit => IInv
<1>. SUFFICES ASSUME ClientInit PROVE IInv
  OBVIOUS
<1>1. /\ \A c \in Callers : caller[c] = Idle
      /\ caller = [c \in Callers |-> Idle] /\ client \in [Clients -> ClientState]
      /\ \A k \in Clients : client[k].openapiMu = Nobody /\ client[k].oauthMu = Nobody
  <2>1. \A cfg \in Configs : NewClientState(cfg) \in ClientState
    BY DEF NewClientState, ClientState, NoToken, TokenType
  <2>2. \A k \in Clients : \E cfg \in Configs : client[k] = NewClientState(cfg)
    BY DEF ClientInit
  <2>. QED BY <2>1, <2>2 DEF ClientInit, NewClientState
<1>2. Idle \in CallerType /\ Idle.pc = "idle" /\ Idle.stack = <<>> /\ Idle.result = ""
  BY StackFacts DEF Idle, CallerType, Ops, Categories
<1>3. \A cfg \in Configs :
        /\ gates[cfg].queue = {} /\ gates[cfg].inFlight = {} /\ gates[cfg] \in GateType
        /\ gates[cfg].bucket <= BurstOf(cfg)
  <2>. SUFFICES ASSUME NEW cfg \in Configs
                PROVE  /\ gates[cfg].queue = {} /\ gates[cfg].inFlight = {}
                       /\ gates[cfg] \in GateType /\ gates[cfg].bucket <= BurstOf(cfg)
    OBVIOUS
  <2>1. cfg \in ConfigType /\ gates[cfg] = NewRequestThrottleGate(cfg)
    BY ClientAssumption DEF ClientInit
  <2>2. PICK b \in Nat : b = (IF cfg.rps = 0 THEN 0 ELSE BurstOf(cfg)) /\ b <= BurstOf(cfg)
    BY <2>1 DEF BurstOf, ConfigType
  <2>3. gates[cfg] = [queue |-> {}, inFlight |-> {}, bucket |-> b]
    BY <2>1, <2>2 DEF NewRequestThrottleGate
  <2>. QED BY <2>2, <2>3 DEF GateType
<1>4. ClientTypeOK
  <2>1. server \in ServerType
    BY DEF ClientInit, ServerType
  <2>2. MaxTime \in Nat /\ MaxCalls \in Nat /\ MaxFaults \in Nat
    BY ClientAssumption
  <2>3. clock \in 0..MaxTime /\ budget \in [calls : 0..MaxCalls, faults : 0..MaxFaults]
    BY <2>2 DEF ClientInit
  <2>4. gates \in [Configs -> GateType]
    BY <1>3 DEF ClientInit
  <2>. QED BY <1>1, <1>2, <1>3, <2>1, <2>3, <2>4 DEF ClientTypeOK
<1>5. Stacks /\ ExistsIsTruth
  BY <1>1, <1>2 DEF Stacks, StackOK, InRequest, ExistsIsTruth
<1>6. \A c \in Callers : /\ ~Loading(caller[c]) /\ ~Asking(caller[c])
                         /\ ~Waits(caller[c]) /\ ~Out(caller[c])
  BY <1>1, <1>2, StacksDiffer DEF Loading, Asking, InRequest, Waits, Out
<1>7. MutexesHeld /\ MutexesOwn
  BY <1>1, <1>6, ClientAssumption DEF MutexesHeld, MutexesOwn, Cl
<1>8. GatesHeld
  <2>1. \A cfg \in Configs : AtWait(cfg) = {} /\ AtOut(cfg) = {}
    BY <1>6 DEF AtWait, AtOut
  <2>2. Cardinality({}) = 0
    BY FS_EmptySet
  <2>3. \A cfg \in Configs : cfg.max > 0 => 0 <= cfg.max
    BY ClientAssumption DEF ConfigType
  <2>. QED BY <1>3, <2>1, <2>2, <2>3 DEF GatesHeld
<1>. QED BY <1>4, <1>5, <1>7, <1>8 DEF IInv

\* Every step keeps the invariant.
LEMMA NextKeepsIInv == IInv /\ [ClientNext]_clientVars => IInv'
<1>. SUFFICES ASSUME IInv, [ClientNext]_clientVars PROVE IInv'
  OBVIOUS
<1>1. ASSUME NEW c \in Callers,
             \/ \E op \in Ops : Call(c, op)
             \/ RefusePayload(c) \/ OpenAPIDocument(c) \/ ApplyAuth(c)
             \/ OAuthToken(c) \/ EnterQueue(c) \/ Acquire(c) \/ LimiterWait(c)
             \/ Cancel(c) \/ (\E life \in Lifetimes : TokenAnswers(c, life))
             \/ DocumentAnswers(c) \/ ResourceAnswers(c) \/ ServerFails(c)
             \/ InvalidateAuthCache(c)
      PROVE  IInv'
  BY <1>1, CallKeepsIInv, RefusePayloadKeepsIInv, OpenAPIDocumentKeepsIInv,
     ApplyAuthKeepsIInv, OAuthTokenKeepsIInv, EnterQueueKeepsIInv, AcquireKeepsIInv,
     LimiterWaitKeepsIInv, CancelKeepsIInv, TokenAnswersKeepsIInv,
     DocumentAnswersKeepsIInv, ResourceAnswersKeepsIInv, ServerFailsKeepsIInv,
     InvalidateKeepsIInv
<1>. QED BY <1>1, QuietKeepsIInv, RefillKeepsIInv, NewClientKeepsIInv DEF ClientNext

\* The invariant holds in every reachable state.
THEOREM Invariance == ClientSpec => []IInv
BY InitIInv, NextKeepsIInv, PTL DEF ClientSpec

\* Callers, clients, gates and service are well formed, and a token bucket
\* never holds more than its burst.
THEOREM TypeCorrect == ClientSpec => []ClientTypeOK
<1>1. IInv => ClientTypeOK
  BY DEF IInv
<1>. QED BY <1>1, Invariance, PTL

\* The slots and places of the gate are those of the callers that are there.
LEMMA GateFromIInv == IInv => GateHeldByWaiters
<1>. SUFFICES ASSUME IInv, NEW cfg \in Configs
     PROVE LET at(phase) == {c \in Callers : caller[c].pc \in phase
                                          /\ Cl(c).config = cfg}
       IN /\ gates[cfg].queue = IF cfg.queue = 0 THEN {} ELSE at({"wait"})
          /\ gates[cfg].inFlight = IF cfg.max = 0 THEN {}
                                   ELSE at({"limit", "sent"})
          /\ cfg.max > 0 => Cardinality(at({"sent"})) <= cfg.max
  BY DEF GateHeldByWaiters
<1>. DEFINE at(phase) == {c \in Callers : caller[c].pc \in phase /\ Cl(c).config = cfg}
<1>1. at({"wait"}) = AtWait(cfg) /\ at({"limit", "sent"}) = AtOut(cfg)
  BY DEF AtWait, AtOut, Waits, Out
<1>2. /\ gates[cfg].queue = IF cfg.queue = 0 THEN {} ELSE AtWait(cfg)
      /\ gates[cfg].inFlight = IF cfg.max = 0 THEN {} ELSE AtOut(cfg)
      /\ cfg.max > 0 => Cardinality(gates[cfg].inFlight) <= cfg.max
      /\ cfg.max \in Nat /\ IsFiniteSet(Callers)
  BY ClientAssumption DEF IInv, GatesHeld, ConfigType
<1>3. ASSUME cfg.max > 0 PROVE Cardinality(at({"sent"})) <= cfg.max
  <2>1. gates[cfg].inFlight = at({"limit", "sent"})
    BY <1>1, <1>2, <1>3
  <2>2. at({"sent"}) \subseteq gates[cfg].inFlight /\ gates[cfg].inFlight \subseteq Callers
    BY <2>1
  <2>3. IsFiniteSet(gates[cfg].inFlight)
    BY <1>2, <2>2, FS_Subset
  <2>4. /\ IsFiniteSet(at({"sent"}))
        /\ Cardinality(at({"sent"})) <= Cardinality(gates[cfg].inFlight)
    BY <2>2, <2>3, FS_Subset
  <2>5. Cardinality(at({"sent"})) \in Nat /\ Cardinality(gates[cfg].inFlight) \in Nat
    BY <2>3, <2>4, FS_CardinalityType
  <2>. QED BY <1>2, <1>3, <2>4, <2>5
<1>. QED BY <1>1, <1>2, <1>3

\* The caller that asks for a token is the one that holds its mutex.
LEMMA TokenFromIInv == IInv => OneTokenRequest
<1>. SUFFICES ASSUME IInv, NEW k \in Clients
     PROVE LET asking == {c \in Callers : ClientOf[c] = k /\ Busy(c)
                        /\ Top(c) = "oauth2-token" /\ caller[c].pc # "lock"}
           IN /\ Cardinality(asking) <= 1
              /\ asking # {} => ~Fresh(client[k].token)
  BY DEF OneTokenRequest
<1>. DEFINE asking == {c \in Callers : ClientOf[c] = k /\ Busy(c)
                        /\ Top(c) = "oauth2-token" /\ caller[c].pc # "lock"}
<1>1. \A c \in asking : client[k].oauthMu = c /\ c \in Callers
  <2>. SUFFICES ASSUME NEW c \in asking PROVE client[k].oauthMu = c
    OBVIOUS
  <2>1. /\ c \in Callers /\ ClientOf[c] = k /\ Top(c) = "oauth2-token"
        /\ caller[c].pc \notin {"idle", "done", "lock"} /\ StackOK(caller[c])
        /\ caller[c] \in CallerType
    BY HeldFacts, CallerFacts DEF Busy, IInv
  <2>2. caller[c].pc \in InRequest \cup {"auth"}
    BY <2>1 DEF CallerType, InRequest
  <2>3. caller[c].stack \in {T, RT, ROT}
    BY <2>1, <2>2, TopFacts DEF StackOK
  <2>4. Asking(caller[c])
    BY <2>1, <2>2, <2>3, StacksDiffer DEF Asking, StackOK
  <2>. QED BY <2>1, <2>4, HeldFacts DEF Cl
<1>2. asking # {} => ~Fresh(client[k].token)
  BY <1>1, ClientAssumption DEF IInv, MutexesOwn
<1>3. Cardinality(asking) <= 1
  <2>1. CASE asking = {}
    BY <2>1, FS_EmptySet
  <2>2. CASE asking # {}
    <3>1. asking = {client[k].oauthMu}
      BY <1>1, <2>2
    <3>2. \A x : Cardinality({x}) = 1
      BY FS_Singleton
    <3>3. Cardinality(asking) = 1
      BY <3>1, <3>2
    <3>. QED BY <3>3
  <2>. QED BY <2>1, <2>2
<1>. QED BY <1>2, <1>3

\* Whoever waits for the document waits for a caller that waits at most for the
\* token, whoever waits for the token for a caller that waits at most for a
\* slot, and whoever waits for a slot for a caller that waits for nothing.
LEMMA ProgressFromIInv == IInv => SomeoneCanGoOn
<1>. DEFINE Goes(c) ==
          \/ caller[c].pc \in {"auth", "enter", "limit", "sent"}
          \/ caller[c].pc = "wait" /\ SlotFree(c)
          \/ caller[c].pc = "lock" /\ Top(c) = "openapi"
                                  /\ Cl(c).openapiMu = Nobody
          \/ caller[c].pc = "lock" /\ Top(c) = "oauth2-token"
                                  /\ Cl(c).oauthMu = Nobody
<1>. SUFFICES ASSUME IInv, NEW b \in Callers, Busy(b)
              PROVE  \E c \in Callers : Goes(c)
  BY DEF SomeoneCanGoOn
<1>1. ASSUME NEW c \in Callers, caller[c].pc = "wait"
      PROVE  \E d \in Callers : Goes(d)
  <2>1. CASE SlotFree(c)
    BY <1>1, <2>1
  <2>2. CASE ~SlotFree(c)
    <3>1. /\ Cl(c).config \in Configs /\ Cl(c).config.max \in Nat
          /\ Gate(c).inFlight \subseteq Callers
      BY CallerFacts DEF IInv, ConfigType, GateType
    <3>2. Cl(c).config.max > 0 /\ ~(Cardinality(Gate(c).inFlight) < Cl(c).config.max)
      BY <2>2, <3>1 DEF SlotFree
    <3>3. Gate(c).inFlight # {}
      BY <3>1, <3>2, FS_EmptySet
    <3>4. PICK d \in Callers : d \in Gate(c).inFlight
      BY <3>1, <3>3
    <3>5. Out(caller[d])
      BY <3>1, <3>2, <3>4 DEF IInv, GatesHeld, Gate, AtOut
    <3>. QED BY <3>5 DEF Out
  <2>. QED BY <2>1, <2>2
<1>2. ASSUME NEW c \in Callers, caller[c].pc \in InRequest
      PROVE  \E d \in Callers : Goes(d)
  BY <1>1, <1>2 DEF InRequest
<1>3. ASSUME NEW c \in Callers, caller[c].pc = "lock", caller[c].stack \in {T, RT, ROT}
      PROVE  \E d \in Callers : Goes(d)
  <2>1. Top(c) = "oauth2-token" /\ Cl(c) \in ClientState /\ ClientOf[c] \in Clients
    BY <1>3, TopFacts, CallerFacts DEF IInv
  <2>2. CASE Cl(c).oauthMu = Nobody
    BY <1>3, <2>1, <2>2
  <2>3. CASE Cl(c).oauthMu # Nobody
    <3>1. PICK d \in Callers : d = Cl(c).oauthMu
      BY <2>1, <2>3 DEF ClientState
    <3>2. ClientOf[d] = ClientOf[c]
      BY <2>1, <2>3, <3>1 DEF IInv, MutexesOwn, Cl
    <3>3. Asking(caller[d])
      BY <3>1, <3>2, HeldFacts DEF Cl
    <3>. QED BY <1>2, <3>3 DEF Asking
  <2>. QED BY <2>2, <2>3
<1>4. ASSUME NEW c \in Callers, caller[c].pc = "lock", caller[c].stack = RO
      PROVE  \E d \in Callers : Goes(d)
  <2>1. Top(c) = "openapi" /\ Cl(c) \in ClientState /\ ClientOf[c] \in Clients
    BY <1>4, TopFacts, CallerFacts DEF IInv
  <2>2. CASE Cl(c).openapiMu = Nobody
    BY <1>4, <2>1, <2>2
  <2>3. CASE Cl(c).openapiMu # Nobody
    <3>1. PICK d \in Callers : d = Cl(c).openapiMu
      BY <2>1, <2>3 DEF ClientState
    <3>2. ClientOf[d] = ClientOf[c]
      BY <2>1, <2>3, <3>1 DEF IInv, MutexesOwn, Cl
    <3>3. Loading(caller[d]) /\ StackOK(caller[d]) /\ caller[d] \in CallerType
      BY <3>1, <3>2, HeldFacts, CallerFacts DEF Cl, IInv
    <3>4. \/ caller[d].pc \in InRequest \cup {"auth"}
          \/ caller[d].pc = "lock" /\ caller[d].stack = ROT
      BY <3>3, StacksDiffer DEF Loading, StackOK, CallerType, InRequest
    <3>. QED BY <1>2, <1>3, <3>4
  <2>. QED BY <2>2, <2>3
<1>5. \/ caller[b].pc \in InRequest \cup {"auth"}
      \/ caller[b].pc = "lock" /\ caller[b].stack \in {RO, T, RT, ROT}
  BY HeldFacts, CallerFacts DEF Busy, StackOK, CallerType, InRequest, IInv
<1>. QED BY <1>2, <1>3, <1>4, <1>5

\* What goroutines that share a client rely on, for every number of goroutines,
\* clients and settings: the throttle is respected and its places are held only
\* by who is there; a client asks for one token at a time, and only without a
\* good one; Exists is false only when the service said so; and nobody waits in
\* a circle.
THEOREM SharingIsSafe == ClientSpec => []ClientShared
<1>1. IInv => ClientShared
  BY GateFromIInv, TokenFromIInv, ProgressFromIInv DEF ClientShared, IInv
<1>. QED BY <1>1, Invariance, PTL

-----------------------------------------------------------------------------
(* The cache of metadata bundles.  An extraction first. *)

Start == [ok |-> TRUE, entries |-> 0, bytes |-> 0, files |-> Empty]

\* A function that gives the state of an extraction after each of n entries.
Extraction(a, n, f) ==
    f = [k \in 0..n |-> IF k = 0 THEN Start ELSE ExtractEntry(f[k - 1], a[k])]

\* A non-empty set of naturals has a least element.
LEMMA LeastNatural ==
  ASSUME NEW S, S \subseteq Nat, S # {}
  PROVE  \E m \in S : \A n \in S : m <= n
<1>1. PICK top \in S : TRUE
  OBVIOUS
<1> DEFINE Below == {1..n : n \in {k \in S : k <= top}}
<1>2. IsFiniteSet(1..top)
  BY FS_Interval
<1>3. Below \subseteq FiniteSubsetsOf(1..top)
  <2>1. \A n \in S : n <= top => 1..n \in SUBSET (1..top)
    OBVIOUS
  <2>2. Below \subseteq SUBSET (1..top)
    BY <2>1
  <2>3. FiniteSubsetsOf(1..top) = SUBSET (1..top)
    BY <1>2, FS_FiniteSubsetsOfFinite
  <2> QED BY <2>2, <2>3
<1>4. Below # {}
  OBVIOUS
<1> HIDE DEF Below
<1>5. PICK x \in Below : \A y \in Below : ~ (<<y, x>> \in StrictSubsetOrdering(1..top))
  <2> DEFINE Ord == StrictSubsetOrdering(1..top)
             U == FiniteSubsetsOf(1..top)
  <2>1. IsWellFoundedOn(Ord, U)
    BY FS_StrictSubsetOrderingWellFounded
  <2>2. Below \subseteq U BY <1>3
  <2> HIDE DEF Ord, U
  <2>3. \E x \in Below : \A y \in Below : ~ (<<y, x>> \in Ord)
    BY <1>4, <2>1, <2>2, WFMin
  <2> QED BY <2>3 DEF Ord
<1>6. PICK m \in S : m <= top /\ x = 1..m
  BY DEF Below
<1>7. ASSUME NEW n \in S, n < m PROVE FALSE
  <2>1. 1..n \in Below
    BY <1>6, <1>7 DEF Below
  <2>2. 1..n \subseteq 1..m /\ m \in 1..m /\ m \notin 1..n
    BY <1>7
  <2>3. 1..n \in SUBSET (1..top) /\ 1..m \in SUBSET (1..top)
    BY <1>6, <1>7
  <2>4. <<1..n, 1..m>> \in StrictSubsetOrdering(1..top)
    BY <2>2, <2>3 DEF StrictSubsetOrdering
  <2> QED BY <2>1, <2>4, <1>5, <1>6
<1> QED BY <1>7

\* An extraction is defined for every number of entries.
LEMMA ExtractionExists ==
  ASSUME NEW a, NEW n \in Nat
  PROVE  \E f : Extraction(a, n, f)
<1> DEFINE Bad == {k \in Nat : ~ \E f : Extraction(a, k, f)}
<1>1. SUFFICES ASSUME Bad # {} PROVE FALSE
  OBVIOUS
<1>2. PICK m \in Bad : \A k \in Bad : m <= k
  <2> HIDE DEF Bad
  <2>1. Bad \subseteq Nat BY DEF Bad
  <2> QED BY <1>1, <2>1, LeastNatural
<1>3. m # 0
  <2>1. ASSUME m = 0 PROVE FALSE
    <3> DEFINE g == [k \in 0..0 |-> Start]
    <3>1. g = [k \in 0..0 |-> IF k = 0 THEN Start ELSE ExtractEntry(g[k - 1], a[k])]
      OBVIOUS
    <3>2. Extraction(a, 0, g)
      BY <3>1 DEF Extraction
    <3> QED BY <3>2, <2>1, <1>2
  <2> QED BY <2>1
<1>4. m - 1 \in Nat /\ m - 1 \notin Bad
  BY <1>2, <1>3
<1>5. PICK f : Extraction(a, m - 1, f)
  BY <1>4
<1> DEFINE g == [k \in 0..m |-> IF k = m THEN ExtractEntry(f[m - 1], a[m]) ELSE f[k]]
<1>6. \A k \in 0..m : g[k] = IF k = 0 THEN Start ELSE ExtractEntry(g[k - 1], a[k])
  <2>1. \A k \in 0..(m - 1) : f[k] = IF k = 0 THEN Start ELSE ExtractEntry(f[k - 1], a[k])
    BY <1>5, <1>4 DEF Extraction
  <2>2. SUFFICES ASSUME NEW k \in 0..m PROVE g[k] = IF k = 0 THEN Start ELSE ExtractEntry(g[k - 1], a[k])
    OBVIOUS
  <2>3. CASE k = m
    <3>1. g[k - 1] = f[m - 1] BY <2>3, <1>3, <1>4
    <3> QED BY <2>3, <3>1, <1>3
  <2>4. CASE k # m /\ k = 0
    BY <2>1, <2>4, <1>4
  <2>5. CASE k # m /\ k # 0
    <3>1. k \in 0..(m - 1) /\ k - 1 \in 0..m /\ k - 1 # m BY <2>5, <1>4
    <3>2. g[k] = f[k] /\ g[k - 1] = f[k - 1] BY <2>5, <3>1
    <3> HIDE DEF g
    <3> QED BY <2>1, <3>1, <3>2, <2>5
  <2> QED BY <2>3, <2>4, <2>5
<1>7. g = [k \in 0..m |-> IF k = 0 THEN Start ELSE ExtractEntry(g[k - 1], a[k])]
  <2>1. g = [k \in 0..m |-> g[k]] OBVIOUS
  <2> HIDE DEF g
  <2> QED BY <1>6, <2>1
<1>8. Extraction(a, m, g)
  <2> HIDE DEF g
  <2> QED BY <1>7 DEF Extraction
<1> QED BY <1>8, <1>2

\* What an extraction leaves has an entry for each of the files.
LEMMA ExtractedFiles ==
  ASSUME NEW a, Len(a) \in Nat
  PROVE  DOMAIN ExtractTarGz(a).files = Files
           /\ ExtractTarGz(a).files = [g \in Files |-> ExtractTarGz(a).files[g]]
<1> DEFINE N == Len(a)
           f == CHOOSE f : Extraction(a, N, f)
<1>1. Extraction(a, N, f)
  BY ExtractionExists
<1>2. ExtractTarGz(a) = f[N]
  BY DEF ExtractTarGz, Extraction, Start
<1> HIDE DEF f
<1> DEFINE Fine(x) == x = [ok |-> x.ok, entries |-> x.entries, bytes |-> x.bytes, files |-> x.files]
                        /\ x.files = [h \in Files |-> x.files[h]]
           Bad == {k \in 0..N : ~ Fine(f[k])}
<1>3. Bad = {}
  <2>1. SUFFICES ASSUME Bad # {} PROVE FALSE
    OBVIOUS
  <2>2. PICK m \in Bad : \A k \in Bad : m <= k
    <3>1. Bad \subseteq Nat OBVIOUS
    <3> HIDE DEF Bad
    <3> QED BY <2>1, <3>1, LeastNatural
  <2>3. f[0] = Start BY <1>1 DEF Extraction
  <2>4. Fine(Start)
    BY DEF Start, Empty
  <2>5. m # 0 /\ m \in 1..N BY <2>2, <2>3, <2>4
  <2>6. m - 1 \in 0..N /\ m - 1 \notin Bad BY <2>5, <2>2
  <2>7. Fine(f[m - 1]) BY <2>6
  <2>8. f[m] = ExtractEntry(f[m - 1], a[m])
    BY <1>1, <2>5 DEF Extraction
  <2>9. ASSUME NEW x, NEW e, Fine(x) PROVE Fine(ExtractEntry(x, e))
    <3>0. PICK y : y = ExtractEntry(x, e)
      OBVIOUS
    <3> DEFINE total == IF e.type = "file" THEN x.bytes + e.size ELSE x.bytes
    <3>1. \/ y = x
          \/ y = [x EXCEPT !.ok = FALSE]
          \/ \E b, fs : /\ y = [ok |-> TRUE, entries |-> x.entries + 1, bytes |-> b, files |-> fs]
                        /\ fs = x.files \/ fs = [x.files EXCEPT ![e.to] = e.body]
      <4>1. PICK b : b = IF e.to = "skip" THEN x.bytes ELSE total OBVIOUS
      <4>2. PICK fs : fs = IF e.to \in Files /\ e.type = "file" THEN [x.files EXCEPT ![e.to] = e.body] ELSE x.files
        OBVIOUS
      <4>3. \/ y = x
            \/ y = [x EXCEPT !.ok = FALSE]
            \/ y = [ok |-> TRUE, entries |-> x.entries + 1, bytes |-> b, files |-> fs]
        BY <3>0, <4>1, <4>2 DEF ExtractEntry
      <4> QED BY <4>2, <4>3
    <3>2. ASSUME y = x PROVE Fine(y)
      BY <3>2, <2>9
    <3>3. ASSUME y = [x EXCEPT !.ok = FALSE] PROVE Fine(y)
      <4>1. y = [ok |-> FALSE, entries |-> x.entries, bytes |-> x.bytes, files |-> x.files]
        BY <3>3, <2>9
      <4> QED BY <4>1, <2>9
    <3>4. ASSUME NEW b, NEW fs, y = [ok |-> TRUE, entries |-> x.entries + 1, bytes |-> b, files |-> fs],
                 fs = x.files \/ fs = [x.files EXCEPT ![e.to] = e.body]
          PROVE Fine(y)
      <4>1. fs = [h \in Files |-> fs[h]] BY <3>4, <2>9
      <4>2. y = [ok |-> y.ok, entries |-> y.entries, bytes |-> y.bytes, files |-> y.files] /\ y.files = fs BY <3>4
      <4> QED BY <4>1, <4>2
    <3>5. Fine(y) BY <3>1, <3>2, <3>3, <3>4
    <3> QED BY <3>0, <3>5
  <2> HIDE DEF Fine
  <2>10. Fine(f[m]) BY <2>7, <2>8, <2>9
  <2> QED BY <2>10, <2>2
<1>4. Fine(f[N])
  BY <1>3
<1> QED BY <1>2, <1>4

\* Nothing is extracted from an archive without entries.
LEMMA EmptyArchive == ExtractTarGz(<<>>).files = Empty
<1> DEFINE f == CHOOSE f : Extraction(<<>>, 0, f)
<1>1. Extraction(<<>>, 0, f)
  BY ExtractionExists
<1>2. Len(<<>>) = 0
  OBVIOUS
<1>3. ExtractTarGz(<<>>) = f[0]
  BY <1>2 DEF ExtractTarGz, Extraction, Start
<1> HIDE DEF f
<1>4. f[0] = Start
  BY <1>1 DEF Extraction
<1> QED BY <1>3, <1>4 DEF Start

-----------------------------------------------------------------------------
(* The invariant. *)

Stages == {"lock", "load", "remove", "fetch", "aside", "finalize", "reload"}
AnyArchives == Archives \cup {<<>>} \cup UNION {{first[ref] : ref \in Refs} : first \in FirstOffers}
Bodies == {NoFile} \cup UNION {{ExtractTarGz(a).files[f] : f \in Files} : a \in AnyArchives}
FileMaps == [Files -> Bodies]
DirType == [there: BOOLEAN, marker: BOOLEAN, files: FileMaps]
JobType == [at: Stages, ref: {r \in Refs : r.form # "directory"},
            source: {ParseBundleSource(r) : r \in Refs}, entry: Entries, tmp: FileMaps]
Reasons == {"gate", "transfer", "archive", "rename", "reload"}
OkValues == BOOLEAN \cup {b.compatible : b \in Bodies}
Results == [ok: OkValues, why: Reasons, files: FileMaps]
LockType == [entry: [Dirs -> Entries \cup {0}], refs: [Entries -> Nat], held: [Entries -> Workers \cup {Unheld}]]

Data ==
  /\ cache \in [Dirs -> DirType]
  /\ offered \in [Refs -> AnyArchives] /\ history \in [Refs -> SUBSET AnyArchives]
  /\ jobs \in [Workers -> {NoJob} \cup JobType]
  /\ \A w \in Workers : jobs[w] # NoJob => jobs[w].source = ParseBundleSource(jobs[w].ref)
  /\ locks \in [Processes -> LockType] /\ done \in [Refs -> Seq(Results)]
  /\ count \in [resolves: Nat, publishes: Nat, kills: Nat] /\ (count.kills # 0 => MaxKills # 0)
  /\ \A ref \in Refs : offered[ref] \in history[ref]
  /\ \A ref \in Refs : ref.form = "directory" => ExtractTarGz(offered[ref]).ok

\* The workers of a process that refer to an entry.
Referring(p, e) == {w \in Workers : ProcessOf[w] = p /\ jobs[w] # NoJob /\ jobs[w].entry = e}

\* A worker refers to the entry of its directory, and holds it past its lock; an
\* entry in the table has a worker, is of one directory, and counts its workers.
Turns ==
  /\ \A w \in Workers : jobs[w] # NoJob => locks[ProcessOf[w]].entry[Dir(w)] = jobs[w].entry
  /\ \A p \in Processes, d \in Dirs : locks[p].entry[d] # 0 =>
       \E w \in Workers : ProcessOf[w] = p /\ jobs[w] # NoJob /\ Dir(w) = d
  /\ \A p \in Processes, c, d \in Dirs : locks[p].entry[c] = locks[p].entry[d] /\ locks[p].entry[d] # 0 => c = d
  /\ \A w \in Workers : jobs[w] # NoJob /\ jobs[w].at # "lock" =>
       locks[ProcessOf[w]].held[jobs[w].entry] = w
  /\ \A p \in Processes, e \in Entries : locks[p].refs[e] = Cardinality(Referring(p, e))

\* The files of an archive that was offered for a directory.
WholeAt(files, d) ==
  \E r \in Refs : CacheDirName(r) = d /\ \E a \in history[r] :
     ExtractTarGz(a).ok /\ files = ExtractTarGz(a).files

\* Nobody is removing a directory, or has been killed at it.
Complete(d) ==
  cache[d].marker /\ count.kills = 0 /\ \A w \in Workers : At(w, "remove") => Dir(w) # d

\* A directory holds files of one archive that was offered for it, and all of
\* them once it is complete.
DirOK(d) ==
  /\ ~cache[d].there => cache[d] = Absent
  /\ cache[d].there => \E files \in FileMaps :
       /\ WholeAt(files, d)
       /\ \A f \in Files : cache[d].files[f] \in {files[f], NoFile}
       /\ Complete(d) => cache[d].files = files

Wholeness ==
  /\ \A d \in Dirs : DirOK(d)
  /\ \A w \in Workers : jobs[w] # NoJob /\ jobs[w].at \in {"aside", "finalize"} =>
       WholeAt(jobs[w].tmp, Dir(w))

\* No resolution passed the gate that should not have.
Gated ==
  \A ref \in Refs : \A i \in DOMAIN done[ref] : done[ref][i].ok => done[ref][i].files["manifest"].compatible

BundleInv == Data /\ Turns /\ Wholeness /\ Gated

\* One process; and archives whose every file is needed, or no kill.
OneProcessOnly == \A v, w \in Workers : ProcessOf[v] = ProcessOf[w]
NoneOptional == \A a \in AnyArchives : ExtractTarGz(a).ok => ExtractTarGz(a).files["openapi"] = NoFile

Returned ==
  \A ref \in Refs : \A i \in DOMAIN done[ref] : done[ref][i].ok =>
     /\ WholeAt(done[ref][i].files, CacheDirName(ref))
     /\ ParseShorthandRef(ref) => /\ done[ref][i].files["manifest"].name = ref.name
                                  /\ done[ref][i].files["manifest"].version = ref.version

\* A reference that has resolved finds its directory as it was.
Alone(ref) == ref.form # "directory" /\ \A r \in Refs : SameArtifact(ref, r) => r = ref
Settled(ref) ==
  LET d == CacheDirName(ref)
  IN /\ cache[d].there /\ cache[d].marker /\ Usable(cache[d].files, ref, ParseBundleSource(ref))
     /\ cache[d].files["manifest"].compatible
     /\ \A w \in Workers : jobs[w] # NoJob /\ Dir(w) = d => jobs[w].at \in {"lock", "load", "reload"}
Offline ==
  \A ref \in Refs : Alone(ref) =>
    /\ \A i \in DOMAIN done[ref] : done[ref][i].ok => Settled(ref)
    /\ \A i, j \in DOMAIN done[ref] : i < j /\ done[ref][i].ok => done[ref][j].ok

ReturnInv == Returned /\ Offline

-----------------------------------------------------------------------------
(* Facts about the definitions. *)

\* An archive extracts to files.
LEMMA AnyArchiveFiles ==
  ASSUME NEW a \in AnyArchives
  PROVE  ExtractTarGz(a).files \in FileMaps
<1>1. Len(a) \in Nat
  BY BundleAssumption DEF AnyArchives
<1>2. ExtractTarGz(a).files = [g \in Files |-> ExtractTarGz(a).files[g]]
  BY <1>1, ExtractedFiles
<1>3. \A f \in Files : ExtractTarGz(a).files[f] \in Bodies
  BY DEF Bodies
<1> QED BY <1>2, <1>3 DEF FileMaps

\* No files are files, and no directory is one.
LEMMA EmptyIsFileMap == Empty \in FileMaps /\ NoFile \in Bodies /\ Absent \in DirType
BY DEF Empty, FileMaps, Bodies, Absent, DirType

\* References share a directory exactly when they are one artifact.
LEMMA SameDirSameArtifact ==
  ASSUME NEW r \in Refs, NEW q \in Refs
  PROVE  CacheDirName(r) = CacheDirName(q) <=> SameArtifact(r, q)
BY DEF CacheDirName, SameArtifact

\* A reference has a directory, wherever it comes from.
LEMMA DirOfReference ==
  ASSUME NEW r \in Refs
  PROVE  ParseBundleSource(r).dir = CacheDirName(r) /\ CacheDirName(r) \in Dirs
BY DEF ParseBundleSource, Dirs

\* What is whole for a directory is whole for its references.
LEMMA WholeOfDirectory ==
  ASSUME NEW files, NEW ref \in Refs, WholeAt(files, CacheDirName(ref))
  PROVE  Whole(files, ref)
<1>1. PICK r \in Refs : CacheDirName(r) = CacheDirName(ref) /\ \E a \in history[r] :
        ExtractTarGz(a).ok /\ files = ExtractTarGz(a).files
  BY DEF WholeAt
<1>2. SameArtifact(ref, r)
  BY <1>1, SameDirSameArtifact
<1> QED BY <1>1, <1>2 DEF Whole

\* A worker with a job is in the directory of its reference.
LEMMA DirOfWorker ==
  ASSUME Data, NEW w \in Workers, jobs[w] # NoJob
  PROVE  /\ jobs[w] \in JobType /\ Dir(w) \in Dirs /\ Dir(w) = CacheDirName(jobs[w].ref) /\ jobs[w].ref \in Refs
         /\ ProcessOf[w] \in Processes /\ jobs[w].source = ParseBundleSource(jobs[w].ref)
<1>1. jobs[w] \in JobType
  BY DEF Data
<1> QED BY <1>1, DirOfReference DEF Data, Dir, JobType, Processes

\* There are finitely many workers at an entry.
LEMMA ReferringFinite ==
  ASSUME NEW p, NEW e
  PROVE  IsFiniteSet(Referring(p, e))
<1>1. Referring(p, e) \subseteq Workers
  BY DEF Referring
<1> QED BY <1>1, BundleAssumption, FS_Subset

\* There are as many entries as workers.
LEMMA NumberOfEntries == Cardinality(Workers) \in Nat /\ IsFiniteSet(Entries) /\ Cardinality(Entries) = Cardinality(Workers)
<1>1. Cardinality(Workers) \in Nat
  BY BundleAssumption, FS_CardinalityType
<1>2. IsFiniteSet(1..Cardinality(Workers)) /\ Cardinality(1..Cardinality(Workers)) = IF 1 > Cardinality(Workers) THEN 0 ELSE Cardinality(Workers) - 1 + 1
  BY <1>1, FS_Interval
<1> QED BY <1>1, <1>2 DEF Entries

\* A worker that has no job leaves an entry that no job refers to.
LEMMA FreshEntry ==
  ASSUME Data, NEW w \in Workers, jobs[w] = NoJob, NEW p
  PROVE  \E e \in Entries : e \notin UsedEntries(p)
<1> DEFINE Working == {v \in Workers : ProcessOf[v] = p /\ jobs[v] # NoJob}
           f == [v \in Working |-> jobs[v].entry]
<1>1. Working \in SUBSET (Workers \ {w})
  OBVIOUS
<1>2. IsFiniteSet(Workers \ {w}) /\ Cardinality(Workers \ {w}) = Cardinality(Workers) - 1
  BY BundleAssumption, FS_RemoveElement
<1>3. IsFiniteSet(Working) /\ Cardinality(Working) <= Cardinality(Workers) - 1
  BY <1>1, <1>2, FS_Subset
<1>4. UsedEntries(p) = {f[v] : v \in Working}
  BY DEF UsedEntries
<1>5. f \in Surjection(Working, UsedEntries(p))
  BY <1>4 DEF Surjection
<1> HIDE DEF Working, f
<1>6. IsFiniteSet(UsedEntries(p)) /\ Cardinality(UsedEntries(p)) <= Cardinality(Working)
  BY <1>3, <1>5, FS_Surjection
<1>7. Cardinality(UsedEntries(p)) \in Nat /\ Cardinality(Working) \in Nat
  BY <1>3, <1>6, FS_CardinalityType
<1>8. ASSUME Entries \subseteq UsedEntries(p) PROVE FALSE
  <2>1. Cardinality(Entries) <= Cardinality(UsedEntries(p))
    BY <1>6, <1>8, FS_Subset
  <2> QED BY <2>1, <1>3, <1>6, <1>7, NumberOfEntries
<1> QED BY <1>8

-----------------------------------------------------------------------------
(* The lock table. *)

\* What a release does to the table.
LEMMA ReleasedLock ==
  ASSUME Data, NEW p \in Processes, NEW d \in Dirs, NEW e \in Entries, locks[p].refs[e] # 0
  PROVE  LET N == ReleaseLock(p, d, e) IN
         /\ N \in [Processes -> LockType]
         /\ \A q \in Processes : q # p => N[q] = locks[q]
         /\ N[p].held = [locks[p].held EXCEPT ![e] = Unheld]
         /\ N[p].refs = [locks[p].refs EXCEPT ![e] = @ - 1]
         /\ N[p].entry = [locks[p].entry EXCEPT ![d] = IF locks[p].refs[e] = 1 THEN 0 ELSE @]
<1>1. locks \in [Processes -> LockType] /\ locks[p] \in LockType
  BY DEF Data
<1> DEFINE l == locks[p]
           m == [entry |-> [l.entry EXCEPT ![d] = IF l.refs[e] = 1 THEN 0 ELSE @],
                 refs |-> [l.refs EXCEPT ![e] = @ - 1], held |-> [l.held EXCEPT ![e] = Unheld]]
<1>2. l.entry \in [Dirs -> Entries \cup {0}] /\ l.refs \in [Entries -> Nat] /\ l.held \in [Entries -> Workers \cup {Unheld}]
      /\ l = [entry |-> l.entry, refs |-> l.refs, held |-> l.held]
  BY <1>1 DEF LockType
<1>3. l.refs[e] - 1 \in Nat
  BY <1>2
<1>4. m \in LockType
  BY <1>2, <1>3 DEF LockType
<1>5. ReleaseLock(p, d, e) = [locks EXCEPT ![p] = m]
  <2> DEFINE m1 == [l EXCEPT !.held = [l.held EXCEPT ![e] = Unheld]]
             m2 == [m1 EXCEPT !.refs = [m1.refs EXCEPT ![e] = @ - 1]]
             m3 == [m2 EXCEPT !.entry = [m2.entry EXCEPT ![d] = IF l.refs[e] = 1 THEN 0 ELSE @]]
  <2>1. m1 = [entry |-> l.entry, refs |-> l.refs, held |-> [l.held EXCEPT ![e] = Unheld]]
    BY <1>2
  <2>2. m2 = [entry |-> l.entry, refs |-> [l.refs EXCEPT ![e] = @ - 1], held |-> [l.held EXCEPT ![e] = Unheld]]
    <3> HIDE DEF m1
    <3> QED BY <1>2, <2>1
  <2>3. m3 = m
    <3> HIDE DEF m1, m2
    <3> QED BY <1>2, <2>2
  <2>4. ReleaseLock(p, d, e) = [locks EXCEPT ![p] = m3]
    BY <1>1 DEF ReleaseLock
  <2> QED BY <2>3, <2>4
<1> HIDE DEF m
<1>6. ReleaseLock(p, d, e)[p] = m
  BY <1>1, <1>5
<1> QED BY <1>1, <1>4, <1>5, <1>6 DEF m

\* And what a registration does.
Registering(p, d, mine, n) == [locks EXCEPT ![p].entry[d] = mine, ![p].refs[mine] = n]

\* The table after a registration, field by field.
LEMMA RegisteredLock ==
  ASSUME Data, NEW p \in Processes, NEW d \in Dirs, NEW mine \in Entries, NEW n \in Nat
  PROVE  LET N == Registering(p, d, mine, n) IN
         /\ N \in [Processes -> LockType]
         /\ \A q \in Processes : q # p => N[q] = locks[q]
         /\ N[p].held = locks[p].held
         /\ N[p].refs = [locks[p].refs EXCEPT ![mine] = n]
         /\ N[p].entry = [locks[p].entry EXCEPT ![d] = mine]
<1>1. locks \in [Processes -> LockType] /\ locks[p] \in LockType
  BY DEF Data
<1> DEFINE l == locks[p]
           m == [entry |-> [l.entry EXCEPT ![d] = mine], refs |-> [l.refs EXCEPT ![mine] = n], held |-> l.held]
           N == Registering(p, d, mine, n)
<1>2. l.entry \in [Dirs -> Entries \cup {0}] /\ l.refs \in [Entries -> Nat] /\ l.held \in [Entries -> Workers \cup {Unheld}]
      /\ l = [entry |-> l.entry, refs |-> l.refs, held |-> l.held]
  BY <1>1 DEF LockType
<1>4. m \in LockType
  BY <1>2 DEF LockType
<1>5. N = [locks EXCEPT ![p] = m]
  <2> DEFINE m1 == [l EXCEPT !.entry = [l.entry EXCEPT ![d] = mine]]
             m2 == [m1 EXCEPT !.refs = [m1.refs EXCEPT ![mine] = n]]
  <2>1. m1 = [entry |-> [l.entry EXCEPT ![d] = mine], refs |-> l.refs, held |-> l.held]
    BY <1>2
  <2>2. m2 = m
    <3> HIDE DEF m1
    <3> QED BY <1>2, <2>1
  <2>3. N = [locks EXCEPT ![p] = m2]
    BY <1>1 DEF Registering
  <2> QED BY <2>2, <2>3
<1> HIDE DEF m, N
<1>6. N[p] = m
  BY <1>1, <1>5
<1>7. /\ N \in [Processes -> LockType]
      /\ \A q \in Processes : q # p => N[q] = locks[q]
      /\ N[p].held = locks[p].held
      /\ N[p].refs = [locks[p].refs EXCEPT ![mine] = n]
      /\ N[p].entry = [locks[p].entry EXCEPT ![d] = mine]
  BY <1>1, <1>4, <1>5, <1>6 DEF m
<1> QED BY <1>7 DEF N

\* A step of a worker that holds its lock keeps the table.
LEMMA TurnsMove ==
  ASSUME Data, Turns, NEW w \in Workers, jobs[w] # NoJob, NEW j \in JobType,
         jobs' = [jobs EXCEPT ![w] = j], locks' = locks,
         j.entry = jobs[w].entry, j.source = jobs[w].source, jobs[w].at # "lock", j.at # "lock"
  PROVE  Turns'
<1>1. jobs \in [Workers -> {NoJob} \cup JobType]
  BY DEF Data
<1>2. j # NoJob
  BY DEF JobType, NoJob, Stages
<1>3. jobs'[w] = j /\ \A v \in Workers : v # w => jobs'[v] = jobs[v]
  BY <1>1
<1>4. \A v \in Workers : (jobs'[v] # NoJob <=> jobs[v] # NoJob) /\ jobs'[v].entry = jobs[v].entry /\ jobs'[v].source = jobs[v].source
        /\ (jobs'[v].at # "lock" <=> jobs[v].at # "lock")
  BY <1>2, <1>3
<1>5. \A p, e : Referring(p, e)' = Referring(p, e)
  BY <1>4 DEF Referring
<1> QED BY <1>4, <1>5 DEF Turns, Dir

\* A worker that takes the lock of its entry was not the only one to want it, but
\* is the only one to have it.
LEMMA TurnsLock ==
  ASSUME Data, Turns, NEW w \in Workers, Lock(w)
  PROVE  Turns' /\ locks' \in [Processes -> LockType]
<1> DEFINE p == ProcessOf[w]
           j == [jobs[w] EXCEPT !.at = "load"]
           e == jobs[w].entry
<1>1. jobs \in [Workers -> {NoJob} \cup JobType] /\ jobs[w] \in JobType /\ jobs[w] # NoJob /\ jobs[w].at = "lock"
      /\ p \in Processes /\ e \in Entries
  BY DirOfWorker DEF Lock, At, Data, JobType
<1>2. jobs' = [jobs EXCEPT ![w] = j] /\ j \in JobType
  BY <1>1 DEF Lock, Goto, JobType, Stages
<1>3. j # NoJob /\ j.entry = e /\ j.source = jobs[w].source /\ j.at = "load"
  BY <1>1 DEF JobType, NoJob
<1> HIDE DEF j
<1>4. jobs'[w] = j /\ \A v \in Workers : v # w => jobs'[v] = jobs[v]
  BY <1>1, <1>2
<1>5. \A v \in Workers : (jobs'[v] # NoJob <=> jobs[v] # NoJob) /\ jobs'[v].entry = jobs[v].entry /\ jobs'[v].source = jobs[v].source
  BY <1>1, <1>3, <1>4
<1>6. \A q, x : Referring(q, x)' = Referring(q, x)
  BY <1>5 DEF Referring
<1>7. locks \in [Processes -> LockType] /\ locks[p] \in LockType
  BY <1>1 DEF Data
<1> DEFINE l == locks[p]
           h == [l.held EXCEPT ![e] = w]
           m == [l EXCEPT !.held = h]
<1>8. l.held \in [Entries -> Workers \cup {Unheld}] /\ l = [entry |-> l.entry, refs |-> l.refs, held |-> l.held]
  BY <1>7 DEF LockType
<1>9. h \in [Entries -> Workers \cup {Unheld}] /\ h[e] = w /\ (\A x \in Entries : x # e => h[x] = l.held[x])
  BY <1>1, <1>8
<1>10. locks' = [locks EXCEPT ![p] = m]
  BY <1>1, <1>7 DEF Lock, Job
<1> HIDE DEF h
<1>11. m = [entry |-> l.entry, refs |-> l.refs, held |-> h]
  BY <1>8
<1> HIDE DEF m
<1>12. m \in LockType
  BY <1>7, <1>9, <1>11 DEF LockType
<1>13. locks' \in [Processes -> LockType] /\ locks'[p] = m /\ \A q \in Processes : q # p => locks'[q] = locks[q]
  BY <1>7, <1>10, <1>12, <1>1
<1>14. \A q \in Processes : locks'[q].entry = locks[q].entry /\ locks'[q].refs = locks[q].refs
  BY <1>11, <1>13
<1>15. \A v \in Workers : jobs'[v] # NoJob /\ jobs'[v].at # "lock" =>
         locks'[ProcessOf[v]].held[jobs'[v].entry] = v
  <2> SUFFICES ASSUME NEW v \in Workers, jobs'[v] # NoJob, jobs'[v].at # "lock"
               PROVE  locks'[ProcessOf[v]].held[jobs'[v].entry] = v
    OBVIOUS
  <2>1. CASE v = w
    BY <2>1, <1>4, <1>3, <1>13, <1>11, <1>9
  <2>2. CASE v # w
    <3>1. jobs[v] # NoJob /\ jobs[v].at # "lock" /\ jobs'[v] = jobs[v]
      BY <2>2, <1>4
    <3>2. locks[ProcessOf[v]].held[jobs[v].entry] = v /\ ProcessOf[v] \in Processes /\ jobs[v].entry \in Entries
      BY <3>1, DirOfWorker DEF Turns, JobType
    <3>3. CASE ProcessOf[v] # p
      BY <3>1, <3>2, <3>3, <1>13
    <3>4. CASE ProcessOf[v] = p
      <4>1. locks[p].held[e] = Unheld
        BY DEF Lock, Job
      <4>2. v # Unheld
        BY BundleAssumption DEF Unheld
      <4>3. jobs[v].entry # e
        BY <3>2, <3>4, <4>1, <4>2
      <4> QED BY <3>1, <3>2, <3>4, <4>3, <1>13, <1>11, <1>9
    <3> QED BY <3>3, <3>4
  <2> QED BY <2>1, <2>2
<1>16. /\ \A v \in Workers : jobs'[v] # NoJob => locks'[ProcessOf[v]].entry[jobs'[v].source.dir] = jobs'[v].entry
       /\ \A q \in Processes, d \in Dirs : locks'[q].entry[d] # 0 =>
            \E v \in Workers : ProcessOf[v] = q /\ jobs'[v] # NoJob /\ jobs'[v].source.dir = d
  BY <1>5, <1>14 DEF Turns, Dir, Processes
<1>17. \A q \in Processes, x \in Entries : locks'[q].refs[x] = Cardinality(Referring(q, x)')
  BY <1>6, <1>14 DEF Turns
<1>18. \A q \in Processes, c, d \in Dirs : locks'[q].entry[c] = locks'[q].entry[d] /\ locks'[q].entry[d] # 0 => c = d
  BY <1>14 DEF Turns
<1> QED BY <1>13, <1>15, <1>16, <1>17, <1>18 DEF Turns, Dir

\* A worker that has returned refers to no entry; the entry goes with the last.
LEMMA TurnsRelease ==
  ASSUME Data, Turns, NEW w \in Workers, jobs[w] # NoJob, jobs[w].at # "lock",
         locks' = ReleaseLock(ProcessOf[w], Dir(w), jobs[w].entry), jobs' = [jobs EXCEPT ![w] = NoJob]
  PROVE  Turns' /\ locks' \in [Processes -> LockType]
<1> DEFINE p == ProcessOf[w]
           e == jobs[w].entry
           d == Dir(w)
<1>1. jobs \in [Workers -> {NoJob} \cup JobType] /\ jobs[w] \in JobType /\ p \in Processes /\ e \in Entries /\ d \in Dirs
  BY DirOfWorker DEF Data, JobType
<1>2. jobs'[w] = NoJob /\ \A v \in Workers : v # w => jobs'[v] = jobs[v]
  BY <1>1
<1>3. IsFiniteSet(Referring(p, e)) /\ w \in Referring(p, e) /\ locks[p].refs[e] = Cardinality(Referring(p, e))
  <2>1. w \in Referring(p, e) BY DEF Referring
  <2> HIDE DEF p, e
  <2>2. locks[p].refs[e] = Cardinality(Referring(p, e)) BY <1>1 DEF Turns
  <2> QED BY <2>1, <2>2, ReferringFinite
<1>4. Cardinality(Referring(p, e)) \in Nat /\ Cardinality(Referring(p, e)) # 0
  BY <1>3, FS_CardinalityType, FS_EmptySet
<1>5. Cardinality(Referring(p, e) \ {w}) = Cardinality(Referring(p, e)) - 1 /\ IsFiniteSet(Referring(p, e) \ {w})
  BY <1>3, FS_RemoveElement
<1>6. \A q, x : Referring(q, x)' = Referring(q, x) \ {w}
  BY <1>2 DEF Referring
<1> HIDE DEF p, e, d
<1>7. /\ locks' \in [Processes -> LockType]
      /\ \A q \in Processes : q # p => locks'[q] = locks[q]
      /\ locks'[p].held = [locks[p].held EXCEPT ![e] = Unheld]
      /\ locks'[p].refs = [locks[p].refs EXCEPT ![e] = @ - 1]
      /\ locks'[p].entry = [locks[p].entry EXCEPT ![d] = IF locks[p].refs[e] = 1 THEN 0 ELSE @]
  <2>1. locks[p].refs[e] # 0 BY <1>3, <1>4
  <2>2. locks' = ReleaseLock(p, d, e) BY DEF p, d, e
  <2> QED BY <1>1, <2>1, <2>2, ReleasedLock
<1>8. locks[p] \in LockType /\ locks[p].held \in [Entries -> Workers \cup {Unheld}] /\ locks[p].refs \in [Entries -> Nat]
      /\ locks[p].entry \in [Dirs -> Entries \cup {0}]
  <2>1. locks[p] \in LockType BY <1>1 DEF Data
  <2> QED BY <2>1 DEF LockType
<1>9. locks[p].entry[d] = e /\ e # 0
  BY <1>1, NumberOfEntries DEF Turns, p, e, d, Entries
<1>10. \A v \in Workers : v # w /\ jobs[v] # NoJob /\ ProcessOf[v] = p => (Dir(v) = d <=> jobs[v].entry = e)
  <2> SUFFICES ASSUME NEW v \in Workers, v # w, jobs[v] # NoJob, ProcessOf[v] = p
               PROVE  Dir(v) = d <=> jobs[v].entry = e
    OBVIOUS
  <2>1. locks[p].entry[Dir(v)] = jobs[v].entry
    BY DEF Turns
  <2>2. ASSUME jobs[v].entry = e PROVE Dir(v) = d
    <3>1. Dir(v) \in Dirs BY DirOfWorker
    <3> QED BY <2>1, <2>2, <3>1, <1>9, <1>1 DEF Turns
  <2> QED BY <2>1, <2>2, <1>9
<1>11. \A v \in Workers : jobs'[v] # NoJob => locks'[ProcessOf[v]].entry[jobs'[v].source.dir] = jobs'[v].entry
  <2> SUFFICES ASSUME NEW v \in Workers, jobs'[v] # NoJob
               PROVE  locks'[ProcessOf[v]].entry[jobs'[v].source.dir] = jobs'[v].entry
    OBVIOUS
  <2>1. v # w /\ jobs'[v] = jobs[v] /\ jobs[v] # NoJob /\ Dir(v) \in Dirs /\ ProcessOf[v] \in Processes
    BY <1>2, DirOfWorker
  <2>2. locks[ProcessOf[v]].entry[Dir(v)] = jobs[v].entry
    BY <2>1 DEF Turns
  <2>3. CASE ProcessOf[v] # p
    BY <2>1, <2>2, <2>3, <1>7 DEF Dir
  <2>4. CASE ProcessOf[v] = p /\ Dir(v) # d
    BY <2>1, <2>2, <2>4, <1>7, <1>8 DEF Dir
  <2>5. CASE ProcessOf[v] = p /\ Dir(v) = d
    <3>1. jobs[v].entry = e
      BY <2>1, <2>5, <1>10
    <3>2. v \in Referring(p, e) /\ v \in Referring(p, e) \ {w}
      BY <2>1, <2>5, <3>1 DEF Referring
    <3>3. Cardinality(Referring(p, e)) # 1
      BY <3>2, <1>4, <1>5, FS_EmptySet
    <3> QED BY <2>1, <2>2, <2>5, <3>3, <1>3, <1>7, <1>8 DEF Dir
  <2> QED BY <2>3, <2>4, <2>5
<1>12. \A q \in Processes, x \in Dirs : locks'[q].entry[x] # 0 =>
         \E v \in Workers : ProcessOf[v] = q /\ jobs'[v] # NoJob /\ jobs'[v].source.dir = x
  <2> SUFFICES ASSUME NEW q \in Processes, NEW x \in Dirs, locks'[q].entry[x] # 0
               PROVE  \E v \in Workers : ProcessOf[v] = q /\ jobs'[v] # NoJob /\ jobs'[v].source.dir = x
    OBVIOUS
  <2>1. CASE q # p \/ x # d
    <3>1. locks[q].entry[x] # 0
      BY <2>1, <1>7, <1>8
    <3>2. PICK v \in Workers : ProcessOf[v] = q /\ jobs[v] # NoJob /\ Dir(v) = x
      BY <3>1 DEF Turns
    <3>3. v # w
      BY <3>2, <2>1 DEF p, d
    <3> QED BY <3>2, <3>3, <1>2 DEF Dir
  <2>2. CASE q = p /\ x = d
    <3>1. locks[p].refs[e] # 1
      BY <2>2, <1>7, <1>8
    <3>2. Cardinality(Referring(p, e) \ {w}) # 0
      BY <3>1, <1>3, <1>4, <1>5
    <3>3. PICK v \in Referring(p, e) : v # w
      BY <3>2, FS_EmptySet
    <3>4. v \in Workers /\ jobs[v] # NoJob /\ ProcessOf[v] = p /\ jobs[v].entry = e
      BY <3>3 DEF Referring
    <3>5. Dir(v) = d
      BY <3>3, <3>4, <1>10
    <3> QED BY <2>2, <3>3, <3>4, <3>5, <1>2 DEF Dir
  <2> QED BY <2>1, <2>2
<1>13. \A v \in Workers : jobs'[v] # NoJob /\ jobs'[v].at # "lock" =>
         locks'[ProcessOf[v]].held[jobs'[v].entry] = v
  <2> SUFFICES ASSUME NEW v \in Workers, jobs'[v] # NoJob, jobs'[v].at # "lock"
               PROVE  locks'[ProcessOf[v]].held[jobs'[v].entry] = v
    OBVIOUS
  <2>1. v # w /\ jobs'[v] = jobs[v] /\ jobs[v] # NoJob /\ jobs[v].entry \in Entries /\ ProcessOf[v] \in Processes
    BY <1>2, DirOfWorker DEF JobType
  <2>2. locks[ProcessOf[v]].held[jobs[v].entry] = v /\ locks[p].held[e] = w
    BY <2>1 DEF Turns, p, e
  <2>3. CASE ProcessOf[v] # p
    BY <2>1, <2>2, <2>3, <1>7
  <2>4. CASE ProcessOf[v] = p
    <3>1. jobs[v].entry # e
      BY <2>1, <2>2, <2>4
    <3> QED BY <2>1, <2>2, <2>4, <3>1, <1>7, <1>8
  <2> QED BY <2>3, <2>4
<1>14. \A q \in Processes, x \in Entries : locks'[q].refs[x] = Cardinality(Referring(q, x)')
  <2> SUFFICES ASSUME NEW q \in Processes, NEW x \in Entries
               PROVE  locks'[q].refs[x] = Cardinality(Referring(q, x)')
    OBVIOUS
  <2>1. CASE q = p /\ x = e
    BY <2>1, <1>3, <1>5, <1>6, <1>7, <1>8
  <2>2. CASE ~ (q = p /\ x = e)
    <3>1. w \notin Referring(q, x)
      BY <2>2 DEF Referring, p, e
    <3>2. Referring(q, x)' = Referring(q, x)
      BY <3>1, <1>6
    <3>3. locks'[q].refs[x] = locks[q].refs[x]
      BY <2>2, <1>7, <1>8
    <3> QED BY <3>2, <3>3 DEF Turns
  <2> QED BY <2>1, <2>2
<1>15. \A q \in Processes, c, x \in Dirs : locks'[q].entry[c] = locks'[q].entry[x] /\ locks'[q].entry[x] # 0 => c = x
  <2> SUFFICES ASSUME NEW q \in Processes, NEW c \in Dirs, NEW x \in Dirs,
                      locks'[q].entry[c] = locks'[q].entry[x], locks'[q].entry[x] # 0
               PROVE  c = x
    OBVIOUS
  <2>1. locks[q].entry[c] = locks[q].entry[x] /\ locks[q].entry[x] # 0
    BY <1>7, <1>8
  <2> QED BY <2>1 DEF Turns
<1> QED BY <1>7, <1>11, <1>12, <1>13, <1>14, <1>15 DEF Turns, Dir

\* A worker that begins finds the entry of its directory, or makes one that no
\* other directory has.
LEMMA TurnsBegin ==
  ASSUME Data, Turns, NEW w \in Workers, jobs[w] = NoJob, NEW ref \in Refs, NEW j \in JobType,
         locks' = RegisterLock(ProcessOf[w], CacheDirName(ref)), jobs' = [jobs EXCEPT ![w] = j],
         j.at = "lock", j.source = ParseBundleSource(ref),
         j.entry = RegisterLock(ProcessOf[w], CacheDirName(ref))[ProcessOf[w]].entry[CacheDirName(ref)]
  PROVE  Turns' /\ locks' \in [Processes -> LockType]
<1> DEFINE p == ProcessOf[w]
           d == CacheDirName(ref)
           fresh == CHOOSE e \in Entries : e \notin UsedEntries(p)
           mine == IF locks[p].entry[d] # 0 THEN locks[p].entry[d] ELSE fresh
           n == IF locks[p].entry[d] # 0 THEN locks[p].refs[mine] + 1 ELSE 1
<1>1. p \in Processes /\ d \in Dirs /\ jobs \in [Workers -> {NoJob} \cup JobType] /\ j.source.dir = d
  BY DirOfReference DEF Processes, Data
<1>2. locks[p] \in LockType /\ locks[p].held \in [Entries -> Workers \cup {Unheld}] /\ locks[p].refs \in [Entries -> Nat]
      /\ locks[p].entry \in [Dirs -> Entries \cup {0}]
  <2>1. locks[p] \in LockType BY <1>1 DEF Data
  <2> QED BY <2>1 DEF LockType
<1>3. fresh \in Entries /\ fresh \notin UsedEntries(p)
  BY FreshEntry
<1> HIDE DEF fresh
<1>4. mine \in Entries
  BY <1>1, <1>2, <1>3
<1>5. n \in Nat
  <2> HIDE DEF mine
  <2> QED BY <1>2, <1>4
<1>6. RegisterLock(p, d) = Registering(p, d, mine, n)
  <2>1. locks \in [Processes -> LockType] BY DEF Data
  <2> QED BY <2>1, <1>1 DEF RegisterLock, Registering, fresh
<1>7. (locks[p].entry[d] # 0 => mine = locks[p].entry[d] /\ n = locks[p].refs[mine] + 1)
      /\ (locks[p].entry[d] = 0 => mine = fresh /\ n = 1)
  OBVIOUS
<1>0. locks' = RegisterLock(p, d) /\ j.entry = locks'[p].entry[d]
  OBVIOUS
<1>10. jobs'[w] = j /\ \A v \in Workers : v # w => jobs'[v] = jobs[v]
  BY <1>1
<1> HIDE DEF mine, n, p, d
<1>8. /\ locks' \in [Processes -> LockType]
      /\ \A q \in Processes : q # p => locks'[q] = locks[q]
      /\ locks'[p].held = locks[p].held
      /\ locks'[p].refs = [locks[p].refs EXCEPT ![mine] = n]
      /\ locks'[p].entry = [locks[p].entry EXCEPT ![d] = mine]
  BY <1>0, <1>1, <1>4, <1>5, <1>6, RegisteredLock
<1>9. j.entry = mine /\ j # NoJob
  <2>1. j.entry = locks'[p].entry[d]
    BY <1>0
  <2>2. locks'[p].entry[d] = mine
    BY <1>8, <1>2, <1>1
  <2>3. j # NoJob
    BY DEF JobType, NoJob, Stages
  <2> QED BY <2>1, <2>2, <2>3
<1>11. ASSUME NEW x \in Dirs, x # d, locks[p].entry[x] # 0 PROVE locks[p].entry[x] # mine
  <2>1. CASE locks[p].entry[d] # 0
    BY <1>7, <1>11, <1>1, <2>1 DEF Turns
  <2>2. CASE locks[p].entry[d] = 0
    <3>1. PICK v \in Workers : ProcessOf[v] = p /\ jobs[v] # NoJob /\ Dir(v) = x
      BY <1>11, <1>1 DEF Turns
    <3>2. locks[p].entry[x] = jobs[v].entry /\ jobs[v].entry \in UsedEntries(p)
      BY <3>1 DEF Turns, UsedEntries
    <3> QED BY <3>2, <1>3, <1>7, <2>2
  <2> QED BY <2>1, <2>2
<1>12. ASSUME NEW v \in Workers, jobs'[v] # NoJob
       PROVE  locks'[ProcessOf[v]].entry[jobs'[v].source.dir] = jobs'[v].entry
  <2>1. CASE v = w
    BY <2>1, <1>10, <1>9, <1>8, <1>2, <1>1 DEF p
  <2>2. CASE v # w
    <3>1. jobs'[v] = jobs[v] /\ jobs[v] # NoJob /\ Dir(v) \in Dirs /\ ProcessOf[v] \in Processes /\ jobs[v].entry \in Entries
      BY <2>2, <1>10, <1>12, DirOfWorker DEF JobType
    <3>2. locks[ProcessOf[v]].entry[Dir(v)] = jobs[v].entry
      BY <3>1 DEF Turns
    <3>3. CASE ProcessOf[v] # p
      BY <3>1, <3>2, <3>3, <1>8 DEF Dir
    <3>4. CASE ProcessOf[v] = p /\ Dir(v) # d
      BY <3>1, <3>2, <3>4, <1>8, <1>2 DEF Dir
    <3>5. CASE ProcessOf[v] = p /\ Dir(v) = d
      <4>1. locks[p].entry[d] # 0
        BY <3>1, <3>2, <3>5, NumberOfEntries DEF Entries
      <4> QED BY <3>1, <3>2, <3>5, <4>1, <1>7, <1>8, <1>2 DEF Dir
    <3> QED BY <3>3, <3>4, <3>5
  <2> QED BY <2>1, <2>2
<1>13. ASSUME NEW q \in Processes, NEW x \in Dirs, locks'[q].entry[x] # 0
       PROVE  \E v \in Workers : ProcessOf[v] = q /\ jobs'[v] # NoJob /\ jobs'[v].source.dir = x
  <2>1. CASE q = p /\ x = d
    BY <2>1, <1>10, <1>9, <1>1 DEF p
  <2>2. CASE ~ (q = p /\ x = d)
    <3>1. locks[q].entry[x] # 0
      BY <2>2, <1>13, <1>8, <1>2
    <3>2. PICK v \in Workers : ProcessOf[v] = q /\ jobs[v] # NoJob /\ Dir(v) = x
      BY <3>1 DEF Turns
    <3> QED BY <3>2, <1>10 DEF Dir
  <2> QED BY <2>1, <2>2
<1>14. ASSUME NEW q \in Processes, NEW c \in Dirs, NEW x \in Dirs,
              locks'[q].entry[c] = locks'[q].entry[x], locks'[q].entry[x] # 0
       PROVE  c = x
  <2>1. CASE q # p
    <3>1. locks[q].entry[c] = locks[q].entry[x] /\ locks[q].entry[x] # 0
      BY <2>1, <1>8, <1>14
    <3> QED BY <3>1 DEF Turns
  <2>2. CASE q = p /\ c # d /\ x # d
    <3>1. locks[p].entry[c] = locks[p].entry[x] /\ locks[p].entry[x] # 0
      BY <2>2, <1>8, <1>2, <1>14
    <3> QED BY <3>1, <1>1 DEF Turns
  <2>3. CASE q = p /\ c = d /\ x # d
    BY <2>3, <1>8, <1>2, <1>14, <1>11
  <2>4. CASE q = p /\ c # d /\ x = d
    BY <2>4, <1>8, <1>2, <1>14, <1>11
  <2> QED BY <2>1, <2>2, <2>3, <2>4
<1>15. ASSUME NEW v \in Workers, jobs'[v] # NoJob, jobs'[v].at # "lock"
       PROVE  locks'[ProcessOf[v]].held[jobs'[v].entry] = v
  <2>1. v # w /\ jobs'[v] = jobs[v] /\ jobs[v] # NoJob /\ ProcessOf[v] \in Processes
    BY <1>15, <1>10, DirOfWorker
  <2>2. locks[ProcessOf[v]].held[jobs[v].entry] = v
    BY <2>1, <1>15 DEF Turns
  <2> QED BY <2>1, <2>2, <1>8
<1>16. ASSUME NEW q \in Processes, NEW x \in Entries
       PROVE  locks'[q].refs[x] = Cardinality(Referring(q, x)')
  <2>1. CASE q = p /\ x = mine
    <3>1. Referring(q, x)' = Referring(q, x) \cup {w} /\ w \notin Referring(q, x)
      BY <2>1, <1>9, <1>10 DEF Referring, p
    <3>2. IsFiniteSet(Referring(q, x)) /\ locks[q].refs[x] = Cardinality(Referring(q, x))
      BY ReferringFinite DEF Turns
    <3>3. Cardinality(Referring(q, x) \cup {w}) = Cardinality(Referring(q, x)) + 1
      BY <3>1, <3>2, FS_AddElement
    <3>4. locks'[q].refs[x] = n
      BY <2>1, <1>8, <1>2, <1>4
    <3>5. CASE locks[p].entry[d] # 0
      BY <3>5, <3>1, <3>2, <3>3, <3>4, <1>7, <2>1
    <3>6. CASE locks[p].entry[d] = 0
      <4>1. Referring(q, x) = {}
        BY <2>1, <3>6, <1>3, <1>7 DEF Referring, UsedEntries
      <4> QED BY <4>1, <3>6, <3>1, <3>3, <3>4, <1>7, FS_EmptySet
    <3> QED BY <3>5, <3>6
  <2>2. CASE ~ (q = p /\ x = mine)
    <3>1. Referring(q, x)' = Referring(q, x)
      BY <2>2, <1>9, <1>10 DEF Referring, p
    <3>2. locks'[q].refs[x] = locks[q].refs[x]
      BY <2>2, <1>8, <1>2
    <3> QED BY <3>1, <3>2 DEF Turns
  <2> QED BY <2>1, <2>2
<1> QED BY <1>8, <1>12, <1>13, <1>14, <1>15, <1>16 DEF Turns, Dir

\* The death of a process empties its table.
LEMMA TurnsKill ==
  ASSUME Data, Turns, NEW p \in Processes, Kill(p)
  PROVE  Turns' /\ locks' \in [Processes -> LockType]
<1>1. jobs' = [v \in Workers |-> IF ProcessOf[v] = p THEN NoJob ELSE jobs[v]]
  BY DEF Kill
<1>2. NoLocks \in LockType
  BY DEF NoLocks, LockType, Unheld
<1>3. locks \in [Processes -> LockType]
  BY DEF Data
<1>4. locks' \in [Processes -> LockType] /\ locks'[p] = NoLocks /\ \A q \in Processes : q # p => locks'[q] = locks[q]
  BY <1>2, <1>3 DEF Kill
<1>5. \A v \in Workers : jobs'[v] # NoJob => jobs'[v] = jobs[v] /\ ProcessOf[v] # p /\ ProcessOf[v] \in Processes
  BY <1>1 DEF Processes
<1>6. \A v \in Workers : jobs[v] # NoJob /\ ProcessOf[v] # p => jobs'[v] = jobs[v]
  BY <1>1
<1>7. ASSUME NEW q \in Processes, NEW x \in Entries
      PROVE  locks'[q].refs[x] = Cardinality(Referring(q, x)')
  <2>1. CASE q = p
    <3>1. Referring(q, x)' = {}
      BY <2>1, <1>5 DEF Referring
    <3> QED BY <3>1, <2>1, <1>4, FS_EmptySet DEF NoLocks
  <2>2. CASE q # p
    <3>1. Referring(q, x)' = Referring(q, x)
      BY <2>2, <1>5, <1>6 DEF Referring
    <3> QED BY <3>1, <2>2, <1>4 DEF Turns
  <2> QED BY <2>1, <2>2
<1>8. ASSUME NEW q \in Processes, NEW x \in Dirs, locks'[q].entry[x] # 0
      PROVE  \E v \in Workers : ProcessOf[v] = q /\ jobs'[v] # NoJob /\ jobs'[v].source.dir = x
  <2>1. q # p
    BY <1>8, <1>4 DEF NoLocks
  <2>2. PICK v \in Workers : ProcessOf[v] = q /\ jobs[v] # NoJob /\ Dir(v) = x
    BY <1>8, <2>1, <1>4 DEF Turns
  <2> QED BY <2>1, <2>2, <1>6 DEF Dir
<1>9. ASSUME NEW q \in Processes, NEW c \in Dirs, NEW x \in Dirs,
             locks'[q].entry[c] = locks'[q].entry[x], locks'[q].entry[x] # 0
      PROVE  c = x
  <2>1. q # p
    BY <1>9, <1>4 DEF NoLocks
  <2> QED BY <1>9, <2>1, <1>4 DEF Turns
<1>10. \A v \in Workers : jobs'[v] # NoJob => locks'[ProcessOf[v]].entry[jobs'[v].source.dir] = jobs'[v].entry
  BY <1>4, <1>5 DEF Turns, Dir
<1>11. \A v \in Workers : jobs'[v] # NoJob /\ jobs'[v].at # "lock" => locks'[ProcessOf[v]].held[jobs'[v].entry] = v
  BY <1>4, <1>5 DEF Turns
<1> QED BY <1>4, <1>7, <1>8, <1>9, <1>10, <1>11 DEF Turns, Dir

-----------------------------------------------------------------------------
(* The directories. *)

\* An archive that was offered stays one that was offered.
LEMMA WholeStays ==
  ASSUME \A r \in Refs : history[r] \subseteq history'[r], NEW files, NEW d, WholeAt(files, d)
  PROVE  WholeAt(files, d)'
BY DEF WholeAt

\* What a step may do to a directory: nothing, clear it, put a whole archive
\* there, or take files away while it is not complete.
DirStep(d) ==
  \/ cache'[d] = cache[d] /\ (Complete(d)' => Complete(d))
  \/ cache'[d] = Absent
  \/ \E files \in FileMaps : cache'[d] = Directory(files, TRUE) /\ WholeAt(files, d)
  \/ /\ cache[d].there /\ cache'[d].there /\ ~Complete(d)'
     /\ \A f \in Files : cache'[d].files[f] \in {cache[d].files[f], NoFile}

\* Such a step keeps what is said of the directory.
LEMMA DirStepKeeps ==
  ASSUME \A r \in Refs : history[r] \subseteq history'[r], NEW d \in Dirs, DirOK(d), DirStep(d)
  PROVE  DirOK(d)'
<1>1. CASE cache'[d] = cache[d] /\ (Complete(d)' => Complete(d))
  <2>1. CASE ~cache[d].there
    BY <1>1, <2>1 DEF DirOK
  <2>2. CASE cache[d].there
    <3>1. PICK files \in FileMaps : /\ WholeAt(files, d)
                                    /\ \A f \in Files : cache[d].files[f] \in {files[f], NoFile}
                                    /\ Complete(d) => cache[d].files = files
      BY <2>2 DEF DirOK
    <3>2. WholeAt(files, d)'
      BY <3>1, WholeStays
    <3> QED BY <1>1, <2>2, <3>1, <3>2 DEF DirOK
  <2> QED BY <2>1, <2>2
<1>2. CASE cache'[d] = Absent
  BY <1>2 DEF DirOK, Absent
<1>3. ASSUME NEW files \in FileMaps, cache'[d] = Directory(files, TRUE), WholeAt(files, d) PROVE DirOK(d)'
  <2>1. WholeAt(files, d)'
    BY <1>3, WholeStays
  <2>2. cache'[d].there /\ cache'[d].files = files
    BY <1>3 DEF Directory
  <2>3. \A f \in Files : cache'[d].files[f] \in {files[f], NoFile}
    BY <2>2
  <2> QED BY <2>1, <2>2, <2>3 DEF DirOK
<1>4. CASE /\ cache[d].there /\ cache'[d].there /\ ~Complete(d)'
           /\ \A f \in Files : cache'[d].files[f] \in {cache[d].files[f], NoFile}
  <2>1. PICK files \in FileMaps : /\ WholeAt(files, d)
                                  /\ \A f \in Files : cache[d].files[f] \in {files[f], NoFile}
    BY <1>4 DEF DirOK
  <2>2. WholeAt(files, d)'
    BY <2>1, WholeStays
  <2>3. \A f \in Files : cache'[d].files[f] \in {files[f], NoFile}
    BY <1>4, <2>1
  <2> QED BY <1>4, <2>2, <2>3 DEF DirOK
<1> QED BY <1>1, <1>2, <1>3, <1>4 DEF DirStep

\* A step of a worker past its lock that does not return.
LEMMA MoveKeeps ==
  ASSUME BundleInv, NEW w \in Workers, jobs[w] # NoJob, NEW j \in JobType,
         jobs' = [jobs EXCEPT ![w] = j],
         j.entry = jobs[w].entry, j.source = jobs[w].source, j.ref = jobs[w].ref,
         jobs[w].at # "lock", j.at # "lock",
         UNCHANGED <<offered, history, locks, done, count>>,
         cache' \in [Dirs -> DirType], \A d \in Dirs : DirStep(d),
         j.at \in {"aside", "finalize"} => WholeAt(j.tmp, Dir(w))
  PROVE  BundleInv'
<1>1. Data /\ Turns /\ Wholeness /\ Gated
  BY DEF BundleInv
<1>2. Turns'
  BY <1>1, TurnsMove
<1>3. jobs \in [Workers -> {NoJob} \cup JobType] /\ j # NoJob
  BY <1>1 DEF Data, JobType, Stages, NoJob
<1>4. jobs' \in [Workers -> {NoJob} \cup JobType] /\ jobs'[w] = j /\ \A v \in Workers : v # w => jobs'[v] = jobs[v]
  BY <1>3
<1>5. \A v \in Workers : jobs'[v] # NoJob => jobs'[v].source = ParseBundleSource(jobs'[v].ref)
  BY <1>1, <1>4 DEF Data
<1>6. Data'
  BY <1>1, <1>4, <1>5 DEF Data
<1>7. \A d \in Dirs : DirOK(d)'
  BY <1>1, DirStepKeeps DEF Wholeness
<1>8. ASSUME NEW v \in Workers, jobs'[v] # NoJob, jobs'[v].at \in {"aside", "finalize"}
      PROVE  WholeAt(jobs'[v].tmp, jobs'[v].source.dir)
  <2>1. CASE v = w
    BY <2>1, <1>4, <1>8 DEF Dir
  <2>2. CASE v # w
    BY <2>2, <1>1, <1>4, <1>8 DEF Wholeness, Dir
  <2> QED BY <2>1, <2>2
<1>9. \A v \in Workers : jobs'[v] # NoJob /\ jobs'[v].at \in {"aside", "finalize"} => WholeAt(jobs[v].tmp, Dir(v))'
  BY <1>8 DEF WholeAt, Dir
<1>10. Wholeness'
  BY <1>7, <1>9 DEF Wholeness
<1>11. Gated'
  BY <1>1 DEF Gated
<1> QED BY <1>2, <1>6, <1>10, <1>11 DEF BundleInv

\* What a result adds to those of a reference.
LEMMA ResultAdded ==
  ASSUME Data, NEW ref \in Refs, NEW r \in Results, done' = [done EXCEPT ![ref] = Append(@, r)]
  PROVE  /\ done' \in [Refs -> Seq(Results)]
         /\ \A q \in Refs : q # ref => done'[q] = done[q]
         /\ Len(done[ref]) \in Nat /\ DOMAIN done[ref] = 1..Len(done[ref])
         /\ DOMAIN done'[ref] = 1..(Len(done[ref]) + 1)
         /\ \A i \in DOMAIN done[ref] : done'[ref][i] = done[ref][i]
         /\ done'[ref][Len(done[ref]) + 1] = r
<1>1. done \in [Refs -> Seq(Results)] /\ done[ref] \in Seq(Results)
  BY DEF Data
<1>2. PICK s : s = Append(done[ref], r)
  OBVIOUS
<1>3. s \in Seq(Results) /\ Len(done[ref]) \in Nat /\ DOMAIN done[ref] = 1..Len(done[ref])
      /\ DOMAIN s = 1..(Len(done[ref]) + 1)
      /\ (\A i \in DOMAIN done[ref] : s[i] = done[ref][i]) /\ s[Len(done[ref]) + 1] = r
  BY <1>1, <1>2
<1>4. done'[ref] = s /\ done' = [done EXCEPT ![ref] = s]
  BY <1>1, <1>2
<1> QED BY <1>1, <1>3, <1>4

\* A result that passed the gate is added.
LEMMA GatedKept ==
  ASSUME Data, Gated, NEW ref \in Refs, NEW r \in Results, done' = [done EXCEPT ![ref] = Append(@, r)],
         r.ok => r.files["manifest"].compatible
  PROVE  Gated' /\ done' \in [Refs -> Seq(Results)]
<1>1. /\ done' \in [Refs -> Seq(Results)]
      /\ \A q \in Refs : q # ref => done'[q] = done[q]
      /\ Len(done[ref]) \in Nat /\ DOMAIN done[ref] = 1..Len(done[ref])
      /\ DOMAIN done'[ref] = 1..(Len(done[ref]) + 1)
      /\ \A i \in DOMAIN done[ref] : done'[ref][i] = done[ref][i]
      /\ done'[ref][Len(done[ref]) + 1] = r
  BY ResultAdded
<1>2. ASSUME NEW q \in Refs, NEW i \in DOMAIN done'[q], done'[q][i].ok
      PROVE  done'[q][i].files["manifest"].compatible
  <2>1. CASE q # ref
    BY <1>1, <1>2, <2>1 DEF Gated
  <2>2. CASE q = ref /\ i = Len(done[ref]) + 1
    BY <1>1, <1>2, <2>2
  <2>3. CASE q = ref /\ i # Len(done[ref]) + 1
    <3>1. i \in DOMAIN done[ref]
      BY <1>1, <1>2, <2>3
    <3> QED BY <1>1, <1>2, <2>3, <3>1 DEF Gated
  <2> QED BY <2>1, <2>2, <2>3
<1> QED BY <1>1, <1>2 DEF Gated

\* The result of a worker that returns.
LEMMA ReturnResult ==
  ASSUME Data, NEW w \in Workers, jobs[w] # NoJob, NEW ok \in OkValues, NEW why \in Reasons
  PROVE  [ok |-> ok, why |-> why, files |-> IF ok THEN cache[Dir(w)].files ELSE Empty] \in Results
<1>1. cache[Dir(w)] \in DirType
  BY DirOfWorker DEF Data
<1>2. (IF ok THEN cache[Dir(w)].files ELSE Empty) \in FileMaps
  BY <1>1, EmptyIsFileMap DEF DirType
<1> QED BY <1>2 DEF Results

\* A worker past its lock that returns.
LEMMA ReturnKeeps ==
  ASSUME BundleInv, NEW w \in Workers, jobs[w] # NoJob, jobs[w].at \notin {"lock", "remove"},
         NEW ok \in OkValues, NEW why \in Reasons, Return(w, ok, why),
         ok => cache[Dir(w)].files["manifest"].compatible,
         UNCHANGED <<cache, offered, history, count>>
  PROVE  BundleInv'
<1>1. Data /\ Turns /\ Wholeness /\ Gated
  BY DEF BundleInv
<1>2. Turns' /\ locks' \in [Processes -> LockType]
  BY <1>1, TurnsRelease DEF Return
<1>3. jobs \in [Workers -> {NoJob} \cup JobType] /\ jobs[w].ref \in Refs
  BY <1>1, DirOfWorker DEF Data
<1>4. jobs' \in [Workers -> {NoJob} \cup JobType] /\ jobs'[w] = NoJob /\ \A v \in Workers : v # w => jobs'[v] = jobs[v]
  BY <1>3 DEF Return
<1>5. \A v \in Workers : jobs'[v] # NoJob => jobs'[v].source = ParseBundleSource(jobs'[v].ref)
  BY <1>1, <1>4 DEF Data
<1>6. PICK r : r = [ok |-> ok, why |-> why, files |-> IF ok THEN cache[Dir(w)].files ELSE Empty]
  OBVIOUS
<1>7. r \in Results /\ (r.ok => r.files["manifest"].compatible)
  BY <1>1, <1>6, ReturnResult
<1>8. done' = [done EXCEPT ![jobs[w].ref] = Append(@, r)]
  BY <1>6 DEF Return
<1>9. Gated' /\ done' \in [Refs -> Seq(Results)]
  BY <1>1, <1>3, <1>7, <1>8, GatedKept
<1>10. Data'
  BY <1>1, <1>2, <1>4, <1>5, <1>9 DEF Data
<1>11. ASSUME NEW d \in Dirs PROVE DirStep(d)
  <2>1. Complete(d)' => Complete(d)
    BY <1>4 DEF Complete, At, Dir
  <2> QED BY <2>1 DEF DirStep
<1>12. \A d \in Dirs : DirOK(d)'
  BY <1>1, <1>11, DirStepKeeps DEF Wholeness
<1>13. \A v \in Workers : jobs'[v] # NoJob /\ jobs'[v].at \in {"aside", "finalize"} => WholeAt(jobs[v].tmp, Dir(v))'
  BY <1>1, <1>4 DEF WholeAt, Dir, Wholeness
<1>14. Wholeness'
  BY <1>12, <1>13 DEF Wholeness
<1> QED BY <1>2, <1>9, <1>10, <1>14 DEF BundleInv

-----------------------------------------------------------------------------
(* The steps. *)

\* What was fetched and passed its checks is all of what the source offers now.
LEMMA FetchedIsWhole ==
  ASSUME Data, NEW ref \in Refs, NEW source, Fetched(ref, source).ok
  PROVE  /\ Fetched(ref, source).files \in FileMaps /\ WholeAt(Fetched(ref, source).files, CacheDirName(ref))
         /\ Usable(Fetched(ref, source).files, ref, source)
<1> DEFINE a == OpenBundleStream(ref, source).archive
<1>1. /\ Fetched(ref, source).files = ExtractTarGz(a).files /\ ExtractTarGz(a).ok
      /\ Usable(ExtractTarGz(a).files, ref, source)
  BY DEF Fetched
<1>2. a = <<>> \/ a = offered[ref]
  BY DEF OpenBundleStream
<1> HIDE DEF a
<1>3. a # <<>>
  <2>1. SUFFICES ASSUME a = <<>> PROVE FALSE
    OBVIOUS
  <2>2. ExtractTarGz(a).files["manifest"] = NoFile
    BY <2>1, EmptyArchive DEF Empty, Files
  <2> QED BY <1>1, <2>2 DEF Usable
<1>4. a \in AnyArchives /\ a \in history[ref]
  BY <1>2, <1>3 DEF Data
<1> QED BY <1>1, <1>4, AnyArchiveFiles DEF WholeAt

\* A worker that goes on.
LEMMA GoneTo ==
  ASSUME Data, NEW w \in Workers, jobs[w] # NoJob, NEW at \in Stages, jobs' = [jobs EXCEPT ![w].at = at]
  PROVE  \E j \in JobType : /\ jobs' = [jobs EXCEPT ![w] = j] /\ j.at = at /\ j.tmp = jobs[w].tmp
                            /\ j.entry = jobs[w].entry /\ j.source = jobs[w].source /\ j.ref = jobs[w].ref
<1>1. jobs \in [Workers -> {NoJob} \cup JobType] /\ jobs[w] \in JobType
  BY DEF Data
<1>2. PICK j : j = [at |-> at, ref |-> jobs[w].ref, source |-> jobs[w].source, entry |-> jobs[w].entry, tmp |-> jobs[w].tmp]
  OBVIOUS
<1>3. j \in JobType
  BY <1>1, <1>2 DEF JobType
<1>4. j = [jobs[w] EXCEPT !.at = at]
  BY <1>1, <1>2 DEF JobType
<1>5. jobs' = [jobs EXCEPT ![w] = j]
  BY <1>1, <1>4
<1> QED BY <1>2, <1>3, <1>5

\* A directory that is complete was so before a worker's step, unless that step ends its removal.
LEMMA CompleteBefore ==
  ASSUME NEW w \in Workers, NEW d \in Dirs, \A v \in Workers : v # w => jobs'[v] = jobs[v],
         cache'[d] = cache[d], count' = count, At(w, "remove") => Dir(w) # d
  PROVE  Complete(d)' => Complete(d)
BY DEF Complete, At, Dir

\* resolveBundleAt returns what is ready, or goes on.
LEMMA LoadKeeps ==
  ASSUME BundleInv, NEW w \in Workers, Load(w)
  PROVE  BundleInv'
<1>1. Data /\ At(w, "load") /\ jobs[w] # NoJob /\ jobs[w].at = "load" /\ jobs[w].at \notin {"lock", "remove"}
  BY DEF Load, At, BundleInv
<1>2. jobs[w] \in JobType /\ Dir(w) \in Dirs
  BY <1>1, DirOfWorker
<1>3. CASE LoadCachedBundle(Dir(w), Job(w).ref, Job(w).source) = "hit"
  <2>1. PICK ok : ok = cache[Dir(w)].files["manifest"].compatible
    OBVIOUS
  <2>2. cache[Dir(w)].files["manifest"] \in Bodies
    BY <1>1, <1>2 DEF Data, DirType, FileMaps, Files
  <2>3. ok \in OkValues
    BY <2>1, <2>2 DEF OkValues
  <2>4. Return(w, ok, "gate") /\ UNCHANGED <<cache, offered, history, count>>
    BY <1>3, <2>1 DEF Load, EnforceCompatibleDeclarest
  <2>5. "gate" \in Reasons
    BY DEF Reasons
  <2> QED BY <1>1, <2>1, <2>3, <2>4, <2>5, ReturnKeeps
<1>4. CASE LoadCachedBundle(Dir(w), Job(w).ref, Job(w).source) # "hit"
  <2>1. PICK at \in {"remove", "fetch"} : Goto(w, at)
    BY <1>4 DEF Load
  <2>2. UNCHANGED <<cache, offered, history, locks, done, count>>
    BY <1>4 DEF Load
  <2>3. at \in Stages /\ at \notin {"lock", "aside", "finalize"} /\ jobs[w].tmp \in FileMaps
    BY <1>2, <2>1 DEF Stages, JobType
  <2>4. jobs' = [jobs EXCEPT ![w].at = at]
    BY <2>1 DEF Goto
  <2>5. PICK j \in JobType : /\ jobs' = [jobs EXCEPT ![w] = j] /\ j.at = at /\ j.tmp = jobs[w].tmp
                             /\ j.entry = jobs[w].entry /\ j.source = jobs[w].source /\ j.ref = jobs[w].ref
    BY <1>1, <2>3, <2>4, GoneTo
  <2>6. ASSUME NEW d \in Dirs PROVE DirStep(d)
    <3>1. \A v \in Workers : v # w => jobs'[v] = jobs[v]
      BY <1>1, <2>5 DEF Data
    <3>2. Complete(d)' => Complete(d)
      BY <1>1, <2>2, <3>1, CompleteBefore DEF At
    <3> QED BY <2>2, <3>2 DEF DirStep
  <2>7. cache' \in [Dirs -> DirType]
    BY <1>1, <2>2 DEF Data
  <2> QED BY <1>1, <2>2, <2>3, <2>5, <2>6, <2>7, MoveKeeps
<1> QED BY <1>3, <1>4

\* os.RemoveAll takes a broken directory apart.
LEMMA RemoveAllKeeps ==
  ASSUME BundleInv, NEW w \in Workers, RemoveAll(w)
  PROVE  BundleInv'
<1>1. Data /\ Wholeness /\ At(w, "remove") /\ jobs[w] # NoJob /\ jobs[w].at = "remove"
  BY DEF RemoveAll, At, BundleInv
<1>2. jobs[w] \in JobType /\ Dir(w) \in Dirs /\ cache \in [Dirs -> DirType] /\ jobs \in [Workers -> {NoJob} \cup JobType]
  BY <1>1, DirOfWorker DEF Data
<1>3. PICK d0 : d0 = Dir(w)
  OBVIOUS
<1>4. d0 \in Dirs /\ cache[d0] \in DirType /\ DirOK(d0)
  BY <1>1, <1>2, <1>3 DEF Wholeness
<1>5. UNCHANGED <<offered, history, locks, done, count>>
  BY DEF RemoveAll
<1>6. ASSUME NEW to \in DirType, cache' = [cache EXCEPT ![d0] = to], jobs' = jobs, cache[d0].there, to.there,
             \A f \in Files : to.files[f] \in {cache[d0].files[f], NoFile}
      PROVE  BundleInv'
  <2>1. jobs' = [jobs EXCEPT ![w] = jobs[w]]
    BY <1>2, <1>6
  <2>2. cache'[d0] = to /\ (\A d \in Dirs : d # d0 => cache'[d] = cache[d]) /\ cache' \in [Dirs -> DirType]
    BY <1>2, <1>4, <1>6
  <2>3. ASSUME NEW d \in Dirs PROVE DirStep(d)
    <3>1. CASE d = d0
      <4>1. ~Complete(d)'
        BY <1>1, <1>3, <1>6, <3>1 DEF Complete, At, Dir
      <4> QED BY <1>6, <2>2, <3>1, <4>1 DEF DirStep
    <3>2. CASE d # d0
      <4>1. Complete(d)' => Complete(d)
        BY <1>3, <1>5, <1>6, <2>2, <3>2, CompleteBefore
      <4> QED BY <2>2, <3>2, <4>1 DEF DirStep
    <3> QED BY <3>1, <3>2
  <2> QED BY <1>1, <1>2, <1>5, <2>1, <2>2, <2>3, MoveKeeps
<1>7. CASE cache[Dir(w)].marker /\ cache' = [cache EXCEPT ![Dir(w)].marker = FALSE] /\ jobs' = jobs
  <2>1. PICK to : to = [cache[d0] EXCEPT !.marker = FALSE]
    OBVIOUS
  <2>2. to \in DirType /\ to.there = cache[d0].there /\ to.files = cache[d0].files
    BY <1>4, <2>1 DEF DirType
  <2>3. cache[d0].there
    BY <1>3, <1>4, <1>7 DEF DirOK, Absent
  <2>4. cache' = [cache EXCEPT ![d0] = to]
    BY <1>2, <1>3, <1>7, <2>1
  <2>5. to.there /\ \A f \in Files : to.files[f] \in {cache[d0].files[f], NoFile}
    BY <2>2, <2>3
  <2> QED BY <1>6, <1>7, <2>2, <2>3, <2>4, <2>5
<1>8. ASSUME NEW f \in Files, cache[Dir(w)].files[f] # NoFile, cache' = [cache EXCEPT ![Dir(w)].files[f] = NoFile], jobs' = jobs
      PROVE  BundleInv'
  <2>1. PICK left : left = [cache[d0].files EXCEPT ![f] = NoFile]
    OBVIOUS
  <2>2. left \in FileMaps /\ \A g \in Files : left[g] \in {cache[d0].files[g], NoFile}
    BY <1>4, <2>1, EmptyIsFileMap DEF DirType, FileMaps
  <2>3. PICK to : to = [there |-> cache[d0].there, marker |-> cache[d0].marker, files |-> left]
    OBVIOUS
  <2>4. to \in DirType /\ to = [cache[d0] EXCEPT !.files = left]
    BY <1>4, <2>2, <2>3 DEF DirType
  <2>5. cache[d0].there
    BY <1>3, <1>4, <1>8 DEF DirOK, Absent, Empty
  <2>6. cache' = [cache EXCEPT ![d0] = to]
    BY <1>2, <1>3, <1>8, <2>1, <2>4
  <2>7. to.there /\ to.files = left
    BY <2>3, <2>5
  <2> QED BY <1>6, <1>8, <2>2, <2>4, <2>5, <2>6, <2>7
<1>9. CASE cache' = [cache EXCEPT ![Dir(w)] = Absent] /\ Goto(w, "fetch")
  <2>1. "fetch" \in Stages /\ jobs[w].tmp \in FileMaps /\ jobs' = [jobs EXCEPT ![w].at = "fetch"]
    BY <1>2, <1>9 DEF Stages, JobType, Goto
  <2>2. PICK j \in JobType : /\ jobs' = [jobs EXCEPT ![w] = j] /\ j.at = "fetch" /\ j.tmp = jobs[w].tmp
                             /\ j.entry = jobs[w].entry /\ j.source = jobs[w].source /\ j.ref = jobs[w].ref
    BY <1>1, <2>1, GoneTo
  <2>3. cache'[d0] = Absent /\ (\A d \in Dirs : d # d0 => cache'[d] = cache[d]) /\ cache' \in [Dirs -> DirType]
    BY <1>2, <1>3, <1>4, <1>9, EmptyIsFileMap
  <2>4. ASSUME NEW d \in Dirs PROVE DirStep(d)
    <3>1. CASE d = d0
      BY <2>3, <3>1 DEF DirStep
    <3>2. CASE d # d0
      <4>1. \A v \in Workers : v # w => jobs'[v] = jobs[v]
        BY <1>2, <2>2
      <4>2. Complete(d)' => Complete(d)
        BY <1>3, <1>5, <2>3, <3>2, <4>1, CompleteBefore
      <4> QED BY <2>3, <3>2, <4>2 DEF DirStep
    <3> QED BY <3>1, <3>2
  <2> QED BY <1>1, <1>5, <2>2, <2>3, <2>4, MoveKeeps
<1> QED BY <1>7, <1>8, <1>9 DEF RemoveAll

\* A step that leaves a worker in its directory, which it alone may change.
LEMMA MoveTo ==
  ASSUME BundleInv, NEW w \in Workers, jobs[w] # NoJob, jobs[w].at \notin {"lock", "remove"}, NEW j \in JobType,
         jobs' = [jobs EXCEPT ![w] = j],
         j.entry = jobs[w].entry, j.source = jobs[w].source, j.ref = jobs[w].ref, j.at # "lock",
         UNCHANGED <<offered, history, locks, done, count>>,
         NEW to \in DirType, cache' = [cache EXCEPT ![Dir(w)] = to],
         \/ to = cache[Dir(w)] \/ to = Absent
         \/ \E files \in FileMaps : to = Directory(files, TRUE) /\ WholeAt(files, Dir(w)),
         j.at \in {"aside", "finalize"} => WholeAt(j.tmp, Dir(w))
  PROVE  BundleInv'
<1>1. Data
  BY DEF BundleInv
<1>2. Dir(w) \in Dirs /\ cache \in [Dirs -> DirType] /\ \A v \in Workers : v # w => jobs'[v] = jobs[v]
  BY <1>1, DirOfWorker DEF Data
<1>3. PICK d0 : d0 = Dir(w)
  OBVIOUS
<1>4. cache'[d0] = to /\ (\A d \in Dirs : d # d0 => cache'[d] = cache[d]) /\ cache' \in [Dirs -> DirType]
  BY <1>2, <1>3
<1>5. ASSUME NEW d \in Dirs, cache'[d] = cache[d] PROVE DirStep(d)
  <2>1. Complete(d)' => Complete(d)
    BY <1>2, <1>5, CompleteBefore DEF At
  <2> QED BY <1>5, <2>1 DEF DirStep
<1>6. ASSUME NEW d \in Dirs PROVE DirStep(d)
  <2>1. CASE d # d0 \/ to = cache[Dir(w)]
    BY <1>3, <1>4, <1>5, <2>1
  <2>2. CASE d = d0 /\ to = Absent
    BY <1>4, <2>2 DEF DirStep
  <2>3. CASE d = d0 /\ \E files \in FileMaps : to = Directory(files, TRUE) /\ WholeAt(files, Dir(w))
    BY <1>3, <1>4, <2>3 DEF DirStep
  <2> QED BY <2>1, <2>2, <2>3
<1>7. jobs[w].at # "lock"
  OBVIOUS
<1> QED BY <1>4, <1>6, <1>7, MoveKeeps

\* installBundle extracts what the source offers, or fails.
LEMMA FetchKeeps ==
  ASSUME BundleInv, NEW w \in Workers, Fetch(w)
  PROVE  BundleInv'
<1>1. Data /\ jobs[w] # NoJob /\ jobs[w].at = "fetch" /\ jobs[w].at \notin {"lock", "remove"}
  BY DEF Fetch, At, BundleInv
<1>2. jobs[w] \in JobType /\ Dir(w) \in Dirs /\ Dir(w) = CacheDirName(jobs[w].ref) /\ jobs[w].ref \in Refs
      /\ cache \in [Dirs -> DirType]
  BY <1>1, DirOfWorker DEF Data
<1>3. CASE /\ Fetched(Job(w).ref, Job(w).source).ok
           /\ jobs' = [jobs EXCEPT ![w].at = "aside", ![w].tmp = Fetched(Job(w).ref, Job(w).source).files]
           /\ UNCHANGED <<cache, offered, history, locks, done, count>>
  <2>1. PICK files : files = Fetched(Job(w).ref, Job(w).source).files
    OBVIOUS
  <2>2. files \in FileMaps /\ WholeAt(files, Dir(w))
    BY <1>1, <1>2, <1>3, <2>1, FetchedIsWhole DEF Job
  <2>3. "aside" \in Stages /\ jobs' = [jobs EXCEPT ![w].at = "aside", ![w].tmp = files]
    BY <1>3, <2>1 DEF Stages
  <2>4. PICK j \in JobType : /\ jobs' = [jobs EXCEPT ![w] = j] /\ j.at = "aside" /\ j.tmp = files
                             /\ j.entry = jobs[w].entry /\ j.source = jobs[w].source /\ j.ref = jobs[w].ref
    <3>1. jobs \in [Workers -> {NoJob} \cup JobType]
      BY <1>1 DEF Data
    <3>2. PICK j : j = [at |-> "aside", ref |-> jobs[w].ref, source |-> jobs[w].source, entry |-> jobs[w].entry, tmp |-> files]
      OBVIOUS
    <3>3. j \in JobType
      BY <1>2, <2>2, <2>3, <3>2 DEF JobType
    <3>4. j = [[jobs[w] EXCEPT !.at = "aside"] EXCEPT !.tmp = files]
      <4>1. PICK k : k = [at |-> "aside", ref |-> jobs[w].ref, source |-> jobs[w].source, entry |-> jobs[w].entry, tmp |-> jobs[w].tmp]
        OBVIOUS
      <4>2. k \in JobType /\ k = [jobs[w] EXCEPT !.at = "aside"]
        BY <1>2, <2>3, <4>1 DEF JobType
      <4>3. j = [k EXCEPT !.tmp = files]
        BY <3>2, <4>1, <4>2 DEF JobType
      <4> QED BY <4>2, <4>3
    <3>5. jobs' = [jobs EXCEPT ![w] = j]
      BY <2>3, <3>1, <3>4
    <3> QED BY <3>2, <3>3, <3>5
  <2>5. cache' = [cache EXCEPT ![Dir(w)] = cache[Dir(w)]] /\ cache[Dir(w)] \in DirType
    BY <1>2, <1>3
  <2>6. j.at # "lock" /\ WholeAt(j.tmp, Dir(w))
    BY <2>2, <2>4
  <2> QED BY <1>1, <1>3, <2>4, <2>5, <2>6, MoveTo
<1>4. ASSUME NEW why \in Reasons, Return(w, FALSE, why), UNCHANGED <<cache, offered, history, count>>
      PROVE  BundleInv'
  <2>1. FALSE \in OkValues
    BY DEF OkValues
  <2> QED BY <1>1, <1>4, <2>1, ReturnKeeps
<1>5. CASE /\ Return(w, FALSE, IF Fetched(Job(w).ref, Job(w).source).ok THEN "transfer" ELSE "archive")
           /\ UNCHANGED <<cache, offered, history, count>>
  <2>1. PICK why : why = IF Fetched(Job(w).ref, Job(w).source).ok THEN "transfer" ELSE "archive"
    OBVIOUS
  <2>2. why \in Reasons
    BY <2>1 DEF Reasons
  <2> QED BY <1>4, <1>5, <2>1, <2>2
<1> QED BY <1>3, <1>5 DEF Fetch

\* What is in the place is moved aside.
LEMMA MoveAsideKeeps ==
  ASSUME BundleInv, NEW w \in Workers, MoveAside(w)
  PROVE  BundleInv'
<1>1. Data /\ Wholeness /\ jobs[w] # NoJob /\ jobs[w].at = "aside" /\ jobs[w].at \notin {"lock", "remove"}
  BY DEF MoveAside, At, BundleInv
<1>2. UNCHANGED <<offered, history, locks, done, count>> /\ cache' = [cache EXCEPT ![Dir(w)] = Absent]
      /\ jobs' = [jobs EXCEPT ![w].at = "finalize"] /\ "finalize" \in Stages /\ Absent \in DirType
  BY EmptyIsFileMap DEF MoveAside, Goto, Stages
<1>3. PICK j \in JobType : /\ jobs' = [jobs EXCEPT ![w] = j] /\ j.at = "finalize" /\ j.tmp = jobs[w].tmp
                           /\ j.entry = jobs[w].entry /\ j.source = jobs[w].source /\ j.ref = jobs[w].ref
  BY <1>1, <1>2, GoneTo
<1>4. j.at # "lock" /\ WholeAt(j.tmp, Dir(w))
  BY <1>1, <1>3 DEF Wholeness
<1> QED BY <1>1, <1>2, <1>3, <1>4, MoveTo

\* The rename puts a whole archive in the place, or fails.
LEMMA FinalizeKeeps ==
  ASSUME BundleInv, NEW w \in Workers, Finalize(w)
  PROVE  BundleInv'
<1>1. Data /\ Wholeness /\ jobs[w] # NoJob /\ jobs[w].at = "finalize" /\ jobs[w].at \notin {"lock", "remove"}
  BY DEF Finalize, At, BundleInv
<1>2. CASE cache[Dir(w)].there
  <2>1. Return(w, FALSE, "rename") /\ UNCHANGED <<cache, offered, history, count>>
    BY <1>2 DEF Finalize
  <2>2. FALSE \in OkValues /\ "rename" \in Reasons
    BY DEF OkValues, Reasons
  <2> QED BY <1>1, <2>1, <2>2, ReturnKeeps
<1>3. CASE ~cache[Dir(w)].there
  <2>1. UNCHANGED <<offered, history, locks, done, count>> /\ cache' = [cache EXCEPT ![Dir(w)] = Directory(jobs[w].tmp, TRUE)]
        /\ jobs' = [jobs EXCEPT ![w].at = "reload"] /\ "reload" \in Stages
    BY <1>3 DEF Finalize, Goto, Stages, Job
  <2>2. PICK j \in JobType : /\ jobs' = [jobs EXCEPT ![w] = j] /\ j.at = "reload" /\ j.tmp = jobs[w].tmp
                             /\ j.entry = jobs[w].entry /\ j.source = jobs[w].source /\ j.ref = jobs[w].ref
    BY <1>1, <2>1, GoneTo
  <2>3. jobs[w].tmp \in FileMaps /\ WholeAt(jobs[w].tmp, Dir(w))
    BY <1>1, DirOfWorker DEF JobType, Wholeness
  <2>4. PICK to : to = Directory(jobs[w].tmp, TRUE)
    OBVIOUS
  <2>5. to \in DirType
    BY <2>3, <2>4 DEF DirType, Directory
  <2>6. j.at # "lock" /\ j.at \notin {"aside", "finalize"}
    BY <2>2
  <2>7. \E files \in FileMaps : to = Directory(files, TRUE) /\ WholeAt(files, Dir(w))
    BY <2>3, <2>4
  <2> QED BY <1>1, <2>1, <2>2, <2>4, <2>5, <2>6, <2>7, MoveTo
<1> QED BY <1>2, <1>3

\* loadCachedOrFail returns what was put there.
LEMMA ReloadKeeps ==
  ASSUME BundleInv, NEW w \in Workers, Reload(w)
  PROVE  BundleInv'
<1>1. Data /\ jobs[w] # NoJob /\ jobs[w].at = "reload" /\ jobs[w].at \notin {"lock", "remove"}
  BY DEF Reload, At, BundleInv
<1>2. jobs[w] \in JobType /\ Dir(w) \in Dirs
  BY <1>1, DirOfWorker
<1>3. UNCHANGED <<cache, offered, history, count>>
  BY DEF Reload
<1>4. CASE LoadCachedBundle(Dir(w), Job(w).ref, Job(w).source) = "hit"
  <2>1. PICK ok : ok = cache[Dir(w)].files["manifest"].compatible
    OBVIOUS
  <2>2. cache[Dir(w)].files["manifest"] \in Bodies
    BY <1>1, <1>2 DEF Data, DirType, FileMaps, Files
  <2>3. ok \in OkValues /\ "gate" \in Reasons
    BY <2>1, <2>2 DEF OkValues, Reasons
  <2>4. Return(w, ok, "gate")
    BY <1>4, <2>1 DEF Reload, EnforceCompatibleDeclarest
  <2> QED BY <1>1, <1>3, <2>1, <2>3, <2>4, ReturnKeeps
<1>5. CASE LoadCachedBundle(Dir(w), Job(w).ref, Job(w).source) # "hit"
  <2>1. Return(w, FALSE, "reload")
    BY <1>5 DEF Reload
  <2>2. FALSE \in OkValues /\ "reload" \in Reasons
    BY DEF OkValues, Reasons
  <2> QED BY <1>1, <1>3, <2>1, <2>2, ReturnKeeps
<1> QED BY <1>4, <1>5

\* The entry a worker is given.
LEMMA GivenEntry ==
  ASSUME Data, NEW w \in Workers, jobs[w] = NoJob, NEW p \in Processes, NEW d \in Dirs
  PROVE  RegisterLock(p, d)[p].entry[d] \in Entries
<1> DEFINE fresh == CHOOSE e \in Entries : e \notin UsedEntries(p)
           mine == IF locks[p].entry[d] # 0 THEN locks[p].entry[d] ELSE fresh
           n == IF locks[p].entry[d] # 0 THEN locks[p].refs[mine] + 1 ELSE 1
<1>1. locks \in [Processes -> LockType] /\ locks[p] \in LockType
  BY DEF Data
<1>2. locks[p].refs \in [Entries -> Nat] /\ locks[p].entry \in [Dirs -> Entries \cup {0}]
  BY <1>1 DEF LockType
<1>3. fresh \in Entries
  BY FreshEntry
<1> HIDE DEF fresh
<1>4. mine \in Entries
  BY <1>2, <1>3
<1>5. n \in Nat
  <2> HIDE DEF mine
  <2> QED BY <1>2, <1>4
<1>6. RegisterLock(p, d) = Registering(p, d, mine, n)
  BY <1>1 DEF RegisterLock, Registering, fresh
<1> HIDE DEF mine, n
<1>7. RegisterLock(p, d)[p].entry = [locks[p].entry EXCEPT ![d] = mine]
  <2>1. PICK N : N = Registering(p, d, mine, n)
    OBVIOUS
  <2>2. /\ N \in [Processes -> LockType]
        /\ \A q \in Processes : q # p => N[q] = locks[q]
        /\ N[p].held = locks[p].held
        /\ N[p].refs = [locks[p].refs EXCEPT ![mine] = n]
        /\ N[p].entry = [locks[p].entry EXCEPT ![d] = mine]
    BY <1>4, <1>5, <2>1, RegisteredLock
  <2> QED BY <1>6, <2>1, <2>2
<1>8. RegisterLock(p, d)[p].entry[d] = mine
  BY <1>2, <1>7
<1> QED BY <1>4, <1>8

\* A step that leaves the disk and the workers past their locks as they are.
LEMMA RestKept ==
  ASSUME Wholeness, history' = history, cache' = cache, count'.kills = count.kills,
         \A v \in Workers : jobs'[v] = jobs[v] \/ (jobs'[v] # NoJob /\ jobs'[v].at \in {"lock", "load"} /\ ~At(v, "remove"))
  PROVE  Wholeness'
<1>1. ASSUME NEW d \in Dirs PROVE DirOK(d)'
  <2>1. Complete(d)' => Complete(d)
    BY DEF Complete, At, Dir
  <2>2. DirStep(d) /\ DirOK(d)
    BY <2>1 DEF DirStep, Wholeness
  <2> QED BY <2>2, DirStepKeeps
<1>2. \A v \in Workers : jobs'[v] # NoJob /\ jobs'[v].at \in {"aside", "finalize"} => WholeAt(jobs[v].tmp, Dir(v))'
  BY DEF WholeAt, Dir, Wholeness
<1> QED BY <1>1, <1>2 DEF Wholeness

\* A resolution begins with its lock registered.
LEMMA BeginKeeps ==
  ASSUME BundleInv, NEW w \in Workers, Begin(w)
  PROVE  BundleInv'
<1>1. Data /\ Turns /\ Wholeness /\ Gated /\ jobs[w] = NoJob /\ jobs \in [Workers -> {NoJob} \cup JobType]
  BY DEF BundleInv, Begin, MayBegin, Data
<1>2. PICK ref \in {r \in Refs : r.form # "directory"} :
        /\ locks' = RegisterLock(ProcessOf[w], ParseBundleSource(ref).dir)
        /\ jobs' = [jobs EXCEPT ![w] = [at |-> "lock", ref |-> ref, source |-> ParseBundleSource(ref),
                 entry |-> RegisterLock(ProcessOf[w], ParseBundleSource(ref).dir)[ProcessOf[w]].entry[ParseBundleSource(ref).dir], tmp |-> Empty]]
  BY DEF Begin
<1>3. ref \in Refs /\ ProcessOf[w] \in Processes /\ CacheDirName(ref) \in Dirs /\ ParseBundleSource(ref).dir = CacheDirName(ref)
  BY DirOfReference DEF Processes
<1>4. PICK e : e = RegisterLock(ProcessOf[w], CacheDirName(ref))[ProcessOf[w]].entry[CacheDirName(ref)]
  OBVIOUS
<1>5. e \in Entries
  BY <1>1, <1>3, <1>4, GivenEntry
<1>6. PICK j : j = [at |-> "lock", ref |-> ref, source |-> ParseBundleSource(ref), entry |-> e, tmp |-> Empty]
  OBVIOUS
<1>7. j \in JobType
  BY <1>2, <1>3, <1>5, <1>6, EmptyIsFileMap DEF JobType, Stages
<1>8. j.at = "lock" /\ j.source = ParseBundleSource(ref) /\ j.entry = e /\ j.ref = ref
  BY <1>6
<1>9. locks' = RegisterLock(ProcessOf[w], CacheDirName(ref)) /\ jobs' = [jobs EXCEPT ![w] = j]
  BY <1>2, <1>3, <1>4, <1>6
<1>10. Turns' /\ locks' \in [Processes -> LockType]
  BY <1>1, <1>3, <1>4, <1>7, <1>8, <1>9, TurnsBegin
<1>11. UNCHANGED <<cache, offered, history, done>>
       /\ count' = [count EXCEPT !.resolves = @ + 1]
  BY DEF Begin
<1>12. count' \in [resolves: Nat, publishes: Nat, kills: Nat] /\ count'.kills = count.kills
  <2>1. count \in [resolves: Nat, publishes: Nat, kills: Nat]
    BY <1>1 DEF Data
  <2> QED BY <1>11, <2>1
<1>13. jobs' \in [Workers -> {NoJob} \cup JobType] /\ jobs'[w] = j /\ \A v \in Workers : v # w => jobs'[v] = jobs[v]
  BY <1>1, <1>7, <1>9
<1>14. \A v \in Workers : jobs'[v] # NoJob => jobs'[v].source = ParseBundleSource(jobs'[v].ref)
  BY <1>1, <1>8, <1>13 DEF Data
<1>15. Data'
  BY <1>1, <1>10, <1>11, <1>12, <1>13, <1>14 DEF Data
<1>16. \A v \in Workers : jobs'[v] = jobs[v] \/ (jobs'[v] # NoJob /\ jobs'[v].at \in {"lock", "load"} /\ ~At(v, "remove"))
  BY <1>1, <1>7, <1>8, <1>13 DEF At, JobType, NoJob
<1>17. Wholeness'
  BY <1>1, <1>11, <1>12, <1>16, RestKept
<1> QED BY <1>1, <1>10, <1>11, <1>15, <1>17 DEF BundleInv, Gated

\* A worker gets its lock.
LEMMA LockKeeps ==
  ASSUME BundleInv, NEW w \in Workers, Lock(w)
  PROVE  BundleInv'
<1>1. Data /\ Turns /\ Wholeness /\ Gated /\ jobs[w] # NoJob /\ jobs[w].at = "lock" /\ jobs \in [Workers -> {NoJob} \cup JobType]
  BY DEF BundleInv, Lock, At, Data
<1>2. Turns' /\ locks' \in [Processes -> LockType]
  BY <1>1, TurnsLock
<1>3. UNCHANGED <<cache, offered, history, done, count>> /\ jobs' = [jobs EXCEPT ![w].at = "load"] /\ "load" \in Stages
  BY DEF Lock, Goto, Stages
<1>4. PICK j \in JobType : /\ jobs' = [jobs EXCEPT ![w] = j] /\ j.at = "load" /\ j.tmp = jobs[w].tmp
                           /\ j.entry = jobs[w].entry /\ j.source = jobs[w].source /\ j.ref = jobs[w].ref
  BY <1>1, <1>3, GoneTo
<1>5. jobs' \in [Workers -> {NoJob} \cup JobType] /\ jobs'[w] = j /\ \A v \in Workers : v # w => jobs'[v] = jobs[v]
  BY <1>1, <1>4
<1>6. \A v \in Workers : jobs'[v] # NoJob => jobs'[v].source = ParseBundleSource(jobs'[v].ref)
  BY <1>1, <1>4, <1>5 DEF Data
<1>7. Data'
  BY <1>1, <1>2, <1>3, <1>5, <1>6 DEF Data
<1>8. \A v \in Workers : jobs'[v] = jobs[v] \/ (jobs'[v] # NoJob /\ jobs'[v].at \in {"lock", "load"} /\ ~At(v, "remove"))
  BY <1>1, <1>4, <1>5 DEF At, JobType, NoJob
<1>9. Wholeness'
  BY <1>1, <1>3, <1>8, RestKept
<1> QED BY <1>1, <1>2, <1>3, <1>7, <1>9 DEF BundleInv, Gated

\* resolveLocalDirectory leaves the cache alone.
LEMMA ResolveLocalDirectoryKeeps ==
  ASSUME BundleInv, NEW w \in Workers, ResolveLocalDirectory(w)
  PROVE  BundleInv'
<1>1. Data /\ Turns /\ Wholeness /\ Gated
  BY DEF BundleInv
<1>2. UNCHANGED <<cache, offered, history, jobs, locks>> /\ count' = [count EXCEPT !.resolves = @ + 1]
  BY DEF ResolveLocalDirectory
<1>3. PICK ref \in Refs : LET files == ExtractTarGz(offered[ref]).files
                              ok == Usable(files, ref, ParseBundleSource(ref)) /\ EnforceCompatibleDeclarest(files["manifest"])
                          IN done' = [done EXCEPT ![ref] = Append(@, [ok |-> ok, why |-> "gate",
                                         files |-> IF ok THEN files ELSE Empty])]
  BY DEF ResolveLocalDirectory
<1>4. PICK files : files = ExtractTarGz(offered[ref]).files
  OBVIOUS
<1>5. files \in FileMaps
  BY <1>1, <1>4, AnyArchiveFiles DEF Data
<1>6. PICK ok \in BOOLEAN : ok <=> (Usable(files, ref, ParseBundleSource(ref)) /\ EnforceCompatibleDeclarest(files["manifest"]))
  OBVIOUS
<1>7. PICK r : r = [ok |-> ok, why |-> "gate", files |-> IF ok THEN files ELSE Empty]
  OBVIOUS
<1>8. done' = [done EXCEPT ![ref] = Append(@, r)]
  <2>1. (Usable(files, ref, ParseBundleSource(ref)) /\ EnforceCompatibleDeclarest(files["manifest"])) = ok
    BY <1>6
  <2> QED BY <1>3, <1>4, <1>7, <2>1
<1>9. r \in Results /\ (r.ok => r.files["manifest"].compatible)
  <2>1. ok \in OkValues /\ "gate" \in Reasons
    BY DEF OkValues, Reasons
  <2>2. (IF ok THEN files ELSE Empty) \in FileMaps
    BY <1>5, EmptyIsFileMap
  <2>3. r \in Results
    BY <1>7, <2>1, <2>2 DEF Results
  <2>4. r.ok = ok /\ (ok => r.files = files)
    BY <1>7
  <2> QED BY <1>6, <2>3, <2>4 DEF EnforceCompatibleDeclarest
<1>10. Gated' /\ done' \in [Refs -> Seq(Results)]
  BY <1>1, <1>8, <1>9, GatedKept
<1>11. count' \in [resolves: Nat, publishes: Nat, kills: Nat] /\ count'.kills = count.kills
  <2>1. count \in [resolves: Nat, publishes: Nat, kills: Nat]
    BY <1>1 DEF Data
  <2> QED BY <1>2, <2>1
<1>12. Data' /\ Turns'
  BY <1>1, <1>2, <1>10, <1>11 DEF Data, Turns, Referring, Dir
<1>13. Wholeness'
  BY <1>1, <1>2, <1>11, RestKept
<1> QED BY <1>10, <1>12, <1>13 DEF BundleInv

\* A process dies.
LEMMA KillKeeps ==
  ASSUME BundleInv, NEW p \in Processes, Kill(p)
  PROVE  BundleInv'
<1>1. Data /\ Turns /\ Wholeness /\ Gated /\ jobs \in [Workers -> {NoJob} \cup JobType]
  BY DEF BundleInv, Data
<1>2. Turns' /\ locks' \in [Processes -> LockType]
  BY <1>1, TurnsKill
<1>3. UNCHANGED <<cache, offered, history, done>> /\ count' = [count EXCEPT !.kills = @ + 1] /\ count.kills < MaxKills
  BY DEF Kill
<1>4. count' \in [resolves: Nat, publishes: Nat, kills: Nat] /\ count'.kills # 0 /\ MaxKills # 0
  <2>1. count \in [resolves: Nat, publishes: Nat, kills: Nat]
    BY <1>1 DEF Data
  <2>2. count' \in [resolves: Nat, publishes: Nat, kills: Nat] /\ count'.kills = count.kills + 1 /\ count.kills \in Nat
    BY <1>3, <2>1
  <2> QED BY <1>3, <2>2, BundleAssumption
<1>5. jobs' \in [Workers -> {NoJob} \cup JobType] /\ \A v \in Workers : jobs'[v] = NoJob \/ jobs'[v] = jobs[v]
  BY <1>1 DEF Kill
<1>6. \A v \in Workers : jobs'[v] # NoJob => jobs'[v].source = ParseBundleSource(jobs'[v].ref)
  BY <1>1, <1>5 DEF Data
<1>7. Data'
  BY <1>1, <1>2, <1>3, <1>4, <1>5, <1>6 DEF Data
<1>8. ASSUME NEW d \in Dirs PROVE DirOK(d)'
  <2>1. ~Complete(d)'
    BY <1>4 DEF Complete
  <2>2. DirStep(d) /\ DirOK(d)
    BY <1>1, <1>3, <2>1 DEF DirStep, Wholeness
  <2> QED BY <1>3, <2>2, DirStepKeeps
<1>9. \A v \in Workers : jobs'[v] # NoJob /\ jobs'[v].at \in {"aside", "finalize"} => WholeAt(jobs[v].tmp, Dir(v))'
  BY <1>1, <1>3, <1>5 DEF WholeAt, Dir, Wholeness
<1>10. Wholeness'
  BY <1>8, <1>9 DEF Wholeness
<1> QED BY <1>1, <1>2, <1>3, <1>7, <1>10 DEF BundleInv, Gated

\* A source offers something else.
LEMMA PublishKeeps ==
  ASSUME BundleInv, Publish
  PROVE  BundleInv'
<1>1. Data /\ Turns /\ Wholeness /\ Gated
  BY DEF BundleInv
<1>2. PICK ref \in Refs, archive \in Archives :
        /\ ref.form = "directory" => ExtractTarGz(archive).ok
        /\ offered' = [offered EXCEPT ![ref] = archive]
        /\ history' = [history EXCEPT ![ref] = @ \cup {archive}]
  BY DEF Publish
<1>3. UNCHANGED <<cache, jobs, locks, done>> /\ count' = [count EXCEPT !.publishes = @ + 1]
  BY DEF Publish
<1>4. count' \in [resolves: Nat, publishes: Nat, kills: Nat] /\ count'.kills = count.kills
  <2>1. count \in [resolves: Nat, publishes: Nat, kills: Nat]
    BY <1>1 DEF Data
  <2> QED BY <1>3, <2>1
<1>5. /\ offered' \in [Refs -> AnyArchives] /\ offered'[ref] = archive /\ \A q \in Refs : q # ref => offered'[q] = offered[q]
      /\ history' \in [Refs -> SUBSET AnyArchives] /\ history'[ref] = history[ref] \cup {archive}
      /\ \A q \in Refs : q # ref => history'[q] = history[q]
  <2>1. offered \in [Refs -> AnyArchives] /\ history \in [Refs -> SUBSET AnyArchives] /\ archive \in AnyArchives
    BY <1>1 DEF Data, AnyArchives
  <2> HIDE DEF AnyArchives
  <2> QED BY <1>2, <2>1
<1>6. \A q \in Refs : history[q] \subseteq history'[q]
  BY <1>5
<1>7. (\A q \in Refs : offered'[q] \in history'[q]) /\ \A q \in Refs : q.form = "directory" => ExtractTarGz(offered'[q]).ok
  BY <1>1, <1>2, <1>5 DEF Data
<1>8. Data' /\ Turns'
  BY <1>1, <1>3, <1>4, <1>5, <1>7 DEF Data, Turns, Referring, Dir
<1>9. ASSUME NEW d \in Dirs PROVE DirOK(d)'
  <2>1. Complete(d)' => Complete(d)
    BY <1>3, <1>4 DEF Complete, At, Dir
  <2>2. DirStep(d) /\ DirOK(d)
    BY <1>1, <1>3, <2>1 DEF DirStep, Wholeness
  <2> QED BY <1>6, <2>2, DirStepKeeps
<1>10. ASSUME NEW v \in Workers, jobs'[v] # NoJob, jobs'[v].at \in {"aside", "finalize"}
       PROVE  WholeAt(jobs[v].tmp, Dir(v))'
  <2>1. PICK files, d : files = jobs[v].tmp /\ d = Dir(v)
    OBVIOUS
  <2>2. WholeAt(files, d)
    BY <1>1, <1>3, <1>10, <2>1 DEF Wholeness
  <2>3. WholeAt(files, d)'
    BY <1>6, <2>2, WholeStays
  <2>4. files = jobs'[v].tmp /\ d = Dir(v)'
    BY <1>3, <2>1 DEF Dir
  <2> QED BY <2>3, <2>4 DEF WholeAt
<1>11. Wholeness'
  BY <1>9, <1>10 DEF Wholeness
<1> QED BY <1>1, <1>3, <1>8, <1>11 DEF BundleInv, Gated

\* The invariant holds at first.
LEMMA BundleInvInit ==
  ASSUME BundleInit
  PROVE  BundleInv
<1>1. /\ cache = [d \in Dirs |-> Absent] /\ offered \in FirstOffers
      /\ \A ref \in Refs : ref.form = "directory" => ExtractTarGz(offered[ref]).ok
      /\ history = [ref \in Refs |-> {offered[ref]}]
      /\ jobs = [w \in Workers |-> NoJob] /\ locks = [p \in Processes |-> NoLocks]
      /\ done = [ref \in Refs |-> <<>>] /\ count = [resolves |-> 0, publishes |-> 0, kills |-> 0]
  BY DEF BundleInit
<1>2. offered \in [Refs -> AnyArchives]
  <2>1. offered = [ref \in Refs |-> offered[ref]]
    BY <1>1, BundleAssumption
  <2>2. \A ref \in Refs : offered[ref] \in AnyArchives
    BY <1>1 DEF AnyArchives
  <2> QED BY <2>1, <2>2
<1>3. history \in [Refs -> SUBSET AnyArchives]
  BY <1>1, <1>2
<1>4. cache \in [Dirs -> DirType]
  BY <1>1, EmptyIsFileMap
<1>5. locks \in [Processes -> LockType]
  <2>1. NoLocks \in LockType
    BY DEF NoLocks, LockType
  <2> QED BY <1>1, <2>1
<1>6. done \in [Refs -> Seq(Results)]
  BY <1>1
<1>7. count \in [resolves: Nat, publishes: Nat, kills: Nat] /\ count.kills = 0
  BY <1>1
<1>8. jobs \in [Workers -> {NoJob} \cup JobType] /\ \A w \in Workers : jobs[w] = NoJob
  BY <1>1
<1>9. Data
  BY <1>1, <1>2, <1>3, <1>4, <1>5, <1>6, <1>7, <1>8 DEF Data
<1>10. Turns
  <2>1. \A p \in Processes, d \in Dirs : locks[p].entry[d] = 0
    BY <1>1 DEF NoLocks
  <2>2. \A p \in Processes, e \in Entries : locks[p].refs[e] = Cardinality(Referring(p, e))
    <3>1. \A p \in Processes, e \in Entries : locks[p].refs[e] = 0
      BY <1>1 DEF NoLocks
    <3>2. \A p, e : Referring(p, e) = {}
      BY <1>8 DEF Referring
    <3> QED BY <3>1, <3>2, FS_EmptySet
  <2> QED BY <1>8, <2>1, <2>2 DEF Turns
<1>11. Wholeness
  <2>1. \A d \in Dirs : cache[d] = Absent /\ ~cache[d].there
    BY <1>1 DEF Absent
  <2> QED BY <1>8, <2>1 DEF Wholeness, DirOK
<1>12. Gated
  BY <1>1 DEF Gated
<1> QED BY <1>9, <1>10, <1>11, <1>12 DEF BundleInv

\* Every step keeps the invariant.
LEMMA BundleInvStep ==
  ASSUME BundleInv, [BundleNext]_bundleVars
  PROVE  BundleInv'
<1>1. CASE UNCHANGED bundleVars
  BY <1>1 DEF bundleVars, BundleInv, Data, Turns, Wholeness, Gated, Referring, Dir, DirOK, WholeAt, Complete, At
<1>2. ASSUME NEW w \in Workers,
             \/ ResolveLocalDirectory(w) \/ Begin(w) \/ Lock(w) \/ Load(w) \/ RemoveAll(w)
             \/ Fetch(w) \/ MoveAside(w) \/ Finalize(w) \/ Reload(w)
      PROVE  BundleInv'
  BY <1>2, ResolveLocalDirectoryKeeps, BeginKeeps, LockKeeps, LoadKeeps, RemoveAllKeeps, FetchKeeps,
     MoveAsideKeeps, FinalizeKeeps, ReloadKeeps
<1> QED BY <1>1, <1>2, KillKeeps, PublishKeeps DEF BundleNext

\* The invariant always holds.
LEMMA BundleInvariant == BundleSpec => []BundleInv
<1>1. BundleInit => BundleInv
  BY BundleInvInit
<1>2. BundleInv /\ [BundleNext]_bundleVars => BundleInv'
  BY BundleInvStep
<1> QED BY <1>1, <1>2, PTL DEF BundleSpec

\* The invariant implies the types.
LEMMA BundleInvTypes ==
  ASSUME BundleInv
  PROVE  BundleTypeOK
<1>1. Data /\ Turns
  BY DEF BundleInv
<1>2. \A d \in Dirs : DOMAIN cache[d].files = Files /\ cache[d].marker \in BOOLEAN
  <2>1. ASSUME NEW d \in Dirs PROVE DOMAIN cache[d].files = Files /\ cache[d].marker \in BOOLEAN
    <3>1. cache[d] \in DirType
      BY <1>1 DEF Data
    <3> QED BY <3>1 DEF DirType, FileMaps
  <2> QED BY <2>1
<1>3. \A w \in Workers : jobs[w] # NoJob => jobs[w].at \in Stages
  BY <1>1 DEF Data, JobType
<1>4. \A p \in Processes, e \in Entries :
         locks[p].refs[e] = Cardinality({w \in Workers : ProcessOf[w] = p /\ jobs[w] # NoJob /\ jobs[w].entry = e})
  BY <1>1 DEF Turns, Referring
<1> QED BY <1>2, <1>3, <1>4 DEF BundleTypeOK, Stages

\* The invariant implies what holds with any number of processes.
LEMMA BundleInvSafe ==
  ASSUME BundleInv
  PROVE  TurnsTaken /\ ReadyIsWhole /\ GateHolds
<1>1. Data /\ Turns /\ Wholeness /\ Gated
  BY DEF BundleInv
<1>2. TurnsTaken
  <2>1. SUFFICES ASSUME NEW v \in Workers, NEW w \in Workers, v # w, ProcessOf[v] = ProcessOf[w],
                        jobs[v] # NoJob, jobs[w] # NoJob, jobs[v].at # "lock", jobs[w].at # "lock", Dir(v) = Dir(w)
                 PROVE  FALSE
    BY DEF TurnsTaken
  <2>2. jobs[v].entry = jobs[w].entry
    BY <1>1, <2>1 DEF Turns
  <2> QED BY <1>1, <2>1, <2>2 DEF Turns
<1>3. ReadyIsWhole
  <2>1. SUFFICES ASSUME NEW ref \in Refs, Complete(CacheDirName(ref))
                 PROVE  \E r \in Refs : CacheDirName(r) = CacheDirName(ref) /\ Whole(cache[CacheDirName(ref)].files, r)
    BY DEF ReadyIsWhole, Complete
  <2>2. CacheDirName(ref) \in Dirs /\ DirOK(CacheDirName(ref))
    BY <1>1 DEF Dirs, Wholeness
  <2>3. cache[CacheDirName(ref)].there
    BY <2>1, <2>2 DEF DirOK, Absent, Complete
  <2>4. WholeAt(cache[CacheDirName(ref)].files, CacheDirName(ref))
    BY <2>1, <2>2, <2>3 DEF DirOK
  <2>5. Whole(cache[CacheDirName(ref)].files, ref)
    BY <2>4, WholeOfDirectory
  <2> QED BY <2>5
<1>4. GateHolds
  BY <1>1 DEF Gated, GateHolds
<1> QED BY <1>2, <1>3, <1>4

-----------------------------------------------------------------------------
(* What a resolution returns, with one process. *)

\* A worker past its lock is alone in its directory.
LEMMA AloneInDirectory ==
  ASSUME BundleInv, OneProcessOnly, NEW w \in Workers, NEW v \in Workers, v # w,
         jobs[w] # NoJob, jobs[v] # NoJob, jobs[w].at # "lock", Dir(v) = Dir(w)
  PROVE  jobs[v].at = "lock"
<1>1. TurnsTaken /\ ProcessOf[v] = ProcessOf[w]
  BY BundleInvSafe DEF OneProcessOnly
<1> QED BY <1>1 DEF TurnsTaken

\* What a worker finds ready is a whole archive.
LEMMA HitIsWhole ==
  ASSUME BundleInv, OneProcessOnly, MaxKills = 0 \/ NoneOptional, NEW w \in Workers, jobs[w] # NoJob,
         jobs[w].at \in {"load", "reload"}, LoadCachedBundle(Dir(w), Job(w).ref, Job(w).source) = "hit"
  PROVE  /\ WholeAt(cache[Dir(w)].files, Dir(w)) /\ cache[Dir(w)].there /\ cache[Dir(w)].marker
         /\ Usable(cache[Dir(w)].files, jobs[w].ref, ParseBundleSource(jobs[w].ref))
<1>1. Data /\ Wholeness
  BY DEF BundleInv
<1>2. Dir(w) \in Dirs /\ jobs[w].source = ParseBundleSource(jobs[w].ref) /\ DirOK(Dir(w)) /\ cache[Dir(w)] \in DirType
  BY <1>1, DirOfWorker DEF Wholeness, Data
<1>3. PICK d : d = Dir(w)
  OBVIOUS
<1>4. cache[d].there /\ cache[d].marker /\ Usable(cache[d].files, jobs[w].ref, ParseBundleSource(jobs[w].ref))
  BY <1>2, <1>3 DEF LoadCachedBundle, Job
<1>5. PICK files \in FileMaps :
       /\ WholeAt(files, d)
       /\ \A f \in Files : cache[d].files[f] \in {files[f], NoFile}
       /\ Complete(d) => cache[d].files = files
  BY <1>2, <1>3, <1>4 DEF DirOK
<1>6. CASE count.kills = 0
  <2>1. \A v \in Workers : At(v, "remove") => Dir(v) # d
    BY <1>3, AloneInDirectory DEF At
  <2>2. Complete(d)
    BY <1>4, <1>6, <2>1 DEF Complete
  <2> QED BY <1>3, <1>4, <1>5, <2>2
<1>7. CASE count.kills # 0
  <2>1. NoneOptional
    BY <1>1, <1>7 DEF Data
  <2>2. files["openapi"] = NoFile
    <3>0. PICK r \in Refs : \E a \in history[r] : ExtractTarGz(a).ok /\ files = ExtractTarGz(a).files
      BY <1>5 DEF WholeAt
    <3>1. PICK a \in history[r] : ExtractTarGz(a).ok /\ files = ExtractTarGz(a).files
      BY <3>0
    <3>2. a \in AnyArchives
      BY <1>1, <3>1 DEF Data
    <3> QED BY <2>1, <3>1, <3>2 DEF NoneOptional
  <2>3. cache[d].files["manifest"] # NoFile /\ cache[d].files["metadata"] # NoFile
    BY <1>4 DEF Usable, BuildResolution
  <2>4. \A f \in Files : cache[d].files[f] = files[f]
    BY <1>5, <2>2, <2>3 DEF Files
  <2>5. cache[d].files \in FileMaps
    BY <1>2, <1>3 DEF DirType
  <2>6. cache[d].files = files
    BY <1>5, <2>4, <2>5 DEF FileMaps
  <2> QED BY <1>3, <1>4, <1>5, <2>6
<1> QED BY <1>6, <1>7

\* What a shorthand asks for.
AsAsked(files, ref) ==
  ParseShorthandRef(ref) => files["manifest"].name = ref.name /\ files["manifest"].version = ref.version

\* What makes a bundle of a shorthand is what it asks for (buildResolution).
LEMMA UsableIsAsked ==
  ASSUME NEW ref \in Refs, NEW files, Usable(files, ref, ParseBundleSource(ref))
  PROVE  AsAsked(files, ref)
<1>1. ParseShorthandRef(ref) => ParseBundleSource(ref).kind = "shorthand"
  BY DEF ParseShorthandRef, ParseBundleSource, ParseOCIRef, ParseConfigMapRef
<1> QED BY <1>1 DEF AsAsked, Usable, BuildResolution

\* The results that were returned stay what they were.
LEMMA ReturnedKept ==
  ASSUME Returned, done' = done, \A r \in Refs : history[r] \subseteq history'[r]
  PROVE  Returned'
<1>1. ASSUME NEW ref \in Refs, NEW i \in DOMAIN done[ref], done[ref][i].ok
      PROVE  WholeAt(done[ref][i].files, CacheDirName(ref))'
  <2>1. PICK files : files = done[ref][i].files
    OBVIOUS
  <2>2. WholeAt(files, CacheDirName(ref))
    BY <1>1, <2>1 DEF Returned
  <2>3. \E r \in Refs : CacheDirName(r) = CacheDirName(ref) /\ \E a \in history'[r] :
           ExtractTarGz(a).ok /\ files = ExtractTarGz(a).files
    BY <2>2 DEF WholeAt
  <2> QED BY <2>1, <2>3 DEF WholeAt
<1> QED BY <1>1 DEF Returned

\* A result that is whole and as asked is added.
LEMMA ReturnedWith ==
  ASSUME Data, Returned, NEW ref \in Refs, NEW r \in Results, done' = [done EXCEPT ![ref] = Append(@, r)],
         history' = history, r.ok => WholeAt(r.files, CacheDirName(ref)) /\ AsAsked(r.files, ref)
  PROVE  Returned'
<1>1. /\ \A q \in Refs : q # ref => done'[q] = done[q]
      /\ Len(done[ref]) \in Nat /\ DOMAIN done[ref] = 1..Len(done[ref])
      /\ DOMAIN done'[ref] = 1..(Len(done[ref]) + 1)
      /\ \A i \in DOMAIN done[ref] : done'[ref][i] = done[ref][i]
      /\ done'[ref][Len(done[ref]) + 1] = r
  BY ResultAdded
<1> DEFINE Good(x, q) == x.ok => WholeAt(x.files, CacheDirName(q)) /\ AsAsked(x.files, q)
<1>2. \A q \in Refs : \A i \in DOMAIN done[q] : Good(done[q][i], q)
  BY DEF Returned, AsAsked
<1>3. Good(r, ref)
  OBVIOUS
<1> HIDE DEF Good
<1>4. ASSUME NEW q \in Refs, NEW i \in DOMAIN done'[q]
      PROVE  Good(done'[q][i], q)
  <2>1. CASE q # ref
    BY <1>1, <1>2, <1>4, <2>1
  <2>2. CASE q = ref /\ i = Len(done[ref]) + 1
    BY <1>1, <1>3, <2>2
  <2>3. CASE q = ref /\ i # Len(done[ref]) + 1
    <3>1. i \in DOMAIN done[ref]
      BY <1>1, <1>4, <2>3
    <3> QED BY <1>1, <1>2, <2>3, <3>1
  <2> QED BY <2>1, <2>2, <2>3
<1>5. ASSUME NEW q \in Refs, NEW i \in DOMAIN done'[q], done'[q][i].ok
      PROVE  /\ WholeAt(done[q][i].files, CacheDirName(q))'
             /\ ParseShorthandRef(q) => /\ done'[q][i].files["manifest"].name = q.name
                                        /\ done'[q][i].files["manifest"].version = q.version
  <2>1. WholeAt(done'[q][i].files, CacheDirName(q)) /\ AsAsked(done'[q][i].files, q)
    BY <1>4, <1>5 DEF Good
  <2> QED BY <2>1 DEF WholeAt, AsAsked
<1> QED BY <1>5 DEF Returned

-----------------------------------------------------------------------------
(* That a reference that resolved resolves again. *)

\* A worker in the directory of a reference that shares it with no other works for it.
LEMMA OnlyWorker ==
  ASSUME Data, NEW w \in Workers, jobs[w] # NoJob, NEW ref \in Refs, Alone(ref), Dir(w) = CacheDirName(ref)
  PROVE  jobs[w].ref = ref
<1>1. jobs[w].ref \in Refs /\ CacheDirName(jobs[w].ref) = CacheDirName(ref)
  BY DirOfWorker
<1>2. SameArtifact(ref, jobs[w].ref)
  BY <1>1, SameDirSameArtifact
<1> QED BY <1>1, <1>2 DEF Alone

\* A reference that is settled is found in the cache.
LEMMA SettledIsHit ==
  ASSUME Data, NEW w \in Workers, jobs[w] # NoJob, NEW ref \in Refs, Alone(ref), Dir(w) = CacheDirName(ref), Settled(ref)
  PROVE  /\ LoadCachedBundle(Dir(w), Job(w).ref, Job(w).source) = "hit" /\ cache[Dir(w)].files["manifest"].compatible
         /\ jobs[w].at \in {"lock", "load", "reload"}
<1>1. jobs[w].ref = ref /\ jobs[w].source = ParseBundleSource(ref)
  BY OnlyWorker, DirOfWorker
<1> QED BY <1>1 DEF Settled, LoadCachedBundle, Job

\* A step that returns nothing and leaves what is settled.
LEMMA OfflineKept ==
  ASSUME Offline, done' = done, \A ref \in Refs : Alone(ref) /\ Settled(ref) => Settled(ref)'
  PROVE  Offline'
BY DEF Offline

\* A worker that goes on in a directory nobody has settled in.
LEMMA OfflineMove ==
  ASSUME Data, Offline, done' = done, NEW w \in Workers, NEW j, jobs' = [jobs EXCEPT ![w] = j],
         j.source = jobs[w].source, \A d \in Dirs : d # Dir(w) => cache'[d] = cache[d],
         \A ref \in Refs : Alone(ref) /\ Settled(ref) => CacheDirName(ref) # Dir(w)
  PROVE  Offline'
<1>1. jobs'[w] = j /\ \A v \in Workers : v # w => jobs'[v] = jobs[v]
  BY DEF Data
<1>2. ASSUME NEW ref \in Refs, Alone(ref), Settled(ref) PROVE Settled(ref)'
  <2>1. PICK d : d = CacheDirName(ref)
    OBVIOUS
  <2>2. d \in Dirs /\ d # Dir(w) /\ cache'[d] = cache[d]
    BY <1>2, <2>1 DEF Dirs
  <2>3. \A v \in Workers : jobs'[v] # NoJob /\ jobs'[v].source.dir = d => jobs'[v].at \in {"lock", "load", "reload"}
    BY <1>1, <1>2, <2>1, <2>2 DEF Settled, Dir
  <2> QED BY <1>2, <2>1, <2>2, <2>3 DEF Settled, Dir
<1> QED BY <1>2, OfflineKept

\* A step that leaves the directories, and workers at the locks or gone.
LEMMA OfflineRest ==
  ASSUME Offline, done' = done, cache' = cache,
         \A v \in Workers : jobs'[v] = jobs[v] \/ jobs'[v] = NoJob \/ jobs'[v].at \in {"lock", "load"}
  PROVE  Offline'
<1>1. ASSUME NEW ref \in Refs, Settled(ref) PROVE Settled(ref)'
  BY <1>1 DEF Settled, Dir
<1> QED BY <1>1, OfflineKept

\* A worker returns: a success settles its reference, a settled one succeeds.
LEMMA OfflineReturn ==
  ASSUME BundleInv, Offline, OneProcessOnly, NEW w \in Workers, jobs[w] # NoJob, jobs[w].at # "lock",
         NEW ok \in OkValues, NEW why \in Reasons, Return(w, ok, why), cache' = cache,
         ok => /\ cache[Dir(w)].there /\ cache[Dir(w)].marker
               /\ Usable(cache[Dir(w)].files, jobs[w].ref, ParseBundleSource(jobs[w].ref))
               /\ cache[Dir(w)].files["manifest"].compatible,
         Alone(jobs[w].ref) /\ Settled(jobs[w].ref) => ok
  PROVE  Offline'
<1>1. Data
  BY DEF BundleInv
<1>2. PICK ref : ref = jobs[w].ref
  OBVIOUS
<1>3. ref \in Refs /\ Dir(w) = CacheDirName(ref)
  BY <1>1, <1>2, DirOfWorker
<1>4. jobs'[w] = NoJob /\ \A v \in Workers : v # w => jobs'[v] = jobs[v]
  BY <1>1 DEF Return, Data
<1>5. PICK r : r = [ok |-> ok, why |-> why, files |-> IF ok THEN cache[Dir(w)].files ELSE Empty]
  OBVIOUS
<1>6. r \in Results /\ r.ok = ok
  BY <1>1, <1>5, ReturnResult
<1>7. done' = [done EXCEPT ![ref] = Append(@, r)]
  BY <1>2, <1>5 DEF Return
<1>8. /\ \A q \in Refs : q # ref => done'[q] = done[q]
      /\ Len(done[ref]) \in Nat /\ DOMAIN done[ref] = 1..Len(done[ref])
      /\ DOMAIN done'[ref] = 1..(Len(done[ref]) + 1)
      /\ \A i \in DOMAIN done[ref] : done'[ref][i] = done[ref][i]
      /\ done'[ref][Len(done[ref]) + 1] = r
  BY <1>1, <1>3, <1>6, <1>7, ResultAdded
<1>9. ASSUME NEW q \in Refs, Settled(q) PROVE Settled(q)'
  BY <1>4, <1>9 DEF Settled, Dir
<1>10. ASSUME ok PROVE Settled(ref)'
  <2>1. \A v \in Workers : v # w /\ jobs[v] # NoJob /\ Dir(v) = Dir(w) => jobs[v].at = "lock"
    BY AloneInDirectory
  <2> QED BY <1>2, <1>3, <1>4, <1>10, <2>1 DEF Settled, Dir
<1>11. ASSUME NEW q \in Refs, Alone(q), NEW i \in DOMAIN done'[q], done'[q][i].ok
       PROVE  Settled(q)'
  <2>1. CASE q # ref
    BY <1>8, <1>9, <1>11, <2>1 DEF Offline
  <2>2. CASE q = ref /\ i = Len(done[ref]) + 1
    BY <1>6, <1>8, <1>10, <1>11, <2>2
  <2>3. CASE q = ref /\ i # Len(done[ref]) + 1
    <3>1. i \in DOMAIN done[ref]
      BY <1>8, <1>11, <2>3
    <3> QED BY <1>8, <1>9, <1>11, <2>3, <3>1 DEF Offline
  <2> QED BY <2>1, <2>2, <2>3
<1>12. ASSUME NEW q \in Refs, Alone(q), NEW i \in DOMAIN done'[q], NEW k \in DOMAIN done'[q], i < k, done'[q][i].ok
       PROVE  done'[q][k].ok
  <2>1. CASE q # ref
    BY <1>8, <1>12, <2>1 DEF Offline
  <2>2. CASE q = ref
    <3>1. i \in DOMAIN done[ref] /\ done[ref][i].ok
      BY <1>8, <1>12, <2>2
    <3>2. CASE k = Len(done[ref]) + 1
      <4>1. Settled(ref)
        BY <1>12, <2>2, <3>1 DEF Offline
      <4> QED BY <1>2, <1>6, <1>8, <1>12, <2>2, <3>2, <4>1
    <3>3. CASE k # Len(done[ref]) + 1
      <4>1. k \in DOMAIN done[ref]
        BY <1>8, <1>12, <2>2, <3>3
      <4> QED BY <1>8, <1>12, <2>2, <3>1, <4>1 DEF Offline
    <3> QED BY <3>2, <3>3
  <2> QED BY <2>1, <2>2
<1> QED BY <1>11, <1>12 DEF Offline

\* A worker that reads its directory, and what it returns.
LEMMA ReadReturn ==
  ASSUME BundleInv, ReturnInv, OneProcessOnly, MaxKills = 0 \/ NoneOptional, NEW w \in Workers, jobs[w] # NoJob,
         jobs[w].at \in {"load", "reload"}, LoadCachedBundle(Dir(w), Job(w).ref, Job(w).source) = "hit",
         Return(w, EnforceCompatibleDeclarest(cache[Dir(w)].files["manifest"]), "gate"),
         cache' = cache, history' = history
  PROVE  ReturnInv'
<1>1. Data /\ Returned /\ Offline
  BY DEF BundleInv, ReturnInv
<1>2. /\ WholeAt(cache[Dir(w)].files, Dir(w)) /\ cache[Dir(w)].there /\ cache[Dir(w)].marker
      /\ Usable(cache[Dir(w)].files, jobs[w].ref, ParseBundleSource(jobs[w].ref))
  BY HitIsWhole
<1>3. jobs[w].ref \in Refs /\ Dir(w) = CacheDirName(jobs[w].ref) /\ Dir(w) \in Dirs
  BY <1>1, DirOfWorker
<1>4. PICK ok : ok = cache[Dir(w)].files["manifest"].compatible
  OBVIOUS
<1>5. ok \in OkValues /\ "gate" \in Reasons
  <2>1. cache[Dir(w)].files["manifest"] \in Bodies
    BY <1>1, <1>3 DEF Data, DirType, FileMaps, Files
  <2> QED BY <1>4, <2>1 DEF OkValues, Reasons
<1>6. Return(w, ok, "gate") /\ jobs[w].at # "lock"
  BY <1>4 DEF EnforceCompatibleDeclarest
<1>7. Alone(jobs[w].ref) /\ Settled(jobs[w].ref) => ok
  BY <1>1, <1>3, <1>4, SettledIsHit
<1>8. ok => cache[Dir(w)].files["manifest"].compatible
  BY <1>4
<1>9. Offline'
  BY <1>1, <1>2, <1>5, <1>6, <1>7, <1>8, OfflineReturn
<1>10. PICK r : r = [ok |-> ok, why |-> "gate", files |-> IF ok THEN cache[Dir(w)].files ELSE Empty]
  OBVIOUS
<1>11. r \in Results
  BY <1>1, <1>5, <1>10, ReturnResult
<1>12. done' = [done EXCEPT ![jobs[w].ref] = Append(@, r)]
  BY <1>6, <1>10 DEF Return
<1>13. r.ok => WholeAt(r.files, CacheDirName(jobs[w].ref)) /\ AsAsked(r.files, jobs[w].ref)
  <2>1. r.ok => r.files = cache[Dir(w)].files
    BY <1>10
  <2> QED BY <1>2, <1>3, <2>1, UsableIsAsked
<1>14. Returned'
  BY <1>1, <1>3, <1>11, <1>12, <1>13, ReturnedWith
<1> QED BY <1>9, <1>14 DEF ReturnInv

\* A worker that fails did not find its reference settled.
LEMMA FailureReturn ==
  ASSUME BundleInv, ReturnInv, OneProcessOnly, NEW w \in Workers, jobs[w] # NoJob, jobs[w].at # "lock",
         NEW why \in Reasons, Return(w, FALSE, why), cache' = cache, history' = history,
         ~(Alone(jobs[w].ref) /\ Settled(jobs[w].ref))
  PROVE  ReturnInv'
<1>1. Data /\ Returned /\ Offline /\ jobs[w].ref \in Refs
  BY DirOfWorker DEF BundleInv, ReturnInv
<1>2. FALSE \in OkValues
  BY DEF OkValues
<1>3. PICK ok \in OkValues : ok = FALSE
  BY <1>2
<1>4. Return(w, ok, why) /\ ~ok
  BY <1>3
<1>5. Offline'
  BY <1>1, <1>4, OfflineReturn
<1>6. PICK r : r = [ok |-> ok, why |-> why, files |-> IF ok THEN cache[Dir(w)].files ELSE Empty]
  OBVIOUS
<1>7. r \in Results
  BY <1>1, <1>6, ReturnResult
<1>8. done' = [done EXCEPT ![jobs[w].ref] = Append(@, r)] /\ ~r.ok
  BY <1>4, <1>6 DEF Return
<1>9. Returned'
  BY <1>1, <1>7, <1>8, ReturnedWith
<1> QED BY <1>5, <1>9 DEF ReturnInv

\* A worker that is past reading works where nobody has settled.
LEMMA NobodySettled ==
  ASSUME Data, NEW w \in Workers, jobs[w] # NoJob, jobs[w].at \notin {"lock", "load", "reload"}
  PROVE  \A ref \in Refs : Alone(ref) /\ Settled(ref) => CacheDirName(ref) # Dir(w)
BY DEF Settled

\* Every step keeps what is said of the results.
LEMMA ReturnInvStep ==
  ASSUME BundleInv, ReturnInv, OneProcessOnly, MaxKills = 0 \/ NoneOptional, BundleNext
  PROVE  ReturnInv'
<1>1. Data /\ Returned /\ Offline /\ jobs \in [Workers -> {NoJob} \cup JobType] /\ cache \in [Dirs -> DirType]
  BY DEF BundleInv, ReturnInv, Data
<1>2. ASSUME NEW w \in Workers, ResolveLocalDirectory(w) PROVE ReturnInv'
  <2>1. cache' = cache /\ jobs' = jobs /\ history' = history
    BY <1>2 DEF ResolveLocalDirectory
  <2>2. PICK ref \in Refs : LET files == ExtractTarGz(offered[ref]).files
                                ok == Usable(files, ref, ParseBundleSource(ref)) /\ EnforceCompatibleDeclarest(files["manifest"])
                            IN ref.form = "directory"
                               /\ done' = [done EXCEPT ![ref] = Append(@, [ok |-> ok, why |-> "gate",
                                           files |-> IF ok THEN files ELSE Empty])]
    BY <1>2 DEF ResolveLocalDirectory
  <2>3. PICK files : files = ExtractTarGz(offered[ref]).files
    OBVIOUS
  <2>4. files \in FileMaps /\ WholeAt(files, CacheDirName(ref))
    BY <1>1, <2>2, <2>3, AnyArchiveFiles DEF Data, WholeAt
  <2>5. PICK ok \in BOOLEAN : ok <=> (Usable(files, ref, ParseBundleSource(ref)) /\ EnforceCompatibleDeclarest(files["manifest"]))
    OBVIOUS
  <2>6. PICK r : r = [ok |-> ok, why |-> "gate", files |-> IF ok THEN files ELSE Empty]
    OBVIOUS
  <2>7. done' = [done EXCEPT ![ref] = Append(@, r)]
    <3>1. (Usable(files, ref, ParseBundleSource(ref)) /\ EnforceCompatibleDeclarest(files["manifest"])) = ok
      BY <2>5
    <3> QED BY <2>2, <2>3, <2>6, <3>1
  <2>8. r \in Results
    <3>1. ok \in OkValues /\ "gate" \in Reasons
      BY DEF OkValues, Reasons
    <3>2. (IF ok THEN files ELSE Empty) \in FileMaps
      BY <2>4, EmptyIsFileMap
    <3> QED BY <2>6, <3>1, <3>2 DEF Results
  <2>9. r.ok => WholeAt(r.files, CacheDirName(ref)) /\ AsAsked(r.files, ref)
    <3>1. ~ParseShorthandRef(ref)
      BY <2>2 DEF ParseShorthandRef
    <3>2. r.ok => r.files = files
      BY <2>6
    <3> QED BY <2>4, <3>1, <3>2 DEF AsAsked
  <2>10. Returned'
    BY <1>1, <2>1, <2>7, <2>8, <2>9, ReturnedWith
  <2>11. \A q \in Refs : q # ref => done'[q] = done[q]
    BY <1>1, <2>7, <2>8, ResultAdded
  <2>12. \A q \in Refs : Alone(q) => q # ref
    BY <2>2 DEF Alone
  <2>13. \A q \in Refs : Settled(q) => Settled(q)'
    BY <2>1 DEF Settled, Dir
  <2>14. Offline'
    BY <1>1, <2>11, <2>12, <2>13 DEF Offline
  <2> QED BY <2>10, <2>14 DEF ReturnInv
<1>3. ASSUME NEW w \in Workers, Begin(w) \/ Lock(w) PROVE ReturnInv'
  <2>1. done' = done /\ cache' = cache /\ history' = history
    BY <1>3 DEF Begin, Lock
  <2>2. \A v \in Workers : jobs'[v] = jobs[v] \/ jobs'[v] = NoJob \/ jobs'[v].at \in {"lock", "load"}
    <3>1. CASE Begin(w)
      <4>1. PICK ref, e : jobs' = [jobs EXCEPT ![w] = [at |-> "lock", ref |-> ref,
                                       source |-> ParseBundleSource(ref), entry |-> e, tmp |-> Empty]]
        BY <3>1 DEF Begin
      <4> QED BY <1>1, <4>1
    <3>2. CASE Lock(w)
      <4>1. jobs[w] # NoJob /\ jobs' = [jobs EXCEPT ![w].at = "load"] /\ "load" \in Stages
        BY <3>2 DEF Lock, Goto, At, Stages
      <4>2. PICK j \in JobType : /\ jobs' = [jobs EXCEPT ![w] = j] /\ j.at = "load" /\ j.tmp = jobs[w].tmp
                                 /\ j.entry = jobs[w].entry /\ j.source = jobs[w].source /\ j.ref = jobs[w].ref
        BY <1>1, <4>1, GoneTo
      <4> QED BY <1>1, <4>2
    <3> QED BY <1>3, <3>1, <3>2
  <2> QED BY <1>1, <2>1, <2>2, OfflineRest, ReturnedKept DEF ReturnInv
<1>4. ASSUME NEW w \in Workers, jobs[w] # NoJob, NEW at \in Stages, Goto(w, at), done' = done, history' = history,
             \A d \in Dirs : d # Dir(w) => cache'[d] = cache[d],
             \A ref \in Refs : Alone(ref) /\ Settled(ref) => CacheDirName(ref) # Dir(w)
      PROVE  ReturnInv'
  <2>1. PICK j \in JobType : /\ jobs' = [jobs EXCEPT ![w] = j] /\ j.at = at /\ j.tmp = jobs[w].tmp
                             /\ j.entry = jobs[w].entry /\ j.source = jobs[w].source /\ j.ref = jobs[w].ref
    BY <1>1, <1>4, GoneTo DEF Goto
  <2>2. Offline'
    BY <1>1, <1>4, <2>1, OfflineMove
  <2> QED BY <1>1, <1>4, <2>2, ReturnedKept DEF ReturnInv
<1>5. ASSUME NEW w \in Workers, Load(w) PROVE ReturnInv'
  <2>1. jobs[w] # NoJob /\ jobs[w].at = "load" /\ cache' = cache /\ history' = history
    BY <1>5 DEF Load, At
  <2>2. CASE LoadCachedBundle(Dir(w), Job(w).ref, Job(w).source) = "hit"
    <3>1. Return(w, EnforceCompatibleDeclarest(cache[Dir(w)].files["manifest"]), "gate")
      BY <1>5, <2>2 DEF Load
    <3> QED BY <2>1, <2>2, <3>1, ReadReturn
  <2>3. CASE LoadCachedBundle(Dir(w), Job(w).ref, Job(w).source) # "hit"
    <3>1. done' = done
      BY <1>5, <2>3 DEF Load
    <3>2. PICK at \in {"remove", "fetch"} : Goto(w, at)
      BY <1>5, <2>3 DEF Load
    <3>3. at \in Stages
      BY <3>2 DEF Stages
    <3>4. \A ref \in Refs : Alone(ref) /\ Settled(ref) => CacheDirName(ref) # Dir(w)
      BY <1>1, <2>1, <2>3, SettledIsHit
    <3> QED BY <1>4, <2>1, <3>1, <3>2, <3>3, <3>4
  <2> QED BY <2>2, <2>3
<1>6. ASSUME NEW w \in Workers, RemoveAll(w) PROVE ReturnInv'
  <2>1. jobs[w] # NoJob /\ jobs[w].at = "remove" /\ done' = done /\ history' = history /\ Dir(w) \in Dirs /\ jobs[w] \in JobType
    BY <1>1, <1>6, DirOfWorker DEF RemoveAll, At
  <2>2. \A d \in Dirs : d # Dir(w) => cache'[d] = cache[d]
    BY <1>1, <1>6, <2>1 DEF RemoveAll
  <2>3. \A ref \in Refs : Alone(ref) /\ Settled(ref) => CacheDirName(ref) # Dir(w)
    BY <1>1, <2>1, NobodySettled
  <2>4. CASE jobs' = jobs
    <3>1. jobs' = [jobs EXCEPT ![w] = jobs[w]]
      BY <1>1, <2>4
    <3>2. Offline'
      BY <1>1, <2>1, <2>2, <2>3, <3>1, OfflineMove
    <3> QED BY <1>1, <2>1, <3>2, ReturnedKept DEF ReturnInv
  <2>5. CASE Goto(w, "fetch")
    <3>1. "fetch" \in Stages
      BY DEF Stages
    <3> QED BY <1>4, <2>1, <2>2, <2>3, <2>5, <3>1
  <2> QED BY <1>6, <2>4, <2>5 DEF RemoveAll
<1>7. ASSUME NEW w \in Workers, Fetch(w) PROVE ReturnInv'
  <2>1. jobs[w] # NoJob /\ jobs[w].at = "fetch" /\ cache' = cache /\ history' = history /\ jobs[w] \in JobType
        /\ jobs[w].ref \in Refs /\ Dir(w) = CacheDirName(jobs[w].ref)
    BY <1>1, <1>7, DirOfWorker DEF Fetch, At, Return
  <2>2. \A ref \in Refs : Alone(ref) /\ Settled(ref) => CacheDirName(ref) # Dir(w)
    BY <1>1, <2>1, NobodySettled
  <2>3. CASE done' = done /\ jobs' = [jobs EXCEPT ![w].at = "aside", ![w].tmp = Fetched(Job(w).ref, Job(w).source).files]
    <3>1. PICK k : k = [jobs[w] EXCEPT !.at = "aside"]
      OBVIOUS
    <3>2. PICK j : j = [k EXCEPT !.tmp = Fetched(Job(w).ref, Job(w).source).files]
      OBVIOUS
    <3>3. DOMAIN k = DOMAIN jobs[w] /\ k.source = jobs[w].source
      BY <2>1, <3>1 DEF JobType
    <3>4. j.source = jobs[w].source
      BY <2>1, <3>2, <3>3 DEF JobType
    <3>5. jobs' = [jobs EXCEPT ![w] = j]
      BY <1>1, <2>3, <3>1, <3>2
    <3>6. Offline'
      BY <1>1, <2>1, <2>2, <2>3, <3>4, <3>5, OfflineMove
    <3> QED BY <1>1, <2>1, <2>3, <3>6, ReturnedKept DEF ReturnInv
  <2>4. CASE Return(w, FALSE, IF Fetched(Job(w).ref, Job(w).source).ok THEN "transfer" ELSE "archive")
    <3>1. PICK why : why = IF Fetched(Job(w).ref, Job(w).source).ok THEN "transfer" ELSE "archive"
      OBVIOUS
    <3>2. why \in Reasons /\ Return(w, FALSE, why)
      BY <2>4, <3>1 DEF Reasons
    <3>3. ~(Alone(jobs[w].ref) /\ Settled(jobs[w].ref)) /\ jobs[w].at # "lock"
      BY <2>1, <2>2
    <3> QED BY <2>1, <3>2, <3>3, FailureReturn
  <2> QED BY <1>7, <2>3, <2>4 DEF Fetch
<1>8. ASSUME NEW w \in Workers, MoveAside(w) PROVE ReturnInv'
  <2>1. jobs[w] # NoJob /\ jobs[w].at = "aside" /\ done' = done /\ history' = history /\ Dir(w) \in Dirs
    BY <1>1, <1>8, DirOfWorker DEF MoveAside, At
  <2>2. Goto(w, "finalize") /\ "finalize" \in Stages /\ \A d \in Dirs : d # Dir(w) => cache'[d] = cache[d]
    BY <1>1, <1>8, <2>1 DEF MoveAside, Stages
  <2>3. \A ref \in Refs : Alone(ref) /\ Settled(ref) => CacheDirName(ref) # Dir(w)
    BY <1>1, <2>1, NobodySettled
  <2> QED BY <1>4, <2>1, <2>2, <2>3
<1>9. ASSUME NEW w \in Workers, Finalize(w) PROVE ReturnInv'
  <2>1. jobs[w] # NoJob /\ jobs[w].at = "finalize" /\ history' = history /\ Dir(w) \in Dirs
        /\ jobs[w].ref \in Refs /\ Dir(w) = CacheDirName(jobs[w].ref)
    BY <1>1, <1>9, DirOfWorker DEF Finalize, At
  <2>2. \A ref \in Refs : Alone(ref) /\ Settled(ref) => CacheDirName(ref) # Dir(w)
    BY <1>1, <2>1, NobodySettled
  <2>3. CASE cache[Dir(w)].there
    <3>1. Return(w, FALSE, "rename") /\ cache' = cache /\ "rename" \in Reasons
      BY <1>9, <2>3 DEF Finalize, Reasons
    <3>2. ~(Alone(jobs[w].ref) /\ Settled(jobs[w].ref)) /\ jobs[w].at # "lock"
      BY <2>1, <2>2
    <3> QED BY <2>1, <3>1, <3>2, FailureReturn
  <2>4. CASE ~cache[Dir(w)].there
    <3>1. Goto(w, "reload") /\ "reload" \in Stages /\ done' = done /\ \A d \in Dirs : d # Dir(w) => cache'[d] = cache[d]
      BY <1>1, <1>9, <2>1, <2>4 DEF Finalize, Stages
    <3> QED BY <1>4, <2>1, <2>2, <3>1
  <2> QED BY <2>3, <2>4
<1>10. ASSUME NEW w \in Workers, Reload(w) PROVE ReturnInv'
  <2>1. jobs[w] # NoJob /\ jobs[w].at = "reload" /\ cache' = cache /\ history' = history
        /\ jobs[w].ref \in Refs /\ Dir(w) = CacheDirName(jobs[w].ref)
    BY <1>1, <1>10, DirOfWorker DEF Reload, At
  <2>2. CASE LoadCachedBundle(Dir(w), Job(w).ref, Job(w).source) = "hit"
    <3>1. Return(w, EnforceCompatibleDeclarest(cache[Dir(w)].files["manifest"]), "gate")
      BY <1>10, <2>2 DEF Reload
    <3> QED BY <2>1, <2>2, <3>1, ReadReturn
  <2>3. CASE LoadCachedBundle(Dir(w), Job(w).ref, Job(w).source) # "hit"
    <3>1. Return(w, FALSE, "reload") /\ "reload" \in Reasons
      BY <1>10, <2>3 DEF Reload, Reasons
    <3>2. ~(Alone(jobs[w].ref) /\ Settled(jobs[w].ref)) /\ jobs[w].at # "lock"
      BY <1>1, <2>1, <2>3, SettledIsHit
    <3> QED BY <2>1, <3>1, <3>2, FailureReturn
  <2> QED BY <2>2, <2>3
<1>11. ASSUME NEW p \in Processes, Kill(p) PROVE ReturnInv'
  <2>1. cache' = cache /\ history' = history /\ done' = done
    BY <1>11 DEF Kill
  <2>2. \A v \in Workers : jobs'[v] = jobs[v] \/ jobs'[v] = NoJob \/ jobs'[v].at \in {"lock", "load"}
    BY <1>1, <1>11 DEF Kill
  <2> QED BY <1>1, <2>1, <2>2, OfflineRest, ReturnedKept DEF ReturnInv
<1>12. ASSUME Publish PROVE ReturnInv'
  <2>1. cache' = cache /\ jobs' = jobs /\ done' = done
    BY <1>12 DEF Publish
  <2>2. \A r \in Refs : history[r] \subseteq history'[r]
    <3>1. history \in [Refs -> SUBSET AnyArchives]
      BY <1>1 DEF Data
    <3>2. PICK ref \in Refs, archive \in Archives : history' = [history EXCEPT ![ref] = @ \cup {archive}]
      BY <1>12 DEF Publish
    <3> QED BY <3>1, <3>2
  <2> QED BY <1>1, <2>1, <2>2, OfflineRest, ReturnedKept DEF ReturnInv
<1> QED BY <1>2, <1>3, <1>5, <1>6, <1>7, <1>8, <1>9, <1>10, <1>11, <1>12 DEF BundleNext

\* Nothing is returned at first.
LEMMA ReturnInvInit ==
  ASSUME BundleInit
  PROVE  ReturnInv
<1>1. \A ref \in Refs : done[ref] = <<>>
  BY DEF BundleInit
<1>2. \A ref \in Refs : DOMAIN done[ref] = {}
  BY <1>1
<1> QED BY <1>2 DEF ReturnInv, Returned, Offline

\* The two invariants imply the promises of the cache.
LEMMA ReturnInvSafe ==
  ASSUME BundleInv, ReturnInv
  PROVE  BundlesSafe
<1>1. TurnsTaken /\ ReadyIsWhole /\ GateHolds
  BY BundleInvSafe
<1>2. ReturnedIsOffered
  BY WholeOfDirectory DEF ReturnInv, Returned, ReturnedIsOffered
<1>3. OfflineAfterFirst
  <2>1. ASSUME NEW ref \in Refs, NEW i \in 1..MaxResolves, NEW j \in 1..MaxResolves, ref.form # "directory",
               i < j, j \in DOMAIN done[ref], done[ref][i].ok, \A r \in Refs : SameArtifact(ref, r) => r = ref
        PROVE  done[ref][j].ok
    <3>1. done[ref] \in Seq(Results)
      BY DEF BundleInv, Data
    <3>2. i \in DOMAIN done[ref] /\ Alone(ref)
      BY <2>1, <3>1, BundleAssumption DEF Alone
    <3> QED BY <2>1, <3>2 DEF ReturnInv, Offline
  <2> QED BY <2>1 DEF OfflineAfterFirst
<1> QED BY <1>1, <1>2, <1>3 DEF BundlesSafe

-----------------------------------------------------------------------------
(* The theorems. *)

\* The cache, its jobs and its lock table keep their shape, and an entry of the
\* table counts exactly the goroutines that refer to it, in every process and
\* after every kill (acquireBundleCacheLock).
THEOREM BundleTypes == BundleSpec => []BundleTypeOK
<1>1. BundleInv => BundleTypeOK
  BY BundleInvTypes
<1> QED BY <1>1, BundleInvariant, PTL

\* With any number of processes and kills, goroutines of one process never meet in
\* a cache directory, a directory marked ready holds all of an archive that was
\* offered for it unless it is being removed or a process was killed, and no
\* resolution returns a bundle that asks for another version of the program.
THEOREM BundlesKeptApart == BundleSpec => [](TurnsTaken /\ ReadyIsWhole /\ GateHolds)
<1>1. BundleInv => TurnsTaken /\ ReadyIsWhole /\ GateHolds
  BY BundleInvSafe
<1> QED BY <1>1, BundleInvariant, PTL

\* With one process, and kills only where a bundle needs every file of its archive,
\* what a resolution returns is moreover all of an archive the reference's artifact
\* was offered with, and what a shorthand asked for; and a reference that resolved
\* and shares its directory with no other resolves again whatever its source does.
THEOREM BundlesReturned ==
  ASSUME OneProcessOnly, MaxKills = 0 \/ NoneOptional
  PROVE  BundleSpec => []BundlesSafe
<1>1. BundleInit => ReturnInv
  BY ReturnInvInit
<1>2. BundleInv /\ ReturnInv /\ [BundleNext]_bundleVars => ReturnInv'
  <2>1. BundleInv /\ ReturnInv /\ BundleNext => ReturnInv'
    BY ReturnInvStep
  <2>2. ReturnInv /\ UNCHANGED bundleVars => ReturnInv'
    BY DEF bundleVars, ReturnInv, Returned, Offline, Settled, Alone, WholeAt, Dir
  <2> QED BY <2>1, <2>2
<1>3. BundleInv /\ ReturnInv => BundlesSafe
  BY ReturnInvSafe
<1> QED BY <1>1, <1>2, <1>3, BundleInvariant, PTL DEF BundleSpec

-----------------------------------------------------------------------------
(* The invariant of the command. *)

ProbeFields == {"stage", "items", "required", "temp", "outputs", "attempt", "stable", "last", "retry",
                "inferred", "saved", "managed", "error", "unstable", "cancelled", "faults"}
ProbeStages == {"start", "create", "read", "cleanup", "done"}
Requirements == {{}, {"x"}, {"id"}}
ProbeNames == {TempName(i, h) : i \in ItemSet, h \in 1..2}

Named(temp) == {temp[k] : k \in DOMAIN temp}

\* The name of the k-th probe, its payload, and what may be read of it.
NameAt(items, k) == TempName(items[((k - 1) \div 2) + 1], ((k - 1) % 2) + 1)
PayloadOf(name, required) == BuildProbePayload(name[1], name[2], required)
ReadsOf(name, required) == {ContentOf([payload |-> PayloadOf(name, required), version |-> v]) : v \in 1..2}
AllReads == UNION {ReadsOf(name, required) : name \in ProbeNames, required \in Requirements}

DistinctItems(items) == \A i, j \in DOMAIN items : items[i] = items[j] => i = j

ProbeShape ==
  /\ DOMAIN probing = ProbeFields /\ DOMAIN remote = {"probes", "touched", "token"}
  /\ probing.stage \in ProbeStages /\ probing.required \in Requirements
  /\ probing.items \in Seq(ItemSet) /\ DistinctItems(probing.items)
  /\ probing.temp \in Seq(ProbeNames) /\ probing.outputs \in Seq(AllReads)
  /\ probing.attempt \in Nat /\ probing.attempt < ReadAttempts
  /\ probing.stable \in Nat /\ probing.stable <= probing.attempt
  /\ probing.retry \in 0..2 /\ probing.faults \in Nat /\ probing.faults <= MaxProbeFaults

\* The probes have their names in order, and what was read is of them.
ProbeOrder ==
  /\ Len(probing.temp) <= 2 * Len(probing.items)
  /\ \A k \in DOMAIN probing.temp : probing.temp[k] = NameAt(probing.items, k)
  /\ probing.stage = "start" => probing.temp = <<>>
  /\ probing.stage \in {"start", "create"} => probing.outputs = <<>>
  /\ probing.stage = "read" => Len(probing.outputs) <= Len(probing.temp)
  /\ Len(probing.outputs) <= 2 * Len(probing.items)
  /\ \A k \in DOMAIN probing.outputs : probing.outputs[k] \in ReadsOf(NameAt(probing.items, k), probing.required)

\* A probe as the service keeps it.
ProbeRecord(r) == DOMAIN r = {"payload", "version"} /\ r.version \in 1..2

\* A probe that is remembered is in the service as it was created, until it is
\* deleted; without an error, no other is.
ProbesThere ==
  /\ \A n \in DOMAIN remote.probes : ProbeRecord(remote.probes[n])
  /\ probing.stage \in {"create", "read"} => \A k \in DOMAIN probing.temp :
       /\ probing.temp[k] \in DOMAIN remote.probes
       /\ remote.probes[probing.temp[k]].payload = PayloadOf(probing.temp[k], probing.required)
  /\ RawPathWorks /\ ~probing.error => DOMAIN remote.probes = Named(probing.temp)

\* What a command may have promised.
SimpleAlias == AliasAttributes \in {{"alias"}, {"id"}}
ProbeResult ==
  /\ probing.stage = "done" => probing.temp = <<>>
  /\ probing.retry # 0 => probing.stage = "cleanup" /\ probing.temp # <<>>
  /\ probing.saved # {} => probing.stage = "done" /\ ~probing.error
  /\ SimpleAlias => ~remote.touched /\ probing.inferred \cap AliasAttributes = {}
  /\ ~probing.unstable

ProbeInv == ProbeShape /\ ProbeOrder /\ ProbesThere /\ ProbeResult

\* All but some fields of the command stay.
KeepsBut(s, t, fields) == DOMAIN t = ProbeFields /\ \A f \in ProbeFields \ fields : t[f] = s[f]

-----------------------------------------------------------------------------
(* Facts about the definitions. *)

\* Probes of different places have different names.
LEMMA NamesDiffer ==
  ASSUME NEW items \in Seq(ItemSet), DistinctItems(items), NEW k \in 1..(2 * Len(items)), NEW l \in 1..(2 * Len(items)),
         NameAt(items, k) = NameAt(items, l)
  PROVE  k = l
<1>1. Len(items) \in Nat /\ DOMAIN items = 1..Len(items)
  OBVIOUS
<1>2. PICK a, b, c, d : a = (k - 1) \div 2 /\ b = (k - 1) % 2 /\ c = (l - 1) \div 2 /\ d = (l - 1) % 2
  OBVIOUS
<1>3. a \in Nat /\ b \in 0..1 /\ k - 1 = 2 * a + b /\ c \in Nat /\ d \in 0..1 /\ l - 1 = 2 * c + d
  BY <1>1, <1>2
<1>4. a + 1 \in DOMAIN items /\ c + 1 \in DOMAIN items
  BY <1>1, <1>3
<1>5. items[a + 1] = items[c + 1] /\ b + 1 = d + 1
  BY <1>2 DEF NameAt, TempName
<1>6. a + 1 = c + 1
  BY <1>4, <1>5 DEF DistinctItems
<1> QED BY <1>3, <1>5, <1>6

\* A name of a place is a name.
LEMMA NameIsName ==
  ASSUME NEW items \in Seq(ItemSet), NEW k \in 1..(2 * Len(items))
  PROVE  NameAt(items, k) \in ProbeNames
<1>1. Len(items) \in Nat /\ DOMAIN items = 1..Len(items)
  OBVIOUS
<1>2. PICK a, b : a = (k - 1) \div 2 /\ b = (k - 1) % 2
  OBVIOUS
<1>3. a \in Nat /\ b \in 0..1 /\ k - 1 = 2 * a + b
  BY <1>1, <1>2
<1>4. a + 1 \in DOMAIN items /\ b + 1 \in 1..2
  BY <1>1, <1>3
<1>5. items[a + 1] \in ItemSet
  BY <1>4
<1> QED BY <1>2, <1>4, <1>5 DEF NameAt, ProbeNames

\* A name tells its item and its half.
LEMMA NameParts ==
  ASSUME NEW name \in ProbeNames
  PROVE  name[1] \in ItemSet /\ name[2] \in 1..2 /\ name = TempName(name[1], name[2])
BY DEF ProbeNames, TempName

\* A probe carries its own name where the alias of an item carries the item's
\* (buildManagedServiceProbePayload).
LEMMA ProbeIdentity ==
  ASSUME SimpleAlias, NEW name \in ProbeNames, NEW required \in Requirements, NEW a \in AliasAttributes
  PROVE  /\ a \in DOMAIN PayloadOf(name, required) /\ PayloadOf(name, required)[a] = name
         /\ a # "d" /\ a \in PayloadAttributes
         /\ \A i \in ItemSet : Payload(i)[a] = i /\ DOMAIN Payload(i) = PayloadAttributes
<1>1. Cardinality(AliasAttributes) = 1
  BY FS_Singleton DEF SimpleAlias
<1>2. a \in SimplePointers /\ AliasAttributes = {a} /\ a \in {"alias", "id"}
  BY <1>1 DEF SimplePointers, SimpleAlias
<1>3. a \in PayloadAttributes /\ a # "d" /\ a # "x"
  BY <1>2 DEF PayloadAttributes
<1>4. \A i \in ItemSet : Payload(i)[a] = i /\ DOMAIN Payload(i) = PayloadAttributes
  BY <1>3 DEF Payload
<1>5. PICK selected : selected = EffectiveCreateRequired(required)
  OBVIOUS
<1>6. a \in selected /\ selected # {}
  BY <1>2, <1>5 DEF EffectiveCreateRequired
<1>7. name[1] \in ItemSet /\ name = TempName(name[1], name[2])
  BY NameParts
<1>8. PICK next : next = SelectProbePayload(Payload(name[1]), selected)
  OBVIOUS
<1>9. a \in DOMAIN next
  BY <1>3, <1>4, <1>6, <1>7, <1>8 DEF SelectProbePayload
<1>10. PayloadOf(name, required) = [b \in DOMAIN next |-> IF b \in SimplePointers THEN TempName(name[1], name[2]) ELSE next[b]]
  BY <1>5, <1>6, <1>8 DEF PayloadOf, BuildProbePayload
<1> QED BY <1>2, <1>3, <1>4, <1>7, <1>9, <1>10

\* So does what is read of it.
LEMMA ReadIdentity ==
  ASSUME SimpleAlias, NEW name \in ProbeNames, NEW required \in Requirements, NEW a \in AliasAttributes,
         NEW read \in ReadsOf(name, required)
  PROVE  a \in DOMAIN read /\ read[a] = name
<1>1. PICK v \in 1..2 : read = ContentOf([payload |-> PayloadOf(name, required), version |-> v])
  BY DEF ReadsOf
<1>2. a \in DOMAIN PayloadOf(name, required) /\ PayloadOf(name, required)[a] = name /\ a # "d"
  BY ProbeIdentity
<1> QED BY <1>1, <1>2 DEF ContentOf

\* A probe has no item's identity.
LEMMA NoCollision ==
  ASSUME SimpleAlias, NEW name \in ProbeNames, NEW required \in Requirements
  PROVE  ~ \E i \in ItemSet : IdentityOf(PayloadOf(name, required)) = IdentityOf(Payload(i))
<1>1. SUFFICES ASSUME NEW i \in ItemSet, IdentityOf(PayloadOf(name, required)) = IdentityOf(Payload(i)) PROVE FALSE
  OBVIOUS
<1>2. PICK a : a \in AliasAttributes
  BY DEF SimpleAlias
<1>3. a \in DOMAIN PayloadOf(name, required) /\ PayloadOf(name, required)[a] = name /\ a \in DOMAIN Payload(i) /\ Payload(i)[a] = i
  BY <1>2, ProbeIdentity
<1>4. IdentityOf(PayloadOf(name, required))[a] = name /\ IdentityOf(Payload(i))[a] = i
  BY <1>2, <1>3 DEF IdentityOf
<1>5. name[1] \in ItemSet /\ name[2] \in 1..2 /\ name = TempName(name[1], name[2])
  BY NameParts
<1>6. name # i
  BY <1>5, ProbeAssumption
<1> QED BY <1>1, <1>4, <1>6

-----------------------------------------------------------------------------
(* What the helpers of the command change. *)

\* A fault is counted.
LEMMA FaultedFields ==
  ASSUME NEW s, DOMAIN s = ProbeFields
  PROVE  KeepsBut(s, Faulted(s), {"faults"}) /\ Faulted(s).faults = s.faults + 1
BY DEF Faulted, KeepsBut, ProbeFields

\* A failure leads to the deferred cleanup.
LEMMA FailingFields ==
  ASSUME NEW s, DOMAIN s = ProbeFields
  PROVE  KeepsBut(s, Failing(s), {"stage", "error"}) /\ Failing(s).stage = "cleanup" /\ Failing(s).error
BY DEF Failing, KeepsBut, ProbeFields

\* A probe is forgotten.
LEMMA TidiedFields ==
  ASSUME DOMAIN probing = ProbeFields
  PROVE  /\ KeepsBut(probing, Tidied, {"temp", "retry"}) /\ Tidied.retry = 0
         /\ Tidied.temp = SubSeq(probing.temp, 1, Len(probing.temp) - 1)
BY DEF Tidied, KeepsBut, ProbeFields

\* It is forgotten with an error.
LEMMA LeftoverFields ==
  ASSUME DOMAIN probing = ProbeFields
  PROVE  /\ KeepsBut(probing, Leftover, {"temp", "retry", "error"}) /\ Leftover.retry = 0 /\ Leftover.error
         /\ Leftover.temp = SubSeq(probing.temp, 1, Len(probing.temp) - 1)
<1>1. PICK t : t = Tidied
  OBVIOUS
<1>2. /\ KeepsBut(probing, t, {"temp", "retry"}) /\ t.retry = 0
      /\ t.temp = SubSeq(probing.temp, 1, Len(probing.temp) - 1)
  BY <1>1, TidiedFields
<1>3. Leftover = [t EXCEPT !.error = TRUE]
  BY <1>1 DEF Leftover
<1> QED BY <1>2, <1>3 DEF KeepsBut, ProbeFields

\* A fault is counted only below the bound.
LEMMA FaultBound ==
  ASSUME ProbeShape, Fault
  PROVE  probing.faults + 1 \in Nat /\ probing.faults + 1 <= MaxProbeFaults
BY ProbeAssumption DEF ProbeShape, Fault

\* A step in which the command fails: what it remembers stays.
LEMMA FailKeeps ==
  ASSUME ProbeInv, probing.stage \in {"create", "read"}, KeepsBut(probing, probing', {"stage", "error", "faults"}),
         probing'.stage = "cleanup", probing'.error, probing'.faults \in Nat, probing'.faults <= MaxProbeFaults,
         DOMAIN remote' = DOMAIN remote, SimpleAlias => ~remote'.touched,
         \A n \in DOMAIN remote'.probes : ProbeRecord(remote'.probes[n])
  PROVE  ProbeInv'
<1>1. ProbeShape /\ ProbeOrder /\ ProbesThere /\ ProbeResult
  BY DEF ProbeInv
<1>2. /\ DOMAIN probing' = ProbeFields /\ probing'.items = probing.items /\ probing'.required = probing.required
      /\ probing'.temp = probing.temp /\ probing'.outputs = probing.outputs /\ probing'.attempt = probing.attempt
      /\ probing'.stable = probing.stable /\ probing'.retry = probing.retry /\ probing'.inferred = probing.inferred
      /\ probing'.saved = probing.saved /\ probing'.unstable = probing.unstable
  BY DEF KeepsBut, ProbeFields
<1>3. ProbeShape'
  BY <1>1, <1>2 DEF ProbeShape, ProbeStages
<1>4. ProbeOrder'
  BY <1>1, <1>2 DEF ProbeOrder
<1>5. ProbesThere'
  BY <1>1, <1>2 DEF ProbesThere
<1>6. ProbeResult'
  BY <1>1, <1>2 DEF ProbeResult
<1> QED BY <1>3, <1>4, <1>5, <1>6 DEF ProbeInv

\* Fail, with or without a fault, where the service stays as it is.
LEMMA RefusedKeeps ==
  ASSUME ProbeInv, probing.stage \in {"create", "read"}, Cancelled \/ ~remote.token \/ Fault,
         probing' = Failing(IF Cancelled \/ ~remote.token THEN probing ELSE Faulted(probing)), remote' = remote
  PROVE  ProbeInv'
<1>1. ProbeShape /\ ProbesThere /\ ProbeResult /\ DOMAIN probing = ProbeFields
  BY DEF ProbeInv, ProbeShape
<1>2. PICK s : s = IF Cancelled \/ ~remote.token THEN probing ELSE Faulted(probing)
  OBVIOUS
<1>3. KeepsBut(probing, s, {"faults"}) /\ s.faults \in Nat /\ s.faults <= MaxProbeFaults
  <2>1. CASE Cancelled \/ ~remote.token
    BY <1>1, <1>2, <2>1 DEF KeepsBut, ProbeShape
  <2>2. CASE ~(Cancelled \/ ~remote.token)
    BY <1>1, <1>2, <2>2, FaultedFields, FaultBound
  <2> QED BY <2>1, <2>2
<1>4. KeepsBut(s, probing', {"stage", "error"}) /\ probing'.stage = "cleanup" /\ probing'.error
  BY <1>2, <1>3, FailingFields DEF KeepsBut
<1>5. KeepsBut(probing, probing', {"stage", "error", "faults"}) /\ probing'.faults = s.faults
  BY <1>3, <1>4 DEF KeepsBut, ProbeFields
<1> QED BY <1>1, <1>3, <1>4, <1>5, FailKeeps DEF ProbesThere, ProbeResult

-----------------------------------------------------------------------------
(* The steps of the command. *)

\* The items are chosen.
LEMMA ResolveItemsKeeps ==
  ASSUME ProbeInv, ResolveInferTemplateItems
  PROVE  ProbeInv'
<1>1. ProbeShape /\ ProbeOrder /\ ProbesThere /\ ProbeResult /\ DOMAIN probing = ProbeFields
  BY DEF ProbeInv, ProbeShape
<1>2. PICK named \in Selections, required \in Requirements, managed \in BOOLEAN :
        probing' = [probing EXCEPT !.required = required, !.managed = managed,
                     !.stage = IF managed THEN "create" ELSE "cleanup",
                     !.items = IF named = <<>> THEN Items ELSE named]
  BY DEF ResolveInferTemplateItems, Requirements
<1>3. probing.stage = "start" /\ remote' = remote
  BY DEF ResolveInferTemplateItems
<1>4. PICK items : items = IF named = <<>> THEN Items ELSE named
  OBVIOUS
<1>5. items \in Seq(ItemSet) /\ DistinctItems(items)
  <2>1. CASE named = <<>>
    BY <1>4, <2>1, ProbeAssumption DEF DistinctItems
  <2>2. CASE named # <<>>
    <3>1. PICK n \in 0..Len(Items) : named \in [1..n -> ItemSet]
      BY <1>2 DEF Selections
    <3>2. n \in Nat
      BY ProbeAssumption
    <3> HIDE DEF ItemSet
    <3>3. named \in Seq(ItemSet)
      BY <3>1, <3>2
    <3>4. DistinctItems(named)
      BY <1>2 DEF Selections, DistinctItems
    <3> QED BY <1>4, <2>2, <3>3, <3>4
  <2> QED BY <2>1, <2>2
<1>6. PICK stage : stage = IF managed THEN "create" ELSE "cleanup"
  OBVIOUS
<1>7. stage \in {"create", "cleanup"}
  BY <1>6
<1>8. probing' = [probing EXCEPT !.required = required, !.managed = managed, !.stage = stage, !.items = items]
  BY <1>2, <1>4, <1>6
<1>9. KeepsBut(probing, probing', {"required", "managed", "stage", "items"}) /\ probing'.required = required
      /\ probing'.stage = stage /\ probing'.items = items
  BY <1>1, <1>8 DEF KeepsBut, ProbeFields
<1>10. /\ DOMAIN probing' = ProbeFields /\ probing'.temp = probing.temp /\ probing'.outputs = probing.outputs
       /\ probing'.attempt = probing.attempt /\ probing'.stable = probing.stable /\ probing'.retry = probing.retry
       /\ probing'.inferred = probing.inferred /\ probing'.saved = probing.saved /\ probing'.unstable = probing.unstable
       /\ probing'.error = probing.error /\ probing'.faults = probing.faults
  BY <1>9 DEF KeepsBut, ProbeFields
<1>11. ProbeShape'
  BY <1>1, <1>2, <1>3, <1>5, <1>7, <1>9, <1>10 DEF ProbeShape, ProbeStages
<1>12. probing.temp = <<>> /\ probing.outputs = <<>>
  BY <1>1, <1>3 DEF ProbeOrder
<1>13. ProbeOrder'
  BY <1>1, <1>5, <1>7, <1>9, <1>10, <1>12 DEF ProbeOrder
<1>14. ProbesThere'
  BY <1>1, <1>3, <1>7, <1>9, <1>10, <1>12 DEF ProbesThere
<1>15. ProbeResult'
  BY <1>1, <1>3, <1>7, <1>9, <1>10 DEF ProbeResult
<1> QED BY <1>11, <1>13, <1>14, <1>15 DEF ProbeInv

\* A probe is created, remembered or not, or refused.
LEMMA CreateProbeKeeps ==
  ASSUME ProbeInv, CreateProbe
  PROVE  ProbeInv'
<1>1. ProbeShape /\ ProbeOrder /\ ProbesThere /\ ProbeResult /\ DOMAIN probing = ProbeFields
  BY DEF ProbeInv, ProbeShape
<1>2. probing.stage = "create" /\ ~AllCreated
  BY DEF CreateProbe
<1>3. PICK name : name = NextProbe
  OBVIOUS
<1>4. /\ Len(probing.temp) \in Nat /\ Len(probing.items) \in Nat /\ DOMAIN probing.temp = 1..Len(probing.temp)
      /\ Len(probing.temp) + 1 \in 1..(2 * Len(probing.items)) /\ probing.items \in Seq(ItemSet)
      /\ DistinctItems(probing.items) /\ probing.required \in Requirements
  <2>1. probing.temp \in Seq(ProbeNames) /\ probing.items \in Seq(ItemSet) /\ DistinctItems(probing.items)
        /\ probing.required \in Requirements
    BY <1>1 DEF ProbeShape
  <2>2. Len(probing.temp) \in Nat /\ Len(probing.items) \in Nat /\ DOMAIN probing.temp = 1..Len(probing.temp)
    BY <2>1
  <2>3. Len(probing.temp) <= 2 * Len(probing.items) /\ Len(probing.temp) # 2 * Len(probing.items)
    BY <1>1, <1>2 DEF ProbeOrder, AllCreated
  <2> QED BY <2>1, <2>2, <2>3
<1>5. name = NameAt(probing.items, Len(probing.temp) + 1)
  <2>1. (Len(probing.temp) + 1) - 1 = Len(probing.temp)
    BY <1>4
  <2> QED BY <1>3, <2>1 DEF NextProbe, NameAt, TempName
<1>6. name \in ProbeNames
  BY <1>4, <1>5, NameIsName
<1>7. PICK payload : payload = PayloadOf(name, probing.required)
  OBVIOUS
<1>8. PICK made : made = [n \in DOMAIN remote.probes \cup {name} |->
                            IF n = name THEN [payload |-> payload, version |-> 1] ELSE remote.probes[n]]
  OBVIOUS
<1>9. /\ DOMAIN made = DOMAIN remote.probes \cup {name} /\ made[name].payload = payload /\ ProbeRecord(made[name])
      /\ \A n \in DOMAIN remote.probes : n # name => made[n] = remote.probes[n]
  BY <1>8 DEF ProbeRecord
<1>10. ASSUME ~(\E i \in ItemSet : IdentityOf(payload) = IdentityOf(Payload(i))) \/ ~SimpleAlias,
              remote' = [remote EXCEPT !.probes = made, !.touched = @ \/ (\E i \in ItemSet : IdentityOf(payload) = IdentityOf(Payload(i)))]
       PROVE  /\ DOMAIN remote' = DOMAIN remote /\ (SimpleAlias => ~remote'.touched) /\ remote'.probes = made
              /\ \A n \in DOMAIN remote'.probes : ProbeRecord(remote'.probes[n])
  <2>1. DOMAIN remote' = DOMAIN remote /\ remote'.probes = made
    BY <1>1, <1>10 DEF ProbeShape
  <2>2. remote'.touched = (remote.touched \/ (\E i \in ItemSet : IdentityOf(payload) = IdentityOf(Payload(i))))
    BY <1>1, <1>10 DEF ProbeShape
  <2>3. SimpleAlias => ~remote'.touched
    BY <1>1, <1>10, <2>2 DEF ProbeResult
  <2>4. \A n \in DOMAIN made : ProbeRecord(made[n])
    BY <1>1, <1>9 DEF ProbesThere
  <2> QED BY <2>1, <2>3, <2>4
<1>11. CASE /\ remote' = [remote EXCEPT !.probes = made, !.touched = @ \/ (\E i \in ItemSet : IdentityOf(payload) = IdentityOf(Payload(i)))]
            /\ \/ probing' = [probing EXCEPT !.temp = Append(@, name)]
               \/ Fault /\ probing' = Failing(Faulted(probing))
  <2>1. /\ DOMAIN remote' = DOMAIN remote /\ (SimpleAlias => ~remote'.touched) /\ remote'.probes = made
        /\ \A n \in DOMAIN remote'.probes : ProbeRecord(remote'.probes[n])
    BY <1>4, <1>6, <1>7, <1>10, <1>11, NoCollision
  <2>2. CASE probing' = [probing EXCEPT !.temp = Append(@, name)]
    <3>1. PICK temp : temp = Append(probing.temp, name)
      OBVIOUS
    <3>2. /\ temp \in Seq(ProbeNames) /\ Len(temp) = Len(probing.temp) + 1 /\ DOMAIN temp = 1..(Len(probing.temp) + 1)
          /\ temp[Len(probing.temp) + 1] = name /\ \A k \in DOMAIN probing.temp : temp[k] = probing.temp[k]
      BY <1>1, <1>6, <3>1 DEF ProbeShape
    <3>3. KeepsBut(probing, probing', {"temp"}) /\ probing'.temp = temp
      BY <1>1, <2>2, <3>1 DEF KeepsBut, ProbeFields
    <3>4. /\ DOMAIN probing' = ProbeFields /\ probing'.items = probing.items /\ probing'.required = probing.required
          /\ probing'.outputs = probing.outputs /\ probing'.attempt = probing.attempt /\ probing'.stage = probing.stage
          /\ probing'.stable = probing.stable /\ probing'.retry = probing.retry /\ probing'.inferred = probing.inferred
          /\ probing'.saved = probing.saved /\ probing'.unstable = probing.unstable /\ probing'.error = probing.error
          /\ probing'.faults = probing.faults
      BY <3>3 DEF KeepsBut, ProbeFields
    <3>5. ProbeShape'
      BY <1>1, <2>1, <3>2, <3>3, <3>4 DEF ProbeShape
    <3>6. \A k \in DOMAIN temp : temp[k] = NameAt(probing.items, k)
      BY <1>1, <1>4, <1>5, <3>2 DEF ProbeOrder
    <3>7. ProbeOrder'
      BY <1>1, <1>2, <1>4, <3>2, <3>3, <3>4, <3>6 DEF ProbeOrder
    <3>8. ASSUME NEW k \in DOMAIN probing.temp PROVE probing.temp[k] # name /\ probing.temp[k] \in DOMAIN remote.probes
              /\ remote.probes[probing.temp[k]].payload = PayloadOf(probing.temp[k], probing.required)
      <4>1. probing.temp[k] = NameAt(probing.items, k) /\ k \in 1..(2 * Len(probing.items)) /\ k # Len(probing.temp) + 1
        BY <1>1, <1>4, <3>8 DEF ProbeOrder
      <4>2. probing.temp[k] # name
        BY <1>4, <1>5, <4>1, NamesDiffer
      <4> QED BY <1>1, <1>2, <3>8, <4>2 DEF ProbesThere
    <3>9. \A k \in DOMAIN temp : temp[k] \in DOMAIN made /\ made[temp[k]].payload = PayloadOf(temp[k], probing.required)
      BY <1>4, <1>7, <1>9, <3>2, <3>8
    <3>10. RawPathWorks /\ ~probing.error => DOMAIN made = Named(temp)
      <4>1. SUFFICES ASSUME RawPathWorks, ~probing.error PROVE DOMAIN made = Named(temp)
        OBVIOUS
      <4>2. DOMAIN remote.probes = Named(probing.temp)
        BY <1>1, <4>1 DEF ProbesThere
      <4> QED BY <1>4, <1>9, <3>2, <4>2 DEF Named
    <3>11. ProbesThere'
      BY <1>1, <2>1, <3>3, <3>4, <3>9, <3>10 DEF ProbesThere
    <3>12. ProbeResult'
      BY <1>1, <1>2, <2>1, <3>4 DEF ProbeResult
    <3> QED BY <3>5, <3>7, <3>11, <3>12 DEF ProbeInv
  <2>3. CASE Fault /\ probing' = Failing(Faulted(probing))
    <3>1. PICK s : s = Faulted(probing)
      OBVIOUS
    <3>2. KeepsBut(probing, s, {"faults"}) /\ s.faults \in Nat /\ s.faults <= MaxProbeFaults
      BY <1>1, <2>3, <3>1, FaultedFields, FaultBound
    <3>3. KeepsBut(s, probing', {"stage", "error"}) /\ probing'.stage = "cleanup" /\ probing'.error
      BY <2>3, <3>1, <3>2, FailingFields DEF KeepsBut
    <3>4. KeepsBut(probing, probing', {"stage", "error", "faults"}) /\ probing'.faults = s.faults
      BY <3>2, <3>3 DEF KeepsBut, ProbeFields
    <3> QED BY <1>2, <2>1, <3>2, <3>3, <3>4, FailKeeps
  <2> QED BY <1>11, <2>2, <2>3
<1>12. CASE /\ Cancelled \/ ~remote.token \/ Fault
            /\ probing' = Failing(IF Cancelled \/ ~remote.token THEN probing ELSE Faulted(probing))
            /\ remote' = remote
  BY <1>2, <1>12, RefusedKeeps
<1> QED BY <1>3, <1>7, <1>8, <1>11, <1>12 DEF CreateProbe, PayloadOf

\* The command waits, and the token is new.
LEMMA WaitKeeps ==
  ASSUME ProbeInv, WaitAndInvalidate
  PROVE  ProbeInv'
<1>1. ProbeShape /\ ProbeOrder /\ ProbesThere /\ ProbeResult /\ DOMAIN probing = ProbeFields
  BY DEF ProbeInv, ProbeShape
<1>2. probing.stage = "create" /\ probing.outputs = <<>>
  BY <1>1 DEF WaitAndInvalidate, ProbeOrder
<1>3. CASE Cancelled
  <2>1. probing' = Failing(probing) /\ remote' = remote
    BY <1>3 DEF WaitAndInvalidate
  <2>2. probing' = Failing(IF Cancelled \/ ~remote.token THEN probing ELSE Faulted(probing))
    BY <1>3, <2>1
  <2> QED BY <1>2, <1>3, <2>1, <2>2, RefusedKeeps
<1>4. CASE ~Cancelled
  <2>1. probing' = [probing EXCEPT !.stage = "read"] /\ remote' = [remote EXCEPT !.token = TRUE]
    BY <1>4 DEF WaitAndInvalidate
  <2>2. KeepsBut(probing, probing', {"stage"}) /\ probing'.stage = "read"
    BY <1>1, <2>1 DEF KeepsBut, ProbeFields
  <2>3. DOMAIN remote' = DOMAIN remote /\ remote'.probes = remote.probes /\ remote'.touched = remote.touched
    BY <1>1, <2>1 DEF ProbeShape
  <2>4. /\ DOMAIN probing' = ProbeFields /\ probing'.items = probing.items /\ probing'.required = probing.required
        /\ probing'.temp = probing.temp /\ probing'.outputs = probing.outputs /\ probing'.attempt = probing.attempt
        /\ probing'.stable = probing.stable /\ probing'.retry = probing.retry /\ probing'.inferred = probing.inferred
        /\ probing'.saved = probing.saved /\ probing'.unstable = probing.unstable /\ probing'.error = probing.error
        /\ probing'.faults = probing.faults
    BY <2>2 DEF KeepsBut, ProbeFields
  <2>5. ProbeShape'
    BY <1>1, <2>2, <2>3, <2>4 DEF ProbeShape, ProbeStages
  <2>6. Len(probing.outputs) <= Len(probing.temp)
    <3>1. probing.temp \in Seq(ProbeNames) /\ Len(probing.outputs) = 0
      BY <1>1, <1>2 DEF ProbeShape
    <3> QED BY <3>1
  <2>7. ProbeOrder'
    BY <1>1, <1>2, <2>2, <2>4, <2>6 DEF ProbeOrder
  <2>8. ProbesThere'
    BY <1>1, <1>2, <2>2, <2>3, <2>4 DEF ProbesThere
  <2>9. ProbeResult'
    BY <1>1, <1>2, <2>2, <2>3, <2>4 DEF ProbeResult
  <2> QED BY <2>5, <2>7, <2>8, <2>9 DEF ProbeInv
<1> QED BY <1>3, <1>4

\* A probe is read once more, and its content taken when it is stable.
LEMMA ReadProbeKeeps ==
  ASSUME ProbeInv, ReadProbe
  PROVE  ProbeInv'
<1>1. ProbeShape /\ ProbeOrder /\ ProbesThere /\ ProbeResult /\ DOMAIN probing = ProbeFields
  BY DEF ProbeInv, ProbeShape
<1>2. probing.stage = "read" /\ Len(probing.outputs) < Len(probing.temp) /\ remote' = remote
  BY DEF ReadProbe
<1>3. /\ probing.temp \in Seq(ProbeNames) /\ probing.outputs \in Seq(AllReads) /\ probing.items \in Seq(ItemSet)
      /\ probing.required \in Requirements /\ Len(probing.items) \in Nat
      /\ Len(probing.temp) \in Nat /\ Len(probing.outputs) \in Nat
      /\ DOMAIN probing.temp = 1..Len(probing.temp) /\ DOMAIN probing.outputs = 1..Len(probing.outputs)
  BY <1>1 DEF ProbeShape
<1>4. PICK k : k = Len(probing.outputs) + 1
  OBVIOUS
<1>5. k \in DOMAIN probing.temp /\ k \in 1..(2 * Len(probing.items)) /\ Len(probing.temp) <= 2 * Len(probing.items)
  BY <1>1, <1>2, <1>3, <1>4 DEF ProbeOrder
<1>6. PICK name : name = probing.temp[k]
  OBVIOUS
<1>7. name \in ProbeNames /\ name = NameAt(probing.items, k) /\ name \in DOMAIN remote.probes
      /\ remote.probes[name].payload = PayloadOf(name, probing.required) /\ ProbeRecord(remote.probes[name])
  BY <1>1, <1>2, <1>3, <1>5, <1>6 DEF ProbeOrder, ProbesThere
<1>8. PICK content : content = ContentOf(remote.probes[name])
  OBVIOUS
<1>9. content \in ReadsOf(name, probing.required) /\ content \in AllReads
  <2>1. content = ContentOf([payload |-> PayloadOf(name, probing.required), version |-> remote.probes[name].version])
    BY <1>7, <1>8 DEF ContentOf
  <2>2. content \in ReadsOf(name, probing.required)
    BY <1>7, <2>1 DEF ReadsOf, ProbeRecord
  <2> QED BY <1>3, <1>7, <2>2 DEF AllReads
<1>10. PICK stable : stable = StableReads(probing.last, content, probing.attempt, probing.stable)
  OBVIOUS
<1>11. /\ probing.attempt \in Nat /\ probing.attempt < ReadAttempts /\ probing.stable \in Nat
       /\ probing.stable <= probing.attempt /\ ReadAttempts \in Nat /\ ReadAttempts # 0
  BY <1>1, ProbeAssumption DEF ProbeShape
<1>12. stable \in Nat /\ stable <= probing.attempt + 1 /\ (stable >= 2 => content = probing.last)
  BY <1>10, <1>11 DEF StableReads
<1>13. CASE /\ probing' = [probing EXCEPT !.outputs = Append(@, content), !.attempt = 0,
                             !.stable = 0, !.last = <<>>,
                             !.unstable = @ \/ (content # probing.last
                                                /\ probing.attempt + 1 < ReadAttempts)]
            /\ \/ probing.attempt + 1 >= ReadMinAttempts /\ stable >= 2
               \/ probing.attempt + 1 = ReadAttempts
  <2>1. PICK unstable \in BOOLEAN : unstable = (probing.unstable \/ (content # probing.last /\ probing.attempt + 1 < ReadAttempts))
    OBVIOUS
  <2>2. ~unstable
    <3>1. ~(content # probing.last /\ probing.attempt + 1 < ReadAttempts)
      BY <1>11, <1>12, <1>13
    <3>2. ~probing.unstable
      BY <1>1 DEF ProbeResult
    <3> QED BY <2>1, <3>1, <3>2, Zenon
  <2>3. PICK outputs : outputs = Append(probing.outputs, content)
    OBVIOUS
  <2>4. /\ outputs \in Seq(AllReads) /\ Len(outputs) = k /\ DOMAIN outputs = 1..k
        /\ outputs[k] = content /\ \A l \in DOMAIN probing.outputs : outputs[l] = probing.outputs[l]
    BY <1>3, <1>4, <1>9, <2>3
  <2>5. probing' = [probing EXCEPT !.outputs = outputs, !.attempt = 0, !.stable = 0, !.last = <<>>, !.unstable = unstable]
    BY <1>13, <2>1, <2>3
  <2>6. KeepsBut(probing, probing', {"outputs", "attempt", "stable", "last", "unstable"}) /\ probing'.outputs = outputs
        /\ probing'.attempt = 0 /\ probing'.stable = 0 /\ probing'.unstable = unstable
    BY <1>1, <2>5 DEF KeepsBut, ProbeFields
  <2>7. /\ DOMAIN probing' = ProbeFields /\ probing'.items = probing.items /\ probing'.required = probing.required
        /\ probing'.temp = probing.temp /\ probing'.retry = probing.retry /\ probing'.inferred = probing.inferred
        /\ probing'.saved = probing.saved /\ probing'.error = probing.error /\ probing'.faults = probing.faults
        /\ probing'.stage = probing.stage
    BY <2>6 DEF KeepsBut, ProbeFields
  <2>8. ProbeShape'
    BY <1>1, <1>2, <1>11, <2>4, <2>6, <2>7 DEF ProbeShape
  <2>9. \A l \in DOMAIN outputs : outputs[l] \in ReadsOf(NameAt(probing.items, l), probing.required)
    <3>1. \A l \in DOMAIN probing.outputs : probing.outputs[l] \in ReadsOf(NameAt(probing.items, l), probing.required)
      BY <1>1 DEF ProbeOrder
    <3>2. outputs[k] \in ReadsOf(NameAt(probing.items, k), probing.required)
      BY <1>7, <1>9, <2>4
    <3> QED BY <1>3, <1>4, <2>4, <3>1, <3>2
  <2>10. k <= Len(probing.temp) /\ k <= 2 * Len(probing.items)
    BY <1>3, <1>5
  <2>11. ProbeOrder'
    BY <1>1, <1>2, <2>4, <2>6, <2>7, <2>9, <2>10 DEF ProbeOrder
  <2>12. ProbesThere'
    BY <1>1, <1>2, <2>7 DEF ProbesThere
  <2>13. ProbeResult'
    BY <1>1, <1>2, <2>2, <2>6, <2>7 DEF ProbeResult
  <2> QED BY <2>8, <2>11, <2>12, <2>13 DEF ProbeInv
<1>14. CASE /\ probing' = [probing EXCEPT !.attempt = @ + 1, !.stable = stable, !.last = content]
            /\ probing.attempt + 1 # ReadAttempts
  <2>1. KeepsBut(probing, probing', {"attempt", "stable", "last"})
        /\ probing'.attempt = probing.attempt + 1 /\ probing'.stable = stable
    BY <1>1, <1>14 DEF KeepsBut, ProbeFields
  <2>2. /\ DOMAIN probing' = ProbeFields /\ probing'.items = probing.items /\ probing'.required = probing.required
        /\ probing'.temp = probing.temp /\ probing'.retry = probing.retry /\ probing'.inferred = probing.inferred
        /\ probing'.saved = probing.saved /\ probing'.error = probing.error /\ probing'.faults = probing.faults
        /\ probing'.stage = probing.stage /\ probing'.outputs = probing.outputs /\ probing'.unstable = probing.unstable
    BY <2>1 DEF KeepsBut, ProbeFields
  <2>3. probing'.attempt \in Nat /\ probing'.attempt < ReadAttempts /\ probing'.stable \in Nat /\ probing'.stable <= probing'.attempt
    BY <1>11, <1>12, <1>14, <2>1
  <2>4. ProbeShape'
    BY <1>1, <1>2, <2>2, <2>3 DEF ProbeShape
  <2>5. ProbeOrder'
    BY <1>1, <2>2 DEF ProbeOrder
  <2>6. ProbesThere'
    BY <1>1, <1>2, <2>2 DEF ProbesThere
  <2>7. ProbeResult'
    BY <1>1, <1>2, <2>2 DEF ProbeResult
  <2> QED BY <2>4, <2>5, <2>6, <2>7 DEF ProbeInv
<1>15. CASE /\ Cancelled \/ ~remote.token \/ Fault
            /\ probing' = Failing(IF Cancelled \/ ~remote.token THEN probing ELSE Faulted(probing))
  BY <1>2, <1>15, RefusedKeeps
<1> QED BY <1>4, <1>6, <1>8, <1>10, <1>13, <1>14, <1>15 DEF ReadProbe

\* The probes are read.
LEMMA AllReadKeeps ==
  ASSUME ProbeInv, AllRead
  PROVE  ProbeInv'
<1>1. ProbeShape /\ ProbeOrder /\ ProbesThere /\ ProbeResult /\ DOMAIN probing = ProbeFields
  BY DEF ProbeInv, ProbeShape
<1>2. probing.stage = "read" /\ remote' = remote /\ probing' = [probing EXCEPT !.stage = "cleanup"]
  BY DEF AllRead
<1>3. KeepsBut(probing, probing', {"stage"}) /\ probing'.stage = "cleanup"
  BY <1>1, <1>2 DEF KeepsBut, ProbeFields
<1>4. /\ DOMAIN probing' = ProbeFields /\ probing'.items = probing.items /\ probing'.required = probing.required
      /\ probing'.temp = probing.temp /\ probing'.retry = probing.retry /\ probing'.inferred = probing.inferred
      /\ probing'.saved = probing.saved /\ probing'.error = probing.error /\ probing'.faults = probing.faults
      /\ probing'.outputs = probing.outputs /\ probing'.unstable = probing.unstable
      /\ probing'.attempt = probing.attempt /\ probing'.stable = probing.stable
  BY <1>3 DEF KeepsBut, ProbeFields
<1>5. ProbeShape'
  BY <1>1, <1>2, <1>3, <1>4 DEF ProbeShape, ProbeStages
<1>6. ProbeOrder'
  BY <1>1, <1>3, <1>4 DEF ProbeOrder
<1>7. ProbesThere'
  BY <1>1, <1>2, <1>3, <1>4 DEF ProbesThere
<1>8. ProbeResult'
  BY <1>1, <1>2, <1>3, <1>4 DEF ProbeResult
<1> QED BY <1>5, <1>6, <1>7, <1>8 DEF ProbeInv

-----------------------------------------------------------------------------
(* The cleanup and the end of the command. *)

\* All probes but the last.
LEMMA WithoutLast ==
  ASSUME ProbeInv, probing.temp # <<>>, NEW temp, temp = SubSeq(probing.temp, 1, Len(probing.temp) - 1)
  PROVE  /\ temp \in Seq(ProbeNames) /\ Len(temp) <= 2 * Len(probing.items)
         /\ DOMAIN temp \subseteq DOMAIN probing.temp
         /\ \A k \in DOMAIN temp : temp[k] = probing.temp[k] /\ temp[k] = NameAt(probing.items, k)
         /\ Named(temp) = Named(probing.temp) \ {LastProbe}
<1>1. /\ probing.temp \in Seq(ProbeNames) /\ probing.items \in Seq(ItemSet) /\ DistinctItems(probing.items)
      /\ Len(probing.temp) <= 2 * Len(probing.items)
      /\ \A k \in DOMAIN probing.temp : probing.temp[k] = NameAt(probing.items, k)
  BY DEF ProbeInv, ProbeShape, ProbeOrder
<1>2. PICK n : n = Len(probing.temp)
  OBVIOUS
<1>3. n \in Nat /\ n # 0 /\ DOMAIN probing.temp = 1..n /\ Len(probing.items) \in Nat
  BY <1>1, <1>2
<1>4. temp \in Seq(ProbeNames) /\ Len(temp) = n - 1 /\ DOMAIN temp = 1..(n - 1)
      /\ \A k \in 1..(n - 1) : temp[k] = probing.temp[k]
  BY <1>1, <1>2, <1>3
<1>5. \A k \in 1..(n - 1) : probing.temp[k] # probing.temp[n]
  <2>1. SUFFICES ASSUME NEW k \in 1..(n - 1), probing.temp[k] = probing.temp[n] PROVE FALSE
    OBVIOUS
  <2>2. k \in 1..(2 * Len(probing.items)) /\ n \in 1..(2 * Len(probing.items)) /\ k # n
    BY <1>1, <1>2, <1>3
  <2>3. NameAt(probing.items, k) = NameAt(probing.items, n)
    BY <1>1, <1>3, <2>1
  <2> QED BY <1>1, <2>2, <2>3, NamesDiffer
<1>6. LastProbe = probing.temp[n]
  BY <1>2 DEF LastProbe
<1>7. Named(temp) = Named(probing.temp) \ {LastProbe}
  <2>1. \A k \in DOMAIN probing.temp : k \in 1..(n - 1) \/ k = n
    BY <1>3
  <2>2. ASSUME NEW e \in Named(temp) PROVE e \in Named(probing.temp) /\ e # LastProbe
    <3>1. PICK k \in 1..(n - 1) : e = temp[k]
      BY <1>4, <2>2 DEF Named
    <3>2. k \in DOMAIN probing.temp /\ e = probing.temp[k]
      BY <1>3, <1>4, <3>1
    <3> QED BY <1>5, <1>6, <3>1, <3>2 DEF Named
  <2>3. ASSUME NEW e \in Named(probing.temp), e # LastProbe PROVE e \in Named(temp)
    <3>1. PICK k \in DOMAIN probing.temp : e = probing.temp[k]
      BY <2>3 DEF Named
    <3>2. k \in 1..(n - 1)
      BY <1>6, <2>1, <2>3, <3>1
    <3>3. k \in DOMAIN temp /\ e = temp[k]
      BY <1>4, <3>1, <3>2
    <3> QED BY <3>3 DEF Named
  <2> QED BY <2>2, <2>3
<1>8. Len(temp) <= 2 * Len(probing.items) /\ DOMAIN temp \subseteq DOMAIN probing.temp
  BY <1>1, <1>2, <1>3, <1>4
<1>9. \A k \in DOMAIN temp : temp[k] = probing.temp[k] /\ temp[k] = NameAt(probing.items, k)
  BY <1>1, <1>4, <1>8
<1> QED BY <1>4, <1>7, <1>8, <1>9

\* A step that forgets the last probe: deleted, or with an error.
LEMMA ForgetKeeps ==
  ASSUME ProbeInv, probing.stage = "cleanup", probing.temp # <<>>,
         KeepsBut(probing, probing', {"temp", "retry", "error", "faults"}),
         probing'.temp = SubSeq(probing.temp, 1, Len(probing.temp) - 1), probing'.retry = 0,
         probing'.faults \in Nat, probing'.faults <= MaxProbeFaults,
         DOMAIN remote' = DOMAIN remote, remote'.touched = remote.touched,
         \/ probing'.error /\ remote'.probes = remote.probes
         \/ probing'.error = probing.error
            /\ remote'.probes = IF RawPathWorks THEN Dropped(LastProbe) ELSE remote.probes
         \/ probing'.error = probing.error /\ remote'.probes = Dropped(LastProbe)
  PROVE  ProbeInv'
<1>1. ProbeShape /\ ProbeOrder /\ ProbesThere /\ ProbeResult
  BY DEF ProbeInv
<1>2. /\ DOMAIN probing' = ProbeFields /\ probing'.items = probing.items /\ probing'.required = probing.required
      /\ probing'.outputs = probing.outputs /\ probing'.attempt = probing.attempt /\ probing'.stage = probing.stage
      /\ probing'.stable = probing.stable /\ probing'.inferred = probing.inferred
      /\ probing'.saved = probing.saved /\ probing'.unstable = probing.unstable
  BY DEF KeepsBut, ProbeFields
<1>3. PICK temp : temp = SubSeq(probing.temp, 1, Len(probing.temp) - 1)
  OBVIOUS
<1>4. /\ temp \in Seq(ProbeNames) /\ Len(temp) <= 2 * Len(probing.items)
      /\ \A k \in DOMAIN temp : temp[k] = NameAt(probing.items, k)
      /\ Named(temp) = Named(probing.temp) \ {LastProbe}
  BY <1>3, WithoutLast
<1>5. probing'.temp = temp
  BY <1>3
<1>6. ProbeShape'
  BY <1>1, <1>2, <1>4, <1>5 DEF ProbeShape
<1>7. ProbeOrder'
  BY <1>1, <1>2, <1>4, <1>5 DEF ProbeOrder
<1>8. DOMAIN Dropped(LastProbe) = DOMAIN remote.probes \ {LastProbe}
      /\ \A n \in DOMAIN Dropped(LastProbe) : Dropped(LastProbe)[n] = remote.probes[n]
  BY DEF Dropped
<1>9. \A n \in DOMAIN remote'.probes : ProbeRecord(remote'.probes[n])
  BY <1>1, <1>8 DEF ProbesThere
<1>10. ASSUME RawPathWorks, ~probing'.error PROVE DOMAIN remote'.probes = Named(temp)
  <2>1. remote'.probes = Dropped(LastProbe) /\ ~probing.error
    BY <1>10
  <2>2. DOMAIN remote.probes = Named(probing.temp)
    BY <1>1, <1>10, <2>1 DEF ProbesThere
  <2> QED BY <1>4, <1>8, <2>1, <2>2
<1>11. ProbesThere'
  BY <1>2, <1>5, <1>9, <1>10 DEF ProbesThere
<1>12. ProbeResult'
  BY <1>1, <1>2 DEF ProbeResult
<1> QED BY <1>6, <1>7, <1>11, <1>12 DEF ProbeInv

\* A probe is left, with an error and perhaps a fault.
LEMMA LeftKeeps ==
  ASSUME ProbeInv, probing.stage = "cleanup", probing.temp # <<>>, remote' = remote,
         probing' = Leftover \/ (Fault /\ probing' = Faulted(Leftover))
  PROVE  ProbeInv'
<1>1. ProbeShape /\ DOMAIN probing = ProbeFields
  BY DEF ProbeInv, ProbeShape
<1>2. PICK s : s = Leftover
  OBVIOUS
<1>3. /\ KeepsBut(probing, s, {"temp", "retry", "error"}) /\ s.retry = 0 /\ s.error
      /\ s.temp = SubSeq(probing.temp, 1, Len(probing.temp) - 1)
  BY <1>1, <1>2, LeftoverFields
<1>4. s.faults = probing.faults /\ DOMAIN s = ProbeFields /\ probing.faults \in Nat /\ probing.faults <= MaxProbeFaults
  BY <1>1, <1>3 DEF KeepsBut, ProbeFields, ProbeShape
<1>5. KeepsBut(s, probing', {"faults"}) /\ probing'.faults \in Nat /\ probing'.faults <= MaxProbeFaults
  <2>1. CASE probing' = Leftover
    BY <1>2, <1>4, <2>1 DEF KeepsBut
  <2>2. CASE Fault /\ probing' = Faulted(Leftover)
    BY <1>1, <1>2, <1>4, <2>2, FaultedFields, FaultBound
  <2> QED BY <2>1, <2>2
<1>6. KeepsBut(probing, probing', {"temp", "retry", "error", "faults"})
      /\ probing'.temp = SubSeq(probing.temp, 1, Len(probing.temp) - 1) /\ probing'.retry = 0 /\ probing'.error
  BY <1>3, <1>5 DEF KeepsBut, ProbeFields
<1> QED BY <1>5, <1>6, ForgetKeeps

\* A probe is deleted through the orchestrator or on its path.
LEMMA TidyKeeps ==
  ASSUME ProbeInv, probing.stage = "cleanup", probing.temp # <<>>, probing' = Tidied,
         DOMAIN remote' = DOMAIN remote, remote'.touched = remote.touched,
         \/ remote'.probes = IF RawPathWorks THEN Dropped(LastProbe) ELSE remote.probes
         \/ remote'.probes = Dropped(LastProbe)
  PROVE  ProbeInv'
<1>1. ProbeShape /\ DOMAIN probing = ProbeFields
  BY DEF ProbeInv, ProbeShape
<1>2. /\ KeepsBut(probing, probing', {"temp", "retry"}) /\ probing'.retry = 0
      /\ probing'.temp = SubSeq(probing.temp, 1, Len(probing.temp) - 1)
  BY <1>1, TidiedFields
<1>3. KeepsBut(probing, probing', {"temp", "retry", "error", "faults"}) /\ probing'.error = probing.error
      /\ probing'.faults = probing.faults
  BY <1>2 DEF KeepsBut, ProbeFields
<1>4. probing'.faults \in Nat /\ probing'.faults <= MaxProbeFaults
  BY <1>1, <1>3 DEF ProbeShape
<1> QED BY <1>2, <1>3, <1>4, ForgetKeeps

\* A rejected delete is tried again.
LEMMA AgainKeeps ==
  ASSUME ProbeInv, probing.stage = "cleanup", probing.temp # <<>>, remote' = remote, NEW n \in 1..2,
         \/ probing' = [probing EXCEPT !.retry = n]
         \/ Fault /\ probing' = Faulted([probing EXCEPT !.retry = n])
  PROVE  ProbeInv'
<1>1. ProbeShape /\ ProbeOrder /\ ProbesThere /\ ProbeResult /\ DOMAIN probing = ProbeFields
  BY DEF ProbeInv, ProbeShape
<1>2. PICK s : s = [probing EXCEPT !.retry = n]
  OBVIOUS
<1>3. KeepsBut(probing, s, {"retry"}) /\ s.retry = n
  BY <1>1, <1>2 DEF KeepsBut, ProbeFields
<1>4. KeepsBut(s, probing', {"faults"}) /\ probing'.faults \in Nat /\ probing'.faults <= MaxProbeFaults
  <2>1. CASE probing' = [probing EXCEPT !.retry = n]
    BY <1>1, <1>2, <1>3, <2>1 DEF KeepsBut, ProbeShape, ProbeFields
  <2>2. CASE Fault /\ probing' = Faulted([probing EXCEPT !.retry = n])
    <3>1. KeepsBut(s, probing', {"faults"}) /\ probing'.faults = s.faults + 1
      <4>1. DOMAIN s = ProbeFields /\ probing' = Faulted(s)
        BY <1>2, <1>3, <2>2 DEF KeepsBut
      <4> QED BY <4>1, FaultedFields
    <3>2. s.faults = probing.faults
      BY <1>3 DEF KeepsBut, ProbeFields
    <3> QED BY <1>1, <2>2, <3>1, <3>2, FaultBound
  <2> QED BY <2>1, <2>2
<1>5. /\ DOMAIN probing' = ProbeFields /\ probing'.items = probing.items /\ probing'.required = probing.required
      /\ probing'.temp = probing.temp /\ probing'.retry = n /\ probing'.inferred = probing.inferred
      /\ probing'.saved = probing.saved /\ probing'.error = probing.error
      /\ probing'.outputs = probing.outputs /\ probing'.unstable = probing.unstable /\ probing'.stage = probing.stage
      /\ probing'.attempt = probing.attempt /\ probing'.stable = probing.stable
  BY <1>3, <1>4 DEF KeepsBut, ProbeFields
<1>6. ProbeShape'
  BY <1>1, <1>4, <1>5 DEF ProbeShape
<1>7. ProbeOrder'
  BY <1>1, <1>5 DEF ProbeOrder
<1>8. ProbesThere'
  BY <1>1, <1>5 DEF ProbesThere
<1>9. ProbeResult'
  BY <1>1, <1>5 DEF ProbeResult
<1> QED BY <1>6, <1>7, <1>8, <1>9 DEF ProbeInv

\* The deferred cleanup of one probe.
LEMMA CleanupKeeps ==
  ASSUME ProbeInv, CleanupProbe
  PROVE  ProbeInv'
<1>1. probing.stage = "cleanup" /\ probing.temp # <<>> /\ DOMAIN remote = {"probes", "touched", "token"}
  BY DEF CleanupProbe, ProbeInv, ProbeShape
<1>2. CASE remote' = [remote EXCEPT !.probes = Dropped(LastProbe)] /\ probing' = Tidied
  <2>1. DOMAIN remote' = DOMAIN remote /\ remote'.touched = remote.touched /\ remote'.probes = Dropped(LastProbe)
    BY <1>1, <1>2
  <2> QED BY <1>1, <1>2, <2>1, TidyKeeps
<1>3. CASE probing' = [probing EXCEPT !.retry = 1] /\ remote' = remote
  BY <1>1, <1>3, AgainKeeps
<1>4. CASE /\ Cancelled \/ Fault
           /\ probing' = IF Cancelled THEN Leftover ELSE Faulted(Leftover)
           /\ remote' = remote
  BY <1>1, <1>4, LeftKeeps
<1> QED BY <1>2, <1>3, <1>4 DEF CleanupProbe

\* A rejected delete is tried on the path itself.
LEMMA RetryKeeps ==
  ASSUME ProbeInv, RetryDelete
  PROVE  ProbeInv'
<1>1. probing.stage = "cleanup" /\ probing.temp # <<>> /\ DOMAIN remote = {"probes", "touched", "token"}
  <2>1. probing.retry \in 0..2 /\ probing.retry > 0 /\ probing.stage = "cleanup"
    BY DEF RetryDelete, ProbeInv, ProbeShape
  <2>2. probing.retry # 0
    BY <2>1
  <2> QED BY <2>1, <2>2 DEF ProbeInv, ProbeShape, ProbeResult
<1>2. CASE /\ remote' = [remote EXCEPT !.token = TRUE,
                !.probes = IF RawPathWorks THEN Dropped(LastProbe) ELSE @]
           /\ probing' = Tidied
  <2>1. PICK probes : probes = IF RawPathWorks THEN Dropped(LastProbe) ELSE remote.probes
    OBVIOUS
  <2>2. remote' = [remote EXCEPT !.token = TRUE, !.probes = probes]
    BY <1>2, <2>1
  <2>3. DOMAIN remote' = DOMAIN remote /\ remote'.touched = remote.touched /\ remote'.probes = probes
    BY <1>1, <2>2
  <2> QED BY <1>1, <1>2, <2>1, <2>3, TidyKeeps
<1>3. CASE /\ Fault /\ remote' = remote
           /\ probing' \in {Faulted(Leftover)} \cup
               (IF probing.retry = 1 THEN {Faulted([probing EXCEPT !.retry = 2])} ELSE {})
  <2>1. CASE probing' = Faulted(Leftover)
    BY <1>1, <1>3, <2>1, LeftKeeps
  <2>2. CASE probing' = Faulted([probing EXCEPT !.retry = 2])
    BY <1>1, <1>3, <2>2, AgainKeeps
  <2> QED BY <1>3, <2>1, <2>2
<1>4. CASE probing' = Leftover /\ remote' = remote
  BY <1>1, <1>4, LeftKeeps
<1> QED BY <1>2, <1>3, <1>4 DEF RetryDelete

\* What is inferred agrees in two samples.
LEMMA TwoSamplesDiffer ==
  ASSUME NEW samples, NEW a, NEW i \in DOMAIN samples, NEW j \in DOMAIN samples, samples[i][a] # samples[j][a]
  PROVE  a \notin InferDefaultsFromValues(samples)
BY DEF InferDefaultsFromValues

\* The identity of a resource is not among what the samples agree on.
LEMMA IdentityNotFound ==
  ASSUME ProbeInv, SimpleAlias, NEW withRepository \in BOOLEAN
  PROVE  Infer(withRepository) \cap AliasAttributes = {}
<1>1. SUFFICES ASSUME NEW a \in AliasAttributes PROVE a \notin Infer(withRepository)
  OBVIOUS
<1>2. /\ probing.items \in Seq(ItemSet) /\ DistinctItems(probing.items) /\ probing.required \in Requirements
      /\ probing.outputs \in Seq(AllReads) /\ Len(probing.outputs) <= 2 * Len(probing.items)
      /\ \A k \in DOMAIN probing.outputs : probing.outputs[k] \in ReadsOf(NameAt(probing.items, k), probing.required)
  BY DEF ProbeInv, ProbeShape, ProbeOrder
<1>3. PICK m, n : m = Len(probing.items) /\ n = Len(probing.outputs)
  OBVIOUS
<1>4. /\ m \in Nat /\ n \in Nat /\ n <= 2 * m /\ DOMAIN probing.items = 1..m /\ DOMAIN probing.outputs = 1..n
      /\ \A i \in 1..m : probing.items[i] \in ItemSet
  BY <1>2, <1>3
<1>5. \A k \in 1..n : NameAt(probing.items, k) \in ProbeNames /\ probing.outputs[k][a] = NameAt(probing.items, k)
  <2>1. SUFFICES ASSUME NEW k \in 1..n
                 PROVE  NameAt(probing.items, k) \in ProbeNames /\ probing.outputs[k][a] = NameAt(probing.items, k)
    OBVIOUS
  <2>2. k \in 1..(2 * Len(probing.items))
    BY <1>3, <1>4
  <2>3. NameAt(probing.items, k) \in ProbeNames
    BY <1>2, <2>2, NameIsName
  <2>4. probing.outputs[k] \in ReadsOf(NameAt(probing.items, k), probing.required)
    BY <1>2, <1>4
  <2> QED BY <1>2, <2>3, <2>4, ReadIdentity
<1>6. \A i \in 1..m : Payload(probing.items[i])[a] = probing.items[i]
  <2>1. SUFFICES ASSUME NEW i \in 1..m PROVE Payload(probing.items[i])[a] = probing.items[i]
    OBVIOUS
  <2>2. probing.items[i] \in ItemSet
    BY <1>4
  <2>3. TempName(probing.items[i], 1) \in ProbeNames
    BY <2>2 DEF ProbeNames
  <2> QED BY <1>2, <2>2, <2>3, ProbeIdentity
<1>7. CASE ~withRepository
  <2>1. PICK samples : samples = <<>> \o probing.outputs
    OBVIOUS
  <2>2. samples = probing.outputs
    BY <1>2, <2>1
  <2>3. Infer(withRepository) = InferDefaultsFromValues(samples)
    BY <1>7, <2>1 DEF Infer
  <2>4. CASE n < 2
    BY <1>3, <2>2, <2>3, <2>4 DEF InferDefaultsFromValues
  <2>5. CASE ~(n < 2)
    <3>1. 1 \in 1..n /\ 2 \in 1..n /\ 1 \in 1..(2 * Len(probing.items)) /\ 2 \in 1..(2 * Len(probing.items))
      BY <1>3, <1>4, <2>5
    <3>2. NameAt(probing.items, 1) # NameAt(probing.items, 2)
      BY <1>2, <3>1, NamesDiffer
    <3>3. samples[1][a] # samples[2][a] /\ 1 \in DOMAIN samples /\ 2 \in DOMAIN samples
      BY <1>4, <1>5, <2>2, <3>1, <3>2
    <3> QED BY <2>3, <3>3, TwoSamplesDiffer
  <2> QED BY <2>4, <2>5
<1>8. CASE withRepository
  <2>1. PICK repo : repo = RepositorySamples
    OBVIOUS
  <2>2. DOMAIN repo = 1..m /\ \A i \in 1..m : repo[i] = Payload(probing.items[i])
    BY <1>4, <2>1 DEF RepositorySamples
  <2>3. PICK samples : samples = repo \o probing.outputs
    OBVIOUS
  <2>4. Infer(withRepository) = InferDefaultsFromValues(samples)
    BY <1>8, <2>1, <2>3 DEF Infer
  <2>5. repo \in Seq({Payload(i) : i \in ItemSet}) /\ Len(repo) = m
    BY <1>4, <2>1, <2>2 DEF RepositorySamples
  <2>6. /\ Len(samples) = m + n /\ DOMAIN samples = 1..(m + n)
        /\ \A i \in 1..m : samples[i] = Payload(probing.items[i])
        /\ \A k \in 1..n : samples[m + k] = probing.outputs[k]
    <3>1. PICK S : S = {Payload(i) : i \in ItemSet} \cup AllReads
      OBVIOUS
    <3>2. repo \in Seq(S) /\ probing.outputs \in Seq(S)
      <4>1. \A i \in 1..m : repo[i] \in S
        BY <1>4, <2>2, <3>1
      <4>2. \A k \in 1..n : probing.outputs[k] \in S
        BY <1>2, <1>4, <3>1
      <4>3. probing.outputs \in Seq(S)
        BY <1>2, <1>3, <1>4, <4>2, SeqDef
      <4> QED BY <1>4, <2>1, <2>2, <4>1, <4>3 DEF RepositorySamples
    <3>3. /\ samples \in Seq(S) /\ Len(samples) = m + n
          /\ \A i \in 1..(m + n) : samples[i] = IF i <= m THEN repo[i] ELSE probing.outputs[i - m]
      <4>1. /\ repo \o probing.outputs \in Seq(S)
            /\ Len(repo \o probing.outputs) = Len(repo) + Len(probing.outputs)
            /\ \A i \in 1..Len(repo) + Len(probing.outputs) : (repo \o probing.outputs)[i] =
                  IF i <= Len(repo) THEN repo[i] ELSE probing.outputs[i - Len(repo)]
        BY <3>2, ConcatProperties, Zenon
      <4> QED BY <1>3, <2>3, <2>5, <4>1
    <3>4. \A k \in 1..n : m + k \in 1..(m + n) /\ ~(m + k <= m) /\ (m + k) - m = k
      BY <1>4
    <3>5. \A i \in 1..m : i \in 1..(m + n) /\ i <= m
      BY <1>4
    <3> QED BY <1>4, <2>2, <3>3, <3>4, <3>5
  <2>7. CASE m + n < 2
    BY <2>4, <2>6, <2>7 DEF InferDefaultsFromValues
  <2>8. CASE m >= 2
    <3>1. 1 \in 1..m /\ 2 \in 1..m /\ 1 \in DOMAIN samples /\ 2 \in DOMAIN samples
      BY <1>4, <2>6, <2>8
    <3>2. probing.items[1] # probing.items[2]
      BY <1>2, <1>4, <3>1 DEF DistinctItems
    <3>3. samples[1][a] # samples[2][a]
      BY <1>6, <2>6, <3>1, <3>2
    <3> QED BY <2>4, <3>1, <3>3, TwoSamplesDiffer
  <2>9. CASE ~(m + n < 2) /\ ~(m >= 2)
    <3>1. m = 1 /\ 1 \in 1..n /\ 1 \in DOMAIN samples /\ 2 \in DOMAIN samples
      BY <1>4, <2>6, <2>9
    <3>2. samples[1] = Payload(probing.items[1]) /\ samples[2] = probing.outputs[1]
      <4>1. m + 1 = 2 /\ 1 \in 1..m
        BY <3>1
      <4>2. samples[m + 1] = probing.outputs[1]
        BY <2>6, <3>1
      <4> QED BY <2>6, <4>1, <4>2
    <3>3. samples[1][a] = probing.items[1] /\ probing.items[1] \in ItemSet
      BY <1>4, <1>6, <3>1, <3>2
    <3>4. PICK name : name = NameAt(probing.items, 1)
      OBVIOUS
    <3>5. samples[2][a] = name /\ name \in ProbeNames
      BY <1>5, <3>1, <3>2, <3>4
    <3>6. name # probing.items[1]
      BY <3>3, <3>5, NameParts, ProbeAssumption
    <3> QED BY <2>4, <3>1, <3>3, <3>5, <3>6, TwoSamplesDiffer
  <2> QED BY <1>4, <2>7, <2>8, <2>9
<1> QED BY <1>7, <1>8

\* The command ends.
LEMMA EndInferenceKeeps ==
  ASSUME ProbeInv, EndInference
  PROVE  ProbeInv'
<1>1. ProbeShape /\ ProbeOrder /\ ProbesThere /\ ProbeResult /\ DOMAIN probing = ProbeFields
  BY DEF ProbeInv, ProbeShape
<1>2. probing.stage = "cleanup" /\ probing.temp = <<>> /\ remote' = remote
  BY DEF EndInference
<1>3. probing.retry = 0 /\ probing.saved = {}
  BY <1>1, <1>2 DEF ProbeResult
<1>4. /\ KeepsBut(probing, probing', {"stage", "inferred", "saved", "error"}) /\ probing'.stage = "done"
      /\ probing'.saved # {} => ~probing'.error
      /\ ~probing'.error => ~probing.error
      /\ SimpleAlias => probing'.inferred \cap AliasAttributes = {}
  <2>1. CASE probing.error
    <3>1. probing' = [probing EXCEPT !.stage = "done"]
      BY <2>1 DEF EndInference
    <3>2. KeepsBut(probing, probing', {"stage"}) /\ probing'.stage = "done"
      BY <1>1, <3>1 DEF KeepsBut, ProbeFields
    <3>3. probing'.saved = probing.saved /\ probing'.error = probing.error /\ probing'.inferred = probing.inferred
      BY <3>2 DEF KeepsBut, ProbeFields
    <3> QED BY <1>1, <1>3, <2>1, <3>2, <3>3 DEF KeepsBut, ProbeResult
  <2>2. CASE ~probing.error
    <3>1. PICK withRepository \in BOOLEAN, mode \in {"print", "save", "check"} :
            probing' = [probing EXCEPT !.stage = "done", !.inferred = Infer(withRepository),
                      !.saved = IF mode = "save" THEN Infer(withRepository) ELSE @,
                      !.error = mode = "check" /\ Infer(withRepository) # probing.saved]
      BY <2>2 DEF EndInference
    <3>2. PICK found : found = Infer(withRepository)
      OBVIOUS
    <3>3. PICK saved : saved = IF mode = "save" THEN found ELSE probing.saved
      OBVIOUS
    <3>4. PICK error \in BOOLEAN : error = (mode = "check" /\ found # probing.saved)
      OBVIOUS
    <3>5. probing' = [probing EXCEPT !.stage = "done", !.inferred = found, !.saved = saved, !.error = error]
      BY <3>1, <3>2, <3>3, <3>4
    <3>6. KeepsBut(probing, probing', {"stage", "inferred", "saved", "error"}) /\ probing'.stage = "done"
          /\ probing'.inferred = found /\ probing'.saved = saved /\ probing'.error = error
      BY <1>1, <3>5 DEF KeepsBut, ProbeFields
    <3>7. saved # {} => ~error
      BY <1>3, <3>3, <3>4
    <3>8. SimpleAlias => found \cap AliasAttributes = {}
      BY <3>2, IdentityNotFound
    <3> QED BY <2>2, <3>6, <3>7, <3>8
  <2> QED BY <2>1, <2>2
<1>5. /\ DOMAIN probing' = ProbeFields /\ probing'.items = probing.items /\ probing'.required = probing.required
      /\ probing'.temp = probing.temp /\ probing'.retry = probing.retry /\ probing'.faults = probing.faults
      /\ probing'.outputs = probing.outputs /\ probing'.unstable = probing.unstable
      /\ probing'.attempt = probing.attempt /\ probing'.stable = probing.stable
  BY <1>4 DEF KeepsBut, ProbeFields
<1>6. ProbeShape'
  BY <1>1, <1>2, <1>4, <1>5 DEF ProbeShape, ProbeStages
<1>7. ProbeOrder'
  BY <1>1, <1>4, <1>5 DEF ProbeOrder
<1>8. ProbesThere'
  BY <1>1, <1>2, <1>4, <1>5 DEF ProbesThere
<1>9. ProbeResult'
  BY <1>1, <1>2, <1>3, <1>4, <1>5 DEF ProbeResult
<1> QED BY <1>6, <1>7, <1>8, <1>9 DEF ProbeInv

-----------------------------------------------------------------------------
(* The steps of the service and of the user, and the theorems. *)

\* A step that leaves the probes and what the command remembers.
LEMMA OutsideKeeps ==
  ASSUME ProbeInv, KeepsBut(probing, probing', {"cancelled", "faults"}) \/ KeepsBut(probing, probing', {"faults"}),
         probing'.faults \in Nat, probing'.faults <= MaxProbeFaults,
         DOMAIN remote' = DOMAIN remote, remote'.probes = remote.probes, remote'.touched = remote.touched
  PROVE  ProbeInv'
<1>1. ProbeShape /\ ProbeOrder /\ ProbesThere /\ ProbeResult
  BY DEF ProbeInv
<1>2. /\ DOMAIN probing' = ProbeFields /\ probing'.items = probing.items /\ probing'.required = probing.required
      /\ probing'.temp = probing.temp /\ probing'.retry = probing.retry /\ probing'.inferred = probing.inferred
      /\ probing'.saved = probing.saved /\ probing'.error = probing.error
      /\ probing'.outputs = probing.outputs /\ probing'.unstable = probing.unstable /\ probing'.stage = probing.stage
      /\ probing'.attempt = probing.attempt /\ probing'.stable = probing.stable
  BY DEF KeepsBut, ProbeFields
<1>3. ProbeShape' /\ ProbeOrder'
  BY <1>1, <1>2 DEF ProbeShape, ProbeOrder
<1>4. ProbesThere' /\ ProbeResult'
  BY <1>1, <1>2 DEF ProbesThere, ProbeResult
<1> QED BY <1>3, <1>4 DEF ProbeInv

\* A probe's version moves on; nothing else of the service does.
LEMMA CompletesKeeps ==
  ASSUME ProbeInv, ServiceCompletes
  PROVE  ProbeInv'
<1>1. ProbeShape /\ ProbeOrder /\ ProbesThere /\ ProbeResult
  BY DEF ProbeInv
<1>2. PICK p \in DOMAIN remote.probes : remote.probes[p].version < 2 /\ remote' = [remote EXCEPT !.probes[p].version = @ + 1]
  BY DEF ServiceCompletes
<1>3. probing' = probing
  BY DEF ServiceCompletes
<1>4. PICK moved : moved = [remote.probes[p] EXCEPT !.version = @ + 1]
  OBVIOUS
<1>5. PICK probes : probes = [remote.probes EXCEPT ![p] = moved]
  OBVIOUS
<1>6. remote' = [remote EXCEPT !.probes = probes]
  BY <1>2, <1>4, <1>5
<1>7. DOMAIN remote' = DOMAIN remote /\ remote'.probes = probes /\ remote'.touched = remote.touched
  BY <1>1, <1>6 DEF ProbeShape
<1>8. ProbeRecord(remote.probes[p])
  BY <1>1 DEF ProbesThere
<1>9. moved.payload = remote.probes[p].payload /\ ProbeRecord(moved)
  BY <1>2, <1>4, <1>8 DEF ProbeRecord
<1>10. DOMAIN probes = DOMAIN remote.probes /\ probes[p] = moved /\ \A n \in DOMAIN probes : n # p => probes[n] = remote.probes[n]
  BY <1>5
<1>11. \A n \in DOMAIN probes : probes[n].payload = remote.probes[n].payload /\ ProbeRecord(probes[n])
  BY <1>1, <1>9, <1>10 DEF ProbesThere
<1>12. ProbeShape' /\ ProbeOrder'
  BY <1>1, <1>3, <1>7 DEF ProbeShape, ProbeOrder
<1>13. ProbesThere'
  BY <1>1, <1>3, <1>7, <1>10, <1>11 DEF ProbesThere
<1>14. ProbeResult'
  BY <1>1, <1>3, <1>7 DEF ProbeResult
<1> QED BY <1>12, <1>13, <1>14 DEF ProbeInv

\* The token expires.
LEMMA ExpiresKeeps ==
  ASSUME ProbeInv, TokenExpires
  PROVE  ProbeInv'
<1>1. ProbeShape /\ ProbeOrder /\ ProbesThere /\ ProbeResult /\ DOMAIN probing = ProbeFields
  BY DEF ProbeInv, ProbeShape
<1>2. Fault /\ remote' = [remote EXCEPT !.token = FALSE] /\ probing' = Faulted(probing)
  BY DEF TokenExpires
<1>3. DOMAIN remote' = DOMAIN remote /\ remote'.probes = remote.probes /\ remote'.touched = remote.touched
  BY <1>1, <1>2 DEF ProbeShape
<1>4. KeepsBut(probing, probing', {"faults"}) /\ probing'.faults \in Nat /\ probing'.faults <= MaxProbeFaults
  BY <1>1, <1>2, FaultedFields, FaultBound
<1> QED BY <1>1, <1>3, <1>4, OutsideKeeps

\* The user interrupts the command.
LEMMA InterruptKeeps ==
  ASSUME ProbeInv, Interrupt
  PROVE  ProbeInv'
<1>1. ProbeShape /\ DOMAIN probing = ProbeFields
  BY DEF ProbeInv, ProbeShape
<1>2. remote' = remote /\ probing' = [probing EXCEPT !.cancelled = TRUE]
  BY DEF Interrupt
<1>3. KeepsBut(probing, probing', {"cancelled"})
  BY <1>1, <1>2 DEF KeepsBut, ProbeFields
<1>4. KeepsBut(probing, probing', {"cancelled", "faults"}) /\ probing'.faults = probing.faults
  BY <1>3 DEF KeepsBut, ProbeFields
<1>5. probing'.faults \in Nat /\ probing'.faults <= MaxProbeFaults
  BY <1>1, <1>4 DEF ProbeShape
<1> QED BY <1>2, <1>4, <1>5, OutsideKeeps

\* The invariant holds at the start.
LEMMA ProbeInvInit ==
  ASSUME ProbeInit
  PROVE  ProbeInv
<1>1. /\ DOMAIN probing = ProbeFields /\ probing.stage = "start" /\ probing.items = <<>> /\ probing.required = {}
      /\ probing.temp = <<>> /\ probing.outputs = <<>> /\ probing.attempt = 0 /\ probing.stable = 0
      /\ probing.retry = 0 /\ probing.inferred = {} /\ probing.saved = {} /\ probing.faults = 0
  BY DEF ProbeInit, ProbeFields
<1>2. ~probing.error /\ ~probing.unstable
  BY DEF ProbeInit
<1>3. DOMAIN remote = {"probes", "touched", "token"} /\ remote.probes = <<>> /\ ~remote.touched
  BY DEF ProbeInit
<1>4. DOMAIN probing.items = {} /\ DOMAIN probing.temp = {} /\ DOMAIN remote.probes = {} /\ DOMAIN probing.outputs = {}
  BY <1>1, <1>3
<1>5. ProbeShape
  BY <1>1, <1>3, <1>4, ProbeAssumption DEF ProbeShape, ProbeStages, Requirements, DistinctItems
<1>6. ProbeOrder
  BY <1>1, <1>4 DEF ProbeOrder
<1>7. ProbesThere
  BY <1>1, <1>4 DEF ProbesThere, Named
<1>8. ProbeResult
  BY <1>1, <1>2, <1>3 DEF ProbeResult
<1> QED BY <1>5, <1>6, <1>7, <1>8 DEF ProbeInv

\* Every step keeps the invariant.
LEMMA ProbeInvStep ==
  ASSUME ProbeInv, [ProbeNext]_probeVars
  PROVE  ProbeInv'
<1>1. CASE UNCHANGED probeVars
  BY <1>1 DEF probeVars, ProbeInv, ProbeShape, ProbeOrder, ProbesThere, ProbeResult
<1>2. CASE ProbeNext
  BY <1>2, ResolveItemsKeeps, CreateProbeKeeps, WaitKeeps, ReadProbeKeeps, AllReadKeeps, CleanupKeeps, RetryKeeps,
     EndInferenceKeeps, CompletesKeeps, ExpiresKeeps, InterruptKeeps DEF ProbeNext
<1> QED BY <1>1, <1>2

\* The reads, retries, faults and names of a probing command stay within their
\* bounds (managed_probe.go).
THEOREM ProbeTypes == ProbeSpec => []ProbeTypeOK
<1>1. ProbeInv => ProbeTypeOK
  <2>1. SUFFICES ASSUME ProbeInv PROVE ProbeTypeOK
    OBVIOUS
  <2>2. ProbeShape /\ ProbeOrder /\ ProbesThere
    BY <2>1 DEF ProbeInv
  <2>3. probing.attempt < ReadAttempts /\ probing.stable <= ReadAttempts
    BY <2>2, ProbeAssumption DEF ProbeShape
  <2>4. \A k \in DOMAIN probing.temp : probing.temp[k] \in ProbeNames
    BY <2>2 DEF ProbeShape
  <2> QED BY <2>2, <2>3, <2>4 DEF ProbeTypeOK, ProbeShape, ProbeOrder, ProbesThere, ProbeRecord, ProbeNames
<1>2. ProbeInit => ProbeInv
  BY ProbeInvInit
<1>3. ProbeInv /\ [ProbeNext]_probeVars => ProbeInv'
  BY ProbeInvStep
<1> QED BY <1>1, <1>2, <1>3, PTL DEF ProbeSpec

\* Where the service is addressed by logical paths and the alias of a resource is
\* one attribute, the command is safe however it is interrupted, refused or
\* rejected: a probe left behind is reported, no item of the user is touched, the
\* identity is not inferred, and an unstable read is not taken (infer_managed.go,
\* managed_probe.go).
THEOREM ProbesAreSafe ==
  ASSUME RawPathWorks, SimpleAlias
  PROVE  ProbeSpec => []ProbesSafe
<1>1. ProbeInv => ProbesSafe
  <2>1. SUFFICES ASSUME ProbeInv PROVE ProbesSafe
    OBVIOUS
  <2>2. ProbesThere /\ ProbeResult
    BY <2>1 DEF ProbeInv
  <2>3. NoSilentLeftover
    <3>1. SUFFICES ASSUME probing.stage = "done", ~probing.error \/ probing.saved # {} PROVE DOMAIN remote.probes = {}
      BY DEF NoSilentLeftover
    <3>2. ~probing.error /\ probing.temp = <<>>
      BY <2>2, <3>1 DEF ProbeResult
    <3>3. DOMAIN remote.probes = Named(probing.temp)
      BY <2>2, <3>2 DEF ProbesThere
    <3>4. Named(<<>>) = {}
      BY DEF Named
    <3> QED BY <3>2, <3>3, <3>4
  <2> QED BY <2>2, <2>3 DEF ProbesSafe, ItemsUntouched, IdentityNotInferred, ReadIsStable, ProbeResult
<1>2. ProbeInit => ProbeInv
  BY ProbeInvInit
<1>3. ProbeInv /\ [ProbeNext]_probeVars => ProbeInv'
  BY ProbeInvStep
<1> QED BY <1>1, <1>2, <1>3, PTL DEF ProbeSpec
=============================================================================
