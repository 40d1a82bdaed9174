------------------------ MODULE APDUArbiter_proofs -------------------------
(* Proofs about APDUArbiter, for any set of ticket ids, any requests and   *)
(* any limits.                                                             *)
EXTENDS APDUArbiter, FiniteSetTheorems, TLAPS

(* removeTicketLocked: what is left is the queue without position i. *)
LEMMA RemoveTicketFacts ==
  ASSUME NEW S, NEW q \in Seq(S), NEW i \in DOMAIN q
  PROVE  /\ RemoveTicket(q, i) \in Seq(S)
         /\ Len(RemoveTicket(q, i)) = Len(q) - 1
         /\ \A k \in DOMAIN RemoveTicket(q, i) :
              RemoveTicket(q, i)[k] = IF k < i THEN q[k] ELSE q[k + 1]
  <1>1. i \in 1..Len(q) /\ Len(q) \in Nat
    OBVIOUS
  <1> DEFINE front == SubSeq(q, 1, i - 1)
             back == SubSeq(q, i + 1, Len(q))
  <1>2. front \in Seq(S) /\ Len(front) = i - 1
    BY <1>1
  <1>3. back \in Seq(S) /\ Len(back) = Len(q) - i
    BY <1>1
  <1>4. \A k \in 1..(i-1) : front[k] = q[k]
    BY <1>1
  <1>5. \A k \in 1..(Len(q)-i) : back[k] = q[i + k]
    BY <1>1
  <1> HIDE DEF front, back
  <1>6. RemoveTicket(q, i) = front \o back
    BY DEF RemoveTicket, RemoveAt, front, back
  <1>7. front \o back \in Seq(S) /\ Len(front \o back) = Len(q) - 1
    BY <1>1, <1>2, <1>3
  <1>8. ASSUME NEW k \in DOMAIN (front \o back)
        PROVE  (front \o back)[k] = IF k < i THEN q[k] ELSE q[k + 1]
    <2>1. k \in 1..(Len(q) - 1)
      BY <1>7, <1>1
    <2>2. CASE k < i
      BY <2>1, <2>2, <1>1, <1>2, <1>3, <1>4
    <2>3. CASE k >= i
      <3>1. (front \o back)[k] = back[k - (i - 1)]
        BY <2>1, <2>3, <1>1, <1>2, <1>3
      <3>2. k - (i - 1) \in 1..(Len(q) - i) /\ i + (k - (i - 1)) = k + 1
        BY <2>1, <2>3, <1>1
      <3>3. back[k - (i - 1)] = q[i + (k - (i - 1))]
        BY <3>2, <1>5
      <3> QED
        BY <3>1, <3>2, <3>3, <2>3, <1>1, <2>1
    <2> QED
      BY <2>1, <2>2, <2>3, <1>1
  <1> QED
    BY <1>6, <1>7, <1>8

(* acquire and BeginBarrier make well-formed tickets of any request. *)
LEMMA NewTicketType ==
  ASSUME NEW id \in Ids, NEW r \in Requests
  PROVE  NewTicket(id, r) \in Ticket
  <1>1. r \in Request
    BY ConstantsAssumption
  <1>2. CASE r.type = "barrier"
    <2>1. BlockedBy(r.policy) \subseteq Classes
      BY <1>1 DEF BlockedBy, NormalizeClass, Request, Classes, NoClass
    <2> QED
      BY <1>1, <1>2, <2>1 DEF NewTicket, BarrierTicket, Ticket, Request, Classes, NoClass, Scopes
  <1>3. CASE r.type # "barrier"
    <2>1. NormalizeClass(r.class, r.type) \in Classes
      BY <1>1 DEF NormalizeClass, Request, Classes, NoClass
    <2>2. NormalizeTransportScope(r) \in Scopes
      BY DEF NormalizeTransportScope, Scopes
    <2> QED
      BY <1>1, <1>3, <2>1, <2>2 DEF NewTicket, LeaseTicket, Ticket, Request, LeaseTypes
  <1> QED
    BY <1>2, <1>3

LEMMA TicketId ==
  ASSUME NEW t \in Ticket
  PROVE  t.id \in Ids
  BY DEF Ticket

LEMMA IdsOfType ==
  ASSUME NEW q \in Seq(Ticket)
  PROVE  IdsOf(q) \subseteq Ids
  <1>1. \A i \in DOMAIN q : q[i] \in Ticket
    OBVIOUS
  <1> QED
    BY <1>1, TicketId DEF IdsOf

-----------------------------------------------------------------------------
(* Type correctness.                                                       *)

(* TypeOK but for the counters, which Count alone changes. *)
StateType ==
  /\ queue \in Seq(Ticket)
  /\ active \subseteq Ticket
  /\ barriers \subseteq Ticket
  /\ awake \subseteq Ids /\ aged \subseteq Ids
  /\ held \subseteq Ids /\ armed \subseteq Ids /\ fired \subseteq Ids /\ lapsed \subseteq Ids
  /\ idleWait \in [Watchers -> {"out", "asleep", "awake"}]

StatsType ==
  stats \in [{"waitRequests", "acquires", "waitTimeouts", "forcedReleases"}
               -> 0..(CounterModulus - 1)]

LEMMA CountType ==
  ASSUME NEW C, StatsType, Count(C)
  PROVE  StatsType'
  <1>1. \A n \in 0..(CounterModulus - 1) : (n + 1) % CounterModulus \in 0..(CounterModulus - 1)
    BY ConstantsAssumption
  <1> QED
    BY <1>1 DEF StatsType, Count

LEMMA SignalType ==
  ASSUME NEW ids \in SUBSET Ids, StateType, Signal(ids)
  PROVE  awake' \subseteq Ids /\ idleWait' \in [Watchers -> {"out", "asleep", "awake"}]
  BY DEF Signal, StateType

LEMMA AdmitType ==
  ASSUME StateType, NEW q \in Seq(Ticket), NEW i \in DOMAIN q, Admit(q, i)
  PROVE  StateType'
  <1>1. q[i] \in Ticket /\ q[i].id \in Ids
    <2>1. q[i] \in Ticket
      OBVIOUS
    <2> QED
      BY <2>1, TicketId
  <1>2. queue' \in Seq(Ticket)
    BY RemoveTicketFacts DEF Admit
  <1>3. IdsOf(queue') \subseteq Ids
    BY <1>2, IdsOfType
  <1>4. awake' \subseteq Ids /\ idleWait' \in [Watchers -> {"out", "asleep", "awake"}]
    BY <1>3, SignalType DEF Admit
  <1>5. /\ active' \subseteq Ticket /\ barriers' \subseteq Ticket
        /\ aged' \subseteq Ids /\ held' \subseteq Ids /\ armed' \subseteq Ids
        /\ fired' \subseteq Ids /\ lapsed' \subseteq Ids
    BY <1>1 DEF Admit, StateType
  <1> QED
    BY <1>2, <1>4, <1>5 DEF StateType

LEMMA EndLeaseType ==
  ASSUME StateType, NEW id \in Ids, EndLease(id)
  PROVE  /\ active' \subseteq Ticket /\ armed' \subseteq Ids /\ lapsed' \subseteq Ids
         /\ awake' \subseteq Ids /\ idleWait' \in [Watchers -> {"out", "asleep", "awake"}]
  <1>1. IdsOf(queue) \subseteq Ids
    BY IdsOfType DEF StateType
  <1>2. awake' \subseteq Ids /\ idleWait' \in [Watchers -> {"out", "asleep", "awake"}]
    BY <1>1, SignalType DEF EndLease
  <1> QED
    BY <1>2 DEF EndLease, StateType

LEMMA NewcomerQueue ==
  ASSUME StateType, NEW id \in Ids, NEW r \in Requests
  PROVE  /\ Append(queue, NewTicket(id, r)) \in Seq(Ticket)
         /\ Len(Append(queue, NewTicket(id, r))) = Len(queue) + 1
         /\ Len(queue) + 1 \in DOMAIN Append(queue, NewTicket(id, r))
         /\ Append(queue, NewTicket(id, r))[Len(queue) + 1] = NewTicket(id, r)
         /\ \A k \in DOMAIN queue : Append(queue, NewTicket(id, r))[k] = queue[k]
  <1>1. NewTicket(id, r) \in Ticket
    BY NewTicketType
  <1> QED
    BY <1>1 DEF StateType

(* TypeOK holds of every reachable state. *)
THEOREM TypeCorrect == Spec => []TypeOK
  <1> DEFINE Good == StateType /\ StatsType
  <1>1. Init => Good
    BY ConstantsAssumption DEF Init, StateType, StatsType, Ticket
  <1>2. Good /\ [Next]_vars => Good'
    <2> SUFFICES ASSUME StateType, StatsType, [Next]_vars
                 PROVE  StateType' /\ StatsType'
      OBVIOUS
    <2>0. IdsOf(queue) \subseteq Ids
      BY IdsOfType DEF StateType
    <2>1. ASSUME NEW id \in Ids, NEW r \in Requests, AcquireAtOnce(id, r)
          PROVE  StateType' /\ StatsType'
      BY <2>1, NewcomerQueue, AdmitType, CountType DEF AcquireAtOnce
    <2>2. ASSUME NEW id \in Ids, NEW r \in Requests, StartWaiting(id, r)
          PROVE  StateType' /\ StatsType'
      <3>1. queue' \in Seq(Ticket)
        BY <2>2, NewcomerQueue DEF StartWaiting
      <3>2. awake' \subseteq Ids /\ idleWait' \in [Watchers -> {"out", "asleep", "awake"}]
        BY <2>0, <2>2, SignalType DEF StartWaiting
      <3> QED
        BY <2>2, <3>1, <3>2, CountType DEF StartWaiting, StateType
    <2>3. ASSUME NEW id \in Ids, WakeAndAcquire(id)
          PROVE  StateType' /\ StatsType'
      <3>1. PICK i \in DOMAIN queue : Admit(queue, i)
        BY <2>3 DEF WakeAndAcquire
      <3>2. StateType'
        BY <3>1, AdmitType DEF StateType
      <3> QED
        BY <2>3, <3>2, CountType DEF WakeAndAcquire
    <2>4. ASSUME NEW id \in Ids, WakeAndSleep(id)
          PROVE  StateType' /\ StatsType'
      BY <2>4 DEF WakeAndSleep, StateType, StatsType
    <2>5. ASSUME NEW id \in Ids, GiveUp(id)
          PROVE  StateType' /\ StatsType'
      <3>1. PICK i \in DOMAIN queue : queue' = RemoveTicket(queue, i)
        BY <2>5 DEF GiveUp
      <3>2. queue' \in Seq(Ticket)
        BY <3>1, RemoveTicketFacts DEF StateType
      <3>3. IdsOf(queue') \subseteq Ids
        BY <3>2, IdsOfType
      <3>4. awake' \subseteq Ids /\ idleWait' \in [Watchers -> {"out", "asleep", "awake"}]
        BY <2>5, <3>3, SignalType DEF GiveUp
      <3> QED
        BY <2>5, <3>2, <3>4, CountType DEF GiveUp, StateType
    <2>6. ASSUME NEW id \in Ids, Age(id)
          PROVE  StateType' /\ StatsType'
      BY <2>6 DEF Age, StateType, StatsType
    <2>7. ASSUME NEW id \in Ids, Release(id)
          PROVE  StateType' /\ StatsType'
      <3>1. CASE id \in IdsIn(active)
        BY <2>7, <3>1, EndLeaseType DEF Release, StateType, StatsType
      <3>2. CASE id \notin IdsIn(active)
        BY <2>7, <3>2 DEF Release, StateType, StatsType
      <3> QED
        BY <3>1, <3>2
    <2>8. ASSUME NEW id \in Ids, ReleaseBarrier(id)
          PROVE  StateType' /\ StatsType'
      <3>1. awake' \subseteq Ids /\ idleWait' \in [Watchers -> {"out", "asleep", "awake"}]
        BY <2>0, <2>8, SignalType DEF ReleaseBarrier
      <3> QED
        BY <2>8, <3>1 DEF ReleaseBarrier, StateType, StatsType
    <2>9. ASSUME NEW id \in Ids, Touch(id)
          PROVE  StateType' /\ StatsType'
      BY <2>9 DEF Touch, StateType, StatsType
    <2>10. ASSUME NEW id \in Ids, TimerFires(id)
           PROVE  StateType' /\ StatsType'
      BY <2>10 DEF TimerFires, StateType, StatsType
    <2>11. ASSUME NEW id \in Ids, ReleaseExpired(id)
           PROVE  StateType' /\ StatsType'
      <3>1. CASE EndLease(id) /\ Count({"forcedReleases"})
        BY <2>11, <3>1, EndLeaseType, CountType DEF ReleaseExpired, StateType
      <3>2. CASE /\ armed' \in {armed, armed \cup {id}}
                 /\ UNCHANGED <<active, lapsed, awake, idleWait, stats>>
        BY <2>11, <3>2 DEF ReleaseExpired, StateType, StatsType
      <3> QED
        BY <2>11, <3>1, <3>2 DEF ReleaseExpired
    <2>12. ASSUME NEW w \in Watchers, WaitIdle(w)
           PROVE  StateType' /\ StatsType'
      BY <2>12 DEF WaitIdle, StateType, StatsType
    <2>13. ASSUME NEW w \in Watchers, WaitIdleGivesUp(w)
           PROVE  StateType' /\ StatsType'
      BY <2>13 DEF WaitIdleGivesUp, StateType, StatsType
    <2>14. CASE UNCHANGED vars
      BY <2>14 DEF vars, StateType, StatsType
    <2> QED
      BY <2>1, <2>2, <2>3, <2>4, <2>5, <2>6, <2>7, <2>8, <2>9, <2>10, <2>11,
         <2>12, <2>13, <2>14 DEF Next
  <1>3. Good => TypeOK
    BY DEF StateType, StatsType, TypeOK
  <1> QED
    BY <1>1, <1>2, <1>3, PTL DEF Spec

-----------------------------------------------------------------------------
(* Exclusion.  CardExclusion and BarrierExcludes are inductive once the    *)
(* active leases are known to be finitely many and never barriers.         *)

ExclusionInv ==
  /\ IsFiniteSet(active)
  /\ \A l \in active : l.type \in LeaseTypes
  /\ CardExclusion
  /\ BarrierExcludes

LEMMA Finiteness ==
  ASSUME IsFiniteSet(active), NEW type
  PROVE  /\ IsFiniteSet(OfType(type)) /\ Cardinality(OfType(type)) \in Nat
         /\ IsFiniteSet(QMITransports) /\ Cardinality(QMITransports) \in Nat
  <1>1. OfType(type) \in SUBSET active /\ QMITransports \in SUBSET active
    BY DEF OfType, QMITransports
  <1> QED
    BY <1>1, FS_Subset, FS_CardinalityType

(* Leases that end and barriers that are released disturb nothing. *)
LEMMA ShrinkKeepsExclusion ==
  ASSUME ExclusionInv, active' \in SUBSET active, barriers' \subseteq barriers
  PROVE  ExclusionInv'
  <1>1. IsFiniteSet(active')
    BY FS_Subset DEF ExclusionInv
  <1>2. OfType("session")' \in SUBSET OfType("session") /\ QMITransports' \in SUBSET QMITransports
    BY DEF OfType, QMITransports
  <1>3. /\ Cardinality(OfType("session")') <= Cardinality(OfType("session"))
        /\ Cardinality(QMITransports') <= Cardinality(QMITransports)
    BY <1>2, Finiteness, FS_Subset DEF ExclusionInv
  <1>4. /\ Cardinality(OfType("session")') \in Nat /\ Cardinality(OfType("session")) \in Nat
        /\ Cardinality(QMITransports') \in Nat /\ Cardinality(QMITransports) \in Nat
    <2>1. /\ IsFiniteSet(OfType("session")) /\ IsFiniteSet(QMITransports)
      BY Finiteness DEF ExclusionInv
    <2>2. IsFiniteSet(OfType("session")') /\ IsFiniteSet(QMITransports')
      BY <1>2, <2>1, FS_Subset
    <2> QED
      BY <2>1, <2>2, FS_CardinalityType
  <1>5. /\ Cardinality(OfType("session")') <= MaxSessions
        /\ Cardinality(QMITransports') <= MaxQMITransports
    BY <1>3, <1>4, ConstantsAssumption DEF ExclusionInv, CardExclusion
  <1>6. \A l, m \in active' : l # m =>
          \/ l.type = "session" /\ m.type = "session"
          \/ /\ l \in QMITransports' /\ m \in QMITransports'
             /\ l.channel # m.channel
    BY DEF ExclusionInv, CardExclusion, QMITransports, OfType
  <1>7. BarrierExcludes'
    BY DEF ExclusionInv, BarrierExcludes
  <1> QED
    BY <1>1, <1>5, <1>6, <1>7 DEF ExclusionInv, CardExclusion

(* The facts about sizes that the cases below use. *)
LEMMA Sizes ==
  /\ Cardinality({}) = 0
  /\ MaxSessions \in Nat /\ MaxQMITransports \in Nat
  /\ 0 <= MaxSessions /\ 0 <= MaxQMITransports
  <1>1. Cardinality({}) = 0
    BY FS_EmptySet
  <1> QED
    BY <1>1, ConstantsAssumption

LEMMA OneMore ==
  ASSUME NEW S, NEW t, NEW n \in Nat, IsFiniteSet(S), Cardinality(S) < n
  PROVE  Cardinality(S \cup {t}) <= n
  <1>1. Cardinality(S) \in Nat
    BY FS_CardinalityType
  <1>2. Cardinality(S \cup {t}) \in {Cardinality(S), Cardinality(S) + 1}
    BY FS_AddElement
  <1> QED
    BY <1>1, <1>2

(* A barrier is admitted to an empty card; a lease as its type allows. *)
LEMMA AdmitKeepsExclusion ==
  ASSUME ExclusionInv, NEW q \in Seq(Ticket), NEW i \in DOMAIN q, Admit(q, i)
  PROVE  ExclusionInv'
  <1> DEFINE t == q[i]
  <1>0. t \in Ticket
    OBVIOUS
  <1>1. CASE t.type = "barrier"
    <2>1. active = {} /\ active' = {}
      BY <1>1 DEF Admit, CanAcquire, CanAcquireLease, CanAcquireBarrier
    <2>2. OfType("session")' = {} /\ QMITransports' = {}
      BY <2>1 DEF OfType, QMITransports
    <2>3. IsFiniteSet(active') /\ BarrierExcludes'
      BY <2>1, FS_EmptySet DEF BarrierExcludes
    <2>4. CardExclusion'
      BY <2>1, <2>2, Sizes DEF CardExclusion
    <2> QED
      BY <2>1, <2>3, <2>4 DEF ExclusionInv
  <1>2. CASE t.type # "barrier"
    <2>1. CanAcquireLease(q, i)
      BY <1>2 DEF Admit, CanAcquire, CanAcquireBarrier
    <2>2. active' = active \cup {t} /\ barriers' = barriers
      BY <1>2 DEF Admit
    <2>3. t.type \in LeaseTypes
      BY <1>0, <1>2 DEF Ticket
    <2>4. IsFiniteSet(active') /\ \A l \in active' : l.type \in LeaseTypes
      BY <2>2, <2>3, FS_AddElement DEF ExclusionInv
    <2>5. BarrierExcludes'
      BY <2>1, <2>2 DEF CanAcquireLease, IsBlockedByActiveBarrier, BarrierExcludes, ExclusionInv
    <2>6. /\ IsFiniteSet(OfType("session")) /\ Cardinality(OfType("session")) \in Nat
          /\ IsFiniteSet(QMITransports) /\ Cardinality(QMITransports) \in Nat
      BY Finiteness DEF ExclusionInv
    <2>7. CardExclusion'
      <3>1. CASE t.type = "session"
        <4>1. /\ OfType("oneshot") = {} /\ OfType("transport") = {}
              /\ Cardinality(OfType("session")) < MaxSessions
          BY <2>1, <3>1 DEF CanAcquireLease, HasActiveTransport
        <4>2. \A l \in active' : l.type = "session"
          BY <2>2, <3>1, <4>1 DEF ExclusionInv, LeaseTypes, OfType
        <4>3. OfType("session")' = OfType("session") \cup {t} /\ QMITransports' = {}
          BY <2>2, <3>1, <4>2 DEF OfType, QMITransports
        <4>4. Cardinality(OfType("session")') <= MaxSessions
          BY <2>6, <4>1, <4>3, Sizes, OneMore
        <4> QED
          BY <4>2, <4>3, <4>4, Sizes DEF CardExclusion
      <3>2. CASE t.type = "oneshot"
        <4>1. active' = {t}
          BY <2>1, <2>2, <3>2 DEF CanAcquireLease
        <4>2. OfType("session")' = {} /\ QMITransports' = {}
          BY <3>2, <4>1 DEF OfType, QMITransports
        <4> QED
          BY <4>1, <4>2, Sizes DEF CardExclusion
      <3>3. CASE t.type = "transport"
        <4>1. OfType("session") = {} /\ OfType("oneshot") = {}
          BY <2>1, <3>3 DEF CanAcquireLease
        <4>2. CanAcquireTransportNow(t)
          BY <2>1, <3>3 DEF CanAcquireLease, SelectedTransport, FirstIn, Eligible
        <4>3. \A l \in active : l.type = "transport"
          BY <4>1 DEF ExclusionInv, LeaseTypes, OfType
        <4>4. OfType("session")' = {}
          BY <2>2, <3>3, <4>3 DEF OfType
        <4>5. CASE t.scope # "qmi_channel"
          <5>1. active' = {t}
            BY <2>2, <4>2, <4>3, <4>5 DEF CanAcquireTransportNow, HasActiveTransport, OfType
          <5>2. QMITransports' = {}
            BY <4>5, <5>1 DEF QMITransports, OfType
          <5> QED
            BY <4>4, <5>1, <5>2, Sizes DEF CardExclusion
        <4>6. CASE t.scope = "qmi_channel"
          <5>1. /\ ~HasActiveExclusiveTransport /\ ~QMILimitReached
                /\ \A l \in QMITransports : l.channel # t.channel
            BY <4>2, <4>6 DEF CanAcquireTransportNow
          <5>2. active = QMITransports
            BY <4>3, <5>1 DEF HasActiveExclusiveTransport, QMITransports, OfType
          <5>3. QMITransports' = QMITransports \cup {t} /\ active' = QMITransports'
            BY <2>2, <3>3, <4>6, <5>2 DEF QMITransports, OfType
          <5>4. Cardinality(QMITransports') <= MaxQMITransports
            <6>1. Cardinality(QMITransports) < MaxQMITransports
              BY <2>6, <5>1, Sizes DEF QMILimitReached
            <6> QED
              BY <2>6, <5>3, <6>1, Sizes, OneMore
          <5>5. \A l, m \in active' : l # m => l.channel # m.channel
            BY <5>1, <5>2, <5>3, <4>3 DEF ExclusionInv, CardExclusion
          <5> QED
            BY <4>4, <5>3, <5>4, <5>5, Sizes DEF CardExclusion
        <4> QED
          BY <4>5, <4>6
      <3> QED
        BY <2>3, <3>1, <3>2, <3>3 DEF LeaseTypes
    <2> QED
      BY <2>4, <2>5, <2>7 DEF ExclusionInv
  <1> QED
    BY <1>1, <1>2

(* Every step of the specification keeps the exclusion. *)
LEMMA NextKeepsExclusion ==
  ASSUME TypeOK, ExclusionInv, [Next]_vars
  PROVE  ExclusionInv'
  <1>1. CASE UNCHANGED vars
    BY <1>1, ShrinkKeepsExclusion DEF vars
  <1>2. ASSUME NEW id \in Ids, NEW r \in Requests, AcquireAtOnce(id, r)
        PROVE  ExclusionInv'
    <2> DEFINE q == Append(queue, NewTicket(id, r))
    <2>1. q \in Seq(Ticket) /\ Len(q) \in DOMAIN q
      <3>1. StateType
        BY DEF TypeOK, StateType
      <3> QED
        BY <1>2, <3>1, NewcomerQueue
    <2>2. Admit(q, Len(q))
      BY <1>2 DEF AcquireAtOnce
    <2> QED
      BY <2>1, <2>2, AdmitKeepsExclusion
  <1>3. ASSUME NEW id \in Ids, WakeAndAcquire(id)
        PROVE  ExclusionInv'
    BY <1>3, AdmitKeepsExclusion DEF WakeAndAcquire, TypeOK
  <1>4. ASSUME NEW id \in Ids,
               Release(id) \/ ReleaseBarrier(id) \/ ReleaseExpired(id)
        PROVE  ExclusionInv'
    BY <1>4, ShrinkKeepsExclusion DEF Release, ReleaseBarrier, ReleaseExpired, EndLease
  <1>5. ASSUME NEW id \in Ids, NEW r \in Requests, StartWaiting(id, r)
        PROVE  ExclusionInv'
    BY <1>5, ShrinkKeepsExclusion DEF StartWaiting
  <1>6. ASSUME NEW id \in Ids,
               \/ WakeAndSleep(id) \/ GiveUp(id) \/ Age(id)
               \/ Touch(id) \/ TimerFires(id)
        PROVE  ExclusionInv'
    BY <1>6, ShrinkKeepsExclusion
    DEF WakeAndSleep, GiveUp, Age, Touch, TimerFires
  <1>7. ASSUME NEW w \in Watchers, WaitIdle(w) \/ WaitIdleGivesUp(w)
        PROVE  ExclusionInv'
    BY <1>7, ShrinkKeepsExclusion DEF WaitIdle, WaitIdleGivesUp
  <1> QED
    BY <1>1, <1>2, <1>3, <1>4, <1>5, <1>6, <1>7 DEF Next

LEMMA InitExcludes == Init => ExclusionInv
  <1> SUFFICES ASSUME Init PROVE ExclusionInv
    OBVIOUS
  <1>1. OfType("session") = {} /\ QMITransports = {}
    BY DEF Init, OfType, QMITransports
  <1> QED
    BY <1>1, FS_EmptySet, Sizes DEF Init, ExclusionInv, CardExclusion, BarrierExcludes

(* Two leases are active together only as sessions or as channels that     *)
(* differ, within the limits: for any number of tickets and any requests   *)
(* (canAcquireLeaseLocked, canAcquireTransportNowLocked).                  *)
THEOREM Exclusion == Spec => []CardExclusion
  <1>1. ExclusionInv => CardExclusion
    BY DEF ExclusionInv
  <1>2. TypeOK /\ ExclusionInv /\ [Next]_vars => ExclusionInv'
    BY NextKeepsExclusion
  <1> QED
    BY <1>1, <1>2, InitExcludes, TypeCorrect, PTL DEF Spec

(* No lease of a class a held barrier blocks is active, whenever it was    *)
(* granted (BeginBarrier, isBlockedByActiveBarrierLocked).                 *)
THEOREM BarrierExclusion == Spec => []BarrierExcludes
  <1>1. ExclusionInv => BarrierExcludes
    BY DEF ExclusionInv
  <1>2. TypeOK /\ ExclusionInv /\ [Next]_vars => ExclusionInv'
    BY NextKeepsExclusion
  <1> QED
    BY <1>1, <1>2, InitExcludes, TypeCorrect, PTL DEF Spec

-----------------------------------------------------------------------------
(* Nothing is admitted past a waiting barrier or a waiting exclusive.      *)

(* The lease that a step admits stands in the queue behind nothing but     *)
(* transports at which the scan goes on.                                   *)
LEMMA AdmittedFromScan ==
  ASSUME NEW q \in Seq(Ticket), NEW i \in DOMAIN q, Admit(q, i), NEW j \in 1 .. (i - 1)
  PROVE  active' \subseteq active \cup {q[i]} /\ (active' # active => ~EndsScan(q[j]))
  <1>1. CASE q[i].type = "barrier"
    BY <1>1 DEF Admit
  <1>2. CASE q[i].type # "barrier"
    <2>1. CanAcquireLease(q, i) /\ active' = active \cup {q[i]}
      BY <1>2 DEF Admit, CanAcquire, CanAcquireBarrier
    <2>2. i # 1
      OBVIOUS
    <2>3. SelectedTransport(q, i)
      BY <2>1, <2>2 DEF CanAcquireLease
    <2>4. i \in Eligible(q)
      BY <2>3 DEF SelectedTransport, FirstIn
    <2> QED
      BY <2>1, <2>4 DEF Eligible
  <1> QED
    BY <1>1, <1>2

(* Every lease that becomes active was admitted by its goroutine, and what *)
(* was ahead of it stood before it in the queue.                           *)
AdmittedBehindAll(t) ==
  \E q \in Seq(Ticket) : \E i \in DOMAIN q :
    Admit(q, i) /\ \A u \in AheadOf(t) : \E j \in 1 .. (i - 1) : q[j] = u

LEMMA NewLease ==
  ASSUME TypeOK, [Next]_vars, NEW t \in active' \ active
  PROVE  AdmittedBehindAll(t)
  <1>0. StateType /\ queue \in Seq(Ticket)
    BY DEF TypeOK, StateType
  <1>1. ASSUME NEW id \in Ids, NEW r \in Requests, AcquireAtOnce(id, r)
        PROVE  AdmittedBehindAll(t)
    <2>1. PICK q \in Seq(Ticket) :
            /\ q = Append(queue, NewTicket(id, r)) /\ Len(q) = Len(queue) + 1 /\ Len(q) \in DOMAIN q
            /\ \A k \in DOMAIN queue : q[k] = queue[k]
      BY <1>0, NewcomerQueue
    <2>2. Admit(q, Len(q))
      BY <1>1, <2>1 DEF AcquireAtOnce
    <2>3. \A k \in DOMAIN queue : k \in 1 .. (Len(q) - 1)
      BY <1>0, <2>1
    <2>4. \A u \in AheadOf(t) : \E j \in 1 .. (Len(q) - 1) : q[j] = u
      BY <2>1, <2>3 DEF AheadOf
    <2> QED
      BY <2>1, <2>2, <2>4 DEF AdmittedBehindAll
  <1>2. ASSUME NEW id \in Ids, WakeAndAcquire(id)
        PROVE  AdmittedBehindAll(t)
    <2>1. PICK i \in DOMAIN queue : Admit(queue, i)
      BY <1>2 DEF WakeAndAcquire
    <2>2. t = queue[i]
      BY <2>1 DEF Admit
    <2>3. ASSUME NEW k \in DOMAIN queue, \A j \in 1 .. k : queue[j].id # t.id PROVE k \in 1 .. (i - 1)
      <3>1. i \notin 1 .. k
        BY <2>2, <2>3
      <3> QED
        BY <1>0, <3>1
    <2>4. \A u \in AheadOf(t) : \E j \in 1 .. (i - 1) : queue[j] = u
      BY <2>3 DEF AheadOf
    <2> QED
      BY <1>0, <2>1, <2>4 DEF AdmittedBehindAll
  <1>3. ASSUME active' \subseteq active PROVE FALSE
    BY <1>3
  <1>4. ASSUME NEW id \in Ids, Release(id) \/ ReleaseBarrier(id) \/ ReleaseExpired(id) PROVE FALSE
    BY <1>3, <1>4 DEF Release, ReleaseBarrier, ReleaseExpired, EndLease
  <1>5. ASSUME NEW id \in Ids,
               \/ \E r \in Requests : StartWaiting(id, r)
               \/ WakeAndSleep(id) \/ GiveUp(id) \/ Age(id) \/ Touch(id) \/ TimerFires(id)
        PROVE  FALSE
    BY <1>3, <1>5 DEF StartWaiting, WakeAndSleep, GiveUp, Age, Touch, TimerFires
  <1>6. ASSUME NEW w \in Watchers, WaitIdle(w) \/ WaitIdleGivesUp(w) PROVE FALSE
    BY <1>3, <1>6 DEF WaitIdle, WaitIdleGivesUp
  <1>7. CASE UNCHANGED vars
    BY <1>3, <1>7 DEF vars
  <1> QED
    BY <1>1, <1>2, <1>4, <1>5, <1>6, <1>7 DEF Next

(* A switch that waits drains the card: no lease is admitted while a       *)
(* barrier stands ahead of it, whatever the two are for                    *)
(* (selectedTransportLocked, canAcquireLeaseLocked).                       *)
THEOREM BarriersAreNotPassed == Spec => NothingPassesAWaitingBarrier
  <1>1. TypeOK /\ [Next]_vars =>
          [\A t \in active' \ active : \A u \in AheadOf(t) : u.type # "barrier"]_vars
    <2> SUFFICES ASSUME TypeOK, [Next]_vars, NEW t \in active' \ active, NEW u \in AheadOf(t)
                 PROVE  u.type # "barrier"
      OBVIOUS
    <2>0. PICK q \in Seq(Ticket) : \E i \in DOMAIN q :
            Admit(q, i) /\ \A v \in AheadOf(t) : \E j \in 1 .. (i - 1) : q[j] = v
      BY NewLease DEF AdmittedBehindAll
    <2>1. PICK i \in DOMAIN q :
            Admit(q, i) /\ \A v \in AheadOf(t) : \E j \in 1 .. (i - 1) : q[j] = v
      BY <2>0
    <2>2. PICK j \in 1 .. (i - 1) : q[j] = u
      BY <2>1
    <2>3. ~EndsScan(u)
      BY <2>1, <2>2, AdmittedFromScan
    <2> QED
      BY <2>3 DEF EndsScan
  <1> QED
    BY <1>1, TypeCorrect, PTL DEF Spec, NothingPassesAWaitingBarrier

(* Channels in flight and those that come after cannot starve an exclusive *)
(* transport that waits, not even with the priority of AKA or of age       *)
(* (transportWaitGatesQueueLocked).                                        *)
THEOREM ExclusivesAreNotOvertaken == Spec => ExclusiveIsNotOvertaken
  <1>1. TypeOK /\ [Next]_vars =>
          [HasActiveTransport =>
             \A t \in active' \ active : \A u \in AheadOf(t) :
               ~(u.type = "transport" /\ u.scope = "exclusive" /\ ~IsBlockedByActiveBarrier(u.class))]_vars
    <2> SUFFICES ASSUME TypeOK, [Next]_vars, HasActiveTransport,
                        NEW t \in active' \ active, NEW u \in AheadOf(t),
                        u.scope = "exclusive", ~IsBlockedByActiveBarrier(u.class)
                 PROVE  FALSE
      OBVIOUS
    <2>0. PICK q \in Seq(Ticket) : \E i \in DOMAIN q :
            Admit(q, i) /\ \A v \in AheadOf(t) : \E j \in 1 .. (i - 1) : q[j] = v
      BY NewLease DEF AdmittedBehindAll
    <2>1. PICK i \in DOMAIN q :
            Admit(q, i) /\ \A v \in AheadOf(t) : \E j \in 1 .. (i - 1) : q[j] = v
      BY <2>0
    <2>2. PICK j \in 1 .. (i - 1) : q[j] = u
      BY <2>1
    <2>3. ~EndsScan(u)
      BY <2>1, <2>2, AdmittedFromScan
    <2> QED
      BY <2>3 DEF EndsScan, CanAcquireTransportNow, TransportWaitGatesQueue
  <1> QED
    BY <1>1, TypeCorrect, PTL DEF Spec, ExclusiveIsNotOvertaken

-----------------------------------------------------------------------------
(* Every ticket in one place, every lease with its timer.                  *)

Distinct(q) == \A j, k \in DOMAIN q : j # k => q[j].id # q[k].id

LEMMA RemoveIds ==
  ASSUME NEW q \in Seq(Ticket), NEW i \in DOMAIN q, Distinct(q)
  PROVE  Distinct(RemoveTicket(q, i)) /\ IdsOf(RemoveTicket(q, i)) = IdsOf(q) \ {q[i].id}
  <1>1. PICK r \in Seq(Ticket) :
          /\ r = RemoveTicket(q, i) /\ Len(r) = Len(q) - 1
          /\ \A k \in DOMAIN r : r[k] = IF k < i THEN q[k] ELSE q[k + 1]
    BY RemoveTicketFacts
  <1>2. /\ Len(q) \in Nat /\ DOMAIN q = 1 .. Len(q) /\ DOMAIN r = 1 .. (Len(q) - 1) /\ i \in 1 .. Len(q)
    BY <1>1
  <1>3. ASSUME NEW k \in DOMAIN r
        PROVE  \E j \in DOMAIN q : j = (IF k < i THEN k ELSE k + 1) /\ j # i /\ r[k] = q[j]
    BY <1>1, <1>2
  <1>4. Distinct(r)
    <2>1. SUFFICES ASSUME NEW k \in DOMAIN r, NEW m \in DOMAIN r, k # m PROVE r[k].id # r[m].id
      BY DEF Distinct
    <2>2. PICK j \in DOMAIN q : j = (IF k < i THEN k ELSE k + 1) /\ r[k] = q[j]
      BY <1>3
    <2>3. PICK n \in DOMAIN q : n = (IF m < i THEN m ELSE m + 1) /\ r[m] = q[n]
      BY <1>3
    <2>4. j # n
      BY <1>2, <2>1, <2>2, <2>3
    <2> QED
      BY <2>2, <2>3, <2>4 DEF Distinct
  <1>5. IdsOf(r) \subseteq IdsOf(q) \ {q[i].id}
    BY <1>3 DEF IdsOf, Distinct
  <1>6. IdsOf(q) \ {q[i].id} \subseteq IdsOf(r)
    <2>1. SUFFICES ASSUME NEW j \in DOMAIN q, j # i PROVE q[j].id \in IdsOf(r)
      BY DEF IdsOf
    <2>2. CASE j < i
      <3>1. j \in DOMAIN r /\ r[j] = q[j]
        BY <1>1, <1>2, <2>2
      <3> QED
        BY <3>1 DEF IdsOf
    <2>3. CASE j > i
      <3>1. j - 1 \in DOMAIN r /\ r[j - 1] = q[j]
        BY <1>1, <1>2, <2>3
      <3> QED
        BY <3>1 DEF IdsOf
    <2> QED
      BY <1>2, <2>1, <2>2, <2>3
  <1> QED
    BY <1>1, <1>4, <1>5, <1>6

(* The same of a queue that a newcomer has just joined. *)
InOnePlace(q) ==
  /\ Distinct(q)
  /\ \A l, m \in active \cup barriers : l.id = m.id => l = m
  /\ IdsOf(q) \cap IdsIn(active \cup barriers) = {}
  /\ active \cap barriers = {}
  /\ aged \subseteq IdsOf(q)
  /\ armed \cup lapsed \subseteq IdsIn(active)
  /\ IdsIn(active) \subseteq held

TicketsInv == TicketsInOnePlace /\ WatchdogCoversLeases

LEMMA OnePlace == TicketsInOnePlace <=> InOnePlace(queue) /\ awake \subseteq IdsOf(queue)
  BY DEF TicketsInOnePlace, InOnePlace, Distinct

LEMMA AdmitKeepsTickets ==
  ASSUME NEW q \in Seq(Ticket), NEW i \in DOMAIN q, Admit(q, i), InOnePlace(q), WatchdogCoversLeases
  PROVE  TicketsInv'
  <1>1. /\ queue' = RemoveTicket(q, i) /\ awake' = IdsOf(queue') /\ aged' = aged \ {q[i].id}
        /\ UNCHANGED <<fired, lapsed>>
    BY DEF Admit, Signal
  <1>2. Distinct(queue') /\ IdsOf(queue') = IdsOf(q) \ {q[i].id}
    BY <1>1, RemoveIds DEF InOnePlace
  <1>3. q[i].id \in IdsOf(q) /\ q[i].id \notin IdsIn(active \cup barriers)
    BY DEF InOnePlace, IdsOf
  <1>4. \/ /\ barriers' = barriers \cup {q[i]} /\ UNCHANGED <<active, held, armed>>
        \/ /\ active' = active \cup {q[i]} /\ held' = held \cup {q[i].id}
           /\ armed' = armed \cup {q[i].id} /\ UNCHANGED barriers
    BY DEF Admit
  <1>5. active' \cup barriers' = active \cup barriers \cup {q[i]}
    BY <1>4
  <1>6. /\ IdsIn(active' \cup barriers') = IdsIn(active \cup barriers) \cup {q[i].id}
        /\ IdsIn(active') \subseteq IdsIn(active) \cup {q[i].id} /\ IdsIn(active) \subseteq IdsIn(active')
    BY <1>4, <1>5 DEF IdsIn
  <1>7. \A l, m \in active' \cup barriers' : l.id = m.id => l = m
    BY <1>3, <1>5 DEF InOnePlace, IdsIn
  <1>8. active' \cap barriers' = {}
    BY <1>3, <1>4 DEF InOnePlace, IdsIn
  <1>9. WatchdogCoversLeases'
    <2>1. q[i].id \notin lapsed
      BY <1>3 DEF InOnePlace, IdsIn
    <2> QED
      BY <1>1, <1>4, <2>1 DEF WatchdogCoversLeases
  <1>10. /\ IdsOf(queue') \cap IdsIn(active' \cup barriers') = {}
         /\ awake' \cup aged' \subseteq IdsOf(queue')
    BY <1>1, <1>2, <1>3, <1>6 DEF InOnePlace
  <1>11. armed' \cup lapsed' \subseteq IdsIn(active') /\ IdsIn(active') \subseteq held'
    <2>1. CASE active' = active
      BY <1>1, <1>4, <1>6, <2>1 DEF InOnePlace, IdsIn
    <2>2. CASE active' = active \cup {q[i]}
      <3>1. q[i].id \in IdsIn(active')
        BY <2>2 DEF IdsIn
      <3> QED
        BY <1>1, <1>4, <1>6, <3>1 DEF InOnePlace
    <2> QED
      BY <1>4, <2>1, <2>2
  <1> QED
    BY <1>2, <1>7, <1>8, <1>9, <1>10, <1>11 DEF TicketsInv, TicketsInOnePlace, Distinct

(* A lease or a barrier that ends takes its timer along. *)
LEMMA ShrinkKeepsTickets ==
  ASSUME TicketsInv, NEW D, active' = {l \in active : l.id \notin D},
         barriers' \subseteq barriers, armed' = armed \ D, lapsed' = lapsed \ D,
         UNCHANGED <<queue, aged>>, awake' \subseteq IdsOf(queue),
         held \ D \subseteq held', fired \ D \subseteq fired'
  PROVE  TicketsInv'
  <1>1. IdsIn(active') = IdsIn(active) \ D /\ IdsIn(active' \cup barriers') \subseteq IdsIn(active \cup barriers)
    BY DEF IdsIn
  <1>2. IdsOf(queue') = IdsOf(queue)
    BY DEF IdsOf
  <1>3. WatchdogCoversLeases'
    BY DEF TicketsInv, WatchdogCoversLeases
  <1>4. TicketsInOnePlace'
    BY <1>1, <1>2 DEF TicketsInv, TicketsInOnePlace
  <1> QED
    BY <1>3, <1>4 DEF TicketsInv


LEMMA NextKeepsTickets ==
  ASSUME TypeOK, TicketsInv, [Next]_vars
  PROVE  TicketsInv'
  <1>0. StateType /\ queue \in Seq(Ticket) /\ InOnePlace(queue) /\ WatchdogCoversLeases
    BY OnePlace DEF TypeOK, StateType, TicketsInv
  <1>1. ASSUME NEW id \in Ids, NEW r \in Requests, id \notin Referenced
        PROVE  /\ Append(queue, NewTicket(id, r)) \in Seq(Ticket)
               /\ Len(Append(queue, NewTicket(id, r))) \in DOMAIN Append(queue, NewTicket(id, r))
               /\ InOnePlace(Append(queue, NewTicket(id, r)))
               /\ IdsOf(queue) \subseteq IdsOf(Append(queue, NewTicket(id, r)))
    <2>1. PICK q \in Seq(Ticket) :
            /\ q = Append(queue, NewTicket(id, r)) /\ Len(q) = Len(queue) + 1 /\ Len(q) \in DOMAIN q
            /\ q[Len(q)].id = id /\ \A k \in DOMAIN queue : q[k] = queue[k]
      <3>1. NewTicket(id, r).id = id
        BY DEF NewTicket, BarrierTicket, LeaseTicket
      <3>2. PICK q \in Seq(Ticket) :
              /\ q = Append(queue, NewTicket(id, r)) /\ Len(q) = Len(queue) + 1 /\ Len(queue) + 1 \in DOMAIN q
              /\ q[Len(queue) + 1] = NewTicket(id, r) /\ \A k \in DOMAIN queue : q[k] = queue[k]
        BY <1>0, NewcomerQueue
      <3> QED
        BY <3>1, <3>2
    <2>2. DOMAIN q = DOMAIN queue \cup {Len(q)} /\ Len(q) \notin DOMAIN queue
      BY <1>0, <2>1
    <2>3. IdsOf(q) = IdsOf(queue) \cup {id}
      BY <2>1, <2>2 DEF IdsOf
    <2>4. id \notin IdsOf(queue) /\ id \notin IdsIn(active) /\ id \notin IdsIn(barriers)
      BY <1>1 DEF Referenced
    <2>5. id \notin IdsIn(active \cup barriers)
      BY <2>4 DEF IdsIn
    <2>6. Distinct(q)
      BY <1>0, <2>1, <2>2, <2>4 DEF InOnePlace, Distinct, IdsOf
    <2>7. InOnePlace(q)
      BY <1>0, <2>3, <2>5, <2>6 DEF InOnePlace
    <2> QED
      BY <2>1, <2>3, <2>7
  <1>2. ASSUME NEW id \in Ids, NEW r \in Requests, AcquireAtOnce(id, r)
        PROVE  TicketsInv'
    <2>1. PICK q \in Seq(Ticket) : q = Append(queue, NewTicket(id, r)) /\ Len(q) \in DOMAIN q /\ InOnePlace(q)
      BY <1>1, <1>2 DEF AcquireAtOnce
    <2>2. Admit(q, Len(q))
      BY <1>2, <2>1 DEF AcquireAtOnce
    <2> QED
      BY <1>0, <2>1, <2>2, AdmitKeepsTickets
  <1>3. ASSUME NEW id \in Ids, NEW r \in Requests, StartWaiting(id, r)
        PROVE  TicketsInv'
    <2>1. InOnePlace(queue') /\ IdsOf(queue) \subseteq IdsOf(queue')
      BY <1>1, <1>3 DEF StartWaiting
    <2>2. UNCHANGED <<active, barriers, aged, held, armed, fired, lapsed>> /\ awake' = IdsOf(queue)
      BY <1>3 DEF StartWaiting, Signal
    <2>3. TicketsInOnePlace'
      BY <2>1, <2>2 DEF InOnePlace, TicketsInOnePlace, Distinct
    <2>4. WatchdogCoversLeases'
      BY <1>0, <2>2 DEF WatchdogCoversLeases
    <2> QED
      BY <2>3, <2>4 DEF TicketsInv
  <1>4. ASSUME NEW id \in Ids, WakeAndAcquire(id)
        PROVE  TicketsInv'
    <2>1. PICK i \in DOMAIN queue : Admit(queue, i)
      BY <1>4 DEF WakeAndAcquire
    <2> QED
      BY <1>0, <2>1, AdmitKeepsTickets
  <1>5. ASSUME NEW id \in Ids, GiveUp(id)
        PROVE  TicketsInv'
    <2>1. PICK i \in DOMAIN queue : queue[i].id = id /\ queue' = RemoveTicket(queue, i)
      BY <1>5 DEF GiveUp
    <2>2. Distinct(queue') /\ IdsOf(queue') = IdsOf(queue) \ {id}
      BY <1>0, <2>1, RemoveIds DEF InOnePlace
    <2>3. /\ UNCHANGED <<active, barriers, held, armed, fired, lapsed>>
          /\ awake' = IdsOf(queue') /\ aged' = aged \ {id}
      BY <1>5 DEF GiveUp, Signal
    <2>4. TicketsInOnePlace'
      BY <1>0, <2>2, <2>3 DEF InOnePlace, TicketsInOnePlace, Distinct
    <2>5. WatchdogCoversLeases'
      BY <1>0, <2>3 DEF WatchdogCoversLeases
    <2> QED
      BY <2>4, <2>5 DEF TicketsInv
  <1>6. ASSUME NEW id \in Ids, EndLease(id), UNCHANGED <<queue, barriers, aged>>,
               held' \in {held, held \ {id}}, fired' \in {fired, fired \ {id}}
        PROVE  TicketsInv'
    <2>1. /\ active' = {l \in active : l.id \notin {id}} /\ armed' = armed \ {id} /\ lapsed' = lapsed \ {id}
          /\ awake' = IdsOf(queue)
      BY <1>6 DEF EndLease, Signal
    <2> QED
      BY <1>6, <2>1, ShrinkKeepsTickets
  <1>7. ASSUME NEW id \in Ids, Release(id)
        PROVE  TicketsInv'
    <2>1. CASE id \in IdsIn(active)
      BY <1>6, <1>7, <2>1 DEF Release
    <2>2. CASE id \notin IdsIn(active)
      BY <1>7, <2>2 DEF Release, TicketsInv, TicketsInOnePlace, WatchdogCoversLeases, IdsIn, IdsOf
    <2> QED
      BY <2>1, <2>2
  <1>8. ASSUME NEW id \in Ids, ReleaseBarrier(id)
        PROVE  TicketsInv'
    <2>1. /\ active' = {l \in active : l.id \notin {}} /\ armed' = armed \ {} /\ lapsed' = lapsed \ {}
          /\ barriers' \subseteq barriers /\ awake' = IdsOf(queue)
          /\ UNCHANGED <<queue, aged, held, fired>>
      BY <1>8 DEF ReleaseBarrier, Signal
    <2> QED
      BY <2>1, ShrinkKeepsTickets
  <1>9. ASSUME NEW id \in Ids, ReleaseExpired(id)
        PROVE  TicketsInv'
    <2>1. CASE EndLease(id)
      BY <1>6, <1>9, <2>1 DEF ReleaseExpired
    <2>2. CASE /\ \/ id \notin IdsIn(active) /\ armed' = armed
                  \/ id \in IdsIn(active) \ lapsed /\ armed' = armed \cup {id}
               /\ UNCHANGED <<active, lapsed, awake>>
      BY <1>9, <2>2 DEF ReleaseExpired, TicketsInv, TicketsInOnePlace, WatchdogCoversLeases, IdsIn, IdsOf
    <2> QED
      BY <1>9, <2>1, <2>2 DEF ReleaseExpired
  <1>10. ASSUME NEW id \in Ids, Touch(id) \/ TimerFires(id)
         PROVE  TicketsInv'
    BY <1>10 DEF Touch, TimerFires, TicketsInv, TicketsInOnePlace, WatchdogCoversLeases, IdsIn, IdsOf
  <1>11. ASSUME NEW id \in Ids, WakeAndSleep(id) \/ Age(id)
         PROVE  TicketsInv'
    BY <1>11 DEF WakeAndSleep, Age, TicketsInv, TicketsInOnePlace, WatchdogCoversLeases, IdsIn, IdsOf
  <1>12. ASSUME NEW w \in Watchers, WaitIdle(w) \/ WaitIdleGivesUp(w)
         PROVE  TicketsInv'
    BY <1>12 DEF WaitIdle, WaitIdleGivesUp, TicketsInv, TicketsInOnePlace, WatchdogCoversLeases, IdsIn, IdsOf
  <1>13. CASE UNCHANGED vars
    BY <1>13 DEF vars, TicketsInv, TicketsInOnePlace, WatchdogCoversLeases, IdsIn, IdsOf
  <1> QED
    BY <1>2, <1>3, <1>4, <1>5, <1>7, <1>8, <1>9, <1>10, <1>11, <1>12, <1>13 DEF Next

-----------------------------------------------------------------------------
(* The counters, at any width.                                             *)

LEMMA Divide ==
  ASSUME NEW M \in Nat \ {0}, NEW x \in Int
  PROVE  /\ x % M \in 0 .. (M - 1) /\ x \div M \in Int /\ x = M * (x \div M) + (x % M)
OBVIOUS

(* A multiple of M that is smaller than M is zero. *)
LEMMA SmallMultiple ==
  ASSUME NEW M \in Nat \ {0}, NEW k \in Int, NEW d \in Int, d = M * k, -M < d, d < M
  PROVE  k = 0
<1>1. CASE k >= 1
  <2>1. M * k >= M
    BY <1>1
  <2> QED BY <2>1
<1>2. CASE k <= -1
  <2>1. M * k <= -M
    BY <1>2
  <2> QED BY <2>1
<1> QED BY <1>1, <1>2

(* The remainder is unique. *)
LEMMA Remainder ==
  ASSUME NEW M \in Nat \ {0}, NEW r \in 0 .. (M - 1), NEW q \in Int, NEW x \in Int, x = M * q + r
  PROVE  x % M = r
<1>1. PICK p \in Int, s \in 0 .. (M - 1) : s = x % M /\ x = M * p + s
  BY Divide
<1>2. PICK k \in Int : k = p - q
  OBVIOUS
<1>3. M * p = M * q + M * k
  BY <1>2
<1>5. M * p \in Int /\ M * q \in Int /\ M * k \in Int
  OBVIOUS
<1>4. r - s = M * k
  BY <1>1, <1>3, <1>5
<1>6. k = 0
  BY <1>4, SmallMultiple
<1> QED BY <1>1, <1>4, <1>6

(* A counter that has wrapped counts on like one that has not. *)
LEMMA ModAdd ==
  ASSUME NEW M \in Nat \ {0}, NEW x \in Int, NEW y \in Int
  PROVE  ((x % M) + y) % M = (x + y) % M
<1>1. PICK p \in Int, s \in 0 .. (M - 1) : s = x % M /\ x = M * p + s
  BY Divide
<1>2. PICK z \in Int : z = s + y
  OBVIOUS
<1>3. PICK q \in Int, r \in 0 .. (M - 1) : r = z % M /\ z = M * q + r
  BY Divide
<1>4. PICK k \in Int : k = p + q
  OBVIOUS
<1>5. M * k = M * p + M * q /\ M * p \in Int /\ M * q \in Int /\ M * k \in Int
  BY <1>4
<1>6. PICK w \in Int : w = x + y
  OBVIOUS
<1>7. w = M * k + r
  <2>1. x = M * p + s /\ z = M * q + r
    BY <1>1, <1>3
  <2>2. PICK a \in Int, b \in Int, c \in Int : a = M * p /\ b = M * q /\ c = M * k
    BY <1>5
  <2>3. c = a + b /\ x = a + s /\ z = b + r
    BY <1>5, <2>1, <2>2
  <2>4. w = c + r
    BY <1>2, <1>6, <2>3
  <2> QED BY <2>2, <2>4
<1>8. w % M = r
  BY <1>7, Remainder
<1>9. (s + y) % M = r
  BY <1>2, <1>3
<1>10. (x + y) % M = r
  BY <1>6, <1>8
<1>11. ((x % M) + y) % M = (s + y) % M
  BY <1>1, Zenon
<1> QED BY <1>9, <1>10, <1>11, Zenon

(* A request is one of those granted, timed out or queued. *)
AddUp(M, w, a, t, n) == w = (a + t + n) % M

LEMMA CountsMove ==
  ASSUME NEW M \in Nat \ {0}, NEW w \in 0 .. (M - 1), NEW a \in 0 .. (M - 1), NEW t \in 0 .. (M - 1),
         NEW n \in Nat, AddUp(M, w, a, t, n)
  PROVE  /\ AddUp(M, (w + 1) % M, (a + 1) % M, t, n)
         /\ AddUp(M, (w + 1) % M, a, t, n + 1)
         /\ AddUp(M, w, (a + 1) % M, t, n - 1)
         /\ AddUp(M, w, a, (t + 1) % M, n - 1)
<1> USE DEF AddUp
<1>1. PICK x \in Int : x = a + t + n
  OBVIOUS
<1>2. (w + 1) % M = (x + 1) % M
  <2>1. 1 \in Int /\ w = x % M
    BY <1>1
  <2>2. ((x % M) + 1) % M = (x + 1) % M
    BY <2>1, ModAdd, Zenon
  <2> QED BY <2>1, <2>2, Zenon
<1>3. ASSUME NEW u \in Int
      PROVE  (((a + 1) % M) + u) % M = ((a + 1) + u) % M /\ (((t + 1) % M) + u) % M = ((t + 1) + u) % M
  <2>1. a + 1 \in Int /\ t + 1 \in Int
    OBVIOUS
  <2> QED BY <2>1, ModAdd, Zenon
<1>4. (a + 1) % M \in 0 .. (M - 1) /\ (t + 1) % M \in 0 .. (M - 1)
  BY Divide
<1>5. PICK c \in 0 .. (M - 1), d \in 0 .. (M - 1) : c = (a + 1) % M /\ d = (t + 1) % M
  BY <1>4
<1>6. \A u \in Int : (c + u) % M = ((a + 1) + u) % M /\ (d + u) % M = ((t + 1) + u) % M
  BY <1>3, <1>5
<1>7. (c + t + n) % M = (x + 1) % M
  <2>1. c + t + n = c + (t + n) /\ (a + 1) + (t + n) = x + 1 /\ t + n \in Int
    BY <1>1
  <2> QED BY <1>6, <2>1
<1>8. (c + t + (n - 1)) % M = x % M
  <2>1. c + t + (n - 1) = c + (t + n - 1) /\ (a + 1) + (t + n - 1) = x /\ t + n - 1 \in Int
    BY <1>1
  <2> QED BY <1>6, <2>1
<1>9. (a + d + (n - 1)) % M = x % M
  <2>1. a + d + (n - 1) = d + (a + n - 1) /\ (t + 1) + (a + n - 1) = x /\ a + n - 1 \in Int
    BY <1>1
  <2> QED BY <1>6, <2>1
<1>10. a + t + (n + 1) = x + 1
  BY <1>1
<1> QED BY <1>1, <1>2, <1>5, <1>7, <1>8, <1>9, <1>10

LEMMA NextKeepsCounts ==
  ASSUME TypeOK, RequestsAccountedFor, [Next]_vars
  PROVE  RequestsAccountedFor'
  <1>0. /\ StateType /\ queue \in Seq(Ticket) /\ Len(queue) \in Nat /\ CounterModulus \in Nat \ {0}
        /\ DOMAIN stats = {"waitRequests", "acquires", "waitTimeouts", "forcedReleases"}
        /\ \A c \in DOMAIN stats : stats[c] \in 0 .. (CounterModulus - 1)
    BY ConstantsAssumption DEF TypeOK, StateType
  <1>1. PICK w \in 0 .. (CounterModulus - 1), a \in 0 .. (CounterModulus - 1),
             t \in 0 .. (CounterModulus - 1), n \in Nat :
          /\ w = stats["waitRequests"] /\ a = stats["acquires"] /\ t = stats["waitTimeouts"]
          /\ n = Len(queue) /\ w = (a + t + n) % CounterModulus
    BY <1>0 DEF RequestsAccountedFor, AddUp
  <1>2. /\ AddUp(CounterModulus, (w + 1) % CounterModulus, (a + 1) % CounterModulus, t, n)
        /\ AddUp(CounterModulus, (w + 1) % CounterModulus, a, t, n + 1)
        /\ AddUp(CounterModulus, w, (a + 1) % CounterModulus, t, n - 1)
        /\ AddUp(CounterModulus, w, a, (t + 1) % CounterModulus, n - 1)
    <2>1. AddUp(CounterModulus, w, a, t, n) /\ CounterModulus \in Nat \ {0}
      BY <1>0, <1>1 DEF AddUp
    <2> QED
      BY <2>1, CountsMove
  <1>3. ASSUME stats'["waitRequests"] = w, stats'["acquires"] = a, stats'["waitTimeouts"] = t,
               Len(queue') = n
        PROVE  RequestsAccountedFor'
    BY <1>1, <1>3 DEF RequestsAccountedFor, AddUp
  <1>4. ASSUME NEW id \in Ids, NEW r \in Requests, AcquireAtOnce(id, r)
        PROVE  RequestsAccountedFor'
    <2>1. PICK q \in Seq(Ticket) : /\ q = Append(queue, NewTicket(id, r)) /\ Len(q) = n + 1
                                   /\ Len(q) \in DOMAIN q
      <3>1. PICK q \in Seq(Ticket) : /\ q = Append(queue, NewTicket(id, r))
                                     /\ Len(q) = Len(queue) + 1 /\ Len(queue) + 1 \in DOMAIN q
        BY <1>0, NewcomerQueue
      <3> QED
        BY <1>1, <3>1
    <2>2. queue' = RemoveTicket(q, Len(q))
      BY <1>4, <2>1 DEF AcquireAtOnce, Admit
    <2>3. Len(queue') = n
      <3>1. Len(queue') = Len(q) - 1
        BY <2>1, <2>2, RemoveTicketFacts
      <3> QED
        BY <2>1, <3>1
    <2>4. /\ stats'["waitRequests"] = (w + 1) % CounterModulus
          /\ stats'["acquires"] = (a + 1) % CounterModulus /\ stats'["waitTimeouts"] = t
      BY <1>0, <1>1, <1>4 DEF AcquireAtOnce, Count
    <2> QED
      BY <1>2, <2>3, <2>4 DEF RequestsAccountedFor, AddUp
  <1>5. ASSUME NEW id \in Ids, NEW r \in Requests, StartWaiting(id, r)
        PROVE  RequestsAccountedFor'
    <2>1. Len(queue') = n + 1
      BY <1>0, <1>1, <1>5, NewcomerQueue DEF StartWaiting
    <2>2. /\ stats'["waitRequests"] = (w + 1) % CounterModulus
          /\ stats'["acquires"] = a /\ stats'["waitTimeouts"] = t
      BY <1>0, <1>1, <1>5 DEF StartWaiting, Count
    <2> QED
      BY <1>2, <2>1, <2>2 DEF RequestsAccountedFor, AddUp
  <1>6. ASSUME NEW i \in DOMAIN queue, queue' = RemoveTicket(queue, i)
        PROVE  Len(queue') = n - 1
    BY <1>0, <1>1, <1>6, RemoveTicketFacts
  <1>7. ASSUME NEW id \in Ids, WakeAndAcquire(id)
        PROVE  RequestsAccountedFor'
    <2>1. Len(queue') = n - 1
      BY <1>6, <1>7 DEF WakeAndAcquire, Admit
    <2>2. /\ stats'["waitRequests"] = w
          /\ stats'["acquires"] = (a + 1) % CounterModulus /\ stats'["waitTimeouts"] = t
      BY <1>0, <1>1, <1>7 DEF WakeAndAcquire, Count
    <2> QED
      BY <1>2, <2>1, <2>2 DEF RequestsAccountedFor, AddUp
  <1>8. ASSUME NEW id \in Ids, GiveUp(id)
        PROVE  RequestsAccountedFor'
    <2>1. Len(queue') = n - 1
      BY <1>6, <1>8 DEF GiveUp
    <2>2. /\ stats'["waitRequests"] = w
          /\ stats'["acquires"] = a /\ stats'["waitTimeouts"] = (t + 1) % CounterModulus
      BY <1>0, <1>1, <1>8 DEF GiveUp, Count
    <2> QED
      BY <1>2, <2>1, <2>2 DEF RequestsAccountedFor, AddUp
  <1>9. ASSUME NEW id \in Ids, ReleaseExpired(id)
        PROVE  RequestsAccountedFor'
    <2>1. CASE Count({"forcedReleases"})
      BY <1>0, <1>1, <1>3, <1>9, <2>1 DEF ReleaseExpired, Count
    <2>2. CASE UNCHANGED stats
      BY <1>1, <1>3, <1>9, <2>2 DEF ReleaseExpired
    <2> QED
      BY <1>9, <2>1, <2>2 DEF ReleaseExpired
  <1>10. ASSUME NEW id \in Ids,
                \/ WakeAndSleep(id) \/ Age(id) \/ Release(id) \/ ReleaseBarrier(id)
                \/ Touch(id) \/ TimerFires(id)
         PROVE  RequestsAccountedFor'
    BY <1>1, <1>3, <1>10 DEF WakeAndSleep, Age, Release, ReleaseBarrier, Touch, TimerFires
  <1>11. ASSUME NEW v \in Watchers, WaitIdle(v) \/ WaitIdleGivesUp(v)
         PROVE  RequestsAccountedFor'
    BY <1>1, <1>3, <1>11 DEF WaitIdle, WaitIdleGivesUp
  <1>12. CASE UNCHANGED vars
    BY <1>1, <1>3, <1>12 DEF vars
  <1> QED
    BY <1>4, <1>5, <1>7, <1>8, <1>9, <1>10, <1>11, <1>12 DEF Next

(* Whichever way a ticket ends, it is in one place at a time, a lease has  *)
(* its timer or the timer's callback, and every request is counted once:   *)
(* for any number of tickets and any width of the counters                 *)
(* (removeTicketLocked, removeActiveLocked, releaseExpired, Stats).        *)
THEOREM TicketsAccounted == Spec => []TicketsAccountedFor
  <1>1. Init => TicketsInv /\ RequestsAccountedFor
    <2> SUFFICES ASSUME Init PROVE TicketsInv /\ RequestsAccountedFor
      OBVIOUS
    <2>1. TicketsInv
      BY DEF Init, TicketsInv, TicketsInOnePlace, WatchdogCoversLeases, IdsIn, IdsOf
    <2>2. (0 + 0 + 0) % CounterModulus = 0
      <3>1. 0 = CounterModulus * 0 + 0 /\ 0 \in 0 .. (CounterModulus - 1)
        BY ConstantsAssumption
      <3> QED
        BY <3>1, ConstantsAssumption, Remainder
    <2> QED
      BY <2>1, <2>2 DEF Init, RequestsAccountedFor
  <1>2. TypeOK /\ TicketsInv /\ RequestsAccountedFor /\ [Next]_vars
          => TicketsInv' /\ RequestsAccountedFor'
    BY NextKeepsTickets, NextKeepsCounts
  <1>3. TicketsInv /\ RequestsAccountedFor => TicketsAccountedFor
    BY DEF TicketsInv, TicketsAccountedFor
  <1> QED
    BY <1>1, <1>2, <1>3, TypeCorrect, PTL DEF Spec


-----------------------------------------------------------------------------
(* Nobody sleeps beside what it waits for.                                 *)

(* The choice of selectedTransportLocked among the eligible positions E of *)
(* q is that of arrival and AKA priority unless ageing decides.            *)
AgedIn(q, E, A) == {j \in E : q[j].class # "USIMAKA" /\ q[j].id \in A}
AKAIn(q, E) == {j \in E : q[j].class = "USIMAKA"}

LEMMA ChoiceWithoutAge ==
  ASSUME NEW q, NEW E \in SUBSET Nat, NEW A,
         ~\E i, j \in E : /\ q[i].class # "USIMAKA" /\ q[i].id \in A
                          /\ q[j].class = "USIMAKA" \/ j < i,
         NEW i \in Nat
  PROVE  FirstIn(IF AgedIn(q, E, A) # {} THEN AgedIn(q, E, A)
                 ELSE IF AKAIn(q, E) # {} THEN AKAIn(q, E) ELSE E, i)
           <=> FirstIn(IF AKAIn(q, E) # {} THEN AKAIn(q, E) ELSE E, i)
  <1>1. CASE AgedIn(q, E, A) = {}
    BY <1>1
  <1>2. CASE AgedIn(q, E, A) # {}
    <2>1. PICK a \in AgedIn(q, E, A) : TRUE
      BY <1>2
    <2>2. a \in E /\ \A j \in E : q[j].class # "USIMAKA" /\ a <= j
      BY <2>1 DEF AgedIn
    <2>3. AKAIn(q, E) = {}
      BY <2>2 DEF AKAIn
    <2>4. FirstIn(AgedIn(q, E, A), i) <=> i = a
      BY <2>1, <2>2 DEF FirstIn, AgedIn
    <2>5. FirstIn(E, i) <=> i = a
      <3>1. a \in Nat /\ \A j \in E : j \in Nat
        BY <2>2
      <3>2. FirstIn(E, i) => i <= a /\ a <= i
        BY <2>2 DEF FirstIn
      <3> QED
        BY <2>2, <3>1, <3>2 DEF FirstIn
    <2> QED
      BY <1>2, <2>3, <2>4, <2>5
  <1> QED
    BY <1>1, <1>2

LEMMA Choice ==
  ASSUME NEW q, NEW i
  PROVE  SelectedTransport(q, i)
           <=> FirstIn(IF AgedIn(q, Eligible(q), aged) # {} THEN AgedIn(q, Eligible(q), aged)
                       ELSE IF AKAIn(q, Eligible(q)) # {} THEN AKAIn(q, Eligible(q)) ELSE Eligible(q), i)
  BY DEF SelectedTransport, AgedIn, AKAIn

(* Between two signals nothing is read that changes but the ages. *)
LEMMA SameScan ==
  ASSUME UNCHANGED <<queue, active, barriers>>
  PROVE  /\ Eligible(queue)' = Eligible(queue)
         /\ \A i \in DOMAIN queue :
              (SelectedTransport(queue, i)' <=> SelectedTransport(queue, i)) =>
                (CanAcquire(queue, i)' <=> CanAcquire(queue, i))
         /\ IsIdle(queue)' <=> IsIdle(queue)
  <1>1. Eligible(queue)' = Eligible(queue)
    BY DEF Eligible, EndsScan, IsBlockedByActiveBarrier, CanAcquireTransportNow, TransportWaitGatesQueue,
           HasActiveTransport, HasActiveExclusiveTransport, QMILimitReached, QMITransports, OfType
  <1>2. ASSUME NEW i \in DOMAIN queue, SelectedTransport(queue, i)' <=> SelectedTransport(queue, i)
        PROVE  CanAcquire(queue, i)' <=> CanAcquire(queue, i)
    <2>1. CanAcquireLease(queue, i)' <=> CanAcquireLease(queue, i)
      BY <1>2 DEF CanAcquireLease, IsBlockedByActiveBarrier, HasPendingBarrierAhead, HasActiveTransport, OfType
    <2>2. CanAcquireBarrier(queue, i)' <=> CanAcquireBarrier(queue, i)
      BY DEF CanAcquireBarrier
    <2> QED
      BY <2>1, <2>2 DEF CanAcquire
  <1>3. IsIdle(queue)' <=> IsIdle(queue)
    BY DEF IsIdle
  <1> QED
    BY <1>1, <1>2, <1>3

SleepersWaitRightly ==
  AgeingDecides \/ \A i \in DOMAIN queue : queue[i].id \notin awake => ~CanAcquire(queue, i)

(* Ageing may only come to decide; while it does not, it changes nothing.  *)
LEMMA AgeKeepsChoice ==
  ASSUME TypeOK, SleepersWaitRightly, UNCHANGED <<queue, active, barriers>>, aged \subseteq aged',
         \A i \in DOMAIN queue : queue[i].id \in awake \ awake' => ~CanAcquire(queue, i)
  PROVE  SleepersWaitRightly'
  <1>1. /\ Eligible(queue)' = Eligible(queue)
        /\ \A i \in DOMAIN queue :
             (SelectedTransport(queue, i)' <=> SelectedTransport(queue, i)) =>
               (CanAcquire(queue, i)' <=> CanAcquire(queue, i))
    BY SameScan
  <1>2. AgeingDecides' <=>
          \E i, j \in Eligible(queue) :
            /\ queue[i].class # "USIMAKA" /\ queue[i].id \in aged'
            /\ queue[j].class = "USIMAKA" \/ j < i
    BY <1>1 DEF AgeingDecides
  <1>3. CASE AgeingDecides
    BY <1>2, <1>3 DEF AgeingDecides, SleepersWaitRightly
  <1>4. CASE ~AgeingDecides /\ ~AgeingDecides'
    <2>1. PICK E \in SUBSET Nat : E = Eligible(queue)
      <3>1. Eligible(queue) \subseteq DOMAIN queue
        BY DEF Eligible
      <3>2. DOMAIN queue \subseteq Nat
        BY DEF TypeOK
      <3> QED
        BY <3>1, <3>2
    <2>2. ASSUME NEW i \in DOMAIN queue
          PROVE  SelectedTransport(queue, i)' <=> SelectedTransport(queue, i)
      <3>1. i \in Nat
        BY DEF TypeOK
      <3>2. SelectedTransport(queue, i) <=> FirstIn(IF AKAIn(queue, E) # {} THEN AKAIn(queue, E) ELSE E, i)
        <4>1. ~\E a, b \in E : /\ queue[a].class # "USIMAKA" /\ queue[a].id \in aged
                               /\ queue[b].class = "USIMAKA" \/ b < a
          BY <1>4, <2>1 DEF AgeingDecides
        <4> QED
          BY <2>1, <3>1, <4>1, Choice, ChoiceWithoutAge
      <3>3. SelectedTransport(queue, i)' <=> FirstIn(IF AKAIn(queue, E) # {} THEN AKAIn(queue, E) ELSE E, i)
        <4>1. ~\E a, b \in E : /\ queue[a].class # "USIMAKA" /\ queue[a].id \in aged'
                               /\ queue[b].class = "USIMAKA" \/ b < a
          BY <1>2, <1>4, <2>1
        <4>2. SelectedTransport(queue, i)'
                <=> FirstIn(IF AgedIn(queue, E, aged') # {} THEN AgedIn(queue, E, aged')
                            ELSE IF AKAIn(queue, E) # {} THEN AKAIn(queue, E) ELSE E, i)
          BY <1>1, <2>1 DEF SelectedTransport, AgedIn, AKAIn
        <4> QED
          BY <3>1, <4>1, <4>2, ChoiceWithoutAge
      <3> QED
        BY <3>2, <3>3
    <2>3. \A i \in DOMAIN queue : CanAcquire(queue, i)' <=> CanAcquire(queue, i)
      BY <1>1, <2>2
    <2> QED
      BY <1>4, <2>3 DEF SleepersWaitRightly
  <1>5. CASE AgeingDecides'
    BY <1>5 DEF SleepersWaitRightly
  <1> QED
    BY <1>3, <1>4, <1>5


(* A step that signals everybody who is left in the queue leaves nobody    *)
(* asleep, but for the newcomer that has just looked for itself.           *)
LEMMA SignalWakes ==
  ASSUME Signal(IdsOf(queue')), idleWait \in [Watchers -> {"out", "asleep", "awake"}]
  PROVE  SleepersWaitRightly' /\ NobodySleepsThroughIdle'
  <1>1. \A i \in DOMAIN queue' : queue'[i].id \in awake'
    BY DEF Signal, IdsOf
  <1>2. \A w \in Watchers : idleWait'[w] # "asleep"
    BY DEF Signal
  <1> QED
    BY <1>1, <1>2 DEF SleepersWaitRightly, NobodySleepsThroughIdle

LEMMA NextKeepsWaiters ==
  ASSUME TypeOK, TicketsInv, SleepersWaitRightly, NobodySleepsThroughIdle, [Next]_vars
  PROVE  SleepersWaitRightly' /\ NobodySleepsThroughIdle'
  <1>0. /\ StateType /\ queue \in Seq(Ticket)
        /\ idleWait \in [Watchers -> {"out", "asleep", "awake"}]
    BY DEF TypeOK, StateType
  <1>1. ASSUME NEW q, NEW i, Admit(q, i)
        PROVE  SleepersWaitRightly' /\ NobodySleepsThroughIdle'
    BY <1>0, <1>1, SignalWakes DEF Admit
  <1>2. ASSUME NEW id \in Ids, NEW r \in Requests, AcquireAtOnce(id, r)
        PROVE  SleepersWaitRightly' /\ NobodySleepsThroughIdle'
    BY <1>1, <1>2 DEF AcquireAtOnce
  <1>3. ASSUME NEW id \in Ids, WakeAndAcquire(id)
        PROVE  SleepersWaitRightly' /\ NobodySleepsThroughIdle'
    BY <1>1, <1>3 DEF WakeAndAcquire
  <1>4. ASSUME NEW id \in Ids, GiveUp(id)
        PROVE  SleepersWaitRightly' /\ NobodySleepsThroughIdle'
    BY <1>0, <1>4, SignalWakes DEF GiveUp
  <1>5. ASSUME NEW id \in Ids, NEW r \in Requests, StartWaiting(id, r)
        PROVE  SleepersWaitRightly' /\ NobodySleepsThroughIdle'
    <2>1. PICK q \in Seq(Ticket) :
            /\ q = Append(queue, NewTicket(id, r)) /\ Len(q) = Len(queue) + 1
            /\ \A k \in DOMAIN queue : q[k] = queue[k]
      BY <1>0, NewcomerQueue
    <2>2. queue' = q /\ awake' = IdsOf(queue) /\ ~CanAcquire(q, Len(q))
      BY <1>5, <2>1 DEF StartWaiting, Signal
    <2>3. CanAcquire(q, Len(q))' <=> CanAcquire(q, Len(q))
      <3>1. UNCHANGED <<active, barriers, aged>>
        BY <1>5 DEF StartWaiting
      <3>2. Eligible(q)' = Eligible(q)
        BY <3>1 DEF Eligible, EndsScan, IsBlockedByActiveBarrier, CanAcquireTransportNow, TransportWaitGatesQueue,
                    HasActiveTransport, HasActiveExclusiveTransport, QMILimitReached, QMITransports, OfType
      <3>3. SelectedTransport(q, Len(q))' <=> SelectedTransport(q, Len(q))
        BY <3>1, <3>2 DEF SelectedTransport
      <3>4. CanAcquireLease(q, Len(q))' <=> CanAcquireLease(q, Len(q))
        BY <3>1, <3>3 DEF CanAcquireLease, IsBlockedByActiveBarrier, HasPendingBarrierAhead, HasActiveTransport, OfType
      <3>5. CanAcquireBarrier(q, Len(q))' <=> CanAcquireBarrier(q, Len(q))
        BY <3>1 DEF CanAcquireBarrier
      <3> QED
        BY <3>4, <3>5 DEF CanAcquire
    <2>4. ASSUME NEW i \in DOMAIN queue', queue'[i].id \notin awake' PROVE ~CanAcquire(queue, i)'
      <3>1. i \notin DOMAIN queue
        BY <2>1, <2>2, <2>4 DEF IdsOf
      <3>2. i = Len(q)
        BY <1>0, <2>1, <2>2, <2>4, <3>1
      <3> QED
        BY <2>2, <2>3, <3>2
    <2>5. \A w \in Watchers : idleWait'[w] # "asleep"
      BY <1>0, <1>5 DEF StartWaiting, Signal
    <2> QED
      BY <2>4, <2>5 DEF SleepersWaitRightly, NobodySleepsThroughIdle
  <1>6. ASSUME NEW id \in Ids, EndLease(id) \/ ReleaseBarrier(id), UNCHANGED queue
        PROVE  SleepersWaitRightly' /\ NobodySleepsThroughIdle'
    <2>1. Signal(IdsOf(queue')) 
      BY <1>6 DEF EndLease, ReleaseBarrier
    <2> QED
      BY <1>0, <2>1, SignalWakes
  <1>7. ASSUME UNCHANGED <<queue, active, barriers>>, aged \subseteq aged',
               \A i \in DOMAIN queue : queue[i].id \in awake \ awake' => ~CanAcquire(queue, i),
               \A w \in Watchers : idleWait'[w] = "asleep" => idleWait[w] = "asleep" \/ ~IsIdle(queue)
        PROVE  SleepersWaitRightly' /\ NobodySleepsThroughIdle'
    <2>1. SleepersWaitRightly'
      BY <1>7, AgeKeepsChoice
    <2>2. IsIdle(queue)' <=> IsIdle(queue)
      BY <1>7, SameScan
    <2> QED
      BY <1>7, <2>1, <2>2 DEF NobodySleepsThroughIdle
  <1>8. ASSUME NEW id \in Ids, WakeAndSleep(id)
        PROVE  SleepersWaitRightly' /\ NobodySleepsThroughIdle'
    <2>1. PICK i \in DOMAIN queue : queue[i].id = id /\ ~CanAcquire(queue, i)
      BY <1>8 DEF WakeAndSleep
    <2>2. \A j \in DOMAIN queue : queue[j].id \in awake \ awake' => j = i
      BY <1>8, <2>1 DEF WakeAndSleep, TicketsInv, TicketsInOnePlace
    <2> QED
      BY <1>7, <1>8, <2>1, <2>2 DEF WakeAndSleep
  <1>9. ASSUME NEW id \in Ids, Release(id)
        PROVE  SleepersWaitRightly' /\ NobodySleepsThroughIdle'
    <2>1. CASE id \in IdsIn(active)
      BY <1>6, <1>9, <2>1 DEF Release
    <2>2. CASE id \notin IdsIn(active)
      BY <1>7, <1>9, <2>2 DEF Release
    <2> QED
      BY <2>1, <2>2
  <1>10. ASSUME NEW id \in Ids, ReleaseExpired(id)
         PROVE  SleepersWaitRightly' /\ NobodySleepsThroughIdle'
    <2>1. CASE EndLease(id)
      BY <1>6, <1>10, <2>1 DEF ReleaseExpired
    <2>2. CASE UNCHANGED <<active, awake, idleWait>>
      BY <1>7, <1>10, <2>2 DEF ReleaseExpired
    <2> QED
      BY <1>10, <2>1, <2>2 DEF ReleaseExpired
  <1>11. ASSUME NEW id \in Ids, ReleaseBarrier(id)
         PROVE  SleepersWaitRightly' /\ NobodySleepsThroughIdle'
    BY <1>6, <1>11 DEF ReleaseBarrier
  <1>12. ASSUME NEW id \in Ids, Age(id) \/ Touch(id) \/ TimerFires(id)
         PROVE  SleepersWaitRightly' /\ NobodySleepsThroughIdle'
    BY <1>7, <1>12 DEF Age, Touch, TimerFires
  <1>13. ASSUME NEW w \in Watchers, WaitIdle(w) \/ WaitIdleGivesUp(w)
         PROVE  SleepersWaitRightly' /\ NobodySleepsThroughIdle'
    BY <1>0, <1>7, <1>13 DEF WaitIdle, WaitIdleGivesUp
  <1>14. CASE UNCHANGED vars
    BY <1>7, <1>14 DEF vars
  <1> QED
    BY <1>2, <1>3, <1>4, <1>5, <1>8, <1>9, <1>10, <1>11, <1>12, <1>13, <1>14 DEF Next

(* No lost wake-up: a goroutine asleep in the queue could not be admitted, *)
(* unless its age has come to decide, and none sleeps in WaitIdle beside   *)
(* an idle arbiter, whoever comes, gives up, ends or is evicted between    *)
(* its look at the queue and its sleep (acquire, signalLocked, WaitIdle).  *)
THEOREM NobodySleepsOn == Spec => []NobodySleepsInVain
  <1>1. Init => TicketsInv /\ SleepersWaitRightly /\ NobodySleepsThroughIdle
    BY DEF Init, TicketsInv, TicketsInOnePlace, WatchdogCoversLeases, IdsIn, IdsOf,
           SleepersWaitRightly, NobodySleepsThroughIdle
  <1>2. TypeOK /\ TicketsInv /\ SleepersWaitRightly /\ NobodySleepsThroughIdle /\ [Next]_vars
          => TicketsInv' /\ SleepersWaitRightly' /\ NobodySleepsThroughIdle'
    BY NextKeepsTickets, NextKeepsWaiters
  <1>3. SleepersWaitRightly /\ NobodySleepsThroughIdle => NobodySleepsInVain
    BY DEF SleepersWaitRightly, NobodySleepsInVain, NoLostWakeup
  <1> QED
    BY <1>1, <1>2, <1>3, TypeCorrect, PTL DEF Spec

=============================================================================
