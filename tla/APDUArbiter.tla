---------------------------- MODULE APDUArbiter ----------------------------
(***************************************************************************)
(* internal/apduarbiter/arbiter.go: the lock manager in front of the one   *)
(* SIM/eUICC card of a modem.  Goroutines ask for a lease (a session, a    *)
(* one-shot, or the transport of a single APDU) or for a barrier (profile  *)
(* switch); a ticket waits in one queue, and every change of state wakes   *)
(* every waiter by closing notifyC.  A watchdog timer takes a lease back   *)
(* from a holder that makes no progress.                                   *)
(*                                                                         *)
(* A critical section of Arbiter.mu is one action.  A ticket id is fresh   *)
(* in the code (an atomic counter); here an id is taken again only when    *)
(* nothing refers to it any more, which no operation can tell apart.       *)
(***************************************************************************)
EXTENDS Integers, FiniteSets, SequencesExt

CONSTANTS
  Ids,               \* ticket ids (bounds the requests outstanding at a time)
  Watchers,          \* goroutines inside WaitIdle
  Requests,          \* the requests callers make, before normalisation
  MaxSessions,       \* Options.MaxSessions, after New
  MaxQMITransports,  \* Options.MaxQMITransports, after New
  CounterModulus,    \* 2^64 in the code: where the uint64 counters wrap
  ArrivalSkew        \* may a ticket overtake another between its time.Now()
                     \* and its Lock() long enough for their ages to differ?

Classes == {"EUICCWrite", "EUICCRead", "USIMAKA", "SMSC", "SwitchBarrier", "Recovery"}
NoClass == ""
LeaseTypes == {"session", "oneshot", "transport"}
Scopes == {"exclusive", "qmi_channel"}

Request == [type: LeaseTypes \cup {"barrier"}, class: Classes \cup {NoClass},
            mode: {"QMI", "MBIM", "AT", "UNKNOWN"}, channel: Nat, scope: Scopes,
            policy: SUBSET (Classes \cup {NoClass})]

ASSUME ConstantsAssumption ==
  /\ Requests \subseteq Request
  /\ MaxSessions \in Nat \ {0}
  /\ MaxQMITransports \in Nat \ {0}
  /\ CounterModulus \in Nat \ {0}
  /\ ArrivalSkew \in BOOLEAN

Ticket == [id: Ids, class: Classes, channel: Nat, scope: Scopes,
           type: LeaseTypes \cup {"barrier"}, blocked: SUBSET Classes]

VARIABLES
  queue,     \* a.queue
  active,    \* a.activeSessions, a.activeOneshot and a.activeTransports
  barriers,  \* a.activeBarriers
  awake,     \* queued ids whose captured notifyC is closed: about to look again
  aged,      \* queued ids enqueued at least transportPriorityAging ago
  held,      \* ids of leases whose holder has not called Release
  armed,     \* ids whose lease timer is running
  fired,     \* ids whose timer callback releaseExpired waits for the lock
  lapsed,    \* active ids whose expiresAt has passed
  idleWait,  \* where each goroutine in WaitIdle is
  stats      \* the atomic counters

vars == <<queue, active, barriers, awake, aged, held, armed, fired, lapsed,
          idleWait, stats>>

-----------------------------------------------------------------------------
(* Normalisation of a request into the ticket that waits.                  *)

NormalizeClass(class, type) ==
  CASE class # NoClass    -> class
    [] type = "oneshot"   -> "USIMAKA"
    [] OTHER              -> "EUICCWrite"

NormalizeTransportScope(r) ==
  IF r.type = "transport" /\ r.scope = "qmi_channel" /\ r.mode = "QMI" /\ r.channel > 0
  THEN "qmi_channel" ELSE "exclusive"

BlockedBy(policy) ==
  IF policy = {} THEN {"USIMAKA", "SMSC"}
  ELSE {NormalizeClass(class, "oneshot") : class \in policy}

LeaseTicket(id, r) ==
  [id |-> id, class |-> NormalizeClass(r.class, r.type), channel |-> r.channel,
   scope |-> NormalizeTransportScope(r), type |-> r.type, blocked |-> {}]

BarrierTicketOfRawClass(id, r) ==      \* mutant: the default class is not filled in
  [id |-> id, class |-> r.class, channel |-> r.channel, scope |-> "exclusive",
   type |-> "barrier", blocked |-> BlockedBy(r.policy)]

BarrierTicket(id, r) ==
  [id |-> id, class |-> IF r.class = NoClass THEN "SwitchBarrier" ELSE r.class,
   channel |-> r.channel, scope |-> "exclusive", type |-> "barrier",
   blocked |-> BlockedBy(r.policy)]

-----------------------------------------------------------------------------
(* What the lock holder reads to decide.                                   *)

OfType(type) == {l \in active : l.type = type}
QMITransports == {l \in OfType("transport") : l.scope = "qmi_channel"}

HasActiveTransport == OfType("transport") # {}
HasActiveExclusiveTransport ==
  \E l \in OfType("transport") : l.scope # "qmi_channel"
QMILimitReached == Cardinality(QMITransports) >= MaxQMITransports
IsBlockedByActiveBarrier(class) == \E b \in barriers : class \in b.blocked

ChannelIgnoresExclusive(t) ==          \* mutant: no look at exclusive transports
  IF t.scope # "qmi_channel" THEN ~HasActiveTransport
  ELSE ~QMILimitReached /\ \A l \in QMITransports : l.channel # t.channel

CanAcquireTransportNow(t) ==
  IF t.scope # "qmi_channel" THEN ~HasActiveTransport
  ELSE /\ ~HasActiveExclusiveTransport
       /\ ~QMILimitReached
       /\ \A l \in QMITransports : l.channel # t.channel

OnlyLimitGates(t) == QMILimitReached   \* mutant: a waiting exclusive gates nothing

TransportWaitGatesQueue(t) ==
  t.scope # "qmi_channel" \/ HasActiveExclusiveTransport \/ QMILimitReached

ScanPassesBarriers(t) ==               \* mutant: no break at a waiting barrier
  \/ t.type \in {"session", "oneshot"}
  \/ /\ t.type = "transport" /\ ~IsBlockedByActiveBarrier(t.class)
     /\ ~CanAcquireTransportNow(t) /\ TransportWaitGatesQueue(t)

(* A ticket at which the scan of selectedTransportLocked breaks. *)
EndsScan(t) ==
  \/ t.type # "transport"
  \/ /\ ~IsBlockedByActiveBarrier(t.class)
     /\ ~CanAcquireTransportNow(t)
     /\ TransportWaitGatesQueue(t)

(* The positions of q the scan reaches and finds eligible. *)
Eligible(q) ==
  {i \in DOMAIN q :
     /\ q[i].type = "transport"
     /\ ~IsBlockedByActiveBarrier(q[i].class)
     /\ CanAcquireTransportNow(q[i])
     /\ \A j \in 1..(i-1) : ~EndsScan(q[j])}

FirstIn(S, i) == i \in S /\ \A j \in S : i <= j

(* An aged ticket that is not for AKA goes first, then AKA, then the rest. *)
SelectedTransport(q, i) ==
  LET elig == Eligible(q)
      agedNonAKA == {j \in elig : q[j].class # "USIMAKA" /\ q[j].id \in aged}
      aka == {j \in elig : q[j].class = "USIMAKA"}
  IN  FirstIn(IF agedNonAKA # {} THEN agedNonAKA ELSE IF aka # {} THEN aka ELSE elig, i)

HasPendingBarrierAhead(q, i) ==
  \E j \in 1..(i-1) : q[j].type = "barrier" /\ q[i].class \in q[j].blocked

CanAcquireLease(q, i) ==
  /\ ~IsBlockedByActiveBarrier(q[i].class)
  /\ ~HasPendingBarrierAhead(q, i)
  /\ \/ /\ q[i].type = "session" /\ i = 1
        /\ OfType("oneshot") = {} /\ ~HasActiveTransport
        /\ Cardinality(OfType("session")) < MaxSessions
     \/ /\ q[i].type = "oneshot" /\ i = 1
        /\ active = {}
     \/ /\ q[i].type = "transport"
        /\ OfType("session") = {} /\ OfType("oneshot") = {}
        /\ SelectedTransport(q, i)

BarrierWithoutDrain(q, i) ==           \* mutant: transports in flight forgotten
  /\ q[i].type = "barrier"
  /\ OfType("session") = {} /\ OfType("oneshot") = {}
  /\ \A j \in 1..(i-1) : q[j].type # "barrier"

CanAcquireBarrier(q, i) ==
  /\ q[i].type = "barrier"
  /\ active = {}
  /\ \A j \in 1..(i-1) : q[j].type # "barrier"

CanAcquire(q, i) == CanAcquireLease(q, i) \/ CanAcquireBarrier(q, i)

IsIdle(q) == active = {} /\ barriers = {} /\ q = <<>>

-----------------------------------------------------------------------------
(* Steps of every operation.                                               *)

IdsIn(S) == {t.id : t \in S}
IdsOf(q) == {q[i].id : i \in DOMAIN q}

(* Ids some queue entry, lease, barrier, holder or timer callback names. *)
Referenced == IdsOf(queue) \cup IdsIn(active) \cup IdsIn(barriers) \cup held \cup fired

RemoveLastTicket(q, i) == RemoveAt(q, Len(q))  \* mutant: the wrong ticket goes

RemoveTicket(q, i) == RemoveAt(q, i)

SignalHeadOnly(ids) ==                 \* mutant: one waiter is woken, not all
  /\ awake' = {queue[i].id : i \in DOMAIN queue \cap {1}} \cap ids
  /\ idleWait' = [w \in Watchers |-> IF idleWait[w] = "asleep" THEN "awake" ELSE idleWait[w]]

(* close(notifyC) under the lock: wakes the given tickets and every WaitIdle. *)
Signal(ids) ==
  /\ awake' = ids
  /\ idleWait' = [w \in Watchers |-> IF idleWait[w] = "asleep" THEN "awake" ELSE idleWait[w]]

Count(counters) ==
  stats' = [c \in DOMAIN stats |->
              IF c \in counters THEN (stats[c] + 1) % CounterModulus ELSE stats[c]]

(* The ticket at position i of q leaves the queue with what it asked for.  *)
Admit(q, i) ==
  /\ CanAcquire(q, i)
  /\ queue' = RemoveTicket(q, i)
  /\ Signal(IdsOf(queue'))
  /\ aged' = aged \ {q[i].id}
  /\ IF q[i].type = "barrier"
     THEN /\ barriers' = barriers \cup {q[i]}
          /\ UNCHANGED <<active, held, armed>>
     ELSE /\ active' = active \cup {q[i]}
          /\ held' = held \cup {q[i].id}
          /\ armed' = armed \cup {q[i].id}
          /\ UNCHANGED barriers
  /\ UNCHANGED <<fired, lapsed>>

(* The lease of id ends: off the active list, its timer stopped. *)
EndLease(id) ==
  /\ active' = {l \in active : l.id # id}
  /\ armed' = armed \ {id}
  /\ lapsed' = lapsed \ {id}
  /\ Signal(IdsOf(queue))

-----------------------------------------------------------------------------
(* The operations.                                                         *)

Init ==
  /\ queue = <<>>
  /\ active = {} /\ barriers = {}
  /\ awake = {} /\ aged = {}
  /\ held = {} /\ armed = {} /\ fired = {} /\ lapsed = {}
  /\ idleWait = [w \in Watchers |-> "out"]
  /\ stats = [c \in {"waitRequests", "acquires", "waitTimeouts", "forcedReleases"} |-> 0]

NewTicket(id, r) == IF r.type = "barrier" THEN BarrierTicket(id, r) ELSE LeaseTicket(id, r)

(* acquire / BeginBarrier: append the ticket, signal, and look once.       *)
AcquireAtOnce(id, r) ==
  LET q == Append(queue, NewTicket(id, r))
  IN  /\ id \notin Referenced
      /\ Admit(q, Len(q))
      /\ Count({"waitRequests", "acquires"})

(* ... or capture the channel the signal has just made, and wait on it.    *)
StartWaiting(id, r) ==
  LET q == Append(queue, NewTicket(id, r))
  IN  /\ id \notin Referenced
      /\ ~CanAcquire(q, Len(q))
      /\ queue' = q
      /\ Signal(IdsOf(queue))
      /\ Count({"waitRequests"})
      /\ UNCHANGED <<active, barriers, aged, held, armed, fired, lapsed>>

(* The waiter looks again after a signal: in, or back to sleep. *)
WakeAndAcquire(id) ==
  /\ id \in awake
  /\ \E i \in DOMAIN queue : queue[i].id = id /\ Admit(queue, i)
  /\ Count({"acquires"})

WakeAndSleep(id) ==
  /\ id \in awake
  /\ \E i \in DOMAIN queue : queue[i].id = id /\ ~CanAcquire(queue, i)
  /\ awake' = awake \ {id}
  /\ UNCHANGED <<queue, active, barriers, aged, held, armed, fired, lapsed, idleWait, stats>>

(* ctx.Done(): the ticket is withdrawn, awake or asleep. *)
GiveUp(id) ==
  /\ \E i \in DOMAIN queue : queue[i].id = id /\ queue' = RemoveTicket(queue, i)
  /\ Signal(IdsOf(queue'))
  /\ aged' = aged \ {id}
  /\ Count({"waitTimeouts"})
  /\ UNCHANGED <<active, barriers, held, armed, fired, lapsed>>

(* Time passes: a waiting ticket reaches transportPriorityAging.  Age is   *)
(* read only for transports that are not for AKA.                          *)
CanAge(i) == queue[i].type = "transport" /\ queue[i].class # "USIMAKA"
Age(id) ==
  /\ id \notin aged
  /\ \E i \in DOMAIN queue :
       /\ queue[i].id = id /\ CanAge(i)
       /\ ArrivalSkew \/ \A j \in 1..(i-1) : CanAge(j) => queue[j].id \in aged
  /\ aged' = aged \cup {id}
  /\ UNCHANGED <<queue, active, barriers, awake, held, armed, fired, lapsed, idleWait, stats>>

(* Lease.Release, once per lease; a lease already taken back is left alone. *)
Release(id) ==
  /\ id \in held
  /\ held' = held \ {id}
  /\ IF id \in IdsIn(active) THEN EndLease(id)
     ELSE UNCHANGED <<active, armed, lapsed, awake, idleWait>>
  /\ UNCHANGED <<queue, barriers, aged, fired, stats>>

ReleaseBarrier(id) ==
  /\ id \in IdsIn(barriers)
  /\ barriers' = {b \in barriers : b.id # id}
  /\ Signal(IdsOf(queue))
  /\ UNCHANGED <<queue, active, aged, held, armed, fired, lapsed, stats>>

(* Lease.Touch: a new deadline and the timer reset, even one that fired.   *)
Touch(id) ==
  /\ id \in held /\ id \in IdsIn(active)
  /\ lapsed' = lapsed \ {id}
  /\ armed' = armed \cup {id}
  /\ UNCHANGED <<queue, active, barriers, awake, aged, held, fired, idleWait, stats>>

TimerFiresTooSoon(id) ==               \* mutant: expiresAt always lies ahead
  /\ id \in armed
  /\ armed' = armed \ {id}
  /\ fired' = fired \cup {id}
  /\ UNCHANGED <<queue, active, barriers, awake, aged, held, lapsed, idleWait, stats>>

(* MaxLeaseHold passes without a Touch: the timer starts its callback.     *)
TimerFires(id) ==
  /\ id \in armed
  /\ armed' = armed \ {id}
  /\ fired' = fired \cup {id}
  /\ lapsed' = lapsed \cup {id}
  /\ UNCHANGED <<queue, active, barriers, awake, aged, held, idleWait, stats>>

(* releaseExpired gets the lock: the lease is gone, was touched (the timer *)
(* runs on), or is taken from its holder.                                  *)
ReleaseExpired(id) ==
  /\ id \in fired
  /\ fired' = fired \ {id}
  /\ \/ /\ id \notin IdsIn(active)
        /\ UNCHANGED <<active, armed, lapsed, awake, idleWait, stats>>
     \/ /\ id \in IdsIn(active) \ lapsed
        /\ armed' = armed \cup {id}
        /\ UNCHANGED <<active, lapsed, awake, idleWait, stats>>
     \/ /\ id \in IdsIn(active) \cap lapsed
        /\ EndLease(id)
        /\ Count({"forcedReleases"})
  /\ UNCHANGED <<queue, barriers, aged, held>>

(* WaitIdle: return when idle under the lock, else wait for the next signal. *)
WaitIdle(w) ==
  /\ idleWait[w] \in {"out", "awake"}
  /\ idleWait' = [idleWait EXCEPT ![w] = IF IsIdle(queue) THEN "out" ELSE "asleep"]
  /\ UNCHANGED <<queue, active, barriers, awake, aged, held, armed, fired, lapsed, stats>>

WaitIdleGivesUp(w) ==
  /\ idleWait[w] # "out"
  /\ idleWait' = [idleWait EXCEPT ![w] = "out"]
  /\ UNCHANGED <<queue, active, barriers, awake, aged, held, armed, fired, lapsed, stats>>

Next ==
  \/ \E id \in Ids :
       \/ \E r \in Requests : AcquireAtOnce(id, r) \/ StartWaiting(id, r)
       \/ WakeAndAcquire(id) \/ WakeAndSleep(id) \/ GiveUp(id) \/ Age(id)
       \/ Release(id) \/ ReleaseBarrier(id) \/ Touch(id)
       \/ TimerFires(id) \/ ReleaseExpired(id)
  \/ \E w \in Watchers : WaitIdle(w) \/ WaitIdleGivesUp(w)

Spec == Init /\ [][Next]_vars

(* Go runs every goroutine that is ready, and holders finish what they do. *)
(* Nothing is assumed of arrivals, contexts, Touch, ageing or the timers.  *)
SchedulerFairness ==
  \A id \in Ids : WF_vars(WakeAndAcquire(id) \/ WakeAndSleep(id))
HolderFairness ==
  \A id \in Ids : WF_vars(Release(id)) /\ WF_vars(ReleaseBarrier(id))
TimerFairness ==
  \A id \in Ids : WF_vars(TimerFires(id)) /\ WF_vars(ReleaseExpired(id))

-----------------------------------------------------------------------------
(* Properties.                                                             *)

(* Every variable has its type. *)
TypeOK ==
  /\ queue \in Seq(Ticket)
  /\ active \subseteq Ticket
  /\ barriers \subseteq Ticket
  /\ awake \subseteq Ids /\ aged \subseteq Ids
  /\ held \subseteq Ids /\ armed \subseteq Ids /\ fired \subseteq Ids /\ lapsed \subseteq Ids
  /\ idleWait \in [Watchers -> {"out", "asleep", "awake"}]
  /\ stats \in [{"waitRequests", "acquires", "waitTimeouts", "forcedReleases"}
                  -> 0..(CounterModulus - 1)]

(* Two leases are active together only as two sessions within MaxSessions, *)
(* or as two QMI-channel transports on different channels within           *)
(* MaxQMITransports: whatever the order of grants, forced releases and     *)
(* Touches (canAcquireLeaseLocked, canAcquireTransportNowLocked).          *)
CardExclusion ==
  /\ \A l, m \in active : l # m =>
       \/ l.type = "session" /\ m.type = "session"
       \/ /\ l \in QMITransports /\ m \in QMITransports
          /\ l.channel # m.channel
  /\ Cardinality(OfType("session")) <= MaxSessions
  /\ Cardinality(QMITransports) <= MaxQMITransports

(* While a profile switch holds its barrier, no lease of a class it blocks *)
(* is active: neither one from before the barrier nor one admitted later   *)
(* (BeginBarrier, isBlockedByActiveBarrierLocked).                         *)
BarrierExcludes ==
  \A b \in barriers, l \in active : l.class \notin b.blocked

(* The watchdog never loses a lease: its timer runs or its callback is on  *)
(* the way, and a deadline that has passed has a callback coming, however  *)
(* Touch, the timer and releaseExpired interleave.                         *)
WatchdogCoversLeases ==
  \A l \in active :
    /\ l.id \in armed \cup fired
    /\ l.id \in lapsed => l.id \in fired

(* A ticket is in one place: the queue, the active lists or the barriers;  *)
(* a wake-up, an age or a timer is never kept for a ticket that has left   *)
(* (removeTicketLocked, removeActiveLocked, timer.Stop).                   *)
TicketsInOnePlace ==
  /\ \A i, j \in DOMAIN queue : i # j => queue[i].id # queue[j].id
  /\ \A l, m \in active \cup barriers : l.id = m.id => l = m
  /\ IdsOf(queue) \cap IdsIn(active \cup barriers) = {}
  /\ active \cap barriers = {}
  /\ awake \cup aged \subseteq IdsOf(queue)
  /\ armed \cup lapsed \subseteq IdsIn(active)
  /\ IdsIn(active) \subseteq held

(* Does ageing alone pick another transport than arrival order and AKA     *)
(* priority would?                                                         *)
AgeingDecides ==
  \E i, j \in Eligible(queue) :
    /\ queue[i].class # "USIMAKA" /\ queue[i].id \in aged
    /\ queue[j].class = "USIMAKA" \/ j < i

(* No lost wake-up: when no queued goroutine has a wake-up pending, none   *)
(* of them could be admitted.  Ageing is set apart: it changes the choice  *)
(* of selectedTransportLocked and signals nobody, which is the business of *)
(* AgeingPreventsStarvation.                                               *)
NoLostWakeup ==
  (awake = {} /\ ~AgeingDecides) => \A i \in DOMAIN queue : ~CanAcquire(queue, i)

(* A goroutine asleep in WaitIdle never sleeps through an idle arbiter:    *)
(* every path that empties the last list signals.                          *)
NobodySleepsThroughIdle ==
  IsIdle(queue) => \A w \in Watchers : idleWait[w] # "asleep"

(* The counters account for every request, at any wrap of the uint64s:     *)
(* a request is granted, timed out or queued (Stats).                      *)
RequestsAccountedFor ==
  stats["waitRequests"]
    = (stats["acquires"] + stats["waitTimeouts"] + Len(queue)) % CounterModulus

(* Tickets, timers and counters agree, whichever way a ticket ends. *)
TicketsAccountedFor == WatchdogCoversLeases /\ TicketsInOnePlace /\ RequestsAccountedFor

(* Nobody sleeps beside what it waits for, in the queue or in WaitIdle. *)
NobodySleepsInVain == NoLostWakeup /\ NobodySleepsThroughIdle

(* What waits ahead of ticket t: the queue up to t, all of it for a newcomer. *)
AheadOf(t) ==
  {queue[i] : i \in {k \in DOMAIN queue : \A j \in 1..k : queue[j].id # t.id}}

(* Once a barrier waits, no lease that arrived after it is admitted before *)
(* it, whatever its class: the switch drains the card.                     *)
NothingPassesAWaitingBarrier ==
  [][\A t \in active' \ active : \A u \in AheadOf(t) : u.type # "barrier"]_vars

(* While transports are in flight, none is admitted past an exclusive one  *)
(* that waits and is not blocked: channel traffic cannot starve it, not    *)
(* even with AKA priority (transportWaitGatesQueueLocked).                 *)
ExclusiveIsNotOvertaken ==
  [][HasActiveTransport =>
       \A t \in active' \ active : \A u \in AheadOf(t) :
         ~(u.type = "transport" /\ u.scope = "exclusive" /\ ~IsBlockedByActiveBarrier(u.class))]_vars

HoldersStop == \A id \in Ids : <>[][~Touch(id)]_vars

(* Every ticket that waits is served or withdrawn, even when holders hang, *)
(* as long as nobody touches a lease for ever and switches release their   *)
(* barriers: the head is never bypassed for ever by other channels, later  *)
(* arrivals or a stream of barriers.                                       *)
EveryWaiterIsServed ==
  HoldersStop => \A id \in Ids : id \in IdsOf(queue) ~> id \notin IdsOf(queue)

(* A lease whose holder hangs, neither releasing nor touching it, is taken *)
(* back (releaseExpired).                                                  *)
StuckHolderIsEvicted ==
  HoldersStop => \A id \in Ids : id \in IdsIn(active) ~> id \notin IdsIn(active)

(* Ageing keeps AKA traffic from starving the eUICC: an aged eUICC         *)
(* transport is eventually served (arbiter_test.go,                        *)
(* TestTransportPriorityAgingPreventsEUICCStarvation).                     *)
AgeingPreventsStarvation ==
  \A id \in Ids : id \in aged ~> id \notin aged

FairSpec == Spec /\ SchedulerFairness /\ HolderFairness
WatchdogSpec ==
  Spec /\ SchedulerFairness /\ TimerFairness /\ \A id \in Ids : WF_vars(ReleaseBarrier(id))

=============================================================================
