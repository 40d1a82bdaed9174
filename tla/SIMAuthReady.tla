---------------------------- MODULE SIMAuthReady ----------------------------
(***************************************************************************)
(* The readiness gate of internal/apduarbiter/simauth_ready.go.  Callers   *)
(* of WaitSIMAuthReady share one probe of the card: the first one runs it, *)
(* the others wait on its channel.  InvalidateSIMAuthReady bumps a         *)
(* generation, which a probe compares when it ends.  Each critical section *)
(* of Arbiter.mu is one action; the probe and the waits lie between.       *)
(***************************************************************************)
EXTENDS Naturals, FiniteSets

CONSTANTS
  AuthCallers,          \* goroutines inside WaitSIMAuthReady
  NoCaller,         \* the nil channel
  MaxInvalidations  \* bound on the calls of InvalidateSIMAuthReady

ASSUME GateAssumption == NoCaller \notin AuthCallers /\ MaxInvalidations \in Nat

VARIABLES
  generation,  \* simAuthReady.generation
  ready,       \* simAuthReady.ready
  probing,     \* simAuthReady.probing
  waitC,       \* the caller whose probe made simAuthReady.waitC, or NoCaller (nil)
  spot,          \* where each caller is
  seen,        \* the generation each prober started from
  waitsOn,     \* the channel, named by its maker, each waiter captured
  good         \* did the probe of each caller return nil?

authVars == <<generation, ready, probing, waitC, spot, seen, waitsOn, good>>

-----------------------------------------------------------------------------
AuthInit ==
  /\ generation = 0
  /\ ready = FALSE /\ probing = FALSE
  /\ waitC = NoCaller
  /\ spot = [c \in AuthCallers |-> "out"]
  /\ seen = [c \in AuthCallers |-> 0]
  /\ waitsOn = [c \in AuthCallers |-> NoCaller]
  /\ good = [c \in AuthCallers |-> FALSE]

(* A call begins; in the code it reads ctx.Err() first. *)
AuthCall(c) ==
  /\ spot[c] = "out"
  /\ spot' = [spot EXCEPT ![c] = "look"]
  /\ UNCHANGED <<generation, ready, probing, waitC, seen, waitsOn, good>>

(* Under the lock: ready, so return nil. *)
ReturnReady(c) ==
  /\ spot[c] = "look" /\ ready
  /\ spot' = [spot EXCEPT ![c] = "out"]
  /\ UNCHANGED <<generation, ready, probing, waitC, seen, waitsOn, good>>

(* Under the lock: somebody probes, so wait on its channel. *)
JoinProbe(c) ==
  /\ spot[c] = "look" /\ ~ready /\ probing
  /\ spot' = [spot EXCEPT ![c] = "wait"]
  /\ waitsOn' = [waitsOn EXCEPT ![c] = waitC]
  /\ UNCHANGED <<generation, ready, probing, waitC, seen, good>>

StartProbeAhead(c) ==                  \* mutant: the generation is counted up first
  /\ spot[c] = "look" /\ ~ready /\ ~probing
  /\ probing' = TRUE /\ waitC' = c
  /\ seen' = [seen EXCEPT ![c] = generation + 1]
  /\ spot' = [spot EXCEPT ![c] = "probe"]
  /\ UNCHANGED <<generation, ready, waitsOn, good>>

StartProbeAnyway(c) ==                 \* mutant: the flag is not looked at
  /\ spot[c] = "look" /\ ~ready
  /\ probing' = TRUE /\ waitC' = c
  /\ seen' = [seen EXCEPT ![c] = generation]
  /\ spot' = [spot EXCEPT ![c] = "probe"]
  /\ UNCHANGED <<generation, ready, waitsOn, good>>

(* Under the lock: nobody does, so this caller probes. *)
StartProbe(c) ==
  /\ spot[c] = "look" /\ ~ready /\ ~probing
  /\ probing' = TRUE /\ waitC' = c
  /\ seen' = [seen EXCEPT ![c] = generation]
  /\ spot' = [spot EXCEPT ![c] = "probe"]
  /\ UNCHANGED <<generation, ready, waitsOn, good>>

(* probe(ctx) returns, with the card ready or with an error. *)
ProbeReturns(c) ==
  /\ spot[c] = "probe"
  /\ \E ok \in BOOLEAN : good' = [good EXCEPT ![c] = ok]
  /\ spot' = [spot EXCEPT ![c] = "report"]
  /\ UNCHANGED <<generation, ready, probing, waitC, seen, waitsOn>>

(* close(waitC): every caller waiting on it looks again. *)
AuthWoken(c, next) ==
  [d \in AuthCallers |->
     IF d = c THEN next
     ELSE IF spot[d] = "wait" /\ waitsOn[d] = c THEN "look" ELSE spot[d]]

ReportStale(c) ==                      \* mutant: the generation is not compared
  /\ spot[c] = "report"
  /\ ready' = good[c]
  /\ waitC' = NoCaller /\ probing' = FALSE
  /\ spot' = AuthWoken(c, "out")
  /\ UNCHANGED <<generation, seen, waitsOn, good>>

ReportSilently(c) ==                   \* mutant: the channel is not closed
  /\ spot[c] = "report"
  /\ ready' = (IF generation = seen[c] THEN good[c] ELSE ready)
  /\ waitC' = NoCaller /\ probing' = FALSE
  /\ spot' = [spot EXCEPT ![c] = IF good[c] /\ generation # seen[c] THEN "look" ELSE "out"]
  /\ UNCHANGED <<generation, seen, waitsOn, good>>

(* Under the lock: record the outcome unless it is stale, wake the others. *)
(* A stale success looks again; an error returns, stale or not.            *)
Report(c) ==
  /\ spot[c] = "report"
  /\ ready' = (IF generation = seen[c] THEN good[c] ELSE ready)
  /\ waitC' = (IF waitC = c THEN NoCaller ELSE waitC)
  /\ probing' = FALSE
  /\ spot' = AuthWoken(c, IF good[c] /\ generation # seen[c] THEN "look" ELSE "out")
  /\ UNCHANGED <<generation, seen, waitsOn, good>>

(* ctx.Done() while waiting, or found by ctx.Err() before a look. *)
GiveUp(c) ==
  /\ spot[c] \in {"look", "wait"}
  /\ spot' = [spot EXCEPT ![c] = "out"]
  /\ UNCHANGED <<generation, ready, probing, waitC, seen, waitsOn, good>>

(* InvalidateSIMAuthReady, at any time: a probe in flight runs on. *)
Invalidate ==
  /\ generation < MaxInvalidations
  /\ generation' = generation + 1
  /\ ready' = FALSE
  /\ UNCHANGED <<probing, waitC, spot, seen, waitsOn, good>>

AuthNext ==
  \/ Invalidate
  \/ \E c \in AuthCallers :
       \/ AuthCall(c) \/ ReturnReady(c) \/ JoinProbe(c) \/ StartProbe(c)
       \/ ProbeReturns(c) \/ Report(c) \/ GiveUp(c)

AuthSpec == AuthInit /\ [][AuthNext]_authVars

(* Goroutines that can run do, and probes return: they carry a context     *)
(* with a deadline.  New calls, cancellations and invalidations are free.  *)
AuthFairness ==
  \A c \in AuthCallers :
    /\ WF_authVars(ReturnReady(c) \/ JoinProbe(c) \/ StartProbe(c) \/ Report(c))
    /\ WF_authVars(ProbeReturns(c))

FairAuthSpec == AuthSpec /\ AuthFairness

-----------------------------------------------------------------------------
(* Properties.                                                             *)

(* Every variable has its type. *)
AuthTypeOK ==
  /\ generation \in 0..MaxInvalidations
  /\ ready \in BOOLEAN /\ probing \in BOOLEAN
  /\ waitC \in AuthCallers \cup {NoCaller}
  /\ spot \in [AuthCallers -> {"out", "look", "wait", "probe", "report"}]
  /\ seen \in [AuthCallers -> 0..MaxInvalidations]
  /\ waitsOn \in [AuthCallers -> AuthCallers \cup {NoCaller}]
  /\ good \in [AuthCallers -> BOOLEAN]

CardProbers == {c \in AuthCallers : spot[c] \in {"probe", "report"}}

(* The flag, the channel and the caller inside probe(ctx) agree: one probe *)
(* at a time, and the channel waiters find is the one it will close        *)
(* (TestSIMAuthReadyGateCoalescesConcurrentProbes).                        *)
OneProber ==
  /\ \A c, d \in CardProbers : c = d
  /\ probing <=> CardProbers # {}
  /\ waitC # NoCaller <=> probing
  /\ \A c \in CardProbers : waitC = c /\ seen[c] <= generation

(* A waiter waits on the channel of a probe still running: an invalidation *)
(* or a new prober between its look and its wait strands nobody.           *)
NobodyIsStranded ==
  \A c \in AuthCallers : spot[c] = "wait" => waitsOn[c] \in CardProbers

(* The gate seen from outside. *)
GateState ==
  IF ready THEN "open"
  ELSE IF ~probing THEN "shut"
  ELSE IF \E c \in CardProbers : seen[c] = generation THEN "probing"
  ELSE "tainted"

(* The gate opens only on a successful probe that no invalidation has      *)
(* overtaken, and one probe runs at a time, in every interleaving of       *)
(* callers and invalidations (WaitSIMAuthReady, stale).                    *)
Gate == INSTANCE SingleFlightGate WITH gate <- GateState
RefinesGate == Gate!Spec

(* When no new calls come in, every call returns without its context       *)
(* expiring: retries after a stale success and waits on failing probes of  *)
(* others all end (the loop of WaitSIMAuthReady).  New calls for ever      *)
(* could always get ahead of a waiter with probes that fail.               *)
EveryAuthCallReturns ==
  <>[][\A c \in AuthCallers : ~AuthCall(c)]_authVars =>
    \A c \in AuthCallers : spot[c] = "look" ~> spot[c] = "out"

=============================================================================
