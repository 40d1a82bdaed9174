----------------------------- MODULE ESIMSwitch -----------------------------
(***************************************************************************)
(* Enabling and disabling a profile (SwitchProfileWithResult and           *)
(* DisableProfile of internal/esim/manager.go) as the owner of the manager *)
(* sees it: the callbacks OnBeforeSwitch, OnSwitchPhase, OnAfterSwitch and *)
(* OnSwitchFailed, the search for the application that holds the profile,  *)
(* the barrier that keeps SIM authentication off the card, and the hook    *)
(* that runs in a goroutine of its own when the call is long over.         *)
(*                                                                         *)
(* The caches are those of ESIMOverview, the channels of ESIMChannels, the *)
(* queue in front of the barrier that of APDUArbiter.                      *)
(***************************************************************************)
EXTENDS Naturals, Sequences, SequencesExt, FiniteSets

CONSTANTS
  Switchers,      \* goroutines that call SwitchProfile or DisableProfile
  Authentications, \* SIM authentications
  Targets,        \* profiles
  AIDCount,       \* applications of the card that are looked at (eSTK has two)
  CatBusyRetries, \* maxCatBusyRetries
  MaxSwitches     \* bound: calls

ASSUME SwitchAssumption ==
  AIDCount \in Nat \ {0} /\ CatBusyRetries \in Nat /\ MaxSwitches \in Nat

AIDs == 1 .. AIDCount
Unknown == 0        \* no AID given, or on no application of this card
NoTarget == "none"

VARIABLES
  withArbiter,   \* the manager was given an APDU arbiter
  home,         \* the application each profile is on
  active,       \* the enabled profile of each application
  leases,       \* authentications whose command is on its way
  switching,    \* the goroutine that holds opMu
  at, call,     \* what each goroutine does next, and what it works on
  barrier,      \* the goroutine that holds the barrier
  hooks,        \* tokens whose post-switch goroutine still waits
  log,          \* history: what the owner was told, in order: <<event, token>>
  obeyed,       \* history: tokens whose command the card has carried out
  unsure,       \* history: tokens whose command was answered by a reset or not at all
  succeeded,    \* history: tokens whose caller was told of success
  tokens, calls

targetVars == <<home, active>>
ownerVars == <<hooks, log, tokens>>
answerVars == <<obeyed, unsure, succeeded>>
switchVars == <<withArbiter, targetVars, leases, switching, at, call, barrier, ownerVars,
                answerVars, calls>>

NoCall == [op |-> "enable", target |-> NoTarget, aid |-> Unknown, next |-> 1, token |-> 0,
           tries |-> 0, answer |-> "none", success |-> FALSE]

SwitchInit ==
  /\ withArbiter \in BOOLEAN
  /\ home \in [Targets -> AIDs \cup {Unknown}]
  /\ active \in {a \in [AIDs -> Targets \cup {NoTarget}] :
                   \A n \in AIDs : a[n] # NoTarget => home[a[n]] = n}
  /\ leases = {} /\ switching = {} /\ barrier = {}
  /\ at = [w \in Switchers |-> "out"] /\ call = [w \in Switchers |-> NoCall]
  /\ hooks = {} /\ log = <<>> /\ tokens = 0
  /\ obeyed = {} /\ unsure = {} /\ succeeded = {} /\ calls = 0

GoTo(w, place) == at' = [at EXCEPT ![w] = place]
Tell(events) == log' = log \o events

-----------------------------------------------------------------------------
(* Before the card is touched.                                             *)

StartSwitch(w) ==
  /\ at[w] = "out" /\ switching = {} /\ calls < MaxSwitches
  /\ switching' = {w} /\ calls' = calls + 1
  /\ \E op \in {"enable", "disable"}, p \in Targets, aid \in AIDs \cup {Unknown} :
       /\ call' = [call EXCEPT ![w] = [NoCall EXCEPT !.op = op, !.target = p, !.aid = aid]]
       /\ GoTo(w, IF aid = Unknown THEN "find" ELSE "open")
  /\ UNCHANGED <<withArbiter, targetVars, leases, barrier, ownerVars, answerVars>>

(* findAIDForICCID asks one application after the other; one that cannot   *)
(* be opened or read is passed over.                                       *)
FindAID(w) ==
  /\ at[w] = "find"
  /\ LET n == call[w].next
     IN  \/ /\ home[call[w].target] = n
            /\ call' = [call EXCEPT ![w].aid = n, ![w].next = 1] /\ GoTo(w, "open")
         \/ IF n = AIDCount
            THEN call' = [call EXCEPT ![w].next = 1] /\ GoTo(w, "leave")
            ELSE call' = [call EXCEPT ![w].next = n + 1] /\ GoTo(w, "find")
  /\ UNCHANGED <<withArbiter, targetVars, leases, switching, barrier, ownerVars, answerVars, calls>>

(* The ICCID or the AID is invalid, or no channel opens. *)
NotOpened(w) ==
  /\ at[w] = "open" /\ GoTo(w, "leave")
  /\ UNCHANGED <<withArbiter, targetVars, leases, switching, call, barrier, ownerVars, answerVars, calls>>

(* The client is open: the owner is asked for a token and told the phase. *)
BeforeSwitch(w) ==
  /\ at[w] = "open"
  /\ tokens' = tokens + 1
  /\ call' = [call EXCEPT ![w].token = tokens']
  /\ Tell(<<<<"before", tokens'>>, <<"apdu_switching", tokens'>>>>)
  /\ GoTo(w, "barrier")
  /\ UNCHANGED <<withArbiter, targetVars, leases, switching, barrier, hooks, answerVars, calls>>

(* Without an arbiter there is no barrier and the switch goes on. *)
BeginBarrier(w) ==
  /\ at[w] = "barrier" /\ (withArbiter => leases = {})
  /\ barrier' = IF withArbiter THEN {w} ELSE {}
  /\ GoTo(w, "command")
  /\ UNCHANGED <<withArbiter, targetVars, leases, switching, call, ownerVars, answerVars, calls>>

BarrierFails(w) ==
  /\ at[w] = "barrier" /\ withArbiter
  /\ GoTo(w, "leave")
  /\ UNCHANGED <<withArbiter, targetVars, leases, switching, call, barrier, ownerVars, answerVars, calls>>

-----------------------------------------------------------------------------
(* The command.                                                            *)

(* The card carries a command out only where the profile is. *)
CanObey(c) ==
  /\ c.aid # Unknown /\ home[c.target] = c.aid
  /\ (active[c.aid] = c.target) <=> (c.op = "disable")

Obeys(c) ==
  /\ CanObey(c)
  /\ active' = [active EXCEPT ![c.aid] = IF c.op = "enable" THEN c.target ELSE NoTarget]
  /\ obeyed' = obeyed \cup {c.token}

(* It answers, is busy with its toolkit, resets, refuses or stays silent;  *)
(* after a reset or a silence nobody knows whether it obeyed.              *)
CardAnswers(c, answer) ==
  \/ answer = "ok" /\ Obeys(c) /\ UNCHANGED unsure
  \/ answer \in {"busy", "error"} /\ UNCHANGED <<active, obeyed, unsure>>
  \/ /\ answer \in {"reset", "error"} /\ unsure' = unsure \cup {c.token}
     /\ Obeys(c) \/ UNCHANGED <<active, obeyed>>

(* Only enabling is tried again, and only after CatBusy. *)
MayRetry(c, answer) == c.op = "enable" /\ answer = "busy" /\ c.tries < CatBusyRetries

Command(w) ==
  /\ at[w] = "command"
  /\ \E answer \in {"ok", "busy", "reset", "error"} :
       /\ CardAnswers(call[w], answer)
       /\ IF MayRetry(call[w], answer)
          THEN call' = [call EXCEPT ![w].tries = @ + 1] /\ UNCHANGED at
          ELSE call' = [call EXCEPT ![w].answer = answer, ![w].tries = 0] /\ GoTo(w, "settle")
  /\ UNCHANGED <<withArbiter, home, leases, switching, barrier, ownerVars, succeeded, calls>>

(* The client is closed, 200 ms pass, the barrier goes, the phase is told. *)
ReleaseSwitchBarrier(w) ==
  /\ at[w] = "settle"
  /\ barrier' = {}
  /\ Tell(<<<<"card_reset_settling", call[w].token>>>>)
  /\ GoTo(w, "decide")
  /\ UNCHANGED <<withArbiter, targetVars, leases, switching, call, hooks, tokens, answerVars, calls>>

(* A reset is what a switch expects. *)
IsSuccess(answer) == answer \in {"ok", "reset"}

HookInAnyCase(w) ==                    \* mutant: the error returns after the hook was started
  /\ at[w] = "decide"
  /\ call' = [call EXCEPT ![w].success = IsSuccess(call[w].answer)]
  /\ hooks' = hooks \cup {call[w].token}
  /\ succeeded' = IF IsSuccess(call[w].answer) THEN succeeded \cup {call[w].token} ELSE succeeded
  /\ GoTo(w, "leave")
  /\ UNCHANGED <<withArbiter, targetVars, leases, switching, barrier, log, tokens, obeyed, unsure, calls>>

Decide(w) ==
  /\ at[w] = "decide"
  /\ IF IsSuccess(call[w].answer)
     THEN /\ call' = [call EXCEPT ![w].success = TRUE, ![w].answer = "none"]
          /\ hooks' = hooks \cup {call[w].token}
          /\ succeeded' = succeeded \cup {call[w].token}
     ELSE UNCHANGED <<hooks, succeeded>> /\ call' = [call EXCEPT ![w].answer = "none"]
  /\ GoTo(w, "leave")
  /\ UNCHANGED <<withArbiter, targetVars, leases, switching, barrier, log, tokens, obeyed, unsure, calls>>

-----------------------------------------------------------------------------
(* The deferred calls: the phase is told under the lock, the failure after *)
(* it was given back, and only if the owner knows of the switch.           *)

LeaveSwitch(w) ==
  /\ at[w] = "leave"
  /\ IF call[w].success THEN UNCHANGED log ELSE Tell(<<<<"failed", call[w].token>>>>)
  /\ GoTo(w, "unlock")
  /\ UNCHANGED <<withArbiter, targetVars, leases, switching, call, barrier, hooks, tokens, answerVars, calls>>

UnlockSwitch(w) ==
  /\ at[w] = "unlock"
  /\ switching' = {}
  /\ IF call[w].success \/ call[w].token = 0
     THEN GoTo(w, "out") /\ call' = [call EXCEPT ![w] = NoCall]
     ELSE GoTo(w, "tell") /\ UNCHANGED call
  /\ UNCHANGED <<withArbiter, targetVars, leases, barrier, ownerVars, answerVars, calls>>

SwitchFailed(w) ==
  /\ at[w] = "tell"
  /\ Tell(<<<<"switch_failed", call[w].token>>>>)
  /\ GoTo(w, "out") /\ call' = [call EXCEPT ![w] = NoCall]
  /\ UNCHANGED <<withArbiter, targetVars, leases, switching, barrier, hooks, tokens, answerVars, calls>>

(* The goroutine of a switch that succeeded, after postSwitchMinDelay. *)
AfterSwitch ==
  \E t \in hooks :
    /\ hooks' = hooks \ {t}
    /\ Tell(<<<<"after", t>>>>)
    /\ UNCHANGED <<withArbiter, targetVars, leases, switching, at, call, barrier, tokens, answerVars, calls>>

-----------------------------------------------------------------------------
(* SIM authentication leases the card command by command; nothing passes a *)
(* barrier that waits or is held.  Without an arbiter nothing holds it up. *)

BarrierAhead == withArbiter /\ \E w \in Switchers : at[w] = "barrier" \/ w \in barrier

AuthenticationLeases(u) ==
  /\ u \notin leases /\ ~BarrierAhead
  /\ leases' = leases \cup {u}
  /\ UNCHANGED <<withArbiter, targetVars, switching, at, call, barrier, ownerVars, answerVars, calls>>

AuthenticationReleases(u) ==
  /\ u \in leases /\ leases' = leases \ {u}
  /\ UNCHANGED <<withArbiter, targetVars, switching, at, call, barrier, ownerVars, answerVars, calls>>

SwitchStep(w) ==
  \/ FindAID(w) \/ NotOpened(w) \/ BeforeSwitch(w) \/ BeginBarrier(w) \/ BarrierFails(w)
  \/ Command(w) \/ ReleaseSwitchBarrier(w) \/ Decide(w)
  \/ LeaveSwitch(w) \/ UnlockSwitch(w) \/ SwitchFailed(w)

SwitchNext ==
  \/ \E w \in Switchers : StartSwitch(w) \/ SwitchStep(w)
  \/ AfterSwitch
  \/ \E u \in Authentications : AuthenticationLeases(u) \/ AuthenticationReleases(u)

SwitchSpec == SwitchInit /\ [][SwitchNext]_switchVars

-----------------------------------------------------------------------------
(* Properties.                                                             *)

Phases == {"apdu_switching", "card_reset_settling", "failed"}
Events == Phases \cup {"before", "after", "switch_failed"}

SwitchPlaces == {"out", "find", "open", "barrier", "command", "settle", "decide", "leave",
                 "unlock", "tell"}
CallType ==
  [op : {"enable", "disable"}, target : Targets \cup {NoTarget}, aid : AIDs \cup {Unknown},
   next : AIDs, token : 0 .. tokens, tries : 0 .. CatBusyRetries,
   answer : {"none", "ok", "busy", "reset", "error"}, success : BOOLEAN]

(* Every variable has its type. *)
SwitchTypeOK ==
  /\ withArbiter \in BOOLEAN /\ home \in [Targets -> AIDs \cup {Unknown}]
  /\ active \in [AIDs -> Targets \cup {NoTarget}]
  /\ leases \subseteq Authentications /\ switching \cup barrier \subseteq Switchers
  /\ at \in [Switchers -> SwitchPlaces] /\ call \in [Switchers -> CallType]
  /\ hooks \cup obeyed \cup unsure \cup succeeded \subseteq 0 .. tokens
  /\ tokens \in Nat /\ calls \in 0 .. MaxSwitches
  /\ log \in Seq(Events \X (0 .. tokens))

(* What the owner has heard of a switch, and the order it comes in. *)
Heard(t) == {e \in Events : <<e, t>> \in ToSet(log)}
Rank(e) ==
  CASE e = "before" -> 1 [] e = "apdu_switching" -> 2 [] e = "card_reset_settling" -> 3
    [] e = "failed" -> 4 [] e = "switch_failed" -> 5 [] e = "after" -> 6

Endings ==
  {{"before", "apdu_switching", "failed", "switch_failed"},
   {"before", "apdu_switching", "card_reset_settling", "failed", "switch_failed"},
   {"before", "apdu_switching", "card_reset_settling", "after"}}

(* The owner, who has paused what uses the card, hears of every switch one *)
(* of these stories, each event once and in order, without a gap; and as   *)
(* long as it is not at its end somebody is there to finish it.            *)
EverySwitchIsClosed ==
  \A t \in 1 .. tokens :
    /\ \A i, k \in DOMAIN log :
         i < k /\ log[i][2] = t /\ log[k][2] = t => Rank(log[i][1]) < Rank(log[k][1])
    /\ \E s \in Endings : /\ Heard(t) \subseteq s
                         /\ \A e \in Heard(t), d \in s : Rank(d) < Rank(e) => d \in Heard(t)
    /\ \/ Heard(t) \in Endings
       \/ t \in hooks
       \/ \E w \in Switchers : at[w] # "out" /\ call[w].token = t

(* The phases of two switches do not mingle, although what comes after the *)
(* lock, the failure and the hook, may fall into the next switch.          *)
IsPhase(i) == log[i][1] \in Phases
PhasesStayTogether ==
  \A i, k \in DOMAIN log :
    i < k /\ IsPhase(i) /\ IsPhase(k) /\ log[i][2] = log[k][2] /\ log[i][2] > 0 =>
      \A j \in i .. k : IsPhase(j) => log[j][2] = log[i][2]

(* With an arbiter no authentication holds the card while it is switched,  *)
(* and no barrier is left behind by a call that is over.                   *)
SwitchIsAlone ==
  /\ barrier # {} => leases = {}
  /\ \A w \in Switchers : w \in barrier <=> (withArbiter /\ at[w] \in {"command", "settle"})

(* A call is told of success for what the card has done and of failure for *)
(* what it has not, unless a reset or silence was all that was heard.      *)
ToldAsDone ==
  \A t \in (1 .. tokens) \ unsure :
    /\ t \in succeeded => t \in obeyed
    /\ <<"failed", t>> \in ToSet(log) => t \notin obeyed

(* Whatever fails and whoever comes between, a switch is told to its owner *)
(* once and in order, is alone on the card, and is told as it went         *)
(* (SwitchProfileWithResult, DisableProfile, runPostSwitchRecovery).       *)
SwitchesAreTold == EverySwitchIsClosed /\ PhasesStayTogether /\ SwitchIsAlone /\ ToldAsDone

=============================================================================
