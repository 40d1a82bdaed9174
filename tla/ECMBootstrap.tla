--------------------------- MODULE ECMBootstrap ---------------------------
(***************************************************************************)
(* The USB AT bridge of cmd/djonehub-macos/main.go (one shared handle,     *)
(* opened on demand, dropped on errors) and the ECM initialisation of      *)
(* ecm_initializer.go that runs over it: the automatic bootstrap and       *)
(* POST initialize convert a verified factory module (usbnet 0) to ECM     *)
(* (usbnet 1) and restart it, while GET status, the pollers and the user's *)
(* own commands share the bridge and the displayed status.                 *)
(***************************************************************************)
EXTENDS Naturals, FiniteSets

CONSTANTS
  Actors,      \* the goroutines at work
  Handles,     \* identities of libusb handles
  NoHandle,
  UserModes,   \* the modes a user picks in setUSBNetMode
  Modules,     \* the modules that may be plugged in
  MaxFaults    \* bound: restarts, unpluggings, lost, refused and cut answers

Starters == Actors \cap {"auto", "init"}
Callers == Actors \cap {"auto", "init", "status", "poller", "user"}
Modes == {"0", "1", "2"}
Commands == {"ati", "usbcfg", "usbnet", "write", "confirm", "cfun", "set", "poll"}
Module == [supported : BOOLEAN, usbnet : Modes]

ASSUME ECMAssumption ==
  /\ Actors \subseteq {"auto", "init", "status", "poller", "user"}
  /\ NoHandle \notin Handles
  /\ UserModes \subseteq Modes /\ Modules \subseteq Module /\ MaxFaults \in Nat

(* A fresh handle is none that a goroutine still remembers. *)
ASSUME HandlesAssumption ==
  \A f \in [Callers -> Handles \cup {NoHandle}] : \E h \in Handles : \A g \in Callers : f[g] # h

VARIABLES
  module,     \* the stored configuration of the module
  running,    \* the mode it was enumerated with
  attached,   \* it is on the bus
  restarting, \* it has accepted AT+CFUN=1,1
  usbAT,      \* a.usbAT
  live,       \* usbAT was opened on the present enumeration
  cooling,    \* time.Now() is before a.usbATBackoffUntil
  status,     \* a.ecmBootstrapLastResult
  inProgress, \* a.ecmBootstrapInProgress
  window,     \* time since a.ecmBootstrapLastAttempt: under 30 s, up to 45 s, more
  at,         \* the command each goroutine is at, or another place of its program
  phase,      \* how far that command has come
  dev,        \* the handle it runs on
  seen,       \* what the goroutine has read
  faults      \* the budget that is used

moduleVars == <<module, running, attached, restarting>>
bridgeVars == <<usbAT, live, cooling>>
statusVars == <<status, inProgress, window>>
callerVars == <<at, phase, dev, seen>>
vars == <<moduleVars, bridgeVars, statusVars, callerVars, faults>>

Unread == [failed |-> FALSE, supported |-> TRUE, usbnet |-> "", keep |-> FALSE]

Init ==
  /\ module \in Modules /\ running = module.usbnet
  /\ attached \in BOOLEAN /\ restarting = FALSE
  /\ usbAT = NoHandle /\ live = FALSE /\ cooling = FALSE
  /\ status = "" /\ inProgress = FALSE /\ window = "past"
  /\ at = [g \in Callers |-> "idle"]
  /\ phase = [g \in Callers |-> "ready"]
  /\ dev = [g \in Callers |-> NoHandle]
  /\ seen = [g \in Callers |-> Unread]
  /\ faults = 0

Fault == faults < MaxFaults /\ faults' = faults + 1
Goto(g, place) ==
  /\ at' = [at EXCEPT ![g] = place]
  /\ phase' = [phase EXCEPT ![g] = "ready"]
  /\ dev' = [dev EXCEPT ![g] = NoHandle]

-----------------------------------------------------------------------------
(* The displayed status.                                                   *)

(* setECMBootstrapState: a failure counts as an attempt. *)
SetStatus(s) ==
  /\ status' = s
  /\ window' = IF s = "failed" THEN "retry" ELSE window

BeginOnce(auto) ==                     \* mutant: a failure is never retried
  /\ ~inProgress
  /\ ~(auto /\ status \in {"failed", "rebooting"})
  /\ inProgress' = TRUE
  /\ status' = IF auto /\ status = "ready" THEN status ELSE "checking"

(* beginECMBootstrap. *)
BeginECMBootstrap(auto) ==
  /\ ~inProgress
  /\ ~(auto /\ status \in {"failed", "rebooting"} /\ window = "retry")
  /\ inProgress' = TRUE
  /\ status' = IF auto /\ status = "ready" THEN status ELSE "checking"

End(g) ==
  /\ inProgress' = FALSE
  /\ Goto(g, "idle")
  /\ seen' = [seen EXCEPT ![g] = Unread]

-----------------------------------------------------------------------------
(* The bridge.                                                             *)

(* ensureUSBAT: keep the handle, or open one on the enumerated module. *)
EnsureKeeps == usbAT # NoHandle /\ UNCHANGED <<usbAT, live>>
EnsureOpens ==
  /\ usbAT = NoHandle /\ attached /\ ~cooling
  /\ usbAT' = CHOOSE h \in Handles : h \notin {dev[g] : g \in Callers}
  /\ live' = TRUE
EnsureRefuses ==
  /\ usbAT = NoHandle
  /\ \/ ~attached /\ faults' = faults
     \/ attached /\ cooling /\ faults' = faults
     \/ attached /\ ~cooling /\ Fault
EnsuredStatus == IF attached THEN "detected" ELSE "disconnected"

(* markUSBATDetached. *)
Detach ==
  /\ usbAT' = NoHandle /\ live' = FALSE /\ cooling' = TRUE
  /\ status' = IF status = "rebooting" THEN status ELSE "disconnected"

(* runATCommand: a handle for the command of g, *)
Send(g) ==
  /\ at[g] \in Commands /\ phase[g] = "ready"
  /\ \/ /\ EnsureKeeps \/ EnsureOpens
        /\ status' = IF usbAT = NoHandle THEN "detected" ELSE status
        /\ dev' = [dev EXCEPT ![g] = usbAT']
        /\ phase' = [phase EXCEPT ![g] = "sent"]
        /\ UNCHANGED faults
     \/ /\ EnsureRefuses
        /\ status' = EnsuredStatus
        /\ phase' = [phase EXCEPT ![g] = "failed"]
        /\ UNCHANGED <<usbAT, live, dev>>
  /\ UNCHANGED <<moduleVars, cooling, inProgress, window, at, seen>>

Sent(g) == phase[g] = "sent"
OnModule(g) == Sent(g) /\ dev[g] = usbAT /\ live

ObeysUnset(g) ==                       \* mutant: the mode is read back empty
  /\ module' = [module EXCEPT !.usbnet = IF at[g] = "set" THEN "" ELSE @]
  /\ UNCHANGED restarting

(* What the module does with a command. *)
Obeys(g) ==
  \/ at[g] = "write" /\ module' = [module EXCEPT !.usbnet = "1"] /\ UNCHANGED restarting
  \/ /\ at[g] = "set" /\ UNCHANGED restarting
     /\ \E mode \in UserModes : module' = [module EXCEPT !.usbnet = mode]
  \/ at[g] = "cfun" /\ restarting' = TRUE /\ UNCHANGED module
  \/ at[g] \notin {"write", "set", "cfun"} /\ UNCHANGED <<module, restarting>>
Ignores == UNCHANGED <<module, restarting>>

(* No answer: the handle was closed under the command, the module has left *)
(* the bus, or it obeys or not and stays silent.                           *)
HandleClosed(g) ==
  /\ Sent(g) /\ dev[g] # usbAT
  /\ phase' = [phase EXCEPT ![g] = "failed"]
  /\ UNCHANGED <<moduleVars, bridgeVars, statusVars, at, dev, seen, faults>>
NoAnswer(g) ==
  /\ Sent(g) /\ dev[g] = usbAT
  /\ \/ ~live /\ Ignores /\ UNCHANGED faults
     \/ live /\ Fault /\ (Obeys(g) \/ Ignores)
  /\ phase' = [phase EXCEPT ![g] = "gone"]
  /\ UNCHANGED <<running, attached, bridgeVars, statusVars, at, dev, seen>>

ResetIgnoresGone(g) ==                 \* mutant: a dead handle is kept
  /\ phase[g] = "gone"
  /\ phase' = [phase EXCEPT ![g] = "failed"]
  /\ UNCHANGED <<moduleVars, bridgeVars, statusVars, at, dev, seen, faults>>

(* resetUSBATIfGone: the handle in use goes, whoever opened it. *)
ResetUSBATIfGone(g) ==
  /\ phase[g] = "gone"
  /\ phase' = [phase EXCEPT ![g] = "failed"]
  /\ IF usbAT = NoHandle THEN UNCHANGED <<bridgeVars, status>> ELSE Detach
  /\ UNCHANGED <<moduleVars, inProgress, window, at, dev, seen, faults>>

-----------------------------------------------------------------------------
(* autoInitializeECMOnce and initializeECM.                                *)

(* One goroutine runs the two up to here at a time.                        *)
NoModule(g) ==
  /\ g \in Starters /\ at[g] = "idle" /\ ~attached
  /\ CASE g = "auto" -> ~(status = "rebooting" /\ window # "past")
       [] g = "init" -> ~inProgress
  /\ SetStatus("disconnected")
  /\ UNCHANGED <<moduleVars, bridgeVars, inProgress, callerVars, faults>>

BeginUnguarded(g) ==                   \* mutant: a run in progress is not noticed
  /\ g \in Starters /\ at[g] = "idle" /\ attached
  /\ inProgress' = TRUE /\ status' = "checking"
  /\ Goto(g, "open")
  /\ UNCHANGED <<moduleVars, bridgeVars, window, seen, faults>>

Begin(g) ==
  /\ g \in Starters /\ at[g] = "idle" /\ attached
  /\ BeginECMBootstrap(g = "auto")
  /\ Goto(g, "open")
  /\ UNCHANGED <<moduleVars, bridgeVars, window, seen, faults>>

(* The first ensureUSBAT. *)
OpenRefused(g) ==
  /\ g \in Starters /\ at[g] = "open" /\ EnsureRefuses
  /\ SetStatus(IF g = "auto" THEN "detected" ELSE "failed") /\ End(g)
  /\ UNCHANGED <<moduleVars, bridgeVars>>
Open(g) ==
  /\ g \in Starters /\ at[g] = "open"
  /\ EnsureKeeps \/ EnsureOpens
  /\ status' = IF usbAT = NoHandle THEN "detected" ELSE status
  /\ Goto(g, "ati")
  /\ UNCHANGED <<moduleVars, cooling, inProgress, window, seen, faults>>

(* A command failed: the run ends, except at the restart, where losing the *)
(* module is what is expected.                                             *)
Fails(g) ==
  /\ g \in Starters /\ phase[g] = "failed"
  /\ IF at[g] = "cfun"
     THEN Goto(g, "mark") /\ UNCHANGED <<statusVars, seen>>
     ELSE SetStatus("failed") /\ End(g)
  /\ UNCHANGED <<moduleVars, bridgeVars, faults>>

(* ATI and usbcfg; an answer cut short by the timeout lacks what is sought. *)
Reads(g, sound) == OnModule(g) /\ (IF sound THEN UNCHANGED faults ELSE Fault)

Identify(g) ==
  /\ g \in Starters /\ at[g] \in {"ati", "usbcfg"}
  /\ \E sound \in BOOLEAN :
       /\ Reads(g, sound)
       /\ seen' = [seen EXCEPT ![g].supported = @ /\ sound /\ module.supported]
  /\ Goto(g, IF at[g] = "ati" THEN "usbcfg" ELSE "supported")
  /\ UNCHANGED <<moduleVars, bridgeVars, statusVars>>

CheckSkipped(g) ==                     \* mutant: the identity is not checked
  /\ g \in Starters /\ at[g] = "supported"
  /\ Goto(g, "usbnet") /\ UNCHANGED <<statusVars, seen>>
  /\ UNCHANGED <<moduleVars, bridgeVars, faults>>

CheckSupported(g) ==
  /\ g \in Starters /\ at[g] = "supported"
  /\ IF seen[g].supported
     THEN Goto(g, "usbnet") /\ UNCHANGED <<statusVars, seen>>
     ELSE SetStatus(IF g = "auto" THEN "detected" ELSE "failed") /\ End(g)
  /\ UNCHANGED <<moduleVars, bridgeVars, faults>>

(* usbnet: 1 is ready, the factory's 0 is converted, the rest is left alone. *)
ReadUSBNet(g) ==
  /\ g \in Starters /\ at[g] = "usbnet"
  /\ \E sound \in BOOLEAN :
       /\ Reads(g, sound)
       /\ LET usbnet == IF sound THEN module.usbnet ELSE ""
          IN  CASE usbnet = "1" -> SetStatus("ready") /\ End(g)
                [] usbnet = "0" -> /\ status' = "initializing" /\ window' = "retry"
                                   /\ Goto(g, "write") /\ UNCHANGED <<inProgress, seen>>
                [] OTHER        -> SetStatus("failed") /\ End(g)
  /\ UNCHANGED <<moduleVars, bridgeVars>>

Write(g) ==
  /\ g \in Starters /\ at[g] = "write" /\ OnModule(g)
  /\ \/ Obeys(g) /\ Goto(g, "confirm") /\ UNCHANGED <<statusVars, seen, faults>>
     \/ /\ Fault /\ (Obeys(g) \/ Ignores)   \* ERROR, or OK is cut off
        /\ SetStatus("failed") /\ End(g)
  /\ UNCHANGED <<running, attached, bridgeVars>>

Confirm(g) ==
  /\ g \in Starters /\ at[g] = "confirm"
  /\ \E sound \in BOOLEAN :
       /\ Reads(g, sound)
       /\ IF sound /\ module.usbnet = "1"
          THEN status' = "rebooting" /\ Goto(g, "cfun") /\ UNCHANGED <<inProgress, window, seen>>
          ELSE SetStatus("failed") /\ End(g)
  /\ UNCHANGED <<moduleVars, bridgeVars>>

Restart(g) ==
  /\ g \in Starters /\ at[g] = "cfun" /\ OnModule(g)
  /\ \/ Obeys(g) /\ Goto(g, "mark") /\ UNCHANGED <<statusVars, seen, faults>>
     \/ Fault /\ (Obeys(g) \/ Ignores) /\ SetStatus("failed") /\ End(g)
  /\ UNCHANGED <<running, attached, bridgeVars>>

Mark(g) ==
  /\ g \in Starters /\ at[g] = "mark"
  /\ Detach /\ End(g)
  /\ UNCHANGED <<moduleVars, window, faults>>

-----------------------------------------------------------------------------
(* ecmStatus, which displays and stores the status without beginning a run. *)

StatusLooks ==
  /\ "status" \in Callers /\ at["status"] = "idle"
  /\ IF attached
     THEN /\ ~(inProgress /\ status \in {"initializing", "rebooting"})
          /\ Goto("status", "open")
          /\ seen' = [seen EXCEPT !["status"].keep = status \in {"ready", "checking"}]
          /\ UNCHANGED <<status, window>>
     ELSE /\ ~(status = "rebooting" /\ window # "past")
          /\ SetStatus("disconnected")
          /\ UNCHANGED callerVars
  /\ UNCHANGED <<moduleVars, bridgeVars, inProgress, faults>>

StatusOpens ==
  /\ "status" \in Callers /\ at["status"] = "open"
  /\ \/ /\ EnsureKeeps \/ EnsureOpens
        /\ status' = IF ~seen["status"].keep THEN "checking"
                     ELSE IF usbAT = NoHandle THEN "detected" ELSE status
        /\ Goto("status", "ati")
        /\ seen' = [seen EXCEPT !["status"].keep = FALSE]
        /\ UNCHANGED faults
     \/ /\ EnsureRefuses
        /\ status' = "detected"
        /\ Goto("status", "idle")
        /\ seen' = [seen EXCEPT !["status"] = Unread]
        /\ UNCHANGED <<usbAT, live>>
  /\ UNCHANGED <<moduleVars, cooling, inProgress, window>>

(* ATI, usbnet and usbcfg are all read before any error is looked at. *)
After(command) ==
  CASE command = "ati" -> "usbnet" [] command = "usbnet" -> "usbcfg" [] OTHER -> "decide"
StatusReads ==
  /\ "status" \in Callers /\ at["status"] \in {"ati", "usbnet", "usbcfg"}
  /\ \/ /\ phase["status"] = "failed" /\ UNCHANGED faults
        /\ seen' = [seen EXCEPT !["status"] = [Unread EXCEPT !.failed = TRUE]]
     \/ \E sound \in BOOLEAN :
          /\ Reads("status", sound)
          /\ IF seen["status"].failed
             THEN UNCHANGED seen
             ELSE IF at["status"] = "usbnet"
             THEN seen' = [seen EXCEPT !["status"].usbnet = IF sound THEN module.usbnet ELSE ""]
             ELSE seen' = [seen EXCEPT !["status"].supported = @ /\ sound /\ module.supported]
  /\ Goto("status", After(at["status"]))
  /\ UNCHANGED <<moduleVars, bridgeVars, statusVars>>

DecisionUnnamed(s) ==                  \* mutant: unverified modes have no status
  CASE s.failed -> "failed"
    [] ~s.failed /\ (~s.supported \/ s.usbnet = "0") -> "detected"
    [] ~s.failed /\ s.supported /\ s.usbnet = "1" -> "ready"
    [] OTHER -> s.usbnet

(* decideECMInitialization. *)
Decision(s) ==
  CASE s.failed -> "failed"
    [] ~s.failed /\ (~s.supported \/ s.usbnet = "0") -> "detected"
    [] ~s.failed /\ s.supported /\ s.usbnet = "1" -> "ready"
    [] OTHER -> "failed"
StatusDecides ==
  /\ "status" \in Callers /\ at["status"] = "decide"
  /\ SetStatus(Decision(seen["status"]))
  /\ seen' = [seen EXCEPT !["status"] = Unread]
  /\ Goto("status", "idle")
  /\ UNCHANGED <<moduleVars, bridgeVars, inProgress, faults>>

-----------------------------------------------------------------------------
(* The other users of the bridge: pollers, setUSBNetMode and rebootModule. *)

OtherCommands(g) == IF g = "poller" THEN {"poll"} ELSE {"set", "cfun"}
OtherBegins(g) ==
  /\ g \in Callers \cap {"poller", "user"} /\ at[g] = "idle"
  /\ \E command \in OtherCommands(g) : Goto(g, command)
  /\ UNCHANGED <<moduleVars, bridgeVars, statusVars, seen, faults>>
OtherEnds(g) ==
  /\ g \in Callers \cap {"poller", "user"}
  /\ \/ phase[g] = "failed" /\ Ignores
     \/ OnModule(g) /\ Obeys(g)
  /\ Goto(g, "idle")
  /\ UNCHANGED <<running, attached, bridgeVars, statusVars, seen, faults>>

-----------------------------------------------------------------------------
(* The module and the clock.                                               *)

(* The module leaves the bus: it restarts, or is unplugged. *)
Leave ==
  /\ attached
  /\ IF restarting THEN UNCHANGED faults ELSE Fault
  /\ attached' = FALSE /\ live' = FALSE
  /\ UNCHANGED <<module, running, restarting, usbAT, cooling, statusVars, callerVars>>

(* A module is enumerated: the same one, or one that took its place. *)
Enumerate ==
  /\ ~attached
  /\ attached' = TRUE /\ restarting' = FALSE
  /\ module' \in {module} \cup (IF restarting THEN {} ELSE Modules)
  /\ running' = module'.usbnet
  /\ UNCHANGED <<bridgeVars, statusVars, callerVars, faults>>

(* Two seconds are longer than the way of a run from one command to the    *)
(* next, unless the whole machine sleeps.                                  *)
BetweenCommands(g) == at[g] \notin {"idle", "open", "ati"} /\ phase[g] = "ready"
CoolDownEnds ==
  /\ cooling /\ ~\E g \in Starters : BetweenCommands(g)
  /\ cooling' = FALSE
  /\ UNCHANGED <<moduleVars, usbAT, live, statusVars, callerVars, faults>>

WindowPasses ==
  /\ window # "past"
  /\ window' = IF window = "retry" THEN "reboot" ELSE "past"
  /\ UNCHANGED <<moduleVars, bridgeVars, status, inProgress, callerVars, faults>>

Run(g) ==
  \/ Open(g) \/ OpenRefused(g) \/ Fails(g) \/ Identify(g) \/ CheckSupported(g)
  \/ ReadUSBNet(g) \/ Write(g) \/ Confirm(g) \/ Restart(g) \/ Mark(g)
Command(g) == Send(g) \/ HandleClosed(g) \/ NoAnswer(g) \/ ResetUSBATIfGone(g)
StatusStep == StatusOpens \/ StatusReads \/ StatusDecides

Next ==
  \/ \E g \in Callers :
       Command(g) \/ NoModule(g) \/ Begin(g) \/ Run(g) \/ OtherBegins(g) \/ OtherEnds(g)
  \/ StatusLooks \/ StatusStep
  \/ Leave \/ Enumerate \/ CoolDownEnds \/ WindowPasses

Spec == Init /\ [][Next]_vars

(* Goroutines run, the bootstrap timer ticks every three seconds, time     *)
(* passes, and a restarting module comes back.  Requests are free.         *)
Fairness ==
  /\ \A g \in Callers : WF_vars(Command(g) \/ Run(g) \/ OtherEnds(g))
  /\ WF_vars(StatusStep)
  /\ WF_vars(Begin("auto")) /\ WF_vars(Leave /\ restarting) /\ WF_vars(Enumerate)
  /\ WF_vars(CoolDownEnds) /\ WF_vars(WindowPasses)

FairSpec == Spec /\ Fairness

-----------------------------------------------------------------------------
(* Properties.                                                             *)

(* Every variable has its type. *)
TypeOK ==
  /\ module \in Module /\ running \in Modes
  /\ attached \in BOOLEAN /\ restarting \in BOOLEAN
  /\ usbAT \in Handles \cup {NoHandle} /\ live \in BOOLEAN /\ cooling \in BOOLEAN
  /\ status \in {"", "disconnected", "detected", "checking", "initializing", "rebooting",
                 "ready", "failed"}
  /\ inProgress \in BOOLEAN /\ window \in {"retry", "reboot", "past"}
  /\ at \in [Callers -> Commands \cup {"idle", "open", "supported", "mark", "decide"}]
  /\ phase \in [Callers -> {"ready", "sent", "gone", "failed"}]
  /\ dev \in [Callers -> Handles \cup {NoHandle}]
  /\ seen \in [Callers -> [failed : BOOLEAN, supported : BOOLEAN, keep : BOOLEAN,
                           usbnet : Modes \cup {""}]]
  /\ faults \in 0 .. MaxFaults

(* The automatic bootstrap and POST initialize never run together, and the *)
(* mark of a run in progress outlives no run (beginECMBootstrap).          *)
OneBootstrap ==
  Cardinality({g \in Starters : at[g] # "idle"}) = (IF inProgress THEN 1 ELSE 0)

(* A bootstrap's usbnet=1 reaches only a supported module that still has   *)
(* the factory mode 0, whoever opens and drops the handle and whichever    *)
(* module is plugged in between its reads and its write.                   *)
WritesAreVerified ==
  \A g \in Starters :
    (at[g] = "write" /\ OnModule(g)) => module.supported /\ module.usbnet = "0"

(* A supported module stays on the bus with a mode the bootstrap knows.    *)
Settles == <>[](attached /\ module.supported /\ module.usbnet # "2")

(* It is converted for good, unless the user keeps changing its mode, and  *)
(* is shown as ready again and again: no dead handle, cool-down, retry     *)
(* window or status of another goroutine is in the way for ever.           *)
ModuleIsConverted == (Settles /\ <>[][~OtherBegins("user")]_vars) => <>[](module.usbnet = "1")
ReadyIsShown == (Settles /\ <>[](module.usbnet = "1")) => []<>(status = "ready")

(* A module on an open handle that is shown as ready runs in ECM mode.     *)
ReadyMeansECM == (status = "ready" /\ live) => running = "1"
=============================================================================
