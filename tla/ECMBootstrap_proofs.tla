------------------------ MODULE ECMBootstrap_proofs ------------------------
(***************************************************************************)
(* Proofs about the ECM bootstrap over the shared USB AT bridge: types,    *)
(* one run at a time, and writes only to the module that was verified, for *)
(* any goroutines, handles, modules and number of faults.                  *)
(***************************************************************************)
EXTENDS ECMBootstrap, FiniteSetTheorems, TLAPS

-----------------------------------------------------------------------------
(* Types.                                                                  *)

Places == Commands \cup {"idle", "open", "supported", "mark", "decide"}
Readings == [failed : BOOLEAN, supported : BOOLEAN, keep : BOOLEAN, usbnet : Modes \cup {""}]

LEMMA FreshHandle ==
  ASSUME TypeOK, EnsureOpens
  PROVE  usbAT' \in Handles /\ \A g \in Callers : dev[g] # usbAT'
  <1>1. dev \in [Callers -> Handles \cup {NoHandle}]
    BY DEF TypeOK
  <1>2. PICK h \in Handles : \A g \in Callers : dev[g] # h
    BY <1>1, HandlesAssumption
  <1>3. \E k \in Handles : k \notin {dev[g] : g \in Callers}
    BY <1>2
  <1>4. usbAT' \in Handles /\ usbAT' \notin {dev[g] : g \in Callers}
    BY <1>3 DEF EnsureOpens
  <1> QED
    BY <1>4

LEMMA FaultType ==
  ASSUME TypeOK, Fault
  PROVE  faults' \in 0 .. MaxFaults
  <1>1. faults \in 0 .. MaxFaults
    BY DEF TypeOK
  <1>2. MaxFaults \in Nat
    BY ECMAssumption
  <1> QED
    BY <1>1, <1>2 DEF Fault

LEMMA GotoType ==
  ASSUME TypeOK, NEW g \in Callers, NEW place \in Places, Goto(g, place)
  PROVE  /\ at' \in [Callers -> Places]
         /\ phase' \in [Callers -> {"ready", "sent", "gone", "failed"}]
         /\ dev' \in [Callers -> Handles \cup {NoHandle}]
  BY DEF TypeOK, Goto, Places

LEMMA ObeysType ==
  ASSUME TypeOK, NEW g, Obeys(g) \/ Ignores
  PROVE  module' \in Module /\ restarting' \in BOOLEAN
  BY ECMAssumption DEF TypeOK, Obeys, Ignores, Module, Modes

LEMMA InitType == Init => TypeOK
  <1> SUFFICES ASSUME Init PROVE TypeOK
    OBVIOUS
  <1>1. module \in Module /\ running \in Modes
    BY ECMAssumption DEF Init, Module
  <1>2. Unread \in Readings
    BY DEF Unread, Readings, Modes
  <1>3. 0 \in 0 .. MaxFaults
    BY ECMAssumption
  <1> QED
    BY <1>1, <1>2, <1>3 DEF Init, TypeOK, Readings

LEMMA EnsureType ==
  ASSUME TypeOK, EnsureKeeps \/ EnsureOpens
  PROVE  usbAT' \in Handles \cup {NoHandle} /\ live' \in BOOLEAN
  BY FreshHandle DEF TypeOK, EnsureKeeps, EnsureOpens

LEMMA EndType ==
  ASSUME TypeOK, NEW g \in Callers, End(g)
  PROVE  /\ inProgress' \in BOOLEAN /\ at' \in [Callers -> Places]
         /\ phase' \in [Callers -> {"ready", "sent", "gone", "failed"}]
         /\ dev' \in [Callers -> Handles \cup {NoHandle}]
         /\ seen' \in [Callers -> Readings]
  BY GotoType DEF TypeOK, End, Unread, Readings, Modes, Places

LEMMA ReadingType ==
  ASSUME TypeOK, NEW g \in Callers, NEW b \in BOOLEAN
  PROVE  seen[g] \in Readings /\ Unread \in Readings /\ [seen[g] EXCEPT !.keep = b] \in Readings
  BY DEF TypeOK, Readings, Unread, Modes

(* The commands. *)
LEMMA SendTypes ==
  ASSUME TypeOK, NEW g \in Callers, Send(g)
  PROVE  TypeOK'
  <1>1. usbAT' \in Handles \cup {NoHandle} /\ live' \in BOOLEAN
    BY EnsureType DEF Send, TypeOK
  <1>2. dev' \in [Callers -> Handles \cup {NoHandle}]
    BY <1>1 DEF Send, TypeOK
  <1>3. phase' \in [Callers -> {"ready", "sent", "gone", "failed"}]
    BY DEF Send, TypeOK
  <1>4. faults' \in 0 .. MaxFaults
    BY FaultType DEF Send, EnsureRefuses, TypeOK
  <1>5. status' \in {status, "detected", "disconnected"}
    BY DEF Send, EnsuredStatus
  <1>6. UNCHANGED <<moduleVars, cooling, inProgress, window, at, seen>>
    BY DEF Send
  <1> QED
    BY <1>1, <1>2, <1>3, <1>4, <1>5, <1>6 DEF TypeOK, moduleVars

LEMMA CommandTypes ==
  ASSUME TypeOK, NEW g \in Callers, Command(g)
  PROVE  TypeOK'
  <1>1. CASE Send(g)
    BY <1>1, SendTypes
  <1>2. CASE HandleClosed(g)
    BY <1>2 DEF TypeOK, HandleClosed, moduleVars, bridgeVars, statusVars
  <1>3. CASE NoAnswer(g)
    BY <1>3, ObeysType, FaultType DEF TypeOK, NoAnswer, bridgeVars, statusVars
  <1>4. CASE ResetUSBATIfGone(g)
    BY <1>4 DEF TypeOK, ResetUSBATIfGone, Detach, moduleVars, bridgeVars
  <1> QED
    BY <1>1, <1>2, <1>3, <1>4 DEF Command

LEMMA IdentifyTypes ==
  ASSUME TypeOK, NEW g \in Callers, Identify(g)
  PROVE  TypeOK'
  <1> DEFINE place == IF at[g] = "ati" THEN "usbcfg" ELSE "supported"
  <1>1. PICK sound \in BOOLEAN :
          /\ Reads(g, sound)
          /\ seen' = [seen EXCEPT ![g].supported = @ /\ sound /\ module.supported]
    BY DEF Identify
  <1>2. seen' \in [Callers -> Readings]
    BY <1>1 DEF TypeOK, Readings
  <1>3. faults' \in 0 .. MaxFaults
    BY <1>1, FaultType DEF Reads, TypeOK
  <1>4. place \in Places /\ Goto(g, place)
    BY DEF Places, Commands, Identify
  <1>5. UNCHANGED <<moduleVars, bridgeVars, statusVars>>
    BY DEF Identify
  <1>6. /\ at' \in [Callers -> Places]
        /\ phase' \in [Callers -> {"ready", "sent", "gone", "failed"}]
        /\ dev' \in [Callers -> Handles \cup {NoHandle}]
    BY <1>4, GotoType
  <1> QED
    BY <1>2, <1>3, <1>5, <1>6 DEF TypeOK, Places, Readings, moduleVars, bridgeVars, statusVars

(* Each step of a run goes on or ends; what it does to the module, the     *)
(* bridge and the fault counter is of the right type either way.           *)
Shown == {"", "disconnected", "detected", "checking", "initializing", "rebooting", "ready", "failed"}
ModuleTyped ==
  /\ module' \in Module /\ restarting' \in BOOLEAN /\ faults' \in 0 .. MaxFaults
  /\ UNCHANGED <<running, attached, bridgeVars>>

LEMMA GoesTypes ==
  ASSUME TypeOK, ModuleTyped, NEW g \in Callers, NEW place \in Places, Goto(g, place),
         UNCHANGED <<inProgress, seen>>, status' \in Shown,
         window' \in {"retry", "reboot", "past"}
  PROVE  TypeOK'
  BY GotoType DEF TypeOK, ModuleTyped, Shown, Places, bridgeVars

LEMMA EndsTypes ==
  ASSUME TypeOK, ModuleTyped, NEW g \in Callers, End(g), NEW s \in Shown, SetStatus(s)
  PROVE  TypeOK'
  <1>1. status' \in Shown /\ window' \in {"retry", "reboot", "past"}
    BY DEF SetStatus, TypeOK
  <1> QED
    BY <1>1, EndType DEF TypeOK, ModuleTyped, Shown, Places, Readings, bridgeVars

(* What a step that writes nothing, or may write, does to the module.      *)
LEMMA ReadTyped ==
  ASSUME TypeOK, UNCHANGED <<moduleVars, bridgeVars>>, UNCHANGED faults \/ Fault
  PROVE  ModuleTyped
  BY FaultType DEF TypeOK, ModuleTyped, moduleVars, bridgeVars

LEMMA WriteTyped ==
  ASSUME TypeOK, NEW g, Obeys(g) \/ Ignores, UNCHANGED <<running, attached, bridgeVars>>,
         UNCHANGED faults \/ Fault
  PROVE  ModuleTyped
  BY FaultType, ObeysType DEF TypeOK, ModuleTyped

(* The steps of a run. *)
LEMMA RunTypes ==
  ASSUME TypeOK, NEW g \in Callers, Run(g)
  PROVE  TypeOK'
  <1>0. /\ {"usbnet", "write", "confirm", "cfun", "mark"} \subseteq Places
        /\ status \in Shown /\ {"initializing", "rebooting"} \subseteq Shown
        /\ {window, "retry"} \subseteq {"retry", "reboot", "past"}
    BY DEF TypeOK, Shown, Places, Commands
  <1>1. CASE Open(g)
    BY <1>1, EnsureType, GotoType DEF TypeOK, Open, Places, Commands, moduleVars
  <1>2. CASE OpenRefused(g)
    BY <1>2, EndType, FaultType
    DEF TypeOK, OpenRefused, EnsureRefuses, SetStatus, Places, Readings, moduleVars, bridgeVars
  <1>3. CASE Fails(g)
    <2>1. ModuleTyped
      BY <1>3, ReadTyped DEF Fails
    <2>2. \/ End(g) /\ \E s \in Shown : SetStatus(s)
          \/ Goto(g, "mark") /\ UNCHANGED <<statusVars, seen>>
      BY <1>3 DEF Fails, Shown
    <2> QED
      BY <2>1, <2>2, <1>0, EndsTypes, GoesTypes DEF statusVars
  <1>4. CASE Identify(g)
    BY <1>4, IdentifyTypes
  <1>5. CASE CheckSupported(g)
    <2>1. ModuleTyped
      BY <1>5, ReadTyped DEF CheckSupported
    <2>2. CASE seen[g].supported
      <3>1. Goto(g, "usbnet") /\ UNCHANGED <<statusVars, seen>>
        BY <1>5, <2>2 DEF CheckSupported
      <3> QED
        BY <2>1, <3>1, <1>0, GoesTypes DEF statusVars
    <2>3. CASE ~seen[g].supported
      <3>1. End(g) /\ \E s \in Shown : SetStatus(s)
        BY <1>5, <2>3 DEF CheckSupported, Shown
      <3> QED
        BY <2>1, <3>1, EndsTypes
    <2> QED
      BY <2>2, <2>3
  <1>6. CASE ReadUSBNet(g)
    <2>1. ModuleTyped
      BY <1>6, ReadTyped DEF ReadUSBNet, Reads
    <2>2. \/ End(g) /\ \E s \in Shown : SetStatus(s)
          \/ /\ status' = "initializing" /\ window' = "retry" /\ Goto(g, "write")
             /\ UNCHANGED <<inProgress, seen>>
      BY <1>6 DEF ReadUSBNet, Shown
    <2> QED
      BY <2>1, <2>2, <1>0, EndsTypes, GoesTypes
  <1>7. CASE Write(g)
    <2>1. ModuleTyped
      BY <1>7, WriteTyped DEF Write
    <2>2. \/ End(g) /\ \E s \in Shown : SetStatus(s)
          \/ Goto(g, "confirm") /\ UNCHANGED <<statusVars, seen>>
      BY <1>7 DEF Write, Shown
    <2> QED
      BY <2>1, <2>2, <1>0, EndsTypes, GoesTypes DEF statusVars
  <1>8. CASE Confirm(g)
    <2>1. ModuleTyped
      BY <1>8, ReadTyped DEF Confirm, Reads
    <2>2. \/ End(g) /\ \E s \in Shown : SetStatus(s)
          \/ status' = "rebooting" /\ Goto(g, "cfun") /\ UNCHANGED <<inProgress, window, seen>>
      BY <1>8 DEF Confirm, Shown
    <2> QED
      BY <2>1, <2>2, <1>0, EndsTypes, GoesTypes
  <1>9. CASE Restart(g)
    <2>1. ModuleTyped
      BY <1>9, WriteTyped DEF Restart
    <2>2. \/ End(g) /\ \E s \in Shown : SetStatus(s)
          \/ Goto(g, "mark") /\ UNCHANGED <<statusVars, seen>>
      BY <1>9 DEF Restart, Shown
    <2> QED
      BY <2>1, <2>2, <1>0, EndsTypes, GoesTypes DEF statusVars
  <1>10. CASE Mark(g)
    BY <1>10, EndType DEF TypeOK, Mark, Detach, Places, Readings, moduleVars
  <1> QED
    BY <1>1, <1>2, <1>3, <1>4, <1>5, <1>6, <1>7, <1>8, <1>9, <1>10 DEF Run

(* A status request. *)
LEMMA LooksTypes ==
  ASSUME TypeOK, StatusLooks
  PROVE  TypeOK'
  <1>1. CASE attached
    <2> DEFINE b == status \in {"ready", "checking"}
               r == [seen["status"] EXCEPT !.keep = b]
    <2>1. seen' = [seen EXCEPT !["status"] = r] /\ "status" \in Callers
      BY <1>1 DEF StatusLooks
    <2>2. r \in Readings
      <3>1. b \in BOOLEAN
        OBVIOUS
      <3> HIDE DEF b
      <3> QED
        BY <2>1, <3>1, ReadingType
    <2>3. seen \in [Callers -> Readings]
      BY DEF TypeOK, Readings
    <2> HIDE DEF r
    <2>4. seen' \in [Callers -> Readings]
      BY <2>1, <2>2, <2>3
    <2>5. Goto("status", "open") /\ UNCHANGED <<status, window>>
      BY <1>1 DEF StatusLooks
    <2> QED
      BY <2>1, <2>4, <2>5, GotoType
      DEF TypeOK, StatusLooks, Places, Readings, moduleVars, bridgeVars
  <1>2. CASE ~attached
    BY <1>2 DEF TypeOK, StatusLooks, SetStatus, moduleVars, bridgeVars, callerVars
  <1> QED
    BY <1>1, <1>2

LEMMA OpensTypes ==
  ASSUME TypeOK, StatusOpens
  PROVE  TypeOK'
  <1>1. seen \in [Callers -> Readings] /\ "status" \in Callers
    BY DEF TypeOK, Readings, StatusOpens
  <1>2. seen' \in [Callers -> Readings]
    <2>1. CASE seen' = [seen EXCEPT !["status"] = Unread]
      BY <1>1, <2>1, ReadingType
    <2>2. CASE seen' = [seen EXCEPT !["status"].keep = FALSE]
      <3> DEFINE r == [seen["status"] EXCEPT !.keep = FALSE]
      <3>1. seen' = [seen EXCEPT !["status"] = r]
        BY <2>2
      <3>2. r \in Readings
        BY <1>1, ReadingType
      <3> HIDE DEF r
      <3> QED
        BY <1>1, <3>1, <3>2
    <2> QED
      BY <2>1, <2>2 DEF StatusOpens
  <1>3. "ati" \in Places /\ "idle" \in Places
    BY DEF Places, Commands
  <1>4. CASE EnsureKeeps \/ EnsureOpens
    BY <1>1, <1>2, <1>3, <1>4, EnsureType, FaultType, GotoType
    DEF TypeOK, StatusOpens, EnsureRefuses, Places, Readings, moduleVars
  <1>5. CASE EnsureRefuses /\ UNCHANGED <<usbAT, live>>
    BY <1>1, <1>2, <1>3, <1>5, EnsureType, FaultType, GotoType
    DEF TypeOK, StatusOpens, EnsureRefuses, Places, Readings, moduleVars
  <1> QED
    BY <1>4, <1>5 DEF StatusOpens

LEMMA ReadsTypes ==
  ASSUME TypeOK, StatusReads
  PROVE  TypeOK'
  <1>1. seen \in [Callers -> Readings] /\ module \in Module /\ "status" \in Callers
    BY DEF TypeOK, Readings, StatusReads
  <1>2. seen' \in [Callers -> Readings]
    <2>1. CASE seen' = [seen EXCEPT !["status"] = [Unread EXCEPT !.failed = TRUE]]
      <3>1. [Unread EXCEPT !.failed = TRUE] \in Readings
        BY DEF Unread, Readings
      <3> QED
        BY <1>1, <2>1, <3>1
    <2>2. ASSUME NEW sound \in BOOLEAN,
                 seen' = [seen EXCEPT !["status"].usbnet = IF sound THEN module.usbnet ELSE ""]
          PROVE  seen' \in [Callers -> Readings]
      BY <1>1, <2>2 DEF Readings, Module, Modes
    <2>3. ASSUME NEW sound \in BOOLEAN,
                 seen' = [seen EXCEPT !["status"].supported = @ /\ sound /\ module.supported]
          PROVE  seen' \in [Callers -> Readings]
      BY <1>1, <2>3 DEF Readings
    <2> QED
      BY <1>1, <2>1, <2>2, <2>3 DEF StatusReads
  <1>3. faults' \in 0 .. MaxFaults
    BY FaultType DEF StatusReads, Reads, TypeOK
  <1>4. After(at["status"]) \in Places /\ Goto("status", After(at["status"]))
    BY DEF Places, Commands, After, StatusReads
  <1>5. /\ at' \in [Callers -> Places]
        /\ phase' \in [Callers -> {"ready", "sent", "gone", "failed"}]
        /\ dev' \in [Callers -> Handles \cup {NoHandle}]
    BY <1>1, <1>4, GotoType
  <1>6. UNCHANGED <<module, running, attached, restarting, usbAT, live, cooling,
                    status, inProgress, window>>
    BY DEF StatusReads, moduleVars, bridgeVars, statusVars
  <1> QED
    BY <1>2, <1>3, <1>5, <1>6 DEF TypeOK, Places, Readings

(* Every step keeps the types. *)
LEMMA TypeNext == TypeOK /\ [Next]_vars => TypeOK'
  <1> SUFFICES ASSUME TypeOK, [Next]_vars PROVE TypeOK'
    OBVIOUS
  <1>1. ASSUME NEW g \in Callers, Command(g) PROVE TypeOK'
    BY <1>1, CommandTypes
  <1>2. ASSUME NEW g \in Callers, Run(g) PROVE TypeOK'
    BY <1>2, RunTypes
  <1>3. ASSUME NEW g \in Callers, NoModule(g) PROVE TypeOK'
    BY <1>3 DEF TypeOK, NoModule, SetStatus, moduleVars, bridgeVars, callerVars
  <1>4. ASSUME NEW g \in Callers, Begin(g) PROVE TypeOK'
    BY <1>4, GotoType
    DEF TypeOK, Begin, Places, BeginECMBootstrap, moduleVars, bridgeVars, statusVars
  <1>5. ASSUME NEW g \in Callers, OtherBegins(g) PROVE TypeOK'
    <2>1. PICK command \in Commands : Goto(g, command)
      BY <1>5 DEF OtherBegins, OtherCommands, Commands
    <2>2. command \in Places
      BY DEF Places
    <2> QED
      BY <1>5, <2>1, <2>2, GotoType
      DEF TypeOK, OtherBegins, Places, moduleVars, bridgeVars, statusVars
  <1>6. ASSUME NEW g \in Callers, OtherEnds(g) PROVE TypeOK'
    <2>1. module' \in Module /\ restarting' \in BOOLEAN
      BY <1>6, ObeysType DEF OtherEnds
    <2>2. "idle" \in Places /\ Goto(g, "idle")
      BY <1>6 DEF OtherEnds, Places
    <2>3. UNCHANGED <<running, attached, bridgeVars, statusVars, seen, faults>>
      BY <1>6 DEF OtherEnds
    <2> QED
      BY <2>1, <2>2, <2>3, GotoType DEF TypeOK, Places, bridgeVars, statusVars
  <1>7. CASE StatusLooks
    BY <1>7, LooksTypes
  <1>8. CASE StatusOpens
    BY <1>8, OpensTypes
  <1>9. CASE StatusReads
    BY <1>9, ReadsTypes
  <1>10. CASE StatusDecides
    BY <1>10, GotoType
    DEF TypeOK, StatusDecides, SetStatus, Decision, Unread, Modes, Places, moduleVars, bridgeVars
  <1>11. CASE Leave
    BY <1>11, FaultType DEF TypeOK, Leave, statusVars, callerVars
  <1>12. CASE Enumerate
    BY <1>12, ECMAssumption DEF TypeOK, Enumerate, Module, bridgeVars, statusVars, callerVars
  <1>13. CASE CoolDownEnds
    BY <1>13 DEF TypeOK, CoolDownEnds, moduleVars, statusVars, callerVars
  <1>14. CASE WindowPasses
    BY <1>14 DEF TypeOK, WindowPasses, moduleVars, bridgeVars, callerVars
  <1>15. CASE UNCHANGED vars
    BY <1>15 DEF TypeOK, vars, moduleVars, bridgeVars, statusVars, callerVars
  <1> QED
    BY <1>1, <1>2, <1>3, <1>4, <1>5, <1>6, <1>7, <1>8, <1>9, <1>10, <1>11, <1>12, <1>13,
       <1>14, <1>15 DEF Next, StatusStep

(* Every variable keeps its type, whatever the module and the goroutines   *)
(* do (ecm_initializer.go, ensureUSBAT, runATCommand).                     *)
THEOREM TypeCorrect == Spec => []TypeOK
  <1> QED
    BY InitType, TypeNext, PTL DEF Spec

-----------------------------------------------------------------------------
(* One bootstrap at a time.                                                *)

(* The mark of a run in progress belongs to exactly one starter. *)
RunsInv ==
  /\ \A g \in Starters : at[g] # "idle" => inProgress
  /\ \A g, h \in Starters : (at[g] # "idle" /\ at[h] # "idle") => g = h
  /\ inProgress => \E g \in Starters : at[g] # "idle"

LEMMA RunsCounted == RunsInv => OneBootstrap
  <1> SUFFICES ASSUME RunsInv PROVE OneBootstrap
    OBVIOUS
  <1> DEFINE Running == {g \in Starters : at[g] # "idle"}
  <1>1. CASE inProgress
    <2>1. PICK g \in Starters : at[g] # "idle"
      BY <1>1 DEF RunsInv
    <2>2. Running = {g}
      BY <2>1 DEF RunsInv
    <2> QED
      BY <1>1, <2>2, FS_Singleton DEF OneBootstrap
  <1>2. CASE ~inProgress
    <2>1. Running = {}
      BY <1>2 DEF RunsInv
    <2> QED
      BY <1>2, <2>1, FS_EmptySet DEF OneBootstrap
  <1> QED
    BY <1>1, <1>2

(* A step that starts and ends no run. *)
LEMMA RunsKept ==
  ASSUME RunsInv, inProgress' = inProgress,
         \A g \in Starters : at'[g] = "idle" <=> at[g] = "idle"
  PROVE  RunsInv'
  BY DEF RunsInv

LEMMA OthersMove ==
  ASSUME TypeOK, NEW g \in Callers \ Starters, NEW place, Goto(g, place)
  PROVE  \A h \in Starters : at'[h] = at[h]
  BY DEF TypeOK, Goto, Starters, Callers

LEMMA EndOfRun ==
  ASSUME TypeOK, RunsInv, NEW g \in Starters, at[g] # "idle", End(g)
  PROVE  RunsInv'
  <1>1. \A h \in Starters : at'[h] = "idle"
    BY DEF TypeOK, RunsInv, End, Goto, Starters, Callers
  <1>2. ~inProgress'
    BY DEF End
  <1> QED
    BY <1>1, <1>2 DEF RunsInv

LEMMA RunMoves ==
  ASSUME TypeOK, RunsInv, NEW g \in Starters, at[g] # "idle",
         NEW place, place # "idle", Goto(g, place), inProgress' = inProgress
  PROVE  RunsInv'
  <1>1. \A h \in Starters : at'[h] = "idle" <=> at[h] = "idle"
    BY DEF TypeOK, Goto, Starters, Callers
  <1> QED
    BY <1>1, RunsKept

LEMMA RunsThroughRun ==
  ASSUME TypeOK, RunsInv, NEW g \in Callers, Run(g), phase[g] # "ready" => at[g] \in Commands
  PROVE  RunsInv'
  <1>1. g \in Starters /\ at[g] # "idle"
    BY DEF Run, Open, OpenRefused, Fails, Identify, CheckSupported, ReadUSBNet, Write, Confirm,
           Restart, Mark, Commands
  <1>2. \/ End(g)
        \/ /\ UNCHANGED inProgress
           /\ \E place \in {"ati", "usbcfg", "supported", "usbnet", "write", "confirm", "cfun", "mark"} :
                Goto(g, place)
    BY DEF Run, Open, OpenRefused, Fails, Identify, CheckSupported, ReadUSBNet, Write, Confirm,
           Restart, Mark, SetStatus, statusVars, bridgeVars
  <1> QED
    BY <1>1, <1>2, EndOfRun, RunMoves

(* Where the goroutines can be, and that only commands are under way. *)
PlacesInv ==
  /\ \A g \in Starters : at[g] \notin {"set", "poll", "decide"}
  /\ \A g \in Callers : at[g] = "write" => g \in Starters
  /\ \A g \in Callers : phase[g] # "ready" => at[g] \in Commands

RunPlaces == {"idle", "ati", "usbcfg", "supported", "usbnet", "write", "confirm", "cfun", "mark"}

LEMMA Moves ==
  ASSUME TypeOK, PlacesInv, NEW g \in Callers, NEW place, Goto(g, place),
         g \in Starters => place \notin {"set", "poll", "decide"},
         place = "write" => g \in Starters
  PROVE  PlacesInv'
  BY DEF TypeOK, PlacesInv, Goto, Starters, Callers

LEMMA RunGoes ==
  ASSUME NEW g, Run(g)
  PROVE  g \in Starters /\ \E place \in RunPlaces : Goto(g, place)
  BY DEF Run, Open, OpenRefused, Fails, Identify, CheckSupported, ReadUSBNet, Write, Confirm,
         Restart, Mark, End, RunPlaces

LEMMA PlacesNext == TypeOK /\ PlacesInv /\ [Next]_vars => PlacesInv'
  <1> SUFFICES ASSUME TypeOK, PlacesInv, [Next]_vars PROVE PlacesInv'
    OBVIOUS
  <1>1. ASSUME NEW g \in Callers, Command(g) PROVE PlacesInv'
    <2>1. at' = at /\ \A h \in Callers : phase'[h] = phase[h] \/ at[h] \in Commands
      <3>1. CASE Send(g)
        BY <3>1 DEF Send, TypeOK
      <3>2. CASE HandleClosed(g)
        BY <3>2 DEF HandleClosed, Sent, TypeOK, PlacesInv
      <3>3. CASE NoAnswer(g)
        BY <3>3 DEF NoAnswer, Sent, TypeOK, PlacesInv
      <3>4. CASE ResetUSBATIfGone(g)
        BY <3>4 DEF ResetUSBATIfGone, TypeOK, PlacesInv
      <3> QED
        BY <1>1, <3>1, <3>2, <3>3, <3>4 DEF Command
    <2> QED
      BY <2>1 DEF PlacesInv
  <1>2. ASSUME NEW g \in Callers, Run(g) PROVE PlacesInv'
    <2>1. PICK place \in RunPlaces : Goto(g, place) /\ g \in Starters
      BY <1>2, RunGoes
    <2> QED
      BY <2>1, Moves DEF RunPlaces
  <1>3. ASSUME NEW g \in Callers, Begin(g) PROVE PlacesInv'
    BY <1>3, Moves DEF Begin
  <1>4. ASSUME NEW g \in Callers, OtherBegins(g) PROVE PlacesInv'
    <2>1. PICK place \in {"poll", "set", "cfun"} : Goto(g, place)
      BY <1>4 DEF OtherBegins, OtherCommands
    <2>2. g \notin Starters
      BY <1>4 DEF OtherBegins, Starters
    <2> QED
      BY <2>1, <2>2, Moves
  <1>5. ASSUME NEW g \in Callers, OtherEnds(g) PROVE PlacesInv'
    BY <1>5, Moves DEF OtherEnds
  <1>6. ASSUME "status" \in Callers, NEW place, Goto("status", place), place # "write"
        PROVE  PlacesInv'
    BY <1>6, Moves DEF Starters
  <1>7. CASE StatusLooks \/ StatusOpens
    BY <1>6, <1>7 DEF StatusLooks, StatusOpens, PlacesInv, callerVars
  <1>8. CASE StatusReads
    BY <1>6, <1>8 DEF StatusReads, After
  <1>9. CASE StatusDecides
    BY <1>6, <1>9 DEF StatusDecides
  <1>10. ASSUME UNCHANGED <<at, phase>> PROVE PlacesInv'
    BY <1>10 DEF PlacesInv
  <1>11. ASSUME NEW g \in Callers, NoModule(g) PROVE PlacesInv'
    BY <1>10, <1>11 DEF NoModule, callerVars
  <1>12. CASE Leave \/ Enumerate \/ CoolDownEnds \/ WindowPasses \/ UNCHANGED vars
    BY <1>10, <1>12 DEF Leave, Enumerate, CoolDownEnds, WindowPasses, vars, callerVars
  <1> QED
    BY <1>1, <1>2, <1>3, <1>4, <1>5, <1>7, <1>8, <1>9, <1>11, <1>12 DEF Next, StatusStep

LEMMA RunsNext == TypeOK /\ PlacesInv /\ RunsInv /\ [Next]_vars => RunsInv'
  <1> SUFFICES ASSUME TypeOK, PlacesInv, RunsInv, [Next]_vars PROVE RunsInv'
    OBVIOUS
  <1>1. ASSUME UNCHANGED <<at, inProgress>> PROVE RunsInv'
    BY <1>1 DEF RunsInv
  <1>2. ASSUME NEW g \in Callers \ Starters, NEW place, Goto(g, place), UNCHANGED inProgress
        PROVE  RunsInv'
    BY <1>2, OthersMove, RunsKept
  <1>3. ASSUME NEW g \in Callers, Command(g) PROVE RunsInv'
    BY <1>1, <1>3
    DEF Command, Send, HandleClosed, NoAnswer, ResetUSBATIfGone, statusVars
  <1>4. ASSUME NEW g \in Callers, Run(g) PROVE RunsInv'
    BY <1>4, RunsThroughRun DEF PlacesInv
  <1>5. ASSUME NEW g \in Callers, Begin(g) PROVE RunsInv'
    <2>1. g \in Starters /\ ~inProgress /\ inProgress' /\ Goto(g, "open")
      BY <1>5 DEF Begin, BeginECMBootstrap
    <2>2. \A h \in Starters : at'[h] # "idle" <=> h = g
      BY <2>1 DEF RunsInv, TypeOK, Goto, Starters, Callers
    <2> QED
      BY <2>1, <2>2 DEF RunsInv
  <1>6. ASSUME NEW g \in Callers, OtherBegins(g) PROVE RunsInv'
    BY <1>2, <1>6 DEF OtherBegins, Starters, statusVars
  <1>7. ASSUME NEW g \in Callers, OtherEnds(g) PROVE RunsInv'
    BY <1>2, <1>7 DEF OtherEnds, Starters, statusVars
  <1>8. "status" \notin Starters
    BY DEF Starters
  <1>9. CASE StatusLooks
    BY <1>1, <1>2, <1>8, <1>9 DEF StatusLooks, callerVars
  <1>10. CASE StatusStep
    BY <1>2, <1>8, <1>10 DEF StatusStep, StatusOpens, StatusReads, StatusDecides, statusVars
  <1>11. ASSUME NEW g \in Callers, NoModule(g) PROVE RunsInv'
    BY <1>1, <1>11 DEF NoModule, callerVars
  <1>12. CASE Leave \/ Enumerate \/ CoolDownEnds \/ WindowPasses \/ UNCHANGED vars
    BY <1>1, <1>12
    DEF Leave, Enumerate, CoolDownEnds, WindowPasses, vars, callerVars, statusVars
  <1> QED
    BY <1>3, <1>4, <1>5, <1>6, <1>7, <1>9, <1>10, <1>11, <1>12 DEF Next

LEMMA InitRuns == Init => PlacesInv /\ RunsInv
  BY DEF Init, PlacesInv, RunsInv, Starters, Callers

(* The automatic bootstrap and POST initialize never run together, and the *)
(* mark of a run in progress outlives no run (beginECMBootstrap,           *)
(* endECMBootstrap).                                                       *)
THEOREM BootstrapsAreSingle == Spec => []OneBootstrap
  <1>1. Init => TypeOK /\ PlacesInv /\ RunsInv
    BY InitType, InitRuns
  <1>2. TypeOK /\ PlacesInv /\ RunsInv /\ [Next]_vars => (TypeOK /\ PlacesInv /\ RunsInv)'
    BY TypeNext, PlacesNext, RunsNext
  <1>3. TypeOK /\ PlacesInv /\ RunsInv => OneBootstrap
    BY RunsCounted
  <1> QED
    BY <1>1, <1>2, <1>3, PTL DEF Spec

-----------------------------------------------------------------------------
(* Verified writes.                                                        *)

(* A live handle is an open one on an attached module. *)
LiveInv == live => attached /\ usbAT # NoHandle

(* What a run knows of the module its handle is on. *)
Knows(g) ==
  /\ (at[g] \in {"usbcfg", "supported"} /\ seen[g].supported) => module.supported
  /\ at[g] \in {"usbnet", "write"} => module.supported
  /\ at[g] = "write" => module.usbnet = "0"

(* After its first answer a run either still has the handle it asked, or   *)
(* meets the cool-down, or its command is on a handle that was dropped.    *)
KeepsModule(g) ==
  /\ phase[g] = "ready" =>
       \/ usbAT = NoHandle /\ cooling
       \/ usbAT # NoHandle /\ (live => Knows(g))
  /\ (phase[g] = "sent" /\ dev[g] = usbAT /\ live) => Knows(g)
Reading == {"usbcfg", "supported", "usbnet", "write"}
KeepsInv == \A g \in Starters : at[g] \in Reading => KeepsModule(g)

(* All of it; RunsInv says that no other run is writing meanwhile. *)
WriteInv == TypeOK /\ PlacesInv /\ RunsInv /\ LiveInv /\ KeepsInv

LEMMA LiveNext == TypeOK /\ LiveInv /\ [Next]_vars => LiveInv'
  <1> SUFFICES ASSUME TypeOK, LiveInv, [Next]_vars PROVE LiveInv'
    OBVIOUS
  <1>1. ASSUME UNCHANGED <<live, attached, usbAT>> PROVE LiveInv'
    BY <1>1 DEF LiveInv
  <1>2. ASSUME UNCHANGED attached, EnsureKeeps \/ EnsureOpens PROVE LiveInv'
    BY <1>2, FreshHandle, ECMAssumption DEF LiveInv, EnsureKeeps, EnsureOpens
  <1>3. ASSUME Detach PROVE LiveInv'
    BY <1>3 DEF LiveInv, Detach
  <1>4. ASSUME NEW g \in Callers, Command(g) PROVE LiveInv'
    BY <1>1, <1>2, <1>3, <1>4
    DEF Command, Send, HandleClosed, NoAnswer, ResetUSBATIfGone, moduleVars, bridgeVars
  <1>5. ASSUME NEW g \in Callers, Run(g) PROVE LiveInv'
    BY <1>1, <1>2, <1>3, <1>5
    DEF Run, Open, OpenRefused, Fails, Identify, CheckSupported, ReadUSBNet, Write, Confirm,
        Restart, Mark, moduleVars, bridgeVars
  <1>6. ASSUME NEW g \in Callers, NoModule(g) \/ Begin(g) \/ OtherBegins(g) \/ OtherEnds(g)
        PROVE  LiveInv'
    BY <1>1, <1>6 DEF NoModule, Begin, OtherBegins, OtherEnds, moduleVars, bridgeVars
  <1>7. CASE StatusOpens
    BY <1>1, <1>2, <1>7 DEF StatusOpens, moduleVars
  <1>8. CASE StatusLooks \/ StatusReads \/ StatusDecides
    BY <1>1, <1>8 DEF StatusLooks, StatusReads, StatusDecides, moduleVars, bridgeVars
  <1>9. CASE Leave \/ Enumerate \/ CoolDownEnds \/ WindowPasses \/ UNCHANGED vars
    BY <1>9
    DEF LiveInv, Leave, Enumerate, CoolDownEnds, WindowPasses, vars, moduleVars, bridgeVars
  <1> QED
    BY <1>4, <1>5, <1>6, <1>7, <1>8, <1>9 DEF Next, StatusStep

(* The run h is not moved by the step; the bridge keeps its handle, or     *)
(* drops it, or opens a fresh one after the cool-down.                     *)
Untouched(h) ==
  /\ at'[h] = at[h] /\ phase'[h] = phase[h] /\ dev'[h] = dev[h] /\ seen'[h] = seen[h]
SameModule == module' = module \/ (module' = [module EXCEPT !.usbnet = "0"])
Bridge ==
  \/ UNCHANGED <<usbAT, live>> /\ cooling' \in {cooling, TRUE}
  \/ Detach
  \/ EnsureOpens /\ UNCHANGED cooling

LEMMA UntouchedKeeps ==
  ASSUME WriteInv, NEW h \in Starters, at[h] \in Reading,
         Untouched(h), SameModule, Bridge
  PROVE  KeepsModule(h)'
  <1>1. KeepsModule(h) /\ h \in Callers
    BY DEF WriteInv, KeepsInv, Starters, Callers
  <1>2. Knows(h) => Knows(h)'
    BY DEF WriteInv, TypeOK, Module, Knows, Untouched, SameModule
  <1>3. CASE UNCHANGED <<usbAT, live>> /\ cooling' \in {cooling, TRUE}
    BY <1>1, <1>2, <1>3 DEF KeepsModule, Untouched
  <1>4. CASE Detach
    BY <1>4 DEF KeepsModule, Detach
  <1>5. CASE EnsureOpens /\ UNCHANGED cooling
    <2>1. \A g \in Callers : dev[g] # usbAT'
      BY <1>5, FreshHandle DEF WriteInv
    <2>2. usbAT = NoHandle /\ ~cooling
      BY <1>5 DEF EnsureOpens
    <2> QED
      BY <1>1, <2>1, <2>2 DEF KeepsModule, Untouched
  <1> QED
    BY <1>3, <1>4, <1>5 DEF Bridge

(* A step of g, which moves no run but its own. *)
LEMMA OthersKeep ==
  ASSUME WriteInv, NEW g \in Callers, SameModule, Bridge,
         \A h \in Callers : h = g \/ Untouched(h),
         (g \in Starters /\ at'[g] \in Reading) => KeepsModule(g)'
  PROVE  KeepsInv'
  <1>1. SUFFICES ASSUME NEW h \in Starters, at'[h] \in Reading PROVE KeepsModule(h)'
    BY DEF KeepsInv
  <1>2. CASE h = g
    BY <1>1, <1>2
  <1>3. CASE h # g
    <2>1. Untouched(h) /\ at[h] \in Reading
      BY <1>1, <1>3 DEF Starters, Callers, Untouched
    <2> QED
      BY <2>1, UntouchedKeeps
  <1> QED
    BY <1>2, <1>3
(* Commands of others leave the verified module alone: only a run writes,  *)
(* and the user sets no mode but the factory's.                            *)
LEMMA ObeysKeeps ==
  ASSUME UserModes \subseteq {"0"}, NEW g, at[g] # "write", Obeys(g) \/ Ignores
  PROVE  SameModule
  BY DEF Obeys, Ignores, SameModule

(* The step of a run that writes: no other run is reading. *)
LEMMA WriterKeeps ==
  ASSUME WriteInv, NEW g \in Callers, at[g] = "write",
         \A h \in Callers : h = g \/ at'[h] = at[h],
         at'[g] \notin Reading \/ phase'[g] \notin {"ready", "sent"}
  PROVE  KeepsInv'
  <1>1. SUFFICES ASSUME NEW h \in Starters, at'[h] \in Reading PROVE KeepsModule(h)'
    BY DEF KeepsInv
  <1>2. g \in Starters /\ \A k \in Starters : k # g => at[k] = "idle"
    BY DEF WriteInv, PlacesInv, RunsInv
  <1>3. h = g
    BY <1>1, <1>2 DEF Starters, Callers, Reading
  <1> QED
    BY <1>1, <1>3 DEF KeepsModule

LEMMA SendKeeps ==
  ASSUME WriteInv, NEW g \in Callers, Send(g)
  PROVE  KeepsInv'
  <1>1. SameModule /\ at' = at /\ seen' = seen /\ cooling' = cooling
    BY DEF Send, SameModule, moduleVars
  <1>2. \A h \in Callers : h = g \/ Untouched(h)
    BY <1>1 DEF Send, Untouched, WriteInv, TypeOK
  <1>3. CASE EnsureKeeps /\ dev' = [dev EXCEPT ![g] = usbAT'] /\ phase' = [phase EXCEPT ![g] = "sent"]
    <2>1. Bridge
      BY <1>1, <1>3 DEF EnsureKeeps, Bridge
    <2>2. (g \in Starters /\ at'[g] \in Reading) => KeepsModule(g)'
      BY <1>1, <1>3
      DEF WriteInv, TypeOK, KeepsInv, KeepsModule, Knows, EnsureKeeps, Send, moduleVars
    <2> QED
      BY <1>1, <1>2, <2>1, <2>2, OthersKeep
  <1>4. CASE EnsureOpens /\ phase' = [phase EXCEPT ![g] = "sent"]
    <2>1. Bridge
      BY <1>1, <1>4 DEF Bridge
    <2>2. ~(g \in Starters /\ at'[g] \in Reading)
      BY <1>1, <1>4 DEF WriteInv, KeepsInv, KeepsModule, EnsureOpens, Send
    <2> QED
      BY <1>1, <1>2, <2>1, <2>2, OthersKeep
  <1>5. CASE UNCHANGED <<usbAT, live>> /\ phase' = [phase EXCEPT ![g] = "failed"]
    <2>1. Bridge
      BY <1>1, <1>5 DEF Bridge
    <2>2. KeepsModule(g)'
      BY <1>5 DEF KeepsModule, WriteInv, TypeOK
    <2> QED
      BY <1>1, <1>2, <2>1, <2>2, OthersKeep
  <1> QED
    BY <1>3, <1>4, <1>5 DEF Send

LEMMA CommandKeeps ==
  ASSUME UserModes \subseteq {"0"}, WriteInv, NEW g \in Callers, Command(g)
  PROVE  KeepsInv'
  <1>1. CASE Send(g)
    BY <1>1, SendKeeps
  <1>2. ASSUME UNCHANGED <<at, dev, seen>>, NEW place \in {"failed", "gone"},
               phase' = [phase EXCEPT ![g] = place]
        PROVE  (\A h \in Callers : h = g \/ Untouched(h)) /\ KeepsModule(g)'
    BY <1>2 DEF Untouched, KeepsModule, WriteInv, TypeOK
  <1>3. CASE HandleClosed(g)
    <2>1. SameModule /\ Bridge
      BY <1>3 DEF HandleClosed, SameModule, Bridge, moduleVars, bridgeVars
    <2> QED
      BY <1>2, <1>3, <2>1, OthersKeep DEF HandleClosed
  <1>4. CASE NoAnswer(g)
    <2>1. Bridge /\ (at[g] # "write" => SameModule)
      <3>1. Bridge
        BY <1>4 DEF NoAnswer, Bridge, bridgeVars
      <3> QED
        BY <1>4, <3>1, ObeysKeeps DEF NoAnswer
    <2>2. CASE at[g] = "write"
      BY <1>4, <2>2, WriterKeeps DEF NoAnswer, WriteInv, TypeOK
    <2>3. CASE at[g] # "write"
      BY <1>2, <1>4, <2>1, <2>3, OthersKeep DEF NoAnswer
    <2> QED
      BY <2>2, <2>3
  <1>5. CASE ResetUSBATIfGone(g)
    <2>1. SameModule /\ Bridge
      BY <1>5 DEF ResetUSBATIfGone, SameModule, Bridge, moduleVars, bridgeVars
    <2> QED
      BY <1>2, <1>5, <2>1, OthersKeep DEF ResetUSBATIfGone
  <1> QED
    BY <1>1, <1>3, <1>4, <1>5 DEF Command

(* A run goes on to a place where it has nothing to keep. *)
LEMMA GotoKeeps ==
  ASSUME WriteInv, NEW g \in Callers, SameModule, Bridge, NEW place, Goto(g, place),
         \A h \in Callers : h = g \/ seen'[h] = seen[h],
         (g \in Starters /\ place \in Reading) => KeepsModule(g)'
  PROVE  KeepsInv'
  <1>1. \A h \in Callers : h = g \/ Untouched(h)
    BY DEF Goto, Untouched, WriteInv, TypeOK
  <1>2. at'[g] = place
    BY DEF Goto, WriteInv, TypeOK
  <1> QED
    BY <1>1, <1>2, OthersKeep
LEMMA RunKeeps ==
  ASSUME WriteInv, NEW g \in Callers, Run(g)
  PROVE  KeepsInv'
  <1>1. g \in Starters
    BY RunGoes
  <1>2. CASE Open(g) \/ OpenRefused(g)
    <2>1. PICK place \in {"ati", "idle"} :
            Goto(g, place) /\ \A h \in Callers : h = g \/ seen'[h] = seen[h]
      BY <1>2 DEF Open, OpenRefused, End, WriteInv, TypeOK
    <2>2. SameModule /\ Bridge
      BY <1>2 DEF Open, OpenRefused, SameModule, Bridge, EnsureKeeps, moduleVars, bridgeVars
    <2> QED
      BY <2>1, <2>2, GotoKeeps DEF Reading
  <1>3. CASE Fails(g) \/ Confirm(g)
    <2>1. PICK place \in {"mark", "idle", "cfun"} :
            Goto(g, place) /\ \A h \in Callers : h = g \/ seen'[h] = seen[h]
      BY <1>3 DEF Fails, Confirm, End, WriteInv, TypeOK
    <2>2. SameModule /\ Bridge
      BY <1>3 DEF Fails, Confirm, SameModule, Bridge, moduleVars, bridgeVars
    <2> QED
      BY <2>1, <2>2, GotoKeeps DEF Reading
  <1>4. CASE Identify(g)
    <2>1. SameModule /\ Bridge /\ live' /\ usbAT' # NoHandle /\ module' = module
      BY <1>4
      DEF Identify, Reads, OnModule, SameModule, Bridge, WriteInv, LiveInv, moduleVars, bridgeVars
    <2>2. PICK place \in {"usbcfg", "supported"} : Goto(g, place)
      BY <1>4 DEF Identify
    <2>3. seen'[g].supported => module.supported
      BY <1>4 DEF Identify, WriteInv, TypeOK
    <2>4. at'[g] = place /\ phase'[g] = "ready"
      BY <2>2 DEF Goto, WriteInv, TypeOK
    <2>5. KeepsModule(g)'
      BY <2>1, <2>3, <2>4 DEF KeepsModule, Knows
    <2>6. \A h \in Callers : h = g \/ seen'[h] = seen[h]
      BY <1>4 DEF Identify, WriteInv, TypeOK
    <2> QED
      BY <2>1, <2>2, <2>5, <2>6, GotoKeeps
  <1>5. CASE CheckSupported(g)
    <2>1. SameModule /\ Bridge /\ UNCHANGED <<usbAT, live, cooling, module>>
      BY <1>5 DEF CheckSupported, SameModule, Bridge, moduleVars, bridgeVars
    <2>2. CASE seen[g].supported
      <3>1. Goto(g, "usbnet") /\ seen' = seen
        BY <1>5, <2>2 DEF CheckSupported
      <3>2. phase[g] = "ready" /\ KeepsModule(g) /\ (Knows(g) => module.supported)
        BY <1>1, <1>5, <2>2
        DEF CheckSupported, WriteInv, PlacesInv, Commands, KeepsInv, Reading, Knows
      <3>3. at'[g] = "usbnet" /\ phase'[g] = "ready"
        BY <3>1 DEF Goto, WriteInv, TypeOK
      <3>4. KeepsModule(g)'
        BY <2>1, <3>2, <3>3 DEF KeepsModule, Knows
      <3> QED
        BY <2>1, <3>1, <3>4, GotoKeeps
    <2>3. CASE ~seen[g].supported
      <3>1. Goto(g, "idle") /\ \A h \in Callers : h = g \/ seen'[h] = seen[h]
        BY <1>5, <2>3 DEF CheckSupported, End, WriteInv, TypeOK
      <3> QED
        BY <2>1, <3>1, GotoKeeps DEF Reading
    <2> QED
      BY <2>2, <2>3
  <1>6. CASE ReadUSBNet(g)
    <2>1. SameModule /\ Bridge /\ UNCHANGED <<usbAT, live, module>>
      BY <1>6 DEF ReadUSBNet, SameModule, Bridge, moduleVars, bridgeVars
    <2>2. CASE Goto(g, "write") /\ seen' = seen /\ module.usbnet = "0"
      <3>1. Knows(g) /\ live /\ usbAT # NoHandle /\ at[g] = "usbnet"
        BY <1>1, <1>6
        DEF ReadUSBNet, Reads, OnModule, Sent, WriteInv, LiveInv, KeepsInv, KeepsModule, Reading
      <3>2. at'[g] = "write" /\ phase'[g] = "ready"
        BY <2>2 DEF Goto, WriteInv, TypeOK
      <3>3. KeepsModule(g)'
        BY <2>1, <2>2, <3>1, <3>2 DEF KeepsModule, Knows
      <3> QED
        BY <2>1, <2>2, <3>3, GotoKeeps
    <2>3. CASE End(g)
      <3>1. Goto(g, "idle") /\ \A h \in Callers : h = g \/ seen'[h] = seen[h]
        BY <2>3 DEF End, WriteInv, TypeOK
      <3> QED
        BY <2>1, <3>1, GotoKeeps DEF Reading
    <2> QED
      BY <1>6, <2>2, <2>3 DEF ReadUSBNet
  <1>7. CASE Write(g)
    <2>1. PICK place \in {"confirm", "idle"} : Goto(g, place)
      BY <1>7 DEF Write, End
    <2>2. at'[g] = place /\ \A h \in Callers : h = g \/ at'[h] = at[h]
      BY <2>1 DEF Goto, WriteInv, TypeOK
    <2> QED
      BY <1>7, <2>2, WriterKeeps DEF Write, Reading
  <1>8. CASE Restart(g)
    <2>1. PICK place \in {"mark", "idle"} :
            Goto(g, place) /\ \A h \in Callers : h = g \/ seen'[h] = seen[h]
      BY <1>8 DEF Restart, End, WriteInv, TypeOK
    <2>2. SameModule /\ Bridge
      BY <1>8 DEF Restart, Obeys, Ignores, SameModule, Bridge, bridgeVars
    <2> QED
      BY <2>1, <2>2, GotoKeeps DEF Reading
  <1>9. CASE Mark(g)
    <2>1. Goto(g, "idle") /\ \A h \in Callers : h = g \/ seen'[h] = seen[h]
      BY <1>9 DEF Mark, End, WriteInv, TypeOK
    <2>2. SameModule /\ Bridge
      BY <1>9 DEF Mark, SameModule, Bridge, moduleVars
    <2> QED
      BY <2>1, <2>2, GotoKeeps DEF Reading
  <1> QED
    BY <1>2, <1>3, <1>4, <1>5, <1>6, <1>7, <1>8, <1>9 DEF Run

(* The module and the clock: no run moves. *)
LEMMA ModuleKeeps ==
  ASSUME WriteInv, Leave \/ Enumerate \/ CoolDownEnds
  PROVE  KeepsInv'
  <1>1. SUFFICES ASSUME NEW h \in Starters, at[h] \in Reading PROVE KeepsModule(h)'
    BY DEF KeepsInv, Leave, Enumerate, CoolDownEnds, callerVars
  <1>2. KeepsModule(h)
    BY <1>1 DEF WriteInv, KeepsInv
  <1>3. CASE Leave
    BY <1>2, <1>3 DEF Leave, KeepsModule, callerVars
  <1>4. CASE Enumerate
    BY <1>2, <1>4 DEF Enumerate, WriteInv, LiveInv, KeepsModule, callerVars, bridgeVars
  <1>5. CASE CoolDownEnds
    <2>1. phase[h] # "ready"
      BY <1>1, <1>5 DEF CoolDownEnds, BetweenCommands, Reading
    <2> QED
      BY <1>2, <1>5, <2>1 DEF CoolDownEnds, KeepsModule, Knows, callerVars, moduleVars
  <1> QED
    BY <1>3, <1>4, <1>5

LEMMA KeepsNext ==
  ASSUME UserModes \subseteq {"0"}
  PROVE  WriteInv /\ [Next]_vars => KeepsInv'
  <1> SUFFICES ASSUME WriteInv, [Next]_vars PROVE KeepsInv'
    OBVIOUS
  <1>1. ASSUME NEW g \in Callers, Command(g) PROVE KeepsInv'
    BY <1>1, CommandKeeps
  <1>2. ASSUME NEW g \in Callers, Run(g) PROVE KeepsInv'
    BY <1>2, RunKeeps
  <1>3. ASSUME UNCHANGED <<module, usbAT, live, cooling, at, phase, dev, seen>> PROVE KeepsInv'
    BY <1>3 DEF WriteInv, KeepsInv, KeepsModule, Knows
  <1>4. ASSUME NEW g \in Callers, NoModule(g) PROVE KeepsInv'
    BY <1>3, <1>4 DEF NoModule, moduleVars, bridgeVars, callerVars
  <1>5. ASSUME NEW g \in Callers, Begin(g) \/ OtherBegins(g) PROVE KeepsInv'
    <2>1. SameModule /\ Bridge /\ seen' = seen
      BY <1>5 DEF Begin, OtherBegins, SameModule, Bridge, moduleVars, bridgeVars
    <2>2. PICK place \in {"open", "poll", "set", "cfun"} : Goto(g, place)
      BY <1>5 DEF Begin, OtherBegins, OtherCommands
    <2> QED
      BY <2>1, <2>2, GotoKeeps DEF Reading
  <1>6. ASSUME NEW g \in Callers, OtherEnds(g) PROVE KeepsInv'
    <2>1. at[g] # "write"
      BY <1>6 DEF OtherEnds, WriteInv, PlacesInv, Starters
    <2>2. SameModule /\ Bridge /\ seen' = seen /\ Goto(g, "idle")
      BY <1>6, <2>1, ObeysKeeps DEF OtherEnds, Bridge, bridgeVars
    <2> QED
      BY <2>2, GotoKeeps DEF Reading
  <1>7. ASSUME "status" \in Callers, NEW place, Goto("status", place), SameModule, Bridge,
               \A h \in Callers : h = "status" \/ seen'[h] = seen[h]
        PROVE  KeepsInv'
    BY <1>7, GotoKeeps DEF Starters
  <1>8. CASE StatusLooks
    <2>1. CASE attached
      BY <1>7, <1>8, <2>1
      DEF StatusLooks, SameModule, Bridge, moduleVars, bridgeVars, WriteInv, TypeOK
    <2>2. CASE ~attached
      BY <1>3, <1>8, <2>2 DEF StatusLooks, moduleVars, bridgeVars, callerVars
    <2> QED
      BY <2>1, <2>2
  <1>9. CASE StatusOpens
    <2>1. SameModule /\ Bridge
      BY <1>9 DEF StatusOpens, SameModule, Bridge, EnsureKeeps, moduleVars
    <2>2. \A h \in Callers : h = "status" \/ seen'[h] = seen[h]
      BY <1>9 DEF StatusOpens, WriteInv, TypeOK
    <2> QED
      BY <1>7, <1>9, <2>1, <2>2 DEF StatusOpens
  <1>10. CASE StatusReads \/ StatusDecides
    <2>1. SameModule /\ Bridge
      BY <1>10 DEF StatusReads, StatusDecides, SameModule, Bridge, moduleVars, bridgeVars
    <2>2. \A h \in Callers : h = "status" \/ seen'[h] = seen[h]
      BY <1>10 DEF StatusReads, StatusDecides, WriteInv, TypeOK
    <2> QED
      BY <1>7, <1>10, <2>1, <2>2 DEF StatusReads, StatusDecides
  <1>11. CASE Leave \/ Enumerate \/ CoolDownEnds
    BY <1>11, ModuleKeeps
  <1>12. CASE WindowPasses \/ UNCHANGED vars
    BY <1>3, <1>12 DEF WindowPasses, vars, moduleVars, bridgeVars, callerVars
  <1> QED
    BY <1>1, <1>2, <1>4, <1>5, <1>6, <1>8, <1>9, <1>10, <1>11, <1>12 DEF Next, StatusStep

(* A bootstrap's usbnet=1 reaches only a supported module in the factory   *)
(* mode, through every exchange of handle and module between its reads     *)
(* and its write, if the user sets no other mode meanwhile                 *)
(* (autoInitializeECMOnce, initializeECM, markUSBATDetached).              *)
THEOREM VerifiedWrites ==
  ASSUME UserModes \subseteq {"0"}
  PROVE  Spec => []WritesAreVerified
  <1>1. Init => WriteInv
    <2>1. Init => LiveInv /\ KeepsInv
      BY DEF Init, LiveInv, KeepsInv, Reading, Starters, Callers
    <2> QED
      BY <2>1, InitType, InitRuns DEF WriteInv
  <1>2. WriteInv /\ [Next]_vars => WriteInv'
    BY TypeNext, PlacesNext, RunsNext, LiveNext, KeepsNext DEF WriteInv
  <1>3. WriteInv => WritesAreVerified
    BY DEF WriteInv, KeepsInv, KeepsModule, Knows, Reading, WritesAreVerified, OnModule, Sent
  <1> QED
    BY <1>1, <1>2, <1>3, PTL DEF Spec

=============================================================================
