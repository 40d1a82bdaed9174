-------------------------- MODULE CellularPolicy --------------------------
(***************************************************************************)
(* "Force 4G off" (main.go, applyCellularPolicyLocked): the router of each *)
(* network service of the module is set to the service itself, the blocked *)
(* services are remembered in memory and in a file, and a guard enforces   *)
(* the policy every five seconds.  The request and the guard hold one      *)
(* mutex; what interleaves with them is the world: networksetup fails,     *)
(* services come, go and change, the disk is full, the program is killed.  *)
(***************************************************************************)
EXTENDS Naturals, FiniteSets

CONSTANTS
  Services,        \* names of the network services of the module
  MaxChanges,      \* changes of a service by the world (bound of the model)
  MaxPolicyFaults, \* failures and crashes (bound of the model)
  MaxSets          \* requests (bound of the model)

VARIABLES
  service,      \* up with an address | bare | disabled by the user | gone
  blocked,      \* services whose router is the service itself
  loaded, forceOff, services,  \* networkPolicyLoaded, force4GOff, disabled4GServices
  disk,         \* network-policy.json
  doing,        \* where the holder of networkPolicyMu is
  asked,        \* the request being served, or the guard
  before,       \* previousForceOff and previousServices
  remaining,    \* services the loop has still to visit
  applied,      \* some service was blocked
  failed,       \* some service could not be restored
  acked,        \* history: what the last request was told; "error" after a failure
  untracked,    \* history: services blocked whose name was lost
  changes, policyFaults, sets

policyVars == <<service, blocked, loaded, forceOff, services, disk, doing, asked, before,
                remaining, applied, failed, acked, untracked, changes, policyFaults, sets>>
worldVars == <<service, changes>>
loopVars == <<remaining, applied, failed>>

PolicyInit ==
  /\ service = [s \in Services |-> "up"] /\ blocked = {}
  /\ loaded = FALSE /\ forceOff = FALSE /\ services = {}
  /\ disk = [off |-> FALSE, services |-> {}]
  /\ doing = "idle" /\ asked = "none" /\ before = [off |-> FALSE, services |-> {}]
  /\ remaining = {} /\ applied = FALSE /\ failed = FALSE
  /\ acked = "none" /\ untracked = {} /\ changes = 0 /\ policyFaults = 0 /\ sets = 0

PolicyFault == policyFaults < MaxPolicyFaults /\ policyFaults' = policyFaults + 1

(* loadNetworkPolicyLocked; the file is whole, for it is only ever renamed. *)
Loaded == IF loaded THEN [off |-> forceOff, services |-> services] ELSE disk

-----------------------------------------------------------------------------
(* The two users of the mutex.                                             *)

(* applyCellularPolicyLocked begins with the list of services. *)
Discover(off, known) ==
  \/ /\ doing' = (IF off THEN "block" ELSE "restore")
     /\ remaining' = (IF off THEN {s \in Services : service[s] \in {"up", "bare"}} ELSE known)
     /\ UNCHANGED policyFaults
  \/ doing' = "fail" /\ remaining' = {} /\ PolicyFault

SetCellularPolicy(off) ==
  /\ doing = "idle" /\ sets < MaxSets
  /\ sets' = sets + 1 /\ asked' = (IF off THEN "off" ELSE "on") /\ loaded' = TRUE
  /\ before' = Loaded
  /\ forceOff' = off /\ services' = Loaded.services
  /\ Discover(off, Loaded.services) /\ applied' = FALSE /\ failed' = FALSE
  /\ UNCHANGED <<worldVars, blocked, disk, acked, untracked>>

Guard ==
  /\ doing = "idle"
  /\ loaded' = TRUE /\ forceOff' = Loaded.off /\ services' = Loaded.services
  /\ Loaded.off
  /\ asked' = "guard"
  /\ Discover(TRUE, Loaded.services) /\ applied' = FALSE /\ failed' = FALSE
  /\ UNCHANGED <<worldVars, blocked, disk, before, acked, untracked, sets>>

-----------------------------------------------------------------------------
(* applyCellularPolicyLocked, one networksetup call at a time.             *)

(* A service that has no address, or that networksetup refuses, is passed  *)
(* over; appendUnique notes the others.                                    *)
BlockService(s) ==
  /\ doing = "block" /\ s \in remaining
  /\ remaining' = remaining \ {s}
  /\ \/ /\ service[s] = "up"
        /\ blocked' = blocked \cup {s} /\ services' = services \cup {s} /\ applied' = TRUE
        /\ untracked' = untracked \ {s} /\ UNCHANGED policyFaults
     \/ /\ service[s] # "up"
        /\ UNCHANGED <<blocked, services, applied, untracked, policyFaults>>
     \/ /\ service[s] = "up" /\ PolicyFault
        /\ UNCHANGED <<blocked, services, applied, untracked>>
  /\ UNCHANGED <<worldVars, loaded, forceOff, disk, doing, asked, before, failed, acked, sets>>

Blocked ==
  /\ doing = "block" /\ remaining = {}
  /\ doing' = IF applied THEN "save" ELSE "fail"
  /\ UNCHANGED <<worldVars, blocked, loaded, forceOff, services, disk, asked, before, loopVars,
                 acked, untracked, policyFaults, sets>>

RestoreOrSkip(s) ==                    \* mutant: a restore that fails is no error
  /\ doing = "restore" /\ s \in remaining
  /\ remaining' = remaining \ {s}
  /\ \/ service[s] # "gone" /\ blocked' = blocked \ {s} /\ UNCHANGED policyFaults
     \/ service[s] = "gone" /\ UNCHANGED <<blocked, policyFaults>>
     \/ service[s] # "gone" /\ PolicyFault /\ UNCHANGED blocked
  /\ UNCHANGED <<worldVars, loaded, forceOff, services, disk, doing, asked, before, applied,
                 failed, acked, untracked, sets>>

(* renewMacNetworkServiceDHCP of every service noted; one that is gone is an *)
(* error.                                                                  *)
RestoreService(s) ==
  /\ doing = "restore" /\ s \in remaining
  /\ remaining' = remaining \ {s}
  /\ \/ service[s] # "gone" /\ blocked' = blocked \ {s} /\ UNCHANGED <<failed, policyFaults>>
     \/ service[s] = "gone" /\ failed' = TRUE /\ UNCHANGED <<blocked, policyFaults>>
     \/ service[s] # "gone" /\ failed' = TRUE /\ PolicyFault /\ UNCHANGED blocked
  /\ UNCHANGED <<worldVars, loaded, forceOff, services, disk, doing, asked, before, applied,
                 acked, untracked, sets>>

Restored ==
  /\ doing = "restore" /\ remaining = {}
  /\ doing' = "save"
  /\ services' = IF failed THEN services ELSE {}
  /\ UNCHANGED <<worldVars, blocked, loaded, forceOff, disk, asked, before, loopVars, acked,
                 untracked, policyFaults, sets>>

PersistLater ==                        \* mutant: the old policy is saved
  /\ doing = "save"
  /\ disk' = [off |-> before.off, services |-> services] /\ doing' = "done"
  /\ UNCHANGED <<worldVars, blocked, loaded, forceOff, services, asked, before, loopVars, acked,
                 untracked, policyFaults, sets>>

(* persistNetworkPolicyLocked: written aside and renamed. *)
Persist ==
  /\ doing = "save"
  /\ \/ /\ disk' = [off |-> forceOff, services |-> services]
        /\ doing' = (IF failed THEN "fail" ELSE "done") /\ UNCHANGED policyFaults
     \/ disk' = disk /\ doing' = "fail" /\ PolicyFault
  /\ UNCHANGED <<worldVars, blocked, loaded, forceOff, services, asked, before, loopVars, acked,
                 untracked, sets>>

(* The answer, and the mutex is free. *)
AnswerPolicy ==
  /\ doing = "done"
  /\ acked' = IF asked = "guard" THEN acked ELSE asked
  /\ doing' = "idle" /\ asked' = "none"
  /\ UNCHANGED <<worldVars, blocked, loaded, forceOff, services, disk, before, loopVars,
                 untracked, policyFaults, sets>>

(* A request that failed takes back what it changed in memory, not the      *)
(* routes nor the file; the guard leaves everything and tries again.       *)
Fail ==
  /\ doing = "fail"
  /\ doing' = "idle" /\ asked' = "none"
  /\ IF asked = "guard" THEN UNCHANGED <<forceOff, services, untracked, acked>>
     ELSE /\ forceOff' = before.off /\ services' = before.services /\ acked' = "error"
          /\ untracked' = untracked \cup (blocked \ before.services)
  /\ UNCHANGED <<worldVars, blocked, loaded, disk, before, loopVars, policyFaults, sets>>

-----------------------------------------------------------------------------
(* The world.                                                              *)

(* The user edits services, the module is unplugged and plugged in again. A *)
(* service that is created anew has a route of its own.                    *)
ServiceChanges(s) ==
  /\ changes < MaxChanges /\ changes' = changes + 1
  /\ \E state \in {"up", "bare", "disabled", "gone"} \ {service[s]} :
       /\ service' = [service EXCEPT ![s] = state]
       /\ blocked' = IF state = "gone" THEN blocked \ {s} ELSE blocked
  /\ UNCHANGED <<loaded, forceOff, services, disk, doing, asked, before, loopVars, acked,
                 untracked, policyFaults, sets>>

(* The user sets the service back to DHCP in the system settings. *)
UserRestores(s) ==
  /\ changes < MaxChanges /\ changes' = changes + 1
  /\ s \in blocked /\ blocked' = blocked \ {s}
  /\ UNCHANGED <<service, loaded, forceOff, services, disk, doing, asked, before, loopVars,
                 acked, untracked, policyFaults, sets>>

(* Killed and started again; a request in progress is never answered. *)
Crash ==
  /\ PolicyFault
  /\ loaded' = FALSE /\ forceOff' = FALSE /\ services' = {}
  /\ doing' = "idle" /\ asked' = "none" /\ remaining' = {} /\ applied' = FALSE /\ failed' = FALSE
  /\ before' = [off |-> FALSE, services |-> {}]
  /\ acked' = IF asked \in {"on", "off"} THEN "error" ELSE acked
  /\ untracked' = untracked \cup (blocked \ disk.services)
  /\ UNCHANGED <<worldVars, blocked, disk, sets>>

Apply ==
  \/ \E s \in Services : BlockService(s) \/ RestoreService(s)
  \/ Blocked \/ Restored \/ Persist \/ AnswerPolicy \/ Fail

PolicyNext ==
  \/ \E off \in BOOLEAN : SetCellularPolicy(off)
  \/ Guard \/ Apply \/ Crash
  \/ \E s \in Services : ServiceChanges(s) \/ UserRestores(s)

(* The ticker of the guard runs, and Go's mutex lets it in (it hands over to *)
(* a waiter of more than a millisecond); whoever holds the mutex goes on.  *)
PolicyFairness == SF_policyVars(Guard) /\ WF_policyVars(Apply)

PolicySpec == PolicyInit /\ [][PolicyNext]_policyVars
FairPolicySpec == PolicySpec /\ PolicyFairness

-----------------------------------------------------------------------------
(* Properties.                                                             *)

PolicyTypeOK ==
  /\ blocked \subseteq Services /\ services \subseteq Services /\ untracked \subseteq Services
  /\ disk.services \subseteq Services /\ before.services \subseteq Services
  /\ remaining \subseteq Services
  /\ doing \in {"idle", "block", "restore", "save", "done", "fail"}
  /\ asked \in {"none", "guard", "on", "off"} /\ (doing = "idle" <=> asked = "none")

(* A policy "off" that was acknowledged is enforced again whenever a route   *)
(* of the module is open: after a service was added or restored by hand,    *)
(* after failures, and after the program was killed at any point            *)
(* (startCellularPolicyGuard, loadNetworkPolicyLocked).                    *)
OffIsEnforcedAgain ==
  \A s \in Services :
    (acked = "off" /\ service[s] = "up" /\ s \notin blocked) ~>
      (acked # "off" \/ service[s] # "up" \/ s \in blocked)

(* "On" that was acknowledged leaves no route blocked, except those whose    *)
(* name was lost between the block and the save, by a failure or a crash.  *)
OnRestoresTracked ==
  (acked = "on" /\ doing = "idle") => blocked \subseteq untracked

(* After "on" was acknowledged no route is blocked. *)
OnRestoresAll == (acked = "on" /\ doing = "idle") => blocked = {}

=============================================================================
