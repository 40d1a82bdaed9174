---------------------------- MODULE ESIMChannels ----------------------------
(***************************************************************************)
(* Logical channels of the eUICC (internal/esim: manager.go, channel.go,   *)
(* qmi_channel.go, qmi_uim_transport.go, mbim_apdu_transport.go,           *)
(* apdu_coordinator.go; the sessions of internal/modem; the channel of     *)
(* cmd/djonehub-macos/usbat_esim_channel.go).  A client scans the card     *)
(* (forEachEUICC), works under the operation lock, or authenticates on the *)
(* basic channel.  Each of its calls takes a lease of the arbiter, then    *)
(* the mutex of the channel, then the card: in mode AT and custom the one  *)
(* command line stands for the mutex, and custom knows no leases.          *)
(***************************************************************************)
EXTENDS Naturals

CONSTANTS
  Users,             \* goroutines that use the card
  Modes,             \* transports to look at: subset of {"AT", "custom", "QMI", "MBIM"}
  ChannelCount,      \* logical channels the card has
  MaxChannelFaults,  \* calls that fail (bound of the model)
  MaxStops           \* stops of the transport (bound of the model)

ASSUME ChannelsAssumption ==
  /\ Modes \subseteq {"AT", "custom", "QMI", "MBIM"}
  /\ ChannelCount \in Nat \ {0}
  /\ MaxChannelFaults \in Nat /\ MaxStops \in Nat
  /\ "unused" \notin Users /\ "none" \notin Users

VARIABLES
  mode, arbitrated,  \* the transport, and whether it has an arbiter
  up,                \* the transport: "up", "stopping" or "down"
  era,               \* generation of the map of mutexes (chanMu)
  sessions,          \* registry of channels (apduSessionInfo)
  opener,            \* who opened each channel of the card, or Unused
  user,              \* each goroutine's work
  writer, met,       \* holder of opMu, and the scans under way when it began
  failures           \* failed calls so far

lineVars == <<mode, arbitrated>>
channelVars == <<lineVars, up, era, sessions, opener, user, writer, met, failures>>

CardChannels == 1 .. ChannelCount
Unused == "unused"
NoUser == "none"
(* lease is "none", "held" or "evicted"; spoiled says that the channel was *)
(* lost to a sweep, a reset of the card or a stop of the transport.        *)
Idle == [job |-> "none", next |-> "idle", at |-> "rest", n |-> 0, chan |-> 0,
         era |-> 0, lease |-> "none", spoiled |-> FALSE]

ChannelsInit ==
  /\ mode \in Modes /\ arbitrated \in BOOLEAN
  /\ mode = "custom" => ~arbitrated
  /\ up = "up" /\ era = 0 /\ sessions = {} /\ failures = 0
  /\ opener = [k \in CardChannels |-> Unused]
  /\ user = [c \in Users |-> Idle] /\ writer = NoUser /\ met = {}

Failure == failures < MaxChannelFaults /\ failures' = failures + 1
OverAT == mode = "AT"              \* ModemChannel: AT+CCHO, AT+CGLA, AT+CCHC
OverUSB == mode = "custom"         \* usbATESIMChannel: the same, without leases
OneLine == OverAT \/ OverUSB       \* one command at a time
AtCard(c) == user[c].at = "card"

(* The channel a call is about, and the channel whose mutex it takes: open *)
(* and close take that of the basic channel.                               *)
About(u) == CASE u.next = "sweep" -> u.n [] u.next \in {"basic", "open"} -> 0
              [] OTHER -> u.chan
MutexOf(u) == IF u.next = "send" THEN u.chan ELSE 0
ByChannel(u) == mode = "QMI" /\ u.next = "send"    \* TransportScopeQMIChannel

(* What a goroutine becomes: at its beginning, asking for a call, with a   *)
(* lease, on the card, without its channel.                                *)
Starting(job, next, at) == [Idle EXCEPT !.job = job, !.next = next, !.at = at]
Asking(u, op) == [u EXCEPT !.next = op, !.at = "lease"]
Leasing(u) ==
  [u EXCEPT !.at = "mutex", !.era = era, !.lease = IF arbitrated THEN "held" ELSE "none"]
Evicted(u) == [u EXCEPT !.lease = "evicted"]
OnCard(u) == [u EXCEPT !.at = "card"]
Bereft(u, lost) == [u EXCEPT !.spoiled = @ \/ lost]

-----------------------------------------------------------------------------
(* A scan passes waitForNoWriteOperation, then waitForAPDUIdleForRead, and *)
(* holds nothing afterwards.                                               *)
StartScan(c) ==
  /\ user[c] = Idle /\ writer = NoUser
  /\ user' = [user EXCEPT ![c] = Starting("scan", "wait", "rest")]
  /\ UNCHANGED <<lineVars, up, era, sessions, opener, writer, met, failures>>

Leased == {c \in Users : user[c].lease = "held"}
(* preCleanChannels: over AT every channel of the card is closed. *)
PreCleans(u) ==
  IF OverAT THEN [u EXCEPT !.next = "sweep", !.n = 1] ELSE [u EXCEPT !.next = "open"]
BeginsScan(c) ==
  /\ user[c].next = "wait" /\ Leased = {}
  /\ user' = [user EXCEPT ![c] = PreCleans(@)]
  /\ UNCHANGED <<lineVars, up, era, sessions, opener, writer, met, failures>>

(* lockOperation, opMu.Lock; ListNotifications waits and cleans like a     *)
(* scan, the others do not.                                                *)
StartWrite(c) ==
  /\ user[c] = Idle /\ writer = NoUser /\ writer' = c
  /\ met' = {d \in Users : user[d].job = "scan" /\ user[d].next \in {"wait", "sweep"}}
  /\ \E first \in {"wait", "open"} :
       user' = [user EXCEPT ![c] = Starting("write", first, "rest")]
  /\ UNCHANGED <<lineVars, up, era, sessions, opener, failures>>

(* SIM authentication on the basic channel. *)
StartBasic(c) ==
  /\ user[c] = Idle /\ mode \in {"AT", "QMI"}
  /\ user' = [user EXCEPT ![c] = Starting("basic", "basic", "lease")]
  /\ UNCHANGED <<lineVars, up, era, sessions, opener, writer, met, failures>>

(* The goroutine has changed to u; one that is done gives its lock back. *)
Becomes(c, u, others) ==
  /\ user' = [others EXCEPT ![c] = u]
  /\ IF u = Idle /\ writer = c THEN writer' = NoUser /\ met' = {} ELSE UNCHANGED <<writer, met>>

(* Waits of a scan time out, and all applications of the card were tried. *)
GiveUp(c) ==
  /\ user[c].next \in {"wait", "open"} /\ user[c].at = "rest" /\ Becomes(c, Idle, user)
  /\ UNCHANGED <<lineVars, up, era, sessions, opener, failures>>

-----------------------------------------------------------------------------
(* A call: sweep or open as due, or, with a channel, send or close.  The   *)
(* registry forgets a channel before the lease is asked for (takeSession). *)
Request(c) ==
  /\ user[c].at = "rest" /\ user[c].next \in {"sweep", "open", "have"}
  /\ \E op \in IF user[c].next = "have" THEN {"send", "close"} ELSE {user[c].next} :
       /\ user' = [user EXCEPT ![c] = Asking(@, op)]
       /\ sessions' = IF op \in {"sweep", "close"} THEN sessions \ {About(user'[c])} ELSE sessions
  /\ UNCHANGED <<lineVars, up, era, opener, writer, met, failures>>

(* The arbiter's promise: leases by channel beside each other, others alone. *)
MayLease(c) ==
  \A d \in Leased \ {c} :
    ByChannel(user[d]) /\ ByChannel(user[c]) /\ About(user[d]) # About(user[c])

AcquireLease(c) ==
  /\ user[c].at = "lease" /\ (arbitrated => MayLease(c))
  /\ user' = [user EXCEPT ![c] = Leasing(@)]
  /\ UNCHANGED <<lineVars, up, era, sessions, opener, writer, met, failures>>

(* The watchdog takes a lease back from a call that lasts. *)
Evict(c) ==
  /\ user[c].lease = "held" /\ AtCard(c) /\ Failure
  /\ user' = [user EXCEPT ![c] = Evicted(@)]
  /\ UNCHANGED <<lineVars, up, era, sessions, opener, writer, met>>

(* getOrCreateChanMu(...).Lock and getUIM, or the turn on the command line. *)
TakesMutex(c, mutex) ==
  /\ user[c].at = "mutex" /\ up # "down"
  /\ \A d \in Users : AtCard(d) =>
       ~OneLine /\ (user[d].era = user[c].era => mutex[d] # mutex[c])
  /\ user' = [user EXCEPT ![c] = OnCard(@)]
  /\ UNCHANGED <<lineVars, up, era, sessions, opener, writer, met, failures>>
TakeOwnMutex(c) == TakesMutex(c, [d \in Users |-> About(user[d])]) \* mutant: a close locks its channel
TakeMutex(c) == TakesMutex(c, [d \in Users |-> MutexOf(user[d])])

-----------------------------------------------------------------------------
(* What follows a call, with the channel it opened, or 0.  After a failed  *)
(* open another application is tried; a close ends the work either way.    *)
Over(u, next, n, chan) ==
  [u EXCEPT !.at = "rest", !.lease = "none", !.era = 0, !.next = next, !.n = n, !.chan = chan]
After(u, opened) ==
  CASE u.next = "sweep" -> IF u.n = ChannelCount THEN Over(u, "open", 0, 0)
                           ELSE Over(u, "sweep", u.n + 1, 0)
    [] u.next = "open" -> Over(u, IF opened = 0 THEN "open" ELSE "have", u.n, opened)
    [] u.next = "send" -> Over(u, "have", u.n, u.chan)
    [] OTHER -> Idle

Served(c) == AtCard(c) /\ up # "down"

OpenAnswers(c) ==
  /\ Served(c) /\ user[c].next = "open"
  /\ \/ \E k \in CardChannels :
          /\ opener[k] = Unused /\ opener' = [opener EXCEPT ![k] = c]
          /\ \/ /\ sessions' = IF OverUSB THEN sessions ELSE sessions \cup {k}
                /\ Becomes(c, After(user[c], k), user) /\ UNCHANGED failures
             \/ Failure /\ Becomes(c, After(user[c], 0), user) /\ UNCHANGED sessions
     \/ /\ UNCHANGED <<sessions, opener>> /\ Becomes(c, After(user[c], 0), user)
        /\ IF \A k \in CardChannels : opener[k] # Unused THEN UNCHANGED failures ELSE Failure
  /\ UNCHANGED <<lineVars, up, era>>

SendAnswers(c) ==
  /\ Served(c) /\ user[c].next \in {"send", "basic"}
  /\ Becomes(c, After(user[c], 0), user)
  /\ UNCHANGED <<lineVars, up, era, sessions, opener, failures>>

(* Close or sweep: the channel is closed, and a user that still counts on  *)
(* it does not learn it.                                                   *)
CloseAnswers(c) ==
  /\ Served(c) /\ user[c].next \in {"close", "sweep"}
  /\ LET k == About(user[c])
         bereft == [d \in Users |-> Bereft(user[d], d # c /\ user[d].chan = k)]
         closes == opener' = [opener EXCEPT ![k] = Unused] /\ Becomes(c, After(user[c], 0), bereft)
     IN  \/ closes /\ UNCHANGED failures
         \/ closes /\ Failure
         \/ Failure /\ UNCHANGED opener /\ Becomes(c, After(user[c], 0), user)
  /\ UNCHANGED <<lineVars, up, era, sessions>>

(* The lease is not had in time, or the transport is not up. *)
CallFails(c) ==
  /\ \/ user[c].at = "lease" /\ arbitrated /\ ~MayLease(c) /\ Failure
     \/ user[c].at \in {"mutex", "card"} /\ up = "down" /\ UNCHANGED failures
  /\ Becomes(c, After(user[c], 0), user)
  /\ UNCHANGED <<lineVars, up, era, sessions, opener>>

-----------------------------------------------------------------------------
Spoiled == [c \in Users |-> Bereft(user[c], user[c].chan # 0)]

(* The card resets itself, after a switch or with the module. *)
CardResets ==
  /\ Failure /\ opener' = [k \in CardChannels |-> Unused] /\ user' = Spoiled
  /\ UNCHANGED <<lineVars, up, era, sessions, writer, met>>

(* Stop: the registry is cleared, then the map of mutexes is replaced, and *)
(* only then the service is taken away; the card may keep its channels.    *)
StopBegins ==
  /\ up = "up" /\ mode \in {"AT", "QMI"} /\ era < MaxStops
  /\ up' = "stopping" /\ sessions' = {} /\ era' = era + 1 /\ user' = Spoiled
  /\ UNCHANGED <<lineVars, opener, writer, met, failures>>
StopEnds ==
  /\ up = "stopping" /\ up' = "down"
  /\ opener' \in {opener, [k \in CardChannels |-> Unused]} /\ user' = Spoiled
  /\ UNCHANGED <<lineVars, era, sessions, writer, met, failures>>
(* It starts again when the calls of the old service have failed. *)
Start ==
  /\ up = "down" /\ up' = "up" /\ \A c \in Users : ~AtCard(c)
  /\ UNCHANGED <<lineVars, era, sessions, opener, user, writer, met, failures>>

ChannelsNext ==
  \/ \E c \in Users :
       \/ StartScan(c) \/ BeginsScan(c) \/ StartWrite(c) \/ StartBasic(c) \/ GiveUp(c)
       \/ Request(c) \/ AcquireLease(c) \/ Evict(c) \/ TakeMutex(c) \/ CallFails(c)
       \/ OpenAnswers(c) \/ SendAnswers(c) \/ CloseAnswers(c)
  \/ CardResets \/ StopBegins \/ StopEnds \/ Start

ChannelsSpec == ChannelsInit /\ [][ChannelsNext]_channelVars

-----------------------------------------------------------------------------
Jobs == {"none", "scan", "write", "basic"}
Nexts == {"idle", "wait", "sweep", "open", "have", "send", "close", "basic"}
Places == {"rest", "lease", "mutex", "card"}
UserType ==
  [job : Jobs, next : Nexts, at : Places, n : CardChannels \cup {0},
   chan : CardChannels \cup {0}, era : 0 .. MaxStops,
   lease : {"none", "held", "evicted"}, spoiled : BOOLEAN]

ChannelsTypeOK ==
  /\ mode \in Modes /\ arbitrated \in BOOLEAN /\ up \in {"up", "stopping", "down"}
  /\ era \in 0 .. MaxStops /\ sessions \subseteq CardChannels
  /\ opener \in [CardChannels -> Users \cup {Unused}]
  /\ writer \in Users \cup {NoUser} /\ met \subseteq Users \ {writer}
  /\ failures \in 0 .. MaxChannelFaults
  /\ user \in [Users -> UserType]

(* Two calls that take the same mutex are on the card together only if the *)
(* transport was stopped under one of them and no two leases keep them     *)
(* apart: either guard alone suffices (getOrCreateChanMu, resetChanMu,     *)
(* acquireLease).                                                          *)
OneCallPerMutex ==
  \A c, d \in Users :
    (c # d /\ AtCard(c) /\ AtCard(d) /\ MutexOf(user[c]) = MutexOf(user[d])) =>
      user[c].era # user[d].era /\ {c, d} \ Leased # {}

(* Calls whose leases stand share the card only when both send, each on a  *)
(* channel of its own (TransportScopeQMIChannel).                          *)
LeasesExclude ==
  \A c, d \in Leased :
    (c # d /\ AtCard(c) /\ AtCard(d)) =>
      ByChannel(user[c]) /\ ByChannel(user[d]) /\ user[c].chan # user[d].chan

(* An APDU reaches the application its sender opened, unless the channel   *)
(* was swept, or lost with the card or the transport, since               *)
(* (OpenLogicalChannel, Transmit, CloseLogicalChannel).                    *)
ApdusReachTheirApplication ==
  \A c \in Users :
    (AtCard(c) /\ user[c].next = "send" /\ ~user[c].spoiled) => opener[user[c].chan] = c

(* The cleaning before a scan closes a channel of an operation only if the *)
(* operation began after the scan had seen none (waitForNoWriteOperation). *)
SweepsSpareEarlierWrites ==
  \A c \in Users :
    (AtCard(c) /\ user[c].next = "sweep" /\ writer \notin {NoUser, c}
       /\ opener[user[c].n] = writer /\ user[writer].chan = user[c].n) => c \in met

(* While nothing fails, no channel of the card is left open by a user that *)
(* is done with it, and the registry lists those in use (takeSession,      *)
(* bindSession).                                                           *)
NothingLeaks ==
  (failures = 0 /\ era = 0) =>
    /\ \A k \in CardChannels : opener[k] # Unused =>
         user[opener[k]].chan = k \/ user[opener[k]].spoiled
    /\ mode \in {"QMI", "MBIM"} =>
         sessions = {user[c].chan : c \in {d \in Users : user[d].next \in {"have", "send"}}}

ChannelsAreApart ==
  /\ OneCallPerMutex /\ LeasesExclude /\ ApdusReachTheirApplication
  /\ SweepsSpareEarlierWrites /\ NothingLeaks
=============================================================================
