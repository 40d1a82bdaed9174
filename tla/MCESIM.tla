------------------------------- MODULE MCESIM -------------------------------
(* The eSIM manager in one run for safety: a behaviour picks one of the    *)
(* overview of the program, the notifications and the logical channels,    *)
(* and is a behaviour of that module; the others rest in an initial state. *)
EXTENDS ESIMOverview, ESIMNotifications, ESIMChannels, ESIMSwitch, TLC

VARIABLE esimPart   \* the one this behaviour is about

ESIMInit ==
  /\ esimPart \in {"overview", "notices", "channels", "switch"}
  /\ Init /\ (esimPart # "overview" => card = CHOOSE c \in Card : c.edition = 0 /\ c.enabled = {})
  /\ NotificationsInit /\ (esimPart # "notices" => installed = {})
  /\ ChannelsInit /\ (esimPart # "channels" => mode = "custom")
  /\ SwitchInit
  /\ esimPart # "switch" =>
       ~withArbiter /\ \A p \in Targets, n \in AIDs : home[p] = Unknown /\ active[n] = NoTarget

OverviewPart == esimPart = "overview" /\ Next /\ UNCHANGED <<esimPart, noticeVars, channelVars, switchVars>>
NoticesPart == esimPart = "notices" /\ NotificationsNext /\ UNCHANGED <<esimPart, vars, channelVars, switchVars>>
ChannelsPart == esimPart = "channels" /\ ChannelsNext /\ UNCHANGED <<esimPart, vars, noticeVars, switchVars>>
SwitchPart == esimPart = "switch" /\ SwitchNext /\ UNCHANGED <<esimPart, vars, noticeVars, channelVars>>

ESIMNext == OverviewPart \/ NoticesPart \/ ChannelsPart \/ SwitchPart

ESIMSpec == ESIMInit /\ [][ESIMNext]_<<esimPart, vars, noticeVars, channelVars, switchVars>>

(* The component in question keeps its types. *)
ESIMTypeOK ==
  CASE esimPart = "overview" -> TypeOK [] esimPart = "notices" -> NotificationsTypeOK
    [] esimPart = "channels" -> ChannelsTypeOK [] esimPart = "switch" -> SwitchTypeOK

(* Callers of one kind run the same code; cards, profiles and downloads are *)
(* alike.                                                                  *)
ESIMSymmetry ==
  Permutations(Loaders) \cup Permutations(Writers) \cup Permutations(Cards)
    \cup Permutations(Profiles) \cup Permutations(Users)
=============================================================================
