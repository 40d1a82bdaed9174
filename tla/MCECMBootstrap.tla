-------------------------- MODULE MCECMBootstrap --------------------------
(* The bootstrap with the modules that are plugged in and the goroutines   *)
(* that are at work: a behaviour is about one team of them, the others     *)
(* stay idle.                                                              *)
EXTENDS ECMBootstrap

CONSTANT Teams
ASSUME TeamsAssumption == Teams \subseteq SUBSET Actors

VARIABLE team

(* The module of the factory and one the bootstrap must leave alone.       *)
Factory == [supported |-> TRUE, usbnet |-> "0"]
Foreign == [supported |-> FALSE, usbnet |-> "0"]
FactoryOrForeign == {Factory, Foreign}
FactoryOnly == {Factory}

(* Both that start a bootstrap, with a user who sets the mode; and the     *)
(* automatic one with those who look at the status.                        *)
TwoTeams == {{"auto", "init", "user"}, {"auto", "status"}}
OneTeam == {{"auto"}}

TeamInit == Init /\ team \in Teams
TeamNext ==
  /\ Next /\ UNCHANGED team
  /\ \A g \in Callers \ team : at'[g] = "idle"
TeamSpec == TeamInit /\ [][TeamNext]_<<vars, team>> /\ Fairness
=============================================================================
