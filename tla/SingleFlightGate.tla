-------------------------- MODULE SingleFlightGate --------------------------
(***************************************************************************)
(* What a readiness gate promises the code that waits for SIM              *)
(* authentication (internal/apduarbiter/simauth_ready.go): at most one     *)
(* probe of the card runs at a time, the gate opens only on a probe that   *)
(* succeeded with no invalidation since it began, and an invalidation      *)
(* shuts the gate at once.                                                 *)
(***************************************************************************)
VARIABLE gate

(* "tainted": a probe runs that an invalidation has overtaken. *)
GateStates == {"shut", "probing", "tainted", "open"}

Init == gate = "shut"

BeginProbe == gate = "shut" /\ gate' = "probing"

(* A probe reports: success opens the gate, unless it is tainted. *)
Succeed == gate = "probing" /\ gate' = "open"
EndShut == gate \in {"probing", "tainted"} /\ gate' = "shut"

Invalidate ==
  \/ gate = "probing" /\ gate' = "tainted"
  \/ gate = "open" /\ gate' = "shut"

Next == BeginProbe \/ Succeed \/ EndShut \/ Invalidate

Spec == Init /\ [][Next]_gate
=============================================================================
