--------------------------- MODULE MCAPDUArbiter ---------------------------
(* Request mixes for model checking APDUArbiter.                           *)
EXTENDS APDUArbiter

Transport(class, scope, channel) ==
  [type |-> "transport", class |-> class, mode |-> "QMI", channel |-> channel,
   scope |-> scope, policy |-> {}]

Barrier(policy) ==
  [type |-> "barrier", class |-> NoClass, mode |-> "QMI", channel |-> 0,
   scope |-> "exclusive", policy |-> policy]

Legacy(type, class) ==
  [type |-> type, class |-> class, mode |-> "AT", channel |-> 0,
   scope |-> "exclusive", policy |-> {}]

EUICC == Transport("EUICCWrite", "exclusive", 0)
AKA == Transport("USIMAKA", "exclusive", 0)
Channel2 == Transport("EUICCRead", "qmi_channel", 2)
Channel3 == Transport("EUICCWrite", "qmi_channel", 3)
\* A QMI scope on the basic channel falls back to exclusive.
Channel0 == Transport("SMSC", "qmi_channel", 0)

\* Card access of every kind, the legacy leases and the barriers of both policies.
AllRequests ==
  {EUICC, AKA, Channel2, Channel3, Channel0, Barrier({}), Barrier({"USIMAKA"}),
   Legacy("session", NoClass), Legacy("oneshot", NoClass)}
\* eUICC traffic on all kinds of transport, with switches.
EUICCRequests == {EUICC, Channel2, Channel3, Barrier({})}
\* Tickets are interchangeable.
IdSymmetry == Permutations(Ids)
\* One card user of each priority.
PriorityRequests == {EUICC, AKA}
=============================================================================
