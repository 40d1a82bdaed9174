---------------------------- MODULE CallWatcher ----------------------------
(***************************************************************************)
(* The call watcher (calls.go): one goroutine asks the module for its list *)
(* of calls every three seconds, keeps the most important call as the      *)
(* active one, announces it when it rings and moves it to the history when *)
(* no call is left.  Between two polls calls come, are answered, replaced  *)
(* and end, an answer may be cut off or lost, the module may be unplugged. *)
(***************************************************************************)
EXTENDS Naturals, Sequences, FiniteSets, SequencesExt, FiniteSetsExt

CONSTANTS
  Calls,          \* calls that are made while the program runs
  Incoming,       \* those that come in
  Withheld,       \* those without a number
  MaxHistory,     \* applyCallPoll keeps 100
  MaxCallFaults   \* commands that go wrong (bound of the model)

ASSUME CallAssumption ==
  /\ IsFiniteSet(Calls) /\ "" \notin Calls
  /\ Incoming \subseteq Calls /\ MaxHistory \in Nat

VARIABLES
  call,           \* the calls in the module: state, and index while they last
  attached,       \* the module is plugged in
  activeCall,     \* a.activeCall; of, took: history, the call, and whether it took
                  \* the record over from another one that rang
  callHistory,    \* a.callHistory
  callConfigured, \* a.callConfigured
  polling,        \* what the poller does next
  rings,          \* history: how often each call was announced
  answered,       \* history: calls that a poll saw answered
  callFaults

callVars == <<call, attached, activeCall, callHistory, callConfigured, polling, rings,
              answered, callFaults>>
moduleVars == <<call, attached>>
recordVars == <<activeCall, callHistory, rings, answered>>

NoRecord == [index |-> 0, incoming |-> FALSE, state |-> "none", number |-> "", took |-> FALSE,
             of |-> "none"]
Ringing == {"incoming", "waiting"}
Lasting == Ringing \cup {"active", "held", "dialing", "alerting"}

CallInit ==
  /\ call = [c \in Calls |-> [state |-> "none", index |-> 0]] /\ attached = TRUE
  /\ activeCall = NoRecord /\ callHistory = <<>> /\ callConfigured = FALSE
  /\ polling = "idle"
  /\ rings = [c \in Calls |-> 0] /\ answered = {} /\ callFaults = 0

CallFault == callFaults < MaxCallFaults /\ callFaults' = callFaults + 1

-----------------------------------------------------------------------------
(* The network.  Calls take the lowest free index, and one call rings at a *)
(* time: the network refuses a third.                                      *)

Present == {c \in Calls : call[c].state \in Lasting}
Free == Min(1 .. Cardinality(Calls) + 1 \ {call[c].index : c \in Present})

Arises(c) ==
  /\ attached /\ call[c].state = "none"
  /\ IF c \in Incoming
     THEN /\ \A d \in Present : call[d].state \notin Ringing
          /\ call' = [call EXCEPT ![c] =
               [state |-> IF Present = {} THEN "incoming" ELSE "waiting", index |-> Free]]
     ELSE call' = [call EXCEPT ![c] = [state |-> "dialing", index |-> Free]]
  /\ UNCHANGED <<attached, recordVars, callConfigured, polling, callFaults>>

(* A call is answered, put on hold or ended; AT+CHUP of rejectCall is one   *)
(* way to end it, and changes nothing in the program.                      *)
Following == [incoming |-> {"active", "over"}, waiting |-> {"incoming", "active", "over"},
              dialing |-> {"alerting", "over"}, alerting |-> {"active", "over"},
              active |-> {"held", "over"}, held |-> {"active", "over"}]
Moves(c) ==
  /\ c \in Present
  /\ \E state \in Following[call[c].state] :
       call' = [call EXCEPT ![c] = [state |-> state, index |-> IF state = "over" THEN 0 ELSE @.index]]
  /\ UNCHANGED <<attached, recordVars, callConfigured, polling, callFaults>>

Unplugged ==
  /\ attached /\ attached' = FALSE
  /\ call' = [c \in Calls |-> IF c \in Present THEN [state |-> "over", index |-> 0] ELSE call[c]]
  /\ UNCHANGED <<recordVars, callConfigured, polling, callFaults>>

Plugged ==
  /\ ~attached /\ CallFault /\ attached' = TRUE
  /\ UNCHANGED <<call, recordVars, callConfigured, polling>>

(* markUSBATDetached, by any user of the bridge. *)
ForgetsConfiguration ==
  /\ ~attached /\ callConfigured' = FALSE
  /\ UNCHANGED <<moduleVars, recordVars, polling, callFaults>>

-----------------------------------------------------------------------------
(* The poller (pollCallOnce).                                              *)

BeginPoll ==
  /\ polling = "idle" /\ attached
  /\ polling' = IF callConfigured THEN "list" ELSE "configure"
  /\ UNCHANGED <<moduleVars, recordVars, callConfigured, callFaults>>

(* AT+CLIP=1; ERROR is an answer, too. *)
Configure ==
  /\ polling = "configure"
  /\ \/ attached /\ callConfigured' = TRUE /\ polling' = "list" /\ UNCHANGED callFaults
     \/ attached /\ CallFault /\ polling' = "idle" /\ UNCHANGED callConfigured
     \/ ~attached /\ polling' = "idle" /\ UNCHANGED <<callConfigured, callFaults>>
  /\ UNCHANGED <<moduleVars, recordVars>>

(* AT+CLCC lists the calls by index (parseCLCC leaves data sessions out).  *)
(* An answer that is cut off by the time-out, or ERROR, is read as far as  *)
(* it came.                                                                *)
Listed(n) == {c \in Present : call[c].index <= n}

(* The first call of the highest priority. *)
CallStatePriority == [incoming |-> 5, waiting |-> 5, active |-> 4, alerting |-> 3, dialing |-> 2,
                      held |-> 1]
Selected(calls) ==
  CHOOSE c \in calls : \A d \in calls \ {c} :
    LET p == CallStatePriority[call[c].state]  q == CallStatePriority[call[d].state]
    IN  q < p \/ (q = p /\ call[c].index < call[d].index)
Parsed(c) ==
  [call |-> c, index |-> call[c].index, incoming |-> c \in Incoming, state |-> call[c].state,
   number |-> IF c \in Withheld THEN "" ELSE c]

IsAnother(s) == activeCall = NoRecord \/ activeCall.index # s.index \/ activeCall.incoming # s.incoming

AnnouncesAnother(s) == s.incoming /\ s.state \in Ringing /\ IsAnother(s)     \* mutant

(* The record after the poll, and whether its ringing is announced; a call  *)
(* that rings where another one rang in the poll before gets its record.   *)
Announces(s) ==
  s.incoming /\ s.state \in Ringing /\ (IsAnother(s) \/ activeCall.state \notin Ringing)
TakesOver(s) ==
  ~IsAnother(s) /\ IF activeCall.of = s.call THEN activeCall.took ELSE activeCall.state \in Ringing
UpdatedNumber(s) ==                    \* mutant: the state of the first poll is kept
  IF IsAnother(s)
  THEN [index |-> s.index, incoming |-> s.incoming, state |-> s.state, number |-> s.number,
        took |-> FALSE, of |-> s.call]
  ELSE [activeCall EXCEPT !.number = s.number, !.took = TakesOver(s), !.of = s.call]
Updated(s) ==
  [index |-> s.index, incoming |-> s.incoming, state |-> s.state,
   number |-> IF s.number = "" /\ ~IsAnother(s) THEN activeCall.number ELSE s.number,
   took |-> TakesOver(s), of |-> s.call]

Missed(record) == record.incoming /\ record.state \in Ringing

ApplyCallPoll(calls) ==
  IF calls = {}
  THEN /\ activeCall' = NoRecord /\ UNCHANGED rings
       /\ callHistory' = IF activeCall = NoRecord THEN callHistory
                         ELSE LET all == <<activeCall>> \o callHistory
                              IN  SubSeq(all, 1, Min({Len(all), MaxHistory}))
  ELSE LET s == Parsed(Selected(calls))
       IN  /\ activeCall' = Updated(s) /\ UNCHANGED callHistory
           /\ rings' = IF Announces(s) THEN [rings EXCEPT ![s.call] = @ + 1] ELSE rings

ListCalls ==
  /\ polling = "list" /\ polling' = "idle"
  /\ \/ \E n \in {0} \cup {call[c].index : c \in Present} :
          /\ attached /\ ApplyCallPoll(Listed(n))
          /\ answered' = answered \cup {c \in Listed(n) : call[c].state = "active"}
          /\ IF Listed(n) = Present THEN UNCHANGED callFaults ELSE CallFault
     \/ /\ UNCHANGED recordVars
        /\ IF attached THEN CallFault ELSE UNCHANGED callFaults
  /\ UNCHANGED <<moduleVars, callConfigured>>

PollStep == BeginPoll \/ Configure \/ ListCalls

CallNext ==
  \/ PollStep \/ Unplugged \/ Plugged \/ ForgetsConfiguration
  \/ \E c \in Calls : Arises(c) \/ Moves(c)

(* startCallPoller polls again after every poll. *)
CallFairness == WF_callVars(PollStep)

CallSpec == CallInit /\ [][CallNext]_callVars
FairCallSpec == CallSpec /\ CallFairness

-----------------------------------------------------------------------------
(* Properties.                                                             *)

Records == [index : 1 .. Cardinality(Calls), incoming : BOOLEAN, state : Lasting,
            number : Calls \cup {""}, took : BOOLEAN, of : Calls]
CallTypeOK ==
  /\ \A c \in Calls : call[c].state \in Lasting \cup {"none", "over"}
  /\ \A c, d \in Present : call[c].index = call[d].index => c = d
  /\ activeCall \in Records \cup {NoRecord} /\ ToSet(callHistory) \subseteq Records
  /\ Len(callHistory) <= MaxHistory

(* However calls replace each other, a call is announced once; only answers *)
(* that did not list it (cut off, ERROR) let it ring again (applyCallPoll). *)
RingsOnce == \A c \in Calls : rings[c] <= 1 + callFaults

(* The records are true: a number is that of the caller, unless a caller    *)
(* without one took over the record of a call with the same index; and a   *)
(* call that the history shows as missed was announced itself, unless it   *)
(* took over the record of another that rang under its index (that one was *)
(* announced, MissedWereAnnounced shows what follows), and, while all      *)
(* answers are whole, was never seen answered (applyCallPoll).             *)
Shown == ToSet(callHistory) \cup ({activeCall} \ {NoRecord})
RecordsAreTrue ==
  /\ \A r \in Shown : r.number # "" => r.number = r.of \/ r.of \in Withheld
  /\ \A r \in ToSet(callHistory) : Missed(r) =>
       (rings[r.of] > 0 \/ r.took) /\ (callFaults = 0 => r.of \notin answered)

(* What the program tells of calls holds. *)
CallsAreTold == RingsOnce /\ RecordsAreTrue

(* A call that keeps ringing is announced, if it does not take over the     *)
(* record of a call that rang under the same index just before.            *)
RingingIsAnnounced ==
  \A c \in Calls :
    (call[c].state \in Ringing) ~>
      call[c].state \notin Ringing \/ rings[c] > 0 \/ (activeCall.of = c /\ activeCall.took)

(* Every missed call of the history was announced.  The code does not: a     *)
(* call that rings where another rang in the poll before is not            *)
(* (applyCallPoll).                                                        *)
MissedWereAnnounced == \A r \in ToSet(callHistory) : Missed(r) => rings[r.of] > 0

=============================================================================
