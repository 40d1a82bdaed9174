---------------------------- MODULE USSDSession ----------------------------
(***************************************************************************)
(* USSD over QMI (internal/backend/qmi_backend_ussd.go).  The network's    *)
(* text, failure and release reach the back end as indications, which name *)
(* no session: callbacks put them into channels of one place each, and the *)
(* request that waits takes what it finds.  After a time-out the session   *)
(* may still be open, so the next request is refused until its release has *)
(* been seen.                                                              *)
(***************************************************************************)
EXTENDS Naturals, Sequences

CONSTANTS
  Askers,       \* goroutines in ExecuteUSSD
  NoAsker,
  MaxIndications  \* indications on their way (bound of the model)

ASSUME USSDAssumption == NoAsker \notin Askers

VARIABLES
  ussdMu,           \* the asker that holds it
  asker,            \* idle, drained, ready, prepared, sent, wait, done
  ussdResult, ussdErr, ussdRelease,   \* the channels: <<>> or <<whose session>>
  ussdAwaitRelease,
  noWait,           \* does the module know the request without a wait?
  domains,          \* the module's selection: [service, voice]
  session,          \* the network's: [of, state], state none, open, told, cancelled
  indications,      \* [kind, of] on their way
  told,             \* what each asker was told: [kind, of]
  awaited,          \* history: the session whose release is awaited
  left              \* history: requests whose session was let go before its end was heard

channelVars == <<ussdResult, ussdErr, ussdRelease>>
networkVars == <<session, indications>>
historyVars == <<awaited, left>>
ussdVars == <<ussdMu, asker, channelVars, ussdAwaitRelease, noWait, domains, networkVars, told,
              historyVars>>

Nothing == [kind |-> "nothing", of |-> NoAsker]
NoSession == [of |-> NoAsker, state |-> "none"]

USSDInit ==
  /\ ussdMu = NoAsker /\ asker = [r \in Askers |-> "idle"]
  /\ ussdResult = <<>> /\ ussdErr = <<>> /\ ussdRelease = <<>> /\ ussdAwaitRelease = FALSE
  /\ noWait \in BOOLEAN
  /\ domains \in {[service |-> "PSOnly", voice |-> "PSPreferred"],
                  [service |-> "CSPS", voice |-> "PSOnly"]}
  /\ session = NoSession /\ indications = <<>>
  /\ told = [r \in Askers |-> Nothing] /\ awaited = NoAsker /\ left = {}

Becomes(r, place) == asker' = [asker EXCEPT ![r] = place]
Tells(r, kind, of) ==
  /\ told' = [told EXCEPT ![r] = [kind |-> kind, of |-> of]]
  /\ Becomes(r, "done") /\ ussdMu' = NoAsker

-----------------------------------------------------------------------------
(* ExecuteUSSD up to the request.                                          *)

(* The lock, and what lies in the channels is thrown away. *)
Ask(r) ==
  /\ asker[r] = "idle" /\ ussdMu = NoAsker
  /\ ussdMu' = r /\ Becomes(r, "drained")
  /\ ussdResult' = <<>> /\ ussdErr' = <<>>
  /\ UNCHANGED <<ussdRelease, ussdAwaitRelease, noWait, domains, networkVars, told, historyVars>>

(* A release allows requests again; results that came before it go too.    *)
(* mutant: the second look at the results is left out *)
DrainReleasesOnce(r) ==
  /\ asker[r] = "drained" /\ Becomes(r, "ready")
  /\ ussdRelease' = <<>>
  /\ ussdAwaitRelease' = (ussdAwaitRelease /\ ussdRelease = <<>>)
  /\ UNCHANGED <<ussdMu, ussdResult, ussdErr, noWait, domains, networkVars, told, historyVars>>
DrainReleases(r) ==
  /\ asker[r] = "drained" /\ Becomes(r, "ready")
  /\ IF ussdRelease = <<>> THEN UNCHANGED <<channelVars, ussdAwaitRelease, left>>
     ELSE /\ ussdRelease' = <<>> /\ ussdResult' = <<>> /\ ussdErr' = <<>>
          /\ ussdAwaitRelease' = FALSE
          /\ left' = IF ussdAwaitRelease /\ ussdRelease[1] # awaited THEN left \cup {awaited} ELSE left
  /\ UNCHANGED <<ussdMu, noWait, domains, networkVars, told, awaited>>

Refuse(r) ==
  /\ asker[r] = "ready" /\ ussdAwaitRelease
  /\ Tells(r, "refused", r)
  /\ UNCHANGED <<channelVars, ussdAwaitRelease, noWait, domains, networkVars, historyVars>>

(* prepareQMIUSSDSystemSelection: packet-only domains are widened; the      *)
(* request is made even if this fails.                                     *)
Widened(current) ==
  [service |-> IF current.service = "PSOnly" THEN "CSPS" ELSE current.service,
   voice |-> IF current.voice \in {"PSOnly", "PSPreferred"} THEN "CSPreferred" ELSE current.voice]
Prepare(r) ==
  /\ asker[r] = "ready" /\ ~ussdAwaitRelease
  /\ Becomes(r, "prepared")
  /\ domains' \in {domains, Widened(domains)}
  /\ UNCHANGED <<ussdMu, channelVars, ussdAwaitRelease, noWait, networkVars, told, historyVars>>

-----------------------------------------------------------------------------
(* The request.  The network knows one session at a time.                  *)

Opens(r) == session.state = "none" /\ session' = [of |-> r, state |-> "open"]
Cancels == session' = IF session.state = "none" THEN session ELSE [session EXCEPT !.state = "cancelled"]

(* It is accepted. *)
Originate(r) ==
  /\ asker[r] = "prepared" /\ Opens(r) /\ Becomes(r, "wait")
  /\ UNCHANGED <<ussdMu, channelVars, ussdAwaitRelease, noWait, domains, indications, told, historyVars>>

(* The waiting form is not known: the request is made in the other one.    *)
FallBack(r) ==
  /\ asker[r] = "prepared" /\ noWait /\ noWait' = FALSE
  /\ UNCHANGED <<ussdMu, asker, channelVars, ussdAwaitRelease, domains, networkVars, told, historyVars>>

(* The other form may bring the text with its answer. *)
AnswerAtOnce(r) ==
  /\ asker[r] = "prepared" /\ ~noWait /\ session.state = "none"
  /\ session' = [of |-> r, state |-> "told"]
  /\ Tells(r, "text", r)
  /\ UNCHANGED <<channelVars, ussdAwaitRelease, noWait, domains, indications, historyVars>>

(* It is refused or cannot be written; or it was written, and the caller    *)
(* went away or the connection was closed before the answer came: then the *)
(* network may have opened a session, which is neither cancelled nor       *)
(* remembered.                                                             *)
RequestFails(r) ==
  /\ asker[r] = "prepared" /\ Tells(r, "error", r)
  /\ \/ UNCHANGED <<session, left>>
     \/ Opens(r) /\ left' = left \cup {r}
  /\ UNCHANGED <<channelVars, ussdAwaitRelease, noWait, domains, indications, awaited>>

(* No answer in time: the session may have been opened or not, and is       *)
(* cancelled.                                                              *)
RequestTimesOut(r) ==
  /\ asker[r] = "prepared"
  /\ \/ session.state = "none" /\ session' = [of |-> r, state |-> "cancelled"]
     \/ Cancels
  /\ ussdAwaitRelease' = TRUE /\ awaited' = r /\ Tells(r, "timeout", r)
  /\ UNCHANGED <<channelVars, noWait, domains, indications, left>>

-----------------------------------------------------------------------------
(* waitQMIUSSDResult.                                                      *)

(* What it takes may be about another session; then its own is let go.     *)
LetsGo(r, of) == left' = IF of = r THEN left ELSE left \cup {r}

TakeResult(r) ==
  /\ asker[r] = "wait" /\ ussdResult # <<>>
  /\ Tells(r, "text", ussdResult[1]) /\ ussdResult' = <<>> /\ LetsGo(r, ussdResult[1])
  /\ UNCHANGED <<ussdErr, ussdRelease, ussdAwaitRelease, noWait, domains, networkVars, awaited>>

TakeError(r) ==
  /\ asker[r] = "wait" /\ ussdErr # <<>>
  /\ Tells(r, "error", ussdErr[1]) /\ ussdErr' = <<>> /\ LetsGo(r, ussdErr[1])
  /\ UNCHANGED <<ussdResult, ussdRelease, ussdAwaitRelease, noWait, domains, networkVars, awaited>>

TakeRelease(r) ==
  /\ asker[r] = "wait" /\ ussdRelease # <<>>
  /\ Tells(r, "release", ussdRelease[1]) /\ ussdRelease' = <<>> /\ ussdAwaitRelease' = FALSE
  /\ LetsGo(r, ussdRelease[1])
  /\ UNCHANGED <<ussdResult, ussdErr, noWait, domains, networkVars, awaited>>

(* The time is over, or the caller went away. *)
WaitTimesOutForgotten(r) ==      \* mutant: the session is cancelled but not remembered
  /\ asker[r] = "wait" /\ Cancels /\ Tells(r, "timeout", r)
  /\ UNCHANGED <<channelVars, ussdAwaitRelease, noWait, domains, indications, historyVars>>
WaitTimesOut(r) ==
  /\ asker[r] = "wait" /\ Cancels
  /\ ussdAwaitRelease' = TRUE /\ awaited' = r /\ Tells(r, "timeout", r)
  /\ UNCHANGED <<channelVars, noWait, domains, indications, left>>

(* CancelUSSD takes no lock. *)
CancelUSSD ==
  /\ session.state \in {"open", "told"} /\ Cancels
  /\ UNCHANGED <<ussdMu, asker, channelVars, ussdAwaitRelease, noWait, domains, indications, told,
                 historyVars>>

-----------------------------------------------------------------------------
(* The network, and the callbacks of initUSSDCallbacks.                    *)

Indicates(kind, next) ==
  /\ Len(indications) < MaxIndications
  /\ indications' = Append(indications, [kind |-> kind, of |-> session.of])
  /\ session' = next
  /\ UNCHANGED <<ussdMu, asker, channelVars, ussdAwaitRelease, noWait, domains, told, historyVars>>

Text == session.state = "open" /\ Indicates("text", [session EXCEPT !.state = "told"])
Failure == session.state = "open" /\ Indicates("failure", NoSession)
Release == session.state \in {"open", "told", "cancelled"} /\ Indicates("release", NoSession)

(* A full channel keeps what it has. *)
Offer(channel, kind) ==
  IF Head(indications).kind = kind /\ channel = <<>> THEN <<Head(indications).of>> ELSE channel
Deliver ==
  /\ indications # <<>> /\ indications' = Tail(indications)
  /\ ussdResult' = Offer(ussdResult, "text")
  /\ ussdErr' = Offer(ussdErr, "failure")
  /\ ussdRelease' = Offer(ussdRelease, "release")
  /\ UNCHANGED <<ussdMu, asker, ussdAwaitRelease, noWait, domains, session, told, historyVars>>

Asks(r) == Ask(r) \/ DrainReleases(r) \/ Refuse(r) \/ Prepare(r)
Requests(r) ==
  Originate(r) \/ FallBack(r) \/ AnswerAtOnce(r) \/ RequestFails(r) \/ RequestTimesOut(r)
WaitsForText(r) == TakeResult(r) \/ TakeError(r) \/ TakeRelease(r) \/ WaitTimesOut(r)

USSDNext ==
  \/ \E r \in Askers : Asks(r) \/ Requests(r) \/ WaitsForText(r)
  \/ Text \/ Failure \/ Release \/ Deliver \/ CancelUSSD

USSDSpec == USSDInit /\ [][USSDNext]_ussdVars

-----------------------------------------------------------------------------
USSDTypeOK ==
  /\ ussdMu \in Askers \cup {NoAsker}
  /\ \A r \in Askers :
       /\ asker[r] \in {"idle", "drained", "ready", "prepared", "wait", "done"}
       /\ asker[r] \in {"idle", "done"} <=> ussdMu # r
  /\ \A channel \in {ussdResult, ussdErr, ussdRelease} : channel = <<>> \/ channel[1] \in Askers
  /\ session.state \in {"none", "open", "told", "cancelled"}
  /\ session.state = "none" <=> session.of = NoAsker

(* A text handed to a request is the answer of its own session, or of one   *)
(* that the program let go before its end was heard: its request failed    *)
(* after it was written, or an indication of another session was taken for *)
(* its end or its release (ExecuteUSSD, waitQMIUSSDResult).                *)
TextsAreOwn ==
  \A r \in Askers : told[r].kind = "text" => told[r].of \in left \cup {r}

(* While the network still has the session of a request that timed out, no  *)
(* other request is made.  The code lets one through: the late release of  *)
(* an earlier session passes for the release that is awaited               *)
(* (resetUSSDChannelsLocked).                                              *)
NextWaitsForRelease ==
  \A r \in Askers : asker[r] \in {"prepared", "wait"} => awaited = NoAsker \/ session.of # awaited
=============================================================================
