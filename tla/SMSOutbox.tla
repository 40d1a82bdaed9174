----------------------------- MODULE SMSOutbox -----------------------------
(***************************************************************************)
(* Sending SMS over the USB AT bridge (main.go sendUSBATSMS, usbat_darwin. *)
(* go): a message of several segments is sent by one interactive command   *)
(* each, in which the module asks for the text with a prompt.  The bridge  *)
(* is one stream of bytes in each direction, shared with the pollers.  An  *)
(* answer has no number: it belongs to whoever reads it.  Answers may be   *)
(* late or lost, the module may refuse, a write may fail.                  *)
(***************************************************************************)
EXTENDS Naturals, Sequences, SequencesExt, FiniteSets

CONSTANTS
  Senders,        \* requests of POST send
  Segments,       \* number of segments of each message
  Users,          \* goroutines that send a plain command once in a while
  MaxOutFaults,   \* late, lost and refused answers, failed writes (bound of the model)
  MaxPlain        \* plain commands (bound of the model)

Clients == Senders \cup Users
None == "none"

ASSUME OutAssumption ==
  /\ None \notin Clients /\ Senders \cap Users = {}
  /\ Segments \in [Senders -> Nat \ {0}]

VARIABLES
  sendMu,     \* smsSendMu
  port,       \* usbAT.mu
  at,         \* what each client does next
  segment,    \* the segment a sender is at
  joined,     \* what the holder of the port has read since it wrote
  inbound,    \* answers in the pipe to the host
  due,        \* answers that the module has still to give
  editor,     \* closed, open for the text of a message, or spoiled by other lines
  sent,       \* history: segments that went to the network
  result,     \* what each request was told
  plain, outFaults

outVars == <<sendMu, port, at, segment, joined, inbound, due, editor, sent, result, plain,
             outFaults>>
senderVars == <<sendMu, segment, result>>

OutInit ==
  /\ sendMu = None /\ port = None /\ at = [c \in Clients |-> "idle"]
  /\ segment = [s \in Senders |-> 1] /\ joined = <<>> /\ inbound = <<>> /\ due = <<>>
  /\ editor = "closed" /\ sent = <<>> /\ result = [s \in Senders |-> None]
  /\ plain = 0 /\ outFaults = 0

OutFault == outFaults < MaxOutFaults /\ outFaults' = outFaults + 1
At(c, place) == at' = [at EXCEPT ![c] = place]

-----------------------------------------------------------------------------
(* The module.  While it waits for a text, every line is part of it.       *)

Takes(line) ==
  IF editor # "closed"
  THEN editor' = "spoiled" /\ UNCHANGED <<due, sent, outFaults>>
  ELSE \/ due' = Append(due, "OK") /\ UNCHANGED <<editor, sent, outFaults>>
       \/ due' = Append(due, "ERROR") /\ OutFault /\ UNCHANGED <<editor, sent>>

TakesCMGS(s) ==
  IF editor # "closed" THEN Takes("CMGS")
  ELSE \/ /\ editor' = "open"
          /\ due' = Append(due, "prompt") /\ UNCHANGED <<sent, outFaults>>
       \/ due' = Append(due, "ERROR") /\ OutFault /\ UNCHANGED <<editor, sent>>

(* The text and Ctrl-Z; the module refuses a PDU of the wrong length. *)
TakesText(s) ==
  /\ editor # "closed" /\ editor' = "closed"
  /\ \/ /\ editor = "open" /\ UNCHANGED outFaults
        /\ sent' = Append(sent, <<s, segment[s]>>) /\ due' = Append(due, "sent")
     \/ /\ due' = Append(due, "ERROR") /\ UNCHANGED sent
        /\ IF editor = "open" THEN OutFault ELSE UNCHANGED outFaults

Answers ==
  /\ due # <<>>
  /\ due' = Tail(due)
  /\ \/ inbound' = Append(inbound, Head(due)) /\ UNCHANGED outFaults
     \/ inbound' = inbound /\ OutFault
  /\ UNCHANGED <<senderVars, port, at, joined, editor, sent, plain>>

-----------------------------------------------------------------------------
(* The port (usbAT.Command and CommandWithPrompt): what lies in the pipe is *)
(* thrown away, the command is written, and everything is read up to the   *)
(* first OK or ERROR.                                                      *)

Locks(c) == port = None /\ port' = c /\ inbound' = <<>> /\ joined' = <<>>

AtResponseIsError(answer) == Contains(answer, "ERROR")
AtResponseComplete(answer) == \E n \in DOMAIN answer : answer[n] \in {"OK", "sent", "ERROR"}
AtResponseHasPrompt(answer) == answer # <<>> /\ Last(answer) = "prompt"
AtProbeSucceeded(answer) == answer # <<>> /\ Last(answer) \in {"OK", "sent"}

Read == inbound # <<>> /\ joined' = Append(joined, Head(inbound)) /\ inbound' = Tail(inbound)

(* The time is over: the answer is lost, or will come later. *)
TimesOut == inbound = <<>> /\ IF due = <<>> THEN UNCHANGED outFaults ELSE OutFault

(* Another user of the bridge: a poll, an APDU of the eSIM, POST at. *)
PlainCommand(u) ==
  /\ at[u] = "idle" /\ plain < MaxPlain /\ plain' = plain + 1
  /\ Locks(u) /\ Takes("AT") /\ At(u, "reads")
  /\ UNCHANGED senderVars

PlainReads(u) ==
  /\ at[u] = "reads" /\ Read
  /\ IF AtResponseComplete(joined') THEN port' = None /\ At(u, "idle") ELSE UNCHANGED <<port, at>>
  /\ UNCHANGED <<senderVars, due, editor, sent, plain, outFaults>>

PlainTimesOut(u) ==
  /\ at[u] = "reads" /\ TimesOut
  /\ port' = None /\ At(u, "idle")
  /\ UNCHANGED <<senderVars, joined, inbound, due, editor, sent, plain>>

-----------------------------------------------------------------------------
(* A sender (sendUSBATSMS).                                                *)

LockSendNot(s) ==                      \* mutant: no lock
  /\ at[s] = "idle" /\ result[s] = None
  /\ sendMu' = sendMu /\ At(s, "mode")
  /\ UNCHANGED <<port, segment, joined, inbound, due, editor, sent, result, plain, outFaults>>

LockSend(s) ==
  /\ at[s] = "idle" /\ result[s] = None
  /\ sendMu = None /\ sendMu' = s /\ At(s, "mode")
  /\ UNCHANGED <<port, segment, joined, inbound, due, editor, sent, result, plain, outFaults>>

Ends(s, told) ==
  /\ result' = [result EXCEPT ![s] = told] /\ At(s, "idle")
  /\ sendMu' = None /\ UNCHANGED segment

(* AT+CMGF=0 *)
SetMode(s) ==
  /\ at[s] = "mode" /\ Locks(s) /\ Takes("AT+CMGF=0") /\ At(s, "modeReads")
  /\ UNCHANGED <<senderVars, plain>>

ModeReads(s) ==
  /\ at[s] = "modeReads" /\ Read
  /\ IF ~AtResponseComplete(joined') THEN UNCHANGED <<port, at, senderVars>>
     ELSE /\ port' = None
          /\ IF AtProbeSucceeded(joined') THEN At(s, "segment") /\ UNCHANGED senderVars
             ELSE Ends(s, "error")
  /\ UNCHANGED <<due, editor, sent, plain, outFaults>>

ModeTimesOut(s) ==
  /\ at[s] = "modeReads" /\ TimesOut
  /\ port' = None /\ Ends(s, "error")
  /\ UNCHANGED <<joined, inbound, due, editor, sent, plain>>

(* AT+CMGS for one segment; the port is free between two segments. *)
SendSegment(s) ==
  /\ at[s] = "segment" /\ Locks(s) /\ TakesCMGS(s) /\ At(s, "prompt")
  /\ UNCHANGED <<senderVars, plain>>

(* The answer to the text counts when it names the message. *)
Accepts(answer) ==
  ~AtResponseIsError(answer) /\ Contains(answer, "sent") /\ AtProbeSucceeded(answer)

NextSegment(s) ==
  IF segment[s] = Segments[s] THEN Ends(s, "sent")
  ELSE /\ segment' = [segment EXCEPT ![s] = @ + 1] /\ At(s, "segment")
       /\ UNCHANGED <<sendMu, result>>

(* The text is written when the answer ends with the prompt. *)
PromptReads(s) ==
  /\ at[s] = "prompt" /\ Read
  /\ \/ /\ AtResponseIsError(joined')
        /\ port' = None /\ Ends(s, "error") /\ UNCHANGED <<due, editor, sent, outFaults>>
     \/ /\ ~AtResponseIsError(joined') /\ ~AtResponseHasPrompt(joined')
        /\ UNCHANGED <<port, at, senderVars, due, editor, sent, outFaults>>
     \/ /\ ~AtResponseIsError(joined') /\ AtResponseHasPrompt(joined')
        /\ TakesText(s) /\ At(s, "text") /\ UNCHANGED <<port, senderVars>>
     \/ /\ ~AtResponseIsError(joined') /\ AtResponseHasPrompt(joined')
        /\ OutFault /\ port' = None /\ Ends(s, "error")     \* the write fails
        /\ UNCHANGED <<due, editor, sent>>
  /\ UNCHANGED plain

TextReads(s) ==
  /\ at[s] = "text" /\ Read
  /\ IF ~AtResponseComplete(joined') THEN UNCHANGED <<port, at, senderVars>>
     ELSE port' = None /\ IF Accepts(joined') THEN NextSegment(s) ELSE Ends(s, "error")
  /\ UNCHANGED <<due, editor, sent, plain, outFaults>>

(* After the prompt, ESC closes the editor of the module. *)
SegmentTimesOut(s) ==
  /\ at[s] \in {"prompt", "text"} /\ TimesOut
  /\ editor' = (IF at[s] = "text" THEN "closed" ELSE editor)
  /\ port' = None /\ Ends(s, "error")
  /\ UNCHANGED <<joined, inbound, due, sent, plain>>

Sends(s) ==
  \/ LockSend(s) \/ SetMode(s) \/ ModeReads(s) \/ ModeTimesOut(s)
  \/ SendSegment(s) \/ PromptReads(s) \/ TextReads(s) \/ SegmentTimesOut(s)
Uses(u) == PlainReads(u) \/ PlainTimesOut(u)

OutNext ==
  \/ Answers
  \/ \E s \in Senders : Sends(s)
  \/ \E u \in Users : PlainCommand(u) \/ Uses(u)

OutSpec == OutInit /\ [][OutNext]_outVars

-----------------------------------------------------------------------------
(* Properties.                                                             *)

Tokens == {"OK", "ERROR", "prompt", "sent"}
Places == {"idle", "reads", "mode", "modeReads", "segment", "prompt", "text"}
OutTypeOK ==
  /\ \A c \in Clients : at[c] \in Places
  /\ \A c \in Clients : at[c] \in {"reads", "modeReads", "prompt", "text"} <=> port = c
  /\ \A s \in Senders : at[s] # "idle" <=> sendMu = s
  /\ ToSet(joined) \cup ToSet(inbound) \cup ToSet(due) \subseteq Tokens
  /\ \A s \in Senders : segment[s] \in 1 .. Segments[s]
  /\ editor \in {"closed", "open", "spoiled"} /\ ToSet(sent) \subseteq Senders \X Nat

(* The segments of a message go to the network one after the other, in     *)
(* order, none twice and no other message between them (smsSendMu).        *)
SegmentsStayTogether ==
  \A n \in DOMAIN sent :
    /\ sent[n][2] > 1 => n > 1 /\ sent[n - 1] = <<sent[n][1], sent[n][2] - 1>>
    /\ \A k \in DOMAIN sent : sent[k] = sent[n] => k = n

(* A request that was told "sent" has all its segments with the network,   *)
(* whatever late answers of earlier commands it has read (sendUSBATSMS).   *)
AckMeansSent ==
  \A s \in Senders : result[s] = "sent" =>
    \A i \in 1 .. Segments[s] : \E n \in DOMAIN sent : sent[n] = <<s, i>>

(* What goes out goes out in one piece, and is told as it went, while      *)
(* other requests and pollers use the same port.                           *)
SentAsTold == SegmentsStayTogether /\ AckMeansSent

=============================================================================
