----------------------------- MODULE MBIMDevice -----------------------------
(***************************************************************************)
(* The MBIM control channel (pkg/mbim: device.go, fragment.go, snapshot.go *)
(* and its use of the transport).  Callers share one connection: each      *)
(* command has a transaction number and a channel for its answer, long     *)
(* messages travel in fragments, one loop reads everything the module      *)
(* sends, collects fragments by transaction and wakes the caller.  The     *)
(* indications, all of transaction 0, pass through a short queue to the    *)
(* monitor, which keeps a snapshot of the module.                          *)
(***************************************************************************)
EXTENDS Integers, Sequences, FiniteSets

CONSTANTS
  MBIMCallers,         \* goroutines in Command
  Opener,              \* the goroutine in Open
  NoWriter,
  InfoLength,          \* the bytes of information in the command of each caller
  MaxControlTransfer,  \* the longest message the module takes
  AnswerPieces,        \* the fragments of an answer and of an indication
  IndicationSlots,     \* the queue of indications (16 in the code)
  MaxMBIMFaults,       \* bound of the model
  MaxWork              \* bound of the model: commands and changes of the module

ASSUME MBIMAssumption ==
  /\ IsFiniteSet(MBIMCallers)
  /\ Opener \notin MBIMCallers /\ NoWriter \notin MBIMCallers \cup {Opener}
  /\ AnswerPieces \in Nat \ {0} /\ IndicationSlots \in Nat \ {0}
  /\ InfoLength \in [MBIMCallers -> Nat] /\ MaxControlTransfer \in Nat

VARIABLES
  nextTx, pending,     \* the last number, and those whose caller waits
  maxCtrl, deviceClosed,
  collector,           \* the fragments collected, by number
  writeMu,             \* the caller that holds it
  readLoop,            \* none, running, ended
  opened,              \* no, busy, yes, failed
  proxy,               \* does the connection go through mbim-proxy?
  request,             \* what each caller does: [what, step, tx, sent]
  resultOf,              \* the channel of each number: <<>> or <<what>>
  mbimTold,            \* what each caller was told
  line, link,          \* the messages on their way to the host; is it up?
  assembling,          \* the command the module receives: [tx, next]
  accepted,            \* the commands it has received, by number: what
  version,             \* the state of the module
  indicationQueue, snapshot,
  mbimFaults,
  garbled,             \* history: fragments of two commands came mixed
  indicationLost       \* history: a fragment of an indication was lost

deviceVars == <<nextTx, pending, maxCtrl, deviceClosed, collector, readLoop, opened, proxy>>
callingVars == <<request, resultOf, mbimTold>>
modemVars == <<assembling, accepted, version>>
monitorVars == <<indicationQueue, snapshot>>
mbimVars == <<deviceVars, writeMu, callingVars, line, link, modemVars, monitorVars, mbimFaults,
              garbled, indicationLost>>

MBIMUsers == MBIMCallers \cup {Opener}
Transactions == 1 .. (Cardinality(MBIMCallers) + 3)
Resting == [what |-> "nothing", step |-> "idle", tx |-> 0, sent |-> 0]
NoAnswer == [kind |-> "none", pieces |-> <<>>]
Failed == [kind |-> "error", pieces |-> <<>>]

MBIMInit ==
  /\ nextTx = 0 /\ pending = {} /\ maxCtrl = 0 /\ deviceClosed = FALSE
  /\ collector = [tx \in Transactions \cup {0} |-> <<>>]
  /\ writeMu = NoWriter /\ readLoop = "none" /\ opened = "no" /\ proxy \in BOOLEAN
  /\ request = [c \in MBIMUsers |-> Resting]
  /\ resultOf = [tx \in Transactions |-> <<>>]
  /\ mbimTold = [c \in MBIMUsers |-> NoAnswer]
  /\ line = <<>> /\ link = "up"
  /\ assembling = [tx |-> 0, next |-> 0] /\ accepted = [tx \in Transactions |-> "nothing"]
  /\ version = 0 /\ indicationQueue = <<>> /\ snapshot = <<>>
  /\ mbimFaults = 0 /\ garbled = FALSE /\ indicationLost = FALSE

MBIMFault == mbimFaults < MaxMBIMFaults /\ mbimFaults' = mbimFaults + 1

(* The fragments of a command; 48 and 20 bytes precede the information in   *)
(* the first and in the others.                                            *)
Pieces(length) ==
  LET first == maxCtrl - 48
      others == maxCtrl - 20
  IN  IF first <= 0 \/ others <= 0 \/ length <= first THEN 1
      ELSE 1 + (length - first + others - 1) \div others
PiecesOf(c) == IF request[c].what = "command" THEN Pieces(InfoLength[c]) ELSE 1

-----------------------------------------------------------------------------
(* Open, Command and Close.                                                *)

(* A number and a channel; OPEN is written without the mutex. *)
Register(c, what) ==
  /\ nextTx' = nextTx + 1 /\ pending' = pending \cup {nextTx'}
  /\ request' = [request EXCEPT ![c] =
       [what |-> what, step |-> IF what = "open" THEN "send" ELSE "lock", tx |-> nextTx', sent |-> 0]]

Open ==
  /\ opened = "no" /\ opened' = "busy"
  /\ maxCtrl' = MaxControlTransfer /\ readLoop' = "running"
  /\ Register(Opener, IF proxy THEN "config" ELSE "open")
  /\ UNCHANGED <<deviceClosed, collector, proxy, writeMu, resultOf, mbimTold, line, link, modemVars,
                 monitorVars, mbimFaults, garbled, indicationLost>>

(* Behind a proxy OPEN follows the configuration, whatever its status. *)
OpenGoesOn ==
  /\ opened = "busy" /\ request[Opener].step = "done"
  /\ IF request[Opener].what = "config" /\ mbimTold[Opener].kind = "answer"
       THEN Register(Opener, "open") /\ UNCHANGED opened
       ELSE /\ opened' = IF mbimTold[Opener].kind = "opened" THEN "yes" ELSE "failed"
            /\ UNCHANGED <<nextTx, pending, request>>
  /\ UNCHANGED <<maxCtrl, deviceClosed, collector, readLoop, proxy, writeMu, resultOf, mbimTold, line, link,
                 modemVars, monitorVars, mbimFaults, garbled, indicationLost>>

Work == version + Cardinality({c \in MBIMCallers : request[c] # Resting})
Command(c) ==
  /\ c \in MBIMCallers /\ opened = "yes" /\ request[c] = Resting /\ Work < MaxWork
  /\ Register(c, "command")
  /\ UNCHANGED <<maxCtrl, deviceClosed, collector, readLoop, opened, proxy, writeMu, resultOf, mbimTold,
                 line, link, modemVars, monitorVars, mbimFaults, garbled, indicationLost>>

TakeAnyWriteMu(c) ==      \* mutant: fragments are written without the mutex
  /\ request[c].step = "lock" /\ request' = [request EXCEPT ![c].step = "send"]
  /\ UNCHANGED <<deviceVars, writeMu, resultOf, mbimTold, line, link, modemVars, monitorVars,
                 mbimFaults, garbled, indicationLost>>
TakeWriteMu(c) ==
  /\ request[c].step = "lock" /\ writeMu = NoWriter
  /\ writeMu' = c /\ request' = [request EXCEPT ![c].step = "send"]
  /\ UNCHANGED <<deviceVars, resultOf, mbimTold, line, link, modemVars, monitorVars, mbimFaults,
                 garbled, indicationLost>>

Releases(c) == writeMu' = IF writeMu = c THEN NoWriter ELSE writeMu

(* The module collects the fragments of one command at a time. *)
ModuleReceives(tx, n, total, what) ==
  /\ garbled' = (garbled \/ (n > 0 /\ assembling # [tx |-> tx, next |-> n]))
  /\ assembling' = [tx |-> tx, next |-> n + 1]
  /\ accepted' = IF n + 1 = total THEN [accepted EXCEPT ![tx] = what] ELSE accepted

WriteMessage(c) ==
  LET r == request[c]
      last == r.sent + 1 = PiecesOf(c)
  IN  /\ r.step = "send" /\ link = "up"
      /\ ModuleReceives(r.tx, r.sent, PiecesOf(c), r.what)
      /\ request' = [request EXCEPT ![c].sent = @ + 1, ![c].step = IF last THEN "wait" ELSE "send"]
      /\ IF last THEN Releases(c) ELSE UNCHANGED writeMu
      /\ UNCHANGED <<deviceVars, resultOf, mbimTold, line, link, version, monitorVars, mbimFaults,
                     indicationLost>>

(* The call returns; its number leaves the map unless an answer took it out. *)
CallReturns(c, what) ==
  /\ mbimTold' = [mbimTold EXCEPT ![c] = what]
  /\ request' = [request EXCEPT ![c].step = "done"]
  /\ pending' = pending \ {request[c].tx}
  /\ UNCHANGED <<nextTx, maxCtrl, deviceClosed, collector, readLoop, opened, proxy, resultOf>>

WriteFails(c) ==
  /\ request[c].step = "send" /\ Releases(c) /\ CallReturns(c, Failed)
  /\ IF link = "down" THEN UNCHANGED mbimFaults ELSE MBIMFault
  /\ UNCHANGED <<line, link, modemVars, monitorVars, garbled, indicationLost>>

ContextDone(c) ==
  /\ request[c].step = "wait" /\ CallReturns(c, Failed)
  /\ UNCHANGED <<writeMu, line, link, modemVars, monitorVars, mbimFaults, garbled, indicationLost>>

TakeAnswer(c) ==
  /\ request[c].step = "wait" /\ resultOf[request[c].tx] # <<>>
  /\ CallReturns(c, resultOf[request[c].tx][1])
  /\ UNCHANGED <<writeMu, line, link, modemVars, monitorVars, mbimFaults, garbled, indicationLost>>

(* Close is done once; it ends the transport even if CLOSE is not taken. *)
CloseBegins ==
  /\ ~deviceClosed /\ opened # "no" /\ deviceClosed' = TRUE /\ nextTx' = nextTx + 1
  /\ UNCHANGED <<pending, maxCtrl, collector, readLoop, opened, proxy, writeMu, callingVars, line,
                 link, modemVars, monitorVars, mbimFaults, garbled, indicationLost>>
CloseEnds ==
  /\ deviceClosed /\ link = "up" /\ writeMu = NoWriter /\ link' = "down"
  /\ UNCHANGED <<deviceVars, writeMu, callingVars, line, modemVars, monitorVars, mbimFaults,
                 garbled, indicationLost>>

-----------------------------------------------------------------------------
(* The module and the line.                                                *)

Fragments(type, tx, of, short) ==
  [i \in 1 .. AnswerPieces |->
     [type |-> type, tx |-> tx, of |-> of, current |-> i - 1, total |-> AnswerPieces, short |-> short]]
WholeAnswer(tx) == Fragments("command", tx, tx, FALSE)

ModuleReplies(tx) ==
  /\ link = "up" /\ accepted[tx] # "nothing"
  /\ accepted' = [accepted EXCEPT ![tx] = "nothing"]
  /\ IF accepted[tx] = "open"
       THEN /\ \E kind \in {"opened", "refused"} :
                 line' = Append(line, [type |-> "done", tx |-> tx, kind |-> kind])
            /\ UNCHANGED mbimFaults
       ELSE \/ line' = line \o WholeAnswer(tx) /\ UNCHANGED mbimFaults
            \/ line' = line \o Fragments("command", tx, tx, TRUE) /\ MBIMFault
  /\ UNCHANGED <<deviceVars, writeMu, callingVars, link, assembling, version, monitorVars, garbled,
                 indicationLost>>

ModuleChanges ==
  /\ link = "up" /\ opened = "yes" /\ Work < MaxWork /\ version' = version + 1
  /\ line' = line \o Fragments("indicate", 0, version', FALSE)
  /\ UNCHANGED <<deviceVars, writeMu, callingVars, link, assembling, accepted, monitorVars,
                 mbimFaults, garbled, indicationLost>>

LosesMessage ==
  /\ line # <<>> /\ MBIMFault /\ line' = Tail(line)
  /\ indicationLost' = (indicationLost \/ Head(line).tx = 0)
  /\ UNCHANGED <<deviceVars, writeMu, callingVars, link, modemVars, monitorVars, garbled>>
RepeatsMessage ==
  /\ line # <<>> /\ MBIMFault /\ line' = <<Head(line)>> \o line
  /\ UNCHANGED <<deviceVars, writeMu, callingVars, link, modemVars, monitorVars, garbled,
                 indicationLost>>

-----------------------------------------------------------------------------
(* readLoop.                                                               *)

(* An answer wakes its caller, if it still waits. *)
Wakes(tx, what) ==
  /\ pending' = pending \ {tx}
  /\ resultOf' = IF tx \in pending THEN [resultOf EXCEPT ![tx] = Append(@, what)] ELSE resultOf

ReadDone ==
  /\ readLoop = "running" /\ line # <<>> /\ Head(line).type = "done"
  /\ line' = Tail(line)
  /\ Wakes(Head(line).tx, [kind |-> Head(line).kind, pieces |-> <<>>])
  /\ UNCHANGED <<nextTx, maxCtrl, deviceClosed, collector, readLoop, opened, proxy, writeMu, request,
                 mbimTold, link, modemVars, monitorVars, mbimFaults, garbled, indicationLost>>

AddsAny(old, m) == Append(old, m)      \* mutant: the order is not checked
(* collector.add: fragments in order, none twice; another one is skipped.   *)
Adds(old, m) == IF m.current = Len(old) THEN Append(old, m) ELSE old
Fits(old, m) == Adds(old, m) # old
Complete(old, m) == Fits(old, m) /\ Len(Adds(old, m)) >= Adds(old, m)[1].total

ReadCommandDone ==
  LET m == Head(line)
      old == collector[m.tx]
  IN  /\ readLoop = "running" /\ line # <<>> /\ m.type = "command"
      /\ line' = Tail(line)
      /\ IF Complete(old, m)
           THEN /\ collector' = [collector EXCEPT ![m.tx] = <<>>]
                /\ Wakes(m.tx, IF Adds(old, m)[1].short THEN Failed
                               ELSE [kind |-> "answer", pieces |-> Adds(old, m)])
           ELSE /\ collector' = [collector EXCEPT ![m.tx] = Adds(old, m)]
                /\ UNCHANGED <<pending, resultOf>>
      /\ UNCHANGED <<nextTx, maxCtrl, deviceClosed, readLoop, opened, proxy, writeMu, request, mbimTold,
                     link, modemVars, monitorVars, mbimFaults, garbled, indicationLost>>

Mixed(pieces) == \E i, j \in DOMAIN pieces : pieces[i].of # pieces[j].of

(* Fragments of two indications may be too short together; a full queue    *)
(* drops the new one.                                                      *)
ReadIndication ==
  LET m == Head(line)
      old == collector[0]
      whole == Adds(old, m)
  IN  /\ readLoop = "running" /\ line # <<>> /\ m.type = "indicate"
      /\ line' = Tail(line)
      /\ collector' = [collector EXCEPT ![0] = IF Complete(old, m) THEN <<>> ELSE whole]
      /\ \/ /\ Complete(old, m) /\ Len(indicationQueue) < IndicationSlots
            /\ indicationQueue' = Append(indicationQueue, whole)
         \/ /\ ~Complete(old, m) \/ Len(indicationQueue) = IndicationSlots \/ Mixed(whole)
            /\ UNCHANGED indicationQueue
      /\ UNCHANGED <<nextTx, pending, maxCtrl, deviceClosed, readLoop, opened, proxy, writeMu, callingVars,
                     link, modemVars, snapshot, mbimFaults, garbled, indicationLost>>

(* The line fails: everyone who waits is told, and the loop ends.           *)
ReadFails ==
  /\ readLoop = "running" /\ readLoop' = "ended"
  /\ IF link = "down" THEN UNCHANGED mbimFaults ELSE MBIMFault
  /\ resultOf' = [tx \in Transactions |-> IF tx \in pending THEN Append(resultOf[tx], Failed) ELSE resultOf[tx]]
  /\ pending' = {} /\ collector' = [tx \in Transactions \cup {0} |-> <<>>]
  /\ UNCHANGED <<nextTx, maxCtrl, deviceClosed, opened, proxy, writeMu, request, mbimTold, line, link,
                 modemVars, monitorVars, garbled, indicationLost>>

-----------------------------------------------------------------------------
(* The monitor.  One that is stopped takes no step any more.               *)

Run ==
  /\ indicationQueue # <<>>
  /\ snapshot' = Head(indicationQueue) /\ indicationQueue' = Tail(indicationQueue)
  /\ UNCHANGED <<deviceVars, writeMu, callingVars, line, link, modemVars, mbimFaults,
                 garbled, indicationLost>>

MBIMCall(c) ==
  Command(c) \/ TakeWriteMu(c) \/ WriteMessage(c) \/ WriteFails(c) \/ ContextDone(c) \/ TakeAnswer(c)
Reading == ReadDone \/ ReadCommandDone \/ ReadIndication \/ ReadFails

MBIMNext ==
  \/ Open \/ OpenGoesOn \/ CloseBegins \/ CloseEnds
  \/ \E c \in MBIMUsers : MBIMCall(c)
  \/ \E tx \in Transactions : ModuleReplies(tx)
  \/ ModuleChanges \/ LosesMessage \/ RepeatsMessage
  \/ Reading \/ Run

MBIMSpec == MBIMInit /\ [][MBIMNext]_mbimVars

-----------------------------------------------------------------------------
MBIMTypeOK ==
  /\ nextTx \in Transactions \cup {0} /\ pending \subseteq 1 .. nextTx
  /\ writeMu \in MBIMCallers \cup {Opener, NoWriter}
  /\ \A c \in MBIMUsers :
       /\ request[c].step \in {"idle", "lock", "send", "wait", "done"}
       /\ request[c].sent <= PiecesOf(c)
  /\ \A tx \in Transactions \cup {0} : Len(collector[tx]) < AnswerPieces
  /\ Len(indicationQueue) <= IndicationSlots
  /\ readLoop \in {"none", "running", "ended"} /\ opened \in {"no", "busy", "yes", "failed"}

(* A caller is told the whole answer to its own command or an error,        *)
(* whatever is lost, repeated or late; the module receives commands one    *)
(* after the other; handing over an answer cannot block the reading loop;   *)
(* and unless a fragment of an indication is lost the snapshot shows one   *)
(* state the module was in (Command, readLoop, collector, Monitor.apply).  *)
OnlyWholeMessages ==
  /\ \A c \in MBIMCallers : mbimTold[c].kind = "answer" => mbimTold[c].pieces = WholeAnswer(request[c].tx)
  /\ ~garbled
  /\ \A tx \in pending : resultOf[tx] = <<>>
  /\ indicationLost \/ ~Mixed(snapshot)
=============================================================================
