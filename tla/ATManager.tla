----------------------------- MODULE ATManager -----------------------------
(***************************************************************************)
(* The AT manager (internal/modem/manager.go): callers put commands into   *)
(* two queues, one loop writes them to the serial port one at a time and   *)
(* collects the lines of their answers, one reader turns the port's bytes  *)
(* into lines.  Requests come from a pool with the channels on which they  *)
(* are answered.  The module may answer late or never, the port may be     *)
(* lost, and the manager may be stopped at any time.                       *)
(***************************************************************************)
EXTENDS Naturals, Sequences

CONSTANTS
  Normal,        \* goroutines that call ExecuteAT again and again
  Urgent,        \* the same for ExecuteATHigh
  Texters,       \* goroutines that send segments (SendSMSWithOptions)
  Channels,      \* pairs of respChan and errChan in the pool
  NoChannel,
  Lost,          \* the answer of a command that is over (its caller no longer matters)
  Threshold,     \* atTimeoutWatchdogThreshold
  QueueSize,     \* capacity of each command queue (10 and 5 in the code)
  Losses,        \* how the port may be lost: "eof", "broken"
  MaxLines,      \* lines on their way from the module (bound of the model)
  MaxPending     \* commands the module works on; it ignores further ones (bound of the model)

ATCallers == Normal \cup Urgent \cup Texters
Pooled == Normal \cup Urgent
NoRequest == [of |-> Lost, chan |-> NoChannel]

(* The channels a texter makes are named by the texter. *)
AllChannels == Channels \cup Texters

ASSUME ThresholdAssumption == Threshold \in Nat \ {0}
ASSUME PoolAssumption ==
  /\ Pooled \cap Texters = {} /\ Normal \cap Urgent = {}
  /\ Channels \cap Texters = {} /\ NoChannel \notin AllChannels /\ Lost \notin ATCallers

VARIABLES
  callers,    \* where each caller is: idle, send, wait
  held,       \* the channel of its request
  content,    \* what each channel holds: <<>> or <<set of the callers the answer's lines belong to>>
  cmdChan, cmdChanHigh,
  loop,       \* look, select, busy, ended
  current,    \* the request the loop is busy with
  collected,  \* whose lines fullResponse holds
  prompted,   \* has the text been written? (waitPrompt reset)
  rxChan,     \* lines [kind, of] to the loop
  module,     \* commands [of, stage] the module has answered yet: run, end, cmgs, editor, text
  atPort,     \* open, eof, broken
  reader,     \* reads, gone
  stopClosed, \* is m.stop closed?
  running, healthy,
  atTimeoutStreak,
  notified    \* has notifyDisconnect been called?

callerVars == <<callers, held>>
lifeVars == <<stopClosed, running, healthy, notified>>
wireVars == <<rxChan, module, atPort, reader>>
atVars == <<callers, held, content, cmdChan, cmdChanHigh, loop, current, collected,
            prompted, rxChan, module, atPort, reader, stopClosed, running, healthy,
            atTimeoutStreak, notified>>

ATInit ==
  /\ callers = [c \in ATCallers |-> "idle"] /\ held = [c \in ATCallers |-> NoChannel]
  /\ content = [k \in AllChannels |-> <<>>]
  /\ cmdChan = <<>> /\ cmdChanHigh = <<>>
  /\ loop = "look" /\ current = NoRequest /\ collected = {} /\ prompted = FALSE
  /\ rxChan = <<>> /\ module = <<>> /\ atPort = "open" /\ reader = "reads"
  /\ stopClosed = FALSE /\ running = TRUE /\ healthy = TRUE
  /\ atTimeoutStreak = 0 /\ notified = FALSE

-----------------------------------------------------------------------------
(* Stopping.  stop is closed first, running is cleared last.               *)

ClosesStop == stopClosed' = TRUE /\ UNCHANGED <<running, healthy>>

(* Stop, StopAndWait, Close called by the owner. *)
Stop ==
  /\ ~stopClosed /\ ClosesStop
  /\ UNCHANGED <<callerVars, content, cmdChan, cmdChanHigh, loop, current, collected, prompted,
                 wireVars, atTimeoutStreak, notified>>

StopEnds ==
  /\ stopClosed /\ running /\ running' = FALSE
  /\ UNCHANGED <<callerVars, content, cmdChan, cmdChanHigh, loop, current, collected, prompted,
                 wireVars, stopClosed, healthy, atTimeoutStreak, notified>>

(* handleFatalSerialRuntimeErr, tripATTimeoutWatchdog: not for a manager    *)
(* that has already stopped.                                               *)
Condemned ==
  IF running
  THEN stopClosed' = TRUE /\ healthy' = FALSE /\ notified' = TRUE /\ UNCHANGED running
  ELSE UNCHANGED lifeVars

-----------------------------------------------------------------------------
(* Callers (executeAT and SendSMSWithOptions).                             *)

Move(c, place) == callers' = [callers EXCEPT ![c] = place]

OwnsNone(c) == FALSE                \* mutant: texters take theirs from the pool
(* A texter makes its own channels; the others take a request from the pool, *)
(* where those nobody holds lie.                                           *)
OwnsChannels(c) == c \in Texters
Call(c) ==
  /\ callers[c] = "idle" /\ running /\ (c \in Pooled => healthy)
  /\ \E k \in IF OwnsChannels(c) THEN {c} ELSE {k \in Channels : \A d \in ATCallers : held[d] # k} :
        held' = [held EXCEPT ![c] = k]
  /\ Move(c, "send")
  /\ UNCHANGED <<content, cmdChan, cmdChanHigh, loop, current, collected, prompted, wireVars,
                 lifeVars, atTimeoutStreak>>

Request(c) == [of |-> c, chan |-> held[c]]
Enqueue(c) ==
  /\ callers[c] = "send" /\ Move(c, "wait")
  /\ IF c \in Normal
     THEN Len(cmdChan) < QueueSize /\ cmdChan' = Append(cmdChan, Request(c)) /\ UNCHANGED cmdChanHigh
     ELSE /\ Len(cmdChanHigh) < QueueSize
          /\ cmdChanHigh' = Append(cmdChanHigh, Request(c)) /\ UNCHANGED cmdChan
  /\ UNCHANGED <<held, content, loop, current, collected, prompted, wireVars, lifeVars,
                 atTimeoutStreak>>

(* The caller returns: a pooled request is emptied and goes back.  A texter *)
(* leaves its channels behind: a late answer goes to nobody.               *)
Forgets(c, requests) ==
  [n \in DOMAIN requests |->
     IF OwnsChannels(c) /\ requests[n].of = c THEN [requests[n] EXCEPT !.chan = NoChannel]
     ELSE requests[n]]
Return(c) ==
  /\ Move(c, "idle")
  /\ content' = [content EXCEPT ![held[c]] = <<>>]
  /\ held' = [held EXCEPT ![c] = NoChannel]
  /\ cmdChanHigh' = Forgets(c, cmdChanHigh)
  /\ current' = Forgets(c, <<current>>)[1]
  /\ UNCHANGED <<cmdChan, loop, collected, prompted, wireVars, lifeVars, atTimeoutStreak>>

Receive(c) ==
  /\ callers[c] = "wait" /\ content[held[c]] # <<>>
  /\ Return(c)

(* The queue stays full for five seconds. *)
QueueFull(c) ==
  /\ callers[c] = "send"
  /\ Len(IF c \in Normal THEN cmdChan ELSE cmdChanHigh) >= QueueSize
  /\ Return(c)

ReturnStoppedUnqueued(c) ==      \* mutant: no stop case while the answer is awaited
  /\ c \in Pooled /\ stopClosed /\ callers[c] = "send"
  /\ Return(c)

(* stop is closed: the answer is looked at once more. *)
ReturnStopped(c) ==
  /\ c \in Pooled /\ stopClosed
  /\ \/ callers[c] = "send"
     \/ callers[c] = "wait" /\ content[held[c]] = <<>>
  /\ Return(c)

(* A texter does not wait for stop, but no longer than twenty seconds. *)
SendTimesOut(c) ==
  /\ c \in Texters /\ callers[c] = "wait" /\ content[held[c]] = <<>>
  /\ Return(c)

-----------------------------------------------------------------------------
(* The loop (runLoop): first the urgent queue alone, then whatever is ready. *)

Answer(answer) ==
  content' = IF current.chan = NoChannel THEN content
             ELSE [content EXCEPT ![current.chan] = <<answer>>]

(* What is left of a command that is over belongs to nobody. *)
Orphans(c, lines) ==
  [n \in DOMAIN lines |-> IF lines[n].of = c THEN [lines[n] EXCEPT !.of = Lost] ELSE lines[n]]

(* handleCommand returns. *)
Over(lines, commands) ==
  /\ loop' = "look" /\ current' = NoRequest /\ collected' = {} /\ prompted' = FALSE
  /\ rxChan' = Orphans(current.of, lines) /\ module' = Orphans(current.of, commands)

LookAgain ==
  /\ loop = "look" /\ cmdChanHigh = <<>> /\ ~stopClosed
  /\ loop' = "select"
  /\ UNCHANGED <<callerVars, content, cmdChan, cmdChanHigh, current, collected, prompted, wireVars,
                 lifeVars, atTimeoutStreak>>

LoopEnds ==
  /\ loop \in {"look", "select"} /\ stopClosed
  /\ loop' = "ended"
  /\ UNCHANGED <<callerVars, content, cmdChan, cmdChanHigh, current, collected, prompted, wireVars,
                 lifeVars, atTimeoutStreak>>

(* A command is written, unless the port is broken. *)
Begins(request) ==
  IF atPort = "broken" \/ stopClosed
  THEN /\ content' = IF request.chan = NoChannel THEN content
                     ELSE [content EXCEPT ![request.chan] = <<{}>>]
       /\ loop' = "look" /\ UNCHANGED <<current, module>>
       /\ IF atPort = "broken" THEN Condemned ELSE UNCHANGED lifeVars
  ELSE /\ loop' = "busy" /\ current' = request
       /\ module' = IF atPort = "open" /\ Len(module) < MaxPending
                    THEN Append(module, [of |-> request.of,
                                         stage |-> IF request.of \in Texters THEN "cmgs" ELSE "run"])
                    ELSE module
       /\ UNCHANGED <<content, lifeVars>>

TakeHigh ==
  /\ loop \in {"look", "select"} /\ cmdChanHigh # <<>>
  /\ Begins(Head(cmdChanHigh)) /\ cmdChanHigh' = Tail(cmdChanHigh)
  /\ UNCHANGED <<callerVars, cmdChan, collected, prompted, rxChan, atPort, reader, atTimeoutStreak>>

TakeNormal ==
  /\ loop = "select" /\ cmdChan # <<>>
  /\ Begins(Head(cmdChan)) /\ cmdChan' = Tail(cmdChan)
  /\ UNCHANGED <<callerVars, cmdChanHigh, collected, prompted, rxChan, atPort, reader,
                 atTimeoutStreak>>

(* A line while no command runs is dropped; a failure stops the manager. *)
IdleLine ==
  /\ loop = "select" /\ rxChan # <<>>
  /\ rxChan' = Tail(rxChan)
  /\ IF Head(rxChan).kind = "failure"
     THEN /\ loop' = "ended" /\ notified' = TRUE /\ stopClosed' = TRUE
          /\ UNCHANGED <<running, healthy>>
     ELSE loop' = "look" /\ UNCHANGED lifeVars
  /\ UNCHANGED <<callerVars, content, cmdChan, cmdChanHigh, current, collected, prompted, module,
                 atPort, reader, atTimeoutStreak>>

-----------------------------------------------------------------------------
(* The loop inside handleCommand.                                          *)

(* A further line of the answer, or one of those that only look like it. *)
CommandLine ==
  /\ loop = "busy" /\ rxChan # <<>> /\ Head(rxChan).kind = "data"
  /\ collected' = collected \cup {Head(rxChan).of} /\ rxChan' = Tail(rxChan)
  /\ UNCHANGED <<callerVars, content, cmdChan, cmdChanHigh, loop, current, prompted, module, atPort,
                 reader, lifeVars, atTimeoutStreak>>

(* An unsolicited line with "ERROR" or ">" in its text counts as the end of *)
(* the answer like a real one: the text is looked at before the kind.      *)
CommandEnds ==
  /\ loop = "busy" /\ rxChan # <<>> /\ Head(rxChan).kind \in {"ok", "error", "prompt"}
  /\ ~(Head(rxChan).kind = "prompt" /\ current.of \in Texters /\ ~prompted)
  /\ atTimeoutStreak' = 0
  /\ Answer(IF Head(rxChan).kind = "error" THEN {} ELSE collected \cup {Head(rxChan).of})
  /\ Over(Tail(rxChan), module)
  /\ UNCHANGED <<callerVars, cmdChan, cmdChanHigh, atPort, reader, lifeVars>>

(* The prompt of a segment: its text is written, once. *)
WriteText ==
  /\ loop = "busy" /\ rxChan # <<>> /\ Head(rxChan).kind = "prompt"
  /\ current.of \in Texters /\ ~prompted
  /\ prompted' = TRUE /\ rxChan' = Tail(rxChan) /\ atTimeoutStreak' = 0
  /\ module' = [n \in DOMAIN module |->
                  IF module[n].stage = "editor" THEN [module[n] EXCEPT !.stage = "text"]
                  ELSE module[n]]
  /\ UNCHANGED <<callerVars, content, cmdChan, cmdChanHigh, loop, current, collected, atPort, reader,
                 lifeVars>>

(* The reader reports that the port is lost. *)
CommandFails ==
  /\ loop = "busy" /\ rxChan # <<>> /\ Head(rxChan).kind = "failure"
  /\ Answer({}) /\ Over(Tail(rxChan), module)
  /\ IF atPort = "broken" THEN Condemned ELSE UNCHANGED lifeVars
  /\ UNCHANGED <<callerVars, cmdChan, cmdChanHigh, atPort, reader, atTimeoutStreak>>

RecordUrgentOnly(c) ==           \* mutant: the priority is compared the wrong way round
  atTimeoutStreak' = IF c \in Normal THEN atTimeoutStreak ELSE atTimeoutStreak + 1
RecordATTimeout(c) ==
  atTimeoutStreak' = IF c \in Normal THEN atTimeoutStreak + 1 ELSE atTimeoutStreak

(* An ESC ends the editor of an open text, the first of the commands.      *)
CommandTimesOut ==
  /\ loop = "busy"
  /\ Answer({})
  /\ Over(rxChan, IF module # <<>> /\ Head(module).stage = "editor" THEN Tail(module) ELSE module)
  /\ RecordATTimeout(current.of)
  /\ IF atTimeoutStreak' > atTimeoutStreak /\ atTimeoutStreak' >= Threshold
     THEN Condemned ELSE UNCHANGED lifeVars
  /\ UNCHANGED <<callerVars, cmdChan, cmdChanHigh, atPort, reader>>

-----------------------------------------------------------------------------
(* The module and the reader; once stopped the port is closed.             *)

Line(kind, c) == [kind |-> kind, of |-> c]
HostOnly == UNCHANGED <<callerVars, content, cmdChan, cmdChanHigh, loop, current, collected, prompted,
                        lifeVars, atTimeoutStreak>>
Emits(line) ==
  /\ atPort = "open" /\ reader = "reads" /\ ~stopClosed /\ Len(rxChan) < MaxLines
  /\ rxChan' = Append(rxChan, line) /\ HostOnly /\ UNCHANGED <<atPort, reader>>

ModuleAnswers ==
  /\ module # <<>>
  /\ LET d == Head(module)
     IN \/ /\ d.stage \in {"run", "text"}
           /\ Emits(Line("data", d.of)) /\ module' = [module EXCEPT ![1].stage = "end"]
        \/ /\ d.stage = "end"
           /\ Emits(Line("ok", d.of)) /\ module' = Tail(module)
        \/ /\ d.stage \in {"run", "cmgs", "text"}
           /\ Emits(Line("error", d.of)) /\ module' = Tail(module)
        \/ /\ d.stage = "cmgs"
           /\ Emits(Line("prompt", d.of)) /\ module' = [module EXCEPT ![1].stage = "editor"]

(* A command without an answer. *)
ModuleKeepsSilent ==
  /\ ~stopClosed /\ module # <<>> /\ module' = Tail(module) /\ HostOnly /\ UNCHANGED <<rxChan, atPort, reader>>

(* A network message whose text contains "ERROR" or ">". *)
StrangeNotice ==
  /\ \E kind \in {"error", "prompt"} : Emits(Line(kind, Lost))
  /\ UNCHANGED module

LosePort ==
  /\ ~stopClosed /\ atPort = "open" /\ atPort' \in Losses /\ module' = <<>>
  /\ HostOnly /\ UNCHANGED <<rxChan, reader>>

(* Thirty times EOF, or another error than a time-out; nothing once stopped. *)
ReaderEnds ==
  /\ reader = "reads" /\ (atPort # "open" \/ stopClosed)
  /\ reader' = "gone"
  /\ rxChan' = IF stopClosed THEN rxChan ELSE Append(rxChan, Line("failure", Lost))
  /\ HostOnly /\ UNCHANGED <<module, atPort>>

-----------------------------------------------------------------------------
Loops == LookAgain \/ LoopEnds \/ TakeHigh \/ TakeNormal \/ IdleLine
Handles == CommandLine \/ CommandEnds \/ WriteText \/ CommandFails \/ CommandTimesOut
Waits(c) == Enqueue(c) \/ Receive(c) \/ QueueFull(c) \/ ReturnStopped(c) \/ SendTimesOut(c)

ATNext ==
  \/ Stop \/ StopEnds
  \/ Loops \/ Handles
  \/ ModuleAnswers \/ ModuleKeepsSilent \/ StrangeNotice \/ LosePort \/ ReaderEnds
  \/ \E c \in ATCallers : Call(c) \/ Waits(c)

ATSpec == ATInit /\ [][ATNext]_atVars

(* The goroutines run, timers fire, and a select takes one of its ready     *)
(* cases at random, so a case that is ready again and again is taken.  The *)
(* module owes nothing.                                                    *)
ATFairness ==
  /\ WF_atVars(StopEnds) /\ WF_atVars(Loops) /\ WF_atVars(Handles) /\ WF_atVars(ReaderEnds)
  /\ SF_atVars(TakeNormal)
  /\ \A c \in ATCallers : WF_atVars(Waits(c))
FairATSpec == ATSpec /\ ATFairness

-----------------------------------------------------------------------------
(* Properties.                                                             *)

ATTypeOK ==
  /\ callers \in [ATCallers -> {"idle", "send", "wait"}]
  /\ held \in [ATCallers -> AllChannels \cup {NoChannel}]
  /\ \A k \in AllChannels : Len(content[k]) <= 1
  /\ loop \in {"look", "select", "busy", "ended"}
  /\ loop = "busy" <=> current.of # Lost
  /\ atPort \in {"open"} \cup Losses /\ reader \in {"reads", "gone"}
  /\ atTimeoutStreak \in 0..Threshold
  /\ notified => stopClosed

(* No caller is given the answer of a command that another caller waits for,*)
(* whatever late lines are about: channels out of the pool are never in the *)
(* hands of two requests until the manager is stopped (executeAT, reqPool). *)
AnswersAreOwn ==
  stopClosed \/ \A c \in ATCallers :
    callers[c] = "wait" /\ content[held[c]] # <<>> => content[held[c]][1] \subseteq {c, Lost}

(* Every call returns, even from a full queue, a dead port or a stopped    *)
(* manager; one of normal priority unless urgent ones keep the loop from   *)
(* looking at its queue (executeAT, SendSMSWithOptions).                   *)
EveryATCallReturns ==
  /\ \A c \in ATCallers \ Normal : callers[c] # "idle" ~> callers[c] = "idle"
  /\ []<>(loop \in {"select", "ended"}) =>
       \A c \in Normal : callers[c] # "idle" ~> callers[c] = "idle"

(* A lost port stops the manager if normal commands go on being tried, also *)
(* when a command swallowed the reader's report (handleCommand, watchdog). *)
LossIsNoticed ==
  []<>(loop = "busy" /\ current.of \in Normal) => (atPort # "open" ~> stopClosed)

(* The reader's judgement that the device is gone stops the manager by     *)
(* itself (readLoop, runLoop).                                             *)
LossIsReported == reader = "gone" ~> stopClosed
=============================================================================
