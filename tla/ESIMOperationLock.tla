------------------------- MODULE ESIMOperationLock -------------------------
(***************************************************************************)
(* How the operations of internal/esim/manager.go share opMu: writers take *)
(* it with Lock, lockOperation waits for it on the channel opDone with a   *)
(* timeout, and forEachEUICC waits for it to be free before it reads.  The *)
(* field opDone is read and written outside every lock; one memory access  *)
(* of it is one action.                                                    *)
(***************************************************************************)
EXTENDS FiniteSets

CONSTANTS
  Writers,   \* goroutines that call opMu.Lock() (switch, delete, download, ...)
  Lockers,   \* goroutines in lockOperation (the notification lists)
  Readers,   \* goroutines in waitForNoWriteOperation (forEachEUICC)
  DoneChannels,  \* identities of Go channels, taken again when nothing names them
  NoHolder,      \* opMu is not held
  NoDone  \* a local variable that holds no channel

LockCallers == Writers \cup Lockers \cup Readers

ASSUME LockAssumption ==
  /\ Writers \cap Lockers = {} /\ Writers \cap Readers = {} /\ Lockers \cap Readers = {}
  /\ NoHolder \notin LockCallers /\ NoDone \notin DoneChannels
  /\ IsFiniteSet(DoneChannels) /\ DoneChannels # {}

VARIABLES
  opMu,    \* the goroutine that holds opMu, or NoHolder
  opDone,  \* m.opDone
  closed,  \* channels that are closed
  stage,      \* where each goroutine is
  chan,    \* the channel a waiter selects on, or that a notifier has read
  panicked \* has a closed channel been closed again?

lockVars == <<opMu, opDone, closed, stage, chan, panicked>>

LockInit ==
  /\ opMu = NoHolder
  /\ opDone \in DoneChannels /\ closed = {}
  /\ stage = [c \in LockCallers |-> "out"]
  /\ chan = [c \in LockCallers |-> NoDone]
  /\ panicked = FALSE

MoveTo(c, place) == stage' = [stage EXCEPT ![c] = place]

-----------------------------------------------------------------------------
(* Taking the lock.                                                        *)

(* opMu.Lock() *)
Lock(c) ==
  /\ c \in Writers /\ stage[c] = "out" /\ opMu = NoHolder
  /\ opMu' = c
  /\ MoveTo(c, "hold")
  /\ UNCHANGED <<opDone, closed, chan, panicked>>

TryLock(c) ==
  IF opMu = NoHolder THEN opMu' = c /\ MoveTo(c, "hold")
  ELSE opMu' = opMu /\ MoveTo(c, "capture")

(* The fast path of both waits: TryLock before the timer starts. *)
FirstTry(c) ==
  /\ c \in Lockers \cup Readers /\ stage[c] = "out"
  /\ TryLock(c)
  /\ UNCHANGED <<opDone, closed, chan, panicked>>

(* Each turn of the loop evaluates m.opDone, then selects on its value. *)
Capture(c) ==
  /\ stage[c] = "capture"
  /\ chan' = [chan EXCEPT ![c] = opDone]
  /\ MoveTo(c, "wait")
  /\ UNCHANGED <<opMu, opDone, closed, panicked>>

WokenHolds(c) ==                       \* mutant: woken means free, no TryLock
  /\ stage[c] = "wait" /\ chan[c] \in closed
  /\ opMu' = c
  /\ chan' = [chan EXCEPT ![c] = NoDone]
  /\ MoveTo(c, "hold")
  /\ UNCHANGED <<opDone, closed, panicked>>

(* The channel was closed: try again, or capture again. *)
WokenByDone(c) ==
  /\ stage[c] = "wait" /\ chan[c] \in closed
  /\ TryLock(c)
  /\ chan' = [chan EXCEPT ![c] = NoDone]
  /\ UNCHANGED <<opDone, closed, panicked>>

TimeoutIgnored(c) ==                   \* mutant: no timer case in the select
  FALSE /\ UNCHANGED lockVars

(* readQueueWaitTimeout: ErrOperationInProgress. *)
Timeout(c) ==
  /\ stage[c] = "wait"
  /\ chan' = [chan EXCEPT ![c] = NoDone]
  /\ MoveTo(c, "out")
  /\ UNCHANGED <<opMu, opDone, closed, panicked>>

-----------------------------------------------------------------------------
(* Giving it back.                                                         *)

(* waitForNoWriteOperation unlocks at once and tells nobody. *)
ReaderUnlocks(c) ==
  /\ stage[c] = "hold" /\ c \in Readers
  /\ opMu' = NoHolder
  /\ MoveTo(c, "out")
  /\ UNCHANGED <<opDone, closed, chan, panicked>>

(* An operation ends: opMu.Unlock(), then notifyWriteDone. *)
Unlock(c) ==
  /\ stage[c] = "hold" /\ c \notin Readers
  /\ opMu' = NoHolder
  /\ MoveTo(c, "notify")
  /\ UNCHANGED <<opDone, closed, chan, panicked>>

(* notifyWriteDone: read the field, *)
ReadOld(c) ==
  /\ stage[c] = "notify"
  /\ chan' = [chan EXCEPT ![c] = opDone]
  /\ MoveTo(c, "swap")
  /\ UNCHANGED <<opMu, opDone, closed, panicked>>

StoreNil(c) ==                         \* mutant: the next channel is not made
  /\ stage[c] = "swap"
  /\ opDone' = NoDone
  /\ MoveTo(c, "close")
  /\ UNCHANGED <<opMu, closed, chan, panicked>>

(* store a new channel, *)
Named == {opDone} \cup {chan[c] : c \in LockCallers}
StoreNew(c) ==
  /\ stage[c] = "swap"
  /\ opDone' \in DoneChannels \ Named
  /\ closed' = closed \ {opDone'}
  /\ MoveTo(c, "close")
  /\ UNCHANGED <<opMu, chan, panicked>>

(* and close the one it read, which another notifier may have closed. *)
CloseOld(c) ==
  /\ stage[c] = "close"
  /\ panicked' = (panicked \/ chan[c] \in closed)
  /\ closed' = closed \cup {chan[c]}
  /\ chan' = [chan EXCEPT ![c] = NoDone]
  /\ MoveTo(c, "out")
  /\ UNCHANGED <<opMu, opDone>>

LockNext ==
  \E c \in LockCallers :
    \/ Lock(c) \/ FirstTry(c) \/ Capture(c) \/ WokenByDone(c) \/ Timeout(c)
    \/ ReaderUnlocks(c) \/ Unlock(c) \/ ReadOld(c) \/ StoreNew(c) \/ CloseOld(c)

LockSpec == LockInit /\ [][LockNext]_lockVars

(* Goroutines run and operations end.  A timer that has fired stays ready  *)
(* and select picks among ready cases at random, so it is picked in the    *)
(* end even if the channel is closed every time.  New calls are free.      *)
LockFairness ==
  \A c \in LockCallers :
    /\ WF_lockVars(Capture(c) \/ ReaderUnlocks(c) \/ Unlock(c) \/ ReadOld(c)
                 \/ StoreNew(c) \/ CloseOld(c))
    /\ SF_lockVars(Timeout(c))

FairLockSpec == LockSpec /\ LockFairness

-----------------------------------------------------------------------------
(* Properties.                                                             *)

(* Every variable has its type. *)
LockTypeOK ==
  /\ opMu \in LockCallers \cup {NoHolder}
  /\ opDone \in DoneChannels /\ closed \subseteq DoneChannels
  /\ stage \in [LockCallers -> {"out", "hold", "capture", "wait", "notify", "swap", "close"}]
  /\ chan \in [LockCallers -> DoneChannels \cup {NoDone}]
  /\ panicked \in BOOLEAN

(* Whoever believes to hold the lock holds it, alone, whichever way it     *)
(* came by it, and nobody leaves with it (acquireOperationLock, the        *)
(* timeouts, the probe of waitForNoWriteOperation).                        *)
OperationsExclude ==
  \A c \in LockCallers : opMu = c <=> stage[c] = "hold"

(* Every wait for the lock comes back, with it or with                     *)
(* ErrOperationInProgress, although each wake-up may lose the race for the *)
(* lock and start another turn of the loop (acquireOperationLock).         *)
EveryLockCallReturns ==
  \A c \in Lockers \cup Readers : stage[c] # "out" ~> stage[c] = "out"

(* notifyWriteDone closes the channel of its own operation and makes one   *)
(* for the next: no channel is closed twice.                               *)
NoDoubleClose == ~panicked

=============================================================================
