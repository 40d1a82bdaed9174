---------------------------- MODULE ATMessages ----------------------------
(***************************************************************************)
(* Reading received SMS through the AT manager (internal/modem/manager.go, *)
(* readAndProcessSMSFromStorage, CheckAllSMS).  Every +CMTI starts a       *)
(* goroutine that selects the memory it names, reads the message at its    *)
(* slot, reports and deletes it, and selects the old memory again.  Each   *)
(* step is one command: the commands of two goroutines may alternate.      *)
(***************************************************************************)
EXTENDS Naturals, FiniteSets

CONSTANTS
  Storages,     \* names of memories
  Arriving,     \* messages that come in: a function from messages to memories
  Whole,        \* the text each of them is, or is a part of
  Sweepers,     \* goroutines in CheckAllSMS
  NoMessage, NoStorage,
  MaxATFaults   \* commands that fail (bound of the model)

Received == DOMAIN Arriving
Indices == 1 .. Cardinality(Received)
\* One goroutine per notification, named by the message that caused it.
Actors == Received \cup Sweepers

ASSUME ArrivingAssumption ==
  /\ IsFiniteSet(Received) /\ NoMessage \notin Received
  /\ \A m \in Received : Arriving[m] \in Storages

VARIABLES
  mem,          \* the memories of the module
  atStorage,      \* the one that reads and deletes work on
  place,        \* what each actor does next
  slot,         \* the slot each +CMTI named
  previous,     \* the memory to select again at the end
  parts,        \* fragments the reassembler holds
  callbacks,    \* texts reported
  deletedUnread,\* history: messages deleted that nobody had read
  read,         \* history: messages decoded
  overlapped,   \* history: was an actor under way when another began, or a sweep at an arrival?
  atFaults

messageVars == <<mem, atStorage, place, slot, previous, parts, callbacks, deletedUnread, read,
                 overlapped, atFaults>>

MessagesInit ==
  /\ mem = [s \in Storages |-> [i \in Indices |-> NoMessage]] /\ atStorage \in Storages
  /\ place = [a \in Actors |-> IF a \in Sweepers THEN "sweep" ELSE "away"]
  /\ slot = [m \in Received |-> 1] /\ previous = [a \in Actors |-> NoStorage]

  /\ parts = {} /\ callbacks = {} /\ deletedUnread = {} /\ read = {}
  /\ overlapped = FALSE /\ atFaults = 0

Proceeds(a, next) == place' = [place EXCEPT ![a] = next]
Fails == atFaults < MaxATFaults /\ atFaults' = atFaults + 1
Works == UNCHANGED atFaults

(* An actor whose first command runs while another is under way.           *)
OpensWith(a) ==
  overlapped' = (overlapped \/ \E b \in Actors \ {a} :
                                 place[b] \in {"select", "read", "delete", "restore", "clear"})

(* decodePDU and the callback: a fragment waits for the others.            *)
Decodes(messages) ==
  LET texts == {Whole[m] : m \in messages}
      gathered == parts \cup messages
      complete == {t \in texts : {m \in Received : Whole[m] = t} \subseteq gathered}
  IN /\ callbacks' = callbacks \cup complete
     /\ parts' = {m \in gathered : Whole[m] \notin complete}
     /\ read' = read \cup messages

Deletes(s, indices) ==
  /\ mem' = [mem EXCEPT ![s] = [i \in Indices |-> IF i \in indices THEN NoMessage ELSE mem[s][i]]]
  /\ deletedUnread' = deletedUnread \cup ({mem[s][i] : i \in indices} \ (read \cup {NoMessage}))

-----------------------------------------------------------------------------
(* The module stores a message and says where (+CMTI). *)
Deposit(m) ==
  /\ place[m] = "away" /\ Proceeds(m, "query")
  /\ \E i \in Indices :
       /\ mem[Arriving[m]][i] = NoMessage
       /\ \A j \in 1 .. (i - 1) : mem[Arriving[m]][j] # NoMessage
       /\ mem' = [mem EXCEPT ![Arriving[m]][i] = m] /\ slot' = [slot EXCEPT ![m] = i]
  /\ overlapped' = (overlapped \/ \E w \in Sweepers : place[w] = "clear")
  /\ UNCHANGED <<atStorage, previous, parts, callbacks, deletedUnread, read, atFaults>>

(* AT+CPMS?: nothing to do if the memory is selected already. *)
Query(m) ==
  /\ place[m] = "query" /\ OpensWith(m)
  /\ \/ /\ Works /\ previous' = [previous EXCEPT ![m] = IF atStorage = Arriving[m] THEN NoStorage
                                                         ELSE atStorage]
        /\ Proceeds(m, IF atStorage = Arriving[m] THEN "read" ELSE "select")
     \/ Fails /\ Proceeds(m, "select") /\ UNCHANGED previous
  /\ UNCHANGED <<mem, atStorage, slot, parts, callbacks, deletedUnread, read>>

(* AT+CPMS=: without the memory nothing is read, and nothing deleted. *)
Select(m) ==
  /\ place[m] = "select"
  /\ \/ Works /\ atStorage' = Arriving[m] /\ Proceeds(m, "read") /\ UNCHANGED previous
     \/ /\ Fails /\ previous' = [previous EXCEPT ![m] = NoStorage]
        /\ Proceeds(m, "done") /\ UNCHANGED atStorage
  /\ UNCHANGED <<mem, slot, parts, callbacks, deletedUnread, read, overlapped>>

(* AT+CMGR, the callback, and AT+CMGD.  An empty place or a failure ends    *)
(* the reading; the deletion may fail unnoticed.                           *)
ReadOrDelete(m) ==                        \* mutant: what could not be read is deleted
  /\ place[m] = "read" /\ Proceeds(m, "delete")
  /\ LET found == mem[atStorage][slot[m]]
     IN \/ found # NoMessage /\ Works /\ Decodes({found})
        \/ /\ IF found = NoMessage THEN Works ELSE Fails
           /\ UNCHANGED <<parts, callbacks, read>>
  /\ UNCHANGED <<mem, atStorage, slot, previous, deletedUnread, overlapped>>
ReadStored(m) ==
  /\ place[m] = "read"
  /\ LET found == mem[atStorage][slot[m]]
     IN \/ /\ found # NoMessage /\ Works
           /\ Decodes({found}) /\ Proceeds(m, "delete")
        \/ /\ IF found = NoMessage THEN Works ELSE Fails
           /\ Proceeds(m, "restore") /\ UNCHANGED <<parts, callbacks, read>>
  /\ UNCHANGED <<mem, atStorage, slot, previous, deletedUnread, overlapped>>

Delete(m) ==
  /\ place[m] = "delete" /\ Proceeds(m, "restore")
  /\ \/ Works /\ Deletes(atStorage, {slot[m]})
     \/ Fails /\ UNCHANGED <<mem, deletedUnread>>
  /\ UNCHANGED <<atStorage, slot, previous, parts, callbacks, read, overlapped>>

(* The deferred restore. *)
Restore(m) ==
  /\ place[m] = "restore" /\ Proceeds(m, "done")
  /\ \/ Works /\ atStorage' = IF previous[m] = NoStorage THEN atStorage ELSE previous[m]
     \/ previous[m] # NoStorage /\ Fails /\ UNCHANGED atStorage
  /\ UNCHANGED <<mem, slot, previous, parts, callbacks, deletedUnread, read, overlapped>>

-----------------------------------------------------------------------------
(* CheckAllSMS: list everything in the selected memory, report, clear it.  *)

Stored(s) == {mem[s][i] : i \in Indices} \ {NoMessage}
Sweep(w) ==
  /\ place[w] = "sweep" /\ OpensWith(w)
  /\ \/ /\ Works /\ Stored(atStorage) # {} /\ Decodes(Stored(atStorage)) /\ Proceeds(w, "clear")
     \/ /\ (IF Stored(atStorage) = {} THEN Works ELSE Fails)
        /\ Proceeds(w, "done") /\ UNCHANGED <<parts, callbacks, read>>
  /\ UNCHANGED <<mem, atStorage, slot, previous, deletedUnread>>

Clear(w) ==
  /\ place[w] = "clear" /\ Proceeds(w, "done")
  /\ \/ Works /\ Deletes(atStorage, Indices)
     \/ Fails /\ UNCHANGED <<mem, deletedUnread>>
  /\ UNCHANGED <<atStorage, slot, previous, parts, callbacks, read, overlapped>>

(* The reassembler forgets fragments that have waited too long. *)
CleanupOldFragments ==
  /\ parts # {} /\ parts' = {}
  /\ UNCHANGED <<mem, atStorage, place, slot, previous, callbacks, deletedUnread, read,
                 overlapped, atFaults>>

MessagesNext ==
  \/ \E m \in Received : Deposit(m) \/ Query(m) \/ Select(m) \/ ReadStored(m) \/ Delete(m) \/ Restore(m)
  \/ \E w \in Sweepers : Sweep(w) \/ Clear(w)
  \/ CleanupOldFragments

MessagesSpec == MessagesInit /\ [][MessagesNext]_messageVars

-----------------------------------------------------------------------------
MessagesTypeOK ==
  /\ mem \in [Storages -> [Indices -> Received \cup {NoMessage}]] /\ atStorage \in Storages
  /\ place \in [Actors -> {"sweep", "away", "query", "select", "read", "delete", "restore", "clear",
                           "done"}]
  /\ slot \in [Received -> Indices] /\ previous \in [Actors -> Storages \cup {NoStorage}]
  /\ parts \subseteq read /\ read \subseteq Received

(* Goroutines that do not overlap delete only what has been read, whichever *)
(* commands fail (switchSMSStorageForRead: skip rather than delete in the   *)
(* wrong memory).                                                          *)
SeparateReadsLoseNothing == deletedUnread # {} => overlapped

(* The same with any interleaving. *)
NothingIsDeletedUnread == deletedUnread = {}
=============================================================================
