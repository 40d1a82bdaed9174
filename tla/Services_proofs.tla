--------------------------- MODULE Services_proofs ---------------------------
(***************************************************************************)
(* Proofs about components that keep to themselves: services of the hub,   *)
(* the readiness gate and the lock of the eSIM manager.                    *)
(* Each theorem is about one of them, for any number of goroutines,        *)
(* requests, messages, faults and crashes.                                 *)
(***************************************************************************)
EXTENDS ESIMOperationLock, SIMAuthReady, CellularPolicy, ProfileNotes,
        USSDSession, CallWatcher, SMSOutbox, SMSService, LeastNumbers

-----------------------------------------------------------------------------
(* The eSIM operation lock: however the channel opDone is misread, opMu      *)
(* decides.                                                                *)

LockPlaces == {"out", "hold", "capture", "wait", "notify", "swap", "close"}

LockInv == stage \in [LockCallers -> LockPlaces] /\ OperationsExclude

LEMMA TryLockStep ==
  ASSUME LockInv, NEW c \in LockCallers, stage[c] # "hold", TryLock(c)
  PROVE  LockInv'
  <1>1. stage' \in [LockCallers -> LockPlaces]
    BY DEF TryLock, MoveTo, LockInv, LockPlaces
  <1>2. OperationsExclude'
    BY LockAssumption DEF TryLock, MoveTo, LockInv, OperationsExclude
  <1> QED
    BY <1>1, <1>2 DEF LockInv

LEMMA LockInvNext == LockInv /\ [LockNext]_lockVars => LockInv'
  <1> SUFFICES ASSUME LockInv, [LockNext]_lockVars PROVE LockInv'
    OBVIOUS
  <1> USE DEF LockPlaces
  <1>1. CASE UNCHANGED lockVars
    BY <1>1 DEF lockVars, LockInv, OperationsExclude
  <1>2. ASSUME NEW c \in LockCallers, FirstTry(c)
        PROVE  LockInv'
    BY <1>2, TryLockStep DEF FirstTry
  <1>3. ASSUME NEW c \in LockCallers, WokenByDone(c)
        PROVE  LockInv'
    BY <1>3, TryLockStep DEF WokenByDone
  <1>4. ASSUME NEW c \in LockCallers, Lock(c)
        PROVE  LockInv'
    BY <1>4, LockAssumption DEF Lock, MoveTo, LockInv, OperationsExclude
  <1>5. ASSUME NEW c \in LockCallers, ReaderUnlocks(c) \/ Unlock(c)
        PROVE  LockInv'
    BY <1>5, LockAssumption DEF ReaderUnlocks, Unlock, MoveTo, LockInv, OperationsExclude
  <1>6. ASSUME NEW c \in LockCallers,
               Capture(c) \/ Timeout(c) \/ ReadOld(c) \/ StoreNew(c) \/ CloseOld(c)
        PROVE  LockInv'
    BY <1>6 DEF Capture, Timeout, ReadOld, StoreNew, CloseOld, MoveTo, LockInv, OperationsExclude
  <1> QED
    BY <1>1, <1>2, <1>3, <1>4, <1>5, <1>6 DEF LockNext

(* Whoever believes to hold opMu holds it, alone, for any goroutines       *)
(* (acquireOperationLock, waitForNoWriteOperation, the writers).           *)
THEOREM MutualExclusion == LockSpec => []OperationsExclude
  <1>1. LockInit => LockInv
    BY LockAssumption DEF LockInit, LockInv, OperationsExclude, LockPlaces
  <1>2. LockInv => OperationsExclude
    BY DEF LockInv
  <1> QED
    BY <1>1, <1>2, LockInvNext, PTL DEF LockSpec

-----------------------------------------------------------------------------
(* The cellular policy.                                                    *)

(* A route that is blocked is known by its name, to the memory or, when    *)
(* nothing is loaded yet, to the file, unless the name has been lost; and  *)
(* what "on" has still to restore is what it has still to visit.           *)
PolicyInv ==
  /\ doing \in {"idle", "block", "restore", "save", "done", "fail"}
  /\ asked \in {"none", "guard", "on", "off"} /\ (doing = "idle" <=> asked = "none")
  /\ doing # "idle" => loaded
  /\ blocked \subseteq untracked \cup Loaded.services
  /\ doing = "restore" /\ ~failed => blocked \subseteq untracked \cup remaining
  /\ asked = "on" /\ doing \in {"save", "done"} /\ ~failed => blocked \subseteq untracked
  /\ asked = "on" => ~forceOff /\ doing # "block"
  /\ doing = "done" => ~failed /\ disk.off = forceOff
  /\ acked = "on" /\ doing = "idle" => blocked \subseteq untracked /\ ~Loaded.off /\ ~disk.off
  /\ acked = "on" /\ doing # "idle" => asked \in {"on", "off"}

LEMMA PolicyInitially == PolicyInit => PolicyInv
  BY DEF PolicyInit, PolicyInv, Loaded

LEMMA PolicyStep == PolicyInv /\ [PolicyNext]_policyVars => PolicyInv'
  <1> SUFFICES ASSUME PolicyInv, [PolicyNext]_policyVars PROVE PolicyInv'
    OBVIOUS
  <1> USE DEF Loaded, worldVars, loopVars
  <1>1. ASSUME NEW off \in BOOLEAN, SetCellularPolicy(off) PROVE PolicyInv'
    BY <1>1 DEF SetCellularPolicy, Discover, PolicyInv
  <1>2. CASE Guard
    BY <1>2 DEF Guard, Discover, PolicyInv
  <1>3. ASSUME NEW s \in Services, BlockService(s) PROVE PolicyInv'
    BY <1>3 DEF BlockService, PolicyInv
  <1>4. ASSUME NEW s \in Services, RestoreService(s) PROVE PolicyInv'
    BY <1>4 DEF RestoreService, PolicyInv
  <1>5. CASE Blocked \/ Restored
    BY <1>5 DEF Blocked, Restored, PolicyInv
  <1>6. CASE Persist
    BY <1>6 DEF Persist, PolicyInv
  <1>7. CASE AnswerPolicy
    BY <1>7 DEF AnswerPolicy, PolicyInv
  <1>8. CASE Fail
    BY <1>8 DEF Fail, PolicyInv
  <1>9. CASE Crash
    BY <1>9 DEF Crash, PolicyInv
  <1>10. ASSUME NEW s \in Services, ServiceChanges(s) \/ UserRestores(s) PROVE PolicyInv'
    BY <1>10 DEF ServiceChanges, UserRestores, PolicyInv
  <1>11. CASE UNCHANGED policyVars
    BY <1>11 DEF policyVars, PolicyInv
  <1> QED
    BY <1>1, <1>2, <1>3, <1>4, <1>5, <1>6, <1>7, <1>8, <1>9, <1>10, <1>11 DEF PolicyNext, Apply

(* "On" that was acknowledged leaves no route blocked but those whose name *)
(* was lost, whatever services come and go, fail to be restored or cannot  *)
(* be saved, and wherever the program is killed (applyCellularPolicyLocked, *)
(* persistNetworkPolicyLocked).                                            *)
THEOREM OnRestores == PolicySpec => []OnRestoresTracked
  <1>1. PolicyInv => OnRestoresTracked
    BY DEF PolicyInv, OnRestoresTracked
  <1> QED
    BY <1>1, PolicyInitially, PolicyStep, PTL DEF PolicySpec

-----------------------------------------------------------------------------
(* The notes about profiles.                                               *)

(* What was promised stands in the file and, once the file is loaded, in   *)
(* the map, which the next save writes as a whole.                         *)
Promises(notes) == \A i \in ICCIDs : promised[i] # "any" => notes[i] = promised[i]
LocalNotes == [ICCIDs -> Texts \cup {NoText}]
NotesInv ==
  /\ memory \in LocalNotes /\ loadedNotes \in BOOLEAN
  /\ file = {} \/ \E notes \in LocalNotes : file = {notes}
  /\ oldFile = {} \/ \E notes \in LocalNotes : oldFile = {notes}
  /\ DOMAIN promised = ICCIDs
  /\ Promises(OnDisk) /\ (loadedNotes => Promises(memory))

LEMMA OnDiskIsOne ==
  ASSUME NotesInv
  PROVE  /\ OnDisk \in LocalNotes
         /\ file = {} /\ oldFile = {} => OnDisk = NoNotes
         /\ \A notes : file = {notes} => OnDisk = notes
         /\ NotesLoaded \in LocalNotes /\ Promises(NotesLoaded)
  <1>1. NoNotes \in LocalNotes
    BY DEF NoNotes, LocalNotes
  <1>2. CASE file # {}
    <2>1. PICK notes \in LocalNotes : file = {notes}
      BY <1>2 DEF NotesInv
    <2>2. OnDisk = notes
      BY <1>2, <2>1 DEF OnDisk
    <2> QED
      BY <1>2, <2>1, <2>2 DEF NotesInv, NotesLoaded
  <1>3. CASE file = {} /\ oldFile # {}
    <2>1. PICK notes \in LocalNotes : oldFile = {notes}
      BY <1>3 DEF NotesInv
    <2>2. OnDisk = notes
      BY <1>3, <2>1 DEF OnDisk
    <2> QED
      BY <1>3, <2>1, <2>2 DEF NotesInv, NotesLoaded
  <1>4. CASE file = {} /\ oldFile = {}
    <2>1. OnDisk = NoNotes
      BY <1>4 DEF OnDisk
    <2> QED
      BY <1>1, <1>4, <2>1 DEF NotesInv, NotesLoaded
  <1> QED
    BY <1>2, <1>3, <1>4

LEMMA NotesInitially == NotesInit => NotesInv
  <1> SUFFICES ASSUME NotesInit PROVE NotesInv
    OBVIOUS
  <1>1. NoNotes \in LocalNotes /\ [ICCIDs -> Texts] \subseteq LocalNotes
    BY DEF NoNotes, LocalNotes
  <1>2. OnDisk \in LocalNotes
    <2>1. CASE oldFile = {}
      BY <1>1, <2>1 DEF NotesInit, OnDisk
    <2>2. CASE oldFile # {}
      <3>1. PICK notes \in [ICCIDs -> Texts] : oldFile = {notes}
        BY <2>2 DEF NotesInit
      <3> QED
        BY <1>1, <3>1 DEF NotesInit, OnDisk
    <2> QED
      BY <2>1, <2>2
  <1>3. promised = OnDisk /\ memory = NoNotes
    BY DEF NotesInit
  <1>4. oldFile = {} \/ \E notes \in LocalNotes : oldFile = {notes}
    BY <1>1 DEF NotesInit
  <1>5. DOMAIN promised = ICCIDs /\ Promises(OnDisk)
    BY <1>2, <1>3 DEF LocalNotes, Promises
  <1> QED
    BY <1>1, <1>2, <1>3, <1>4, <1>5 DEF NotesInit, NotesInv

LEMMA NotesStep == NotesInv /\ [NotesNext]_noteVars => NotesInv'
  <1> SUFFICES ASSUME NotesInv, [NotesNext]_noteVars PROVE NotesInv'
    OBVIOUS
  <1>1. ASSUME UNCHANGED <<memory, loadedNotes, file, oldFile, promised>> PROVE NotesInv'
    BY <1>1 DEF NotesInv, OnDisk, Promises, NoNotes, LocalNotes
  <1>2. CASE ListNotes
    <2>1. UNCHANGED <<file, oldFile, promised>> /\ memory' = NotesLoaded /\ loadedNotes' = TRUE
      BY <1>2 DEF ListNotes
    <2>2. OnDisk' = OnDisk
      BY <2>1 DEF OnDisk, NoNotes
    <2> QED
      BY <2>1, <2>2, OnDiskIsOne DEF NotesInv, Promises, LocalNotes
  <1>3. CASE Restarts
    <2>1. UNCHANGED <<file, oldFile, promised>> /\ memory' = NoNotes /\ loadedNotes' = FALSE
      BY <1>3 DEF Restarts
    <2>2. OnDisk' = OnDisk /\ NoNotes \in LocalNotes
      BY <2>1 DEF OnDisk, NoNotes, LocalNotes
    <2> QED
      BY <2>1, <2>2 DEF NotesInv, Promises, LocalNotes
  <1>4. ASSUME NEW i \in ICCIDs, NEW t \in Texts \cup {NoText}, SaveNote(i, t) PROVE NotesInv'
    <2>1. loadedNotes' = TRUE /\ memory' = [NotesLoaded EXCEPT ![i] = t] /\ oldFile' = oldFile
      BY <1>4 DEF SaveNote, Changed
    <2>2. memory' \in LocalNotes
      BY <2>1, OnDiskIsOne DEF LocalNotes
    <2>3. promised' = [promised EXCEPT ![i] = t] => Promises(memory)'
      BY <2>1, OnDiskIsOne DEF Promises, LocalNotes, NotesInv
    <2>4. promised' = [promised EXCEPT ![i] = "any"] => Promises(memory)' /\ Promises(OnDisk)
      BY <2>1, OnDiskIsOne DEF Promises, LocalNotes, NotesInv
    <2>5. CASE file' = {memory'} /\ promised' = [promised EXCEPT ![i] = t]
      <3>1. OnDisk' = memory'
        BY <2>5 DEF OnDisk
      <3> QED
        BY <2>1, <2>2, <2>3, <2>5, <3>1 DEF NotesInv, Promises, LocalNotes
    <2>6. CASE file' = file /\ promised' = [promised EXCEPT ![i] = "any"]
      <3>1. OnDisk' = OnDisk
        BY <2>1, <2>6 DEF OnDisk, NoNotes
      <3>2. Promises(OnDisk)'
        BY <2>6, <3>1 DEF Promises, NotesInv
      <3> QED
        BY <2>1, <2>2, <2>4, <2>6, <3>2 DEF NotesInv, LocalNotes
    <2> QED
      BY <1>4, <2>5, <2>6 DEF SaveNote
  <1>5. CASE UNCHANGED noteVars
    BY <1>1, <1>5 DEF noteVars, localNotes
  <1>6. ASSUME NEW r \in Savers,
               LockNotes(r) \/ SelectME(r) \/ ReadStatus(r) \/ ReadNotes(r) \/ WriteNote(r)
        PROVE  NotesInv'
    BY <1>1, <1>6 DEF LockNotes, SelectME, ReadStatus, ReadNotes, WriteNote, localNotes
  <1>7. ASSUME NEW p \in Probers, Probe(p) \/ ProbeAsks(p) PROVE NotesInv'
    BY <1>1, <1>7 DEF Probe, ProbeAsks, localNotes
  <1>8. CASE AskElse
    BY <1>1, <1>8 DEF AskElse, localNotes
  <1> QED
    BY <1>2, <1>3, <1>4, <1>5, <1>6, <1>7, <1>8 DEF NotesNext

(* What a request for a note on the Mac was told is in the file, after any *)
(* number of requests, failed writes and restarts, until a request for the *)
(* same profile fails (persistProfileNotesLocked, loadProfileNotesLocked). *)
THEOREM NotesStay == NotesSpec => []NotesSurvive
  <1>1. NotesInv => NotesSurvive
    BY DEF NotesInv, NotesSurvive, Promises
  <1> QED
    BY <1>1, NotesInitially, NotesStep, PTL DEF NotesSpec

(* Books stay books, and answers answers.  Who saves holds the mutex and,   *)
(* unless it was deceived, has ME selected when it reads and when it       *)
(* writes, and the entry it will write is free or the note of its profile. *)
IsBook(book) ==
  \E n \in Nat : book \in [1 .. n -> PhonebookEntries]
EntryIsOwn(r) ==
  \/ phonebook["ME"][index[r]] = Empty
  \/ \E t \in Texts : phonebook["ME"][index[r]] = Note(wish[r][1], t)
AnswerTypes ==
  [ok : BOOLEAN, book : {"none", "SM", "ME"}, used : BOOLEAN,
   listed : SUBSET ((DOMAIN phonebook["ME"]) \X PhonebookEntries)]
Knows(r) == storage = "ME" \/ r \in misled
SaveInv ==
  /\ step = [r \in Savers \cup Probers |-> step[r]]
  /\ index = [r \in Savers |-> index[r]]
  /\ wish \in [Savers -> ICCIDs \X (Texts \cup {NoText})]
  /\ DOMAIN phonebook = {"SM", "ME"} /\ IsBook(phonebook["SM"]) /\ IsBook(phonebook["ME"])
  /\ storage \in {"SM", "ME"} /\ late \in Seq(AnswerTypes)
  /\ \A r \in Savers : step[r] \in {"select", "status", "read", "write"} => notesMu = r
  /\ \A r \in Savers :
       /\ step[r] \in {"read", "write"} => Knows(r)
       /\ step[r] = "write" /\ index[r] \in DOMAIN phonebook["ME"] => EntryIsOwn(r) \/ r \in misled

LEMMA SaveInitially == NotesInit => SaveInv
  <1> SUFFICES ASSUME NotesInit PROVE SaveInv
    OBVIOUS
  <1>1. phonebook \in [{"SM", "ME"} -> Seq(PhonebookEntries)]
    BY NotesAssumption DEF NotesInit
  <1>2. \A book \in Seq(PhonebookEntries) : IsBook(book)
    BY DEF IsBook
  <1>3. DOMAIN phonebook = {"SM", "ME"} /\ IsBook(phonebook["SM"]) /\ IsBook(phonebook["ME"])
    BY <1>1, <1>2
  <1>4. late \in Seq(AnswerTypes)
    BY DEF NotesInit
  <1> QED
    BY <1>3, <1>4 DEF NotesInit, SaveInv

(* What a command hears is an answer, what it leaves behind are answers, and *)
(* when it hears its own answer and that is OK, the module obeyed it.       *)
LEMMA OutcomeIs ==
  ASSUME NEW A, late \in Seq(A), NEW own \in A, Error \in A, NEW c \in Outcomes(own)
  PROVE  /\ c.obeyed \in BOOLEAN /\ c.answer \in A /\ c.rest \in Seq(A)
         /\ c.mine /\ c.answer.ok => c.answer = own /\ c.obeyed
  <1>1. PICK obeyed \in BOOLEAN, n \in 0 .. Len(late) + 1 :
          \/ n # 0 /\ c = Hears(Sent(own, obeyed), obeyed, n)
          \/ c = HearsNothing(Sent(own, obeyed), obeyed, n)
    BY DEF Outcomes
  <1> DEFINE last == IF obeyed THEN own ELSE Error
             queue == Sent(own, obeyed)
  <1>2. last \in A /\ (last.ok => last = own /\ obeyed) /\ ~Error.ok
    <2>1. Error.ok = FALSE
      BY DEF Error, OK
    <2> QED
      BY <2>1
  <1>3. queue = Append(late, last)
    BY DEF Sent
  <1> HIDE DEF last, queue
  <1>4. queue \in Seq(A) /\ Len(queue) = Len(late) + 1 /\ queue[Len(queue)] = last /\ Len(late) \in Nat
    BY <1>2, <1>3
  <1>5. \A m \in 1 .. Len(queue) : queue[m] \in A
    BY <1>4
  <1>6. SubSeq(queue, n + 1, Len(queue)) \in Seq(A)
    <2>1. \A m \in (n + 1) .. Len(queue) : queue[m] \in A
      BY <1>4
    <2> QED
      BY <1>4, <2>1
  <1>7. CASE n # 0 /\ c = Hears(queue, obeyed, n)
    <2>1. /\ c.obeyed = obeyed /\ c.answer = queue[n] /\ c.mine = (n = Len(queue))
          /\ c.rest = SubSeq(queue, n + 1, Len(queue))
      BY <1>7 DEF Hears
    <2>2. n \in 1 .. Len(queue)
      BY <1>4, <1>7
    <2>3. c.mine => c.answer = last
      BY <1>4, <2>1
    <2> QED
      BY <1>2, <1>5, <1>6, <2>1, <2>2, <2>3
  <1>8. CASE c = HearsNothing(queue, obeyed, n)
    BY <1>2, <1>6, <1>8 DEF HearsNothing
  <1> QED
    BY <1>1, <1>7, <1>8 DEF queue

LEMMA AnswersAre ==
  SaveInv => {OK, Error, Status, Listing} \subseteq AnswerTypes
  <1> SUFFICES ASSUME SaveInv PROVE {OK, Error, Status, Listing} \subseteq AnswerTypes
    OBVIOUS
  <1>1. OK \in AnswerTypes /\ Error \in AnswerTypes
    BY DEF OK, Error, AnswerTypes
  <1>2. Status \in AnswerTypes
    <2>1. storage \in {"none", "SM", "ME"} /\ (NoteEntries(storage) # {}) \in BOOLEAN
      BY DEF SaveInv
    <2> QED
      BY <2>1 DEF Status, OK, AnswerTypes
  <1>3. Listing \in AnswerTypes
    <2>1. PICK k \in Nat : phonebook[storage] \in [1 .. k -> PhonebookEntries]
      BY DEF SaveInv, IsBook
    <2>2. \A n \in NoteEntries(storage) : phonebook[storage][n] \in PhonebookEntries
      BY <2>1 DEF NoteEntries
    <2>3. {<<n, phonebook[storage][n]>> : n \in (DOMAIN phonebook["ME"]) \cap NoteEntries(storage)}
            \subseteq (DOMAIN phonebook["ME"]) \X PhonebookEntries
      BY <2>2
    <2> QED
      BY <2>3 DEF Listing, OK, AnswerTypes
  <1> QED
    BY <1>1, <1>2, <1>3

(* What a step of a save leaves to the other saves. *)
LEMMA OthersSave ==
  ASSUME SaveInv, NEW r \in Savers, NEW place, notesMu = r,
         step' = [step EXCEPT ![r] = place], notesMu' = r \/ place = "done", UNCHANGED wish,
         index' = index \/ \E n : index' = [index EXCEPT ![r] = n],
         DOMAIN phonebook' = {"SM", "ME"}, IsBook(phonebook["SM"])', IsBook(phonebook["ME"])',
         storage' \in {"SM", "ME"}, late' \in Seq(AnswerTypes'),
         place \in {"read", "write"} => Knows(r)',
         place = "write" /\ index'[r] \in DOMAIN phonebook'["ME"] => EntryIsOwn(r)' \/ r \in misled'
  PROVE  SaveInv'
  <1>1. \A q \in Savers : q # r => step'[q] = step[q] /\ step[q] \notin {"select", "status", "read", "write"}
    BY DEF SaveInv
  <1>2. step'[r] = place /\ step' = [q \in Savers \cup Probers |-> step'[q]]
    BY DEF SaveInv
  <1>3. index' = [q \in Savers |-> index'[q]]
    BY DEF SaveInv
  <1> QED
    BY <1>1, <1>2, <1>3 DEF SaveInv

LEMMA SaveStep == SaveInv /\ [NotesNext]_noteVars => SaveInv'
  <1> SUFFICES ASSUME SaveInv, [NotesNext]_noteVars PROVE SaveInv'
    OBVIOUS
  <1>1. CASE UNCHANGED moduleNotes
    BY <1>1 DEF SaveInv, moduleNotes, EntryIsOwn, Knows, AnswerTypes
  <1>2. ASSUME NEW r \in Savers, LockNotes(r) PROVE SaveInv'
    <2>1. notesMu = "free" /\ \A q \in Savers : step[q] \notin {"select", "status", "read", "write"}
      BY <1>2, NotesAssumption DEF LockNotes, SaveInv
    <2> QED
      BY <1>2, <2>1 DEF LockNotes, SaveInv, Steps, AnswerTypes
  <1>a. ASSUME NEW own \in AnswerTypes, NEW c \in Outcomes(own)
        PROVE  /\ c.obeyed \in BOOLEAN /\ c.answer \in AnswerTypes /\ c.rest \in Seq(AnswerTypes)
               /\ c.mine /\ c.answer.ok => c.answer = own /\ c.obeyed
    BY AnswersAre, OutcomeIs DEF SaveInv
  <1>b. UNCHANGED phonebook => AnswerTypes' = AnswerTypes
    BY DEF AnswerTypes
  <1>3. ASSUME NEW r \in Savers, SelectME(r) PROVE SaveInv'
    <2>1. notesMu = r /\ UNCHANGED <<phonebook, wish, index>>
      BY <1>3 DEF SelectME, SaveInv
    <2>2. PICK c \in Outcomes(OK) :
            /\ late' = c.rest /\ storage' = IF c.obeyed THEN "ME" ELSE storage
            /\ IF c.answer.ok THEN Steps(r, "status") /\ UNCHANGED notesMu ELSE Returns(r)
      BY <1>3 DEF SelectME, Heard
    <2>3. late' \in Seq(AnswerTypes') /\ storage' \in {"SM", "ME"}
      BY <1>a, <1>b, <2>1, <2>2, AnswersAre DEF SaveInv
    <2>4. DOMAIN phonebook' = {"SM", "ME"} /\ IsBook(phonebook["SM"])' /\ IsBook(phonebook["ME"])'
      BY <2>1 DEF SaveInv
    <2>5. (Steps(r, "status") /\ notesMu' = r) \/ (Steps(r, "done") /\ notesMu' = "free")
      BY <2>1, <2>2 DEF Returns
    <2> QED
      BY <2>1, <2>3, <2>4, <2>5, OthersSave DEF Steps
  <1>4. ASSUME NEW r \in Savers, ReadStatus(r) PROVE SaveInv'
    <2>1. notesMu = r /\ UNCHANGED <<phonebook, storage, wish>>
      BY <1>4 DEF ReadStatus, SaveInv
    <2>2. PICK c \in Outcomes(Status) :
            /\ late' = c.rest
            /\ IF ~c.answer.ok \/ c.answer.book # "ME" THEN Returns(r) /\ UNCHANGED <<index, exists, misled>>
               ELSE /\ misled' = IF c.mine THEN misled ELSE misled \cup {r}
                    /\ IF c.answer.used THEN Steps(r, "read") /\ UNCHANGED <<notesMu, index, exists>>
                       ELSE /\ IF wish[r][2] = NoText \/ DOMAIN phonebook["ME"] = {} THEN Returns(r)
                               ELSE Steps(r, "write") /\ UNCHANGED notesMu
                            /\ index' = [index EXCEPT ![r] = 1] /\ exists' = [exists EXCEPT ![r] = FALSE]
      BY <1>4 DEF ReadStatus, Heard
    <2>3. late' \in Seq(AnswerTypes') /\ storage' \in {"SM", "ME"}
      BY <1>a, <1>b, <2>1, <2>2, AnswersAre DEF SaveInv
    <2>4. DOMAIN phonebook' = {"SM", "ME"} /\ IsBook(phonebook["SM"])' /\ IsBook(phonebook["ME"])'
      BY <2>1 DEF SaveInv
    <2>5. Status.book = storage /\ Status.used = (NoteEntries(storage) # {})
      BY DEF Status, OK
    <2>6. CASE ~c.answer.ok \/ c.answer.book # "ME"
      BY <2>1, <2>2, <2>3, <2>4, <2>6, OthersSave DEF Steps, Returns
    <2>7. CASE c.answer.ok /\ c.answer.book = "ME"
      <3>1. (c.mine => c.answer = Status) /\ (~c.mine => r \in misled')
        BY <1>a, <2>2, <2>7, AnswersAre
      <3>2. Knows(r)'
        BY <2>1, <2>5, <2>7, <3>1 DEF Knows
      <3>3. CASE Steps(r, "read") /\ UNCHANGED <<notesMu, index, exists>>
        BY <2>1, <2>3, <2>4, <3>2, <3>3, OthersSave DEF Steps
      <3>4. CASE Returns(r) /\ index' = [index EXCEPT ![r] = 1]
        BY <2>1, <2>3, <2>4, <3>4, OthersSave DEF Steps, Returns
      <3>5. CASE ~c.answer.used /\ Steps(r, "write") /\ UNCHANGED notesMu /\ index' = [index EXCEPT ![r] = 1]
        <4>1. index'[r] = 1
          BY <3>5 DEF SaveInv
        <4>2. c.mine => NoteEntries("ME") = {}
          BY <2>5, <2>7, <3>1, <3>5
        <4>3. index'[r] \in DOMAIN phonebook'["ME"] => EntryIsOwn(r)' \/ r \in misled'
          BY <2>1, <3>1, <4>1, <4>2 DEF NoteEntries, EntryIsOwn
        <4> QED
          BY <2>1, <2>3, <2>4, <3>2, <3>5, <4>3, OthersSave DEF Steps
      <3> QED
        BY <2>2, <2>7, <3>3, <3>4, <3>5
    <2> QED
      BY <2>6, <2>7
  <1>5. ASSUME NEW r \in Savers, ReadNotes(r) PROVE SaveInv'
    <2>1. notesMu = r /\ step[r] = "read" /\ UNCHANGED <<phonebook, storage, wish>>
      BY <1>5 DEF ReadNotes, SaveInv
    <2>2. PICK c \in Outcomes(Listing) :
            /\ late' = c.rest
            /\ IF ~c.answer.ok THEN Returns(r) /\ UNCHANGED <<index, exists, misled>>
               ELSE LET own == NotesOf(wish[r][1], c.answer.listed)
                        free == Vacant(c.answer.listed)
                    IN  /\ misled' = IF c.mine THEN misled ELSE misled \cup {r}
                        /\ index' = [index EXCEPT ![r] =
                             IF own # {} THEN Max(own) ELSE IF free # {} THEN Min(free) ELSE 0]
                        /\ IF own = {} /\ (wish[r][2] = NoText \/ free = {}) THEN Returns(r)
                           ELSE Steps(r, "write") /\ UNCHANGED notesMu
      BY <1>5 DEF ReadNotes, Heard
    <2>3. late' \in Seq(AnswerTypes') /\ storage' \in {"SM", "ME"}
      BY <1>a, <1>b, <2>1, <2>2, AnswersAre DEF SaveInv
    <2>4. DOMAIN phonebook' = {"SM", "ME"} /\ IsBook(phonebook["SM"])' /\ IsBook(phonebook["ME"])'
      BY <2>1 DEF SaveInv
    <2>5. CASE ~c.answer.ok
      BY <2>1, <2>2, <2>3, <2>4, <2>5, OthersSave DEF Steps, Returns
    <2>6. CASE c.answer.ok
      <3> DEFINE own == NotesOf(wish[r][1], c.answer.listed)
                 free == Vacant(c.answer.listed)
                 chosen == IF own # {} THEN Max(own) ELSE IF free # {} THEN Min(free) ELSE 0
      <3>1. /\ misled' = (IF c.mine THEN misled ELSE misled \cup {r})
            /\ index' = [index EXCEPT ![r] = chosen]
            /\ IF own = {} /\ (wish[r][2] = NoText \/ free = {}) THEN Returns(r)
               ELSE Steps(r, "write") /\ UNCHANGED notesMu
        BY <2>2, <2>6
      <3>2. index'[r] = chosen
        <4> HIDE DEF chosen
        <4> QED
          BY <3>1 DEF SaveInv
      <3>3. Knows(r)'
        BY <2>1, <3>1 DEF Knows, SaveInv
      <3>4. CASE Returns(r)
        BY <2>1, <2>3, <2>4, <3>1, <3>4, OthersSave DEF Steps, Returns
      <3>5. CASE ~(own = {} /\ free = {}) /\ Steps(r, "write") /\ UNCHANGED notesMu
        <4>1. ASSUME r \notin misled' PROVE EntryIsOwn(r)'
          <5>1. storage = "ME" /\ c.answer = Listing
            BY <1>a, <2>1, <2>6, <3>1, <3>3, <4>1, AnswersAre DEF Knows
          <5>2. PICK k \in Nat : phonebook["ME"] \in [1 .. k -> PhonebookEntries]
            BY DEF SaveInv, IsBook
          <5>3. c.answer.listed = {<<n, phonebook["ME"][n]>> : n \in NoteEntries("ME")}
            BY <5>1 DEF Listing, OK, NoteEntries
          <5>4. /\ \A n \in own : n \in 1 .. k /\ \E t \in Texts : phonebook["ME"][n] = Note(wish[r][1], t)
                /\ \A n \in free : n \in 1 .. k /\ phonebook["ME"][n] = Empty
            <6>1. DOMAIN phonebook["ME"] = 1 .. k
              BY <5>2
            <6>2. \A n \in NoteEntries("ME") : n \in 1 .. k
              BY <6>1 DEF NoteEntries
            <6>3. \A n \in 1 .. k : n \notin NoteEntries("ME") => phonebook["ME"][n] = Empty
              BY <6>1 DEF NoteEntries
            <6>4. ASSUME NEW n \in own
                  PROVE  n \in 1 .. k /\ \E t \in Texts : phonebook["ME"][n] = Note(wish[r][1], t)
              <7>1. PICK e \in c.answer.listed : e[1] = n /\ \E t \in Texts : e[2] = Note(wish[r][1], t)
                BY <6>4 DEF NotesOf
              <7>2. PICK m \in NoteEntries("ME") : e = <<m, phonebook["ME"][m]>>
                BY <5>3, <7>1
              <7> QED
                BY <6>2, <7>1, <7>2
            <6>5. ASSUME NEW n \in free
                  PROVE  n \in 1 .. k /\ phonebook["ME"][n] = Empty
              <7>1. n \in 1 .. k /\ n \notin {e[1] : e \in c.answer.listed}
                BY <6>1, <6>5 DEF Vacant
              <7>2. ASSUME n \in NoteEntries("ME") PROVE FALSE
                <8>1. <<n, phonebook["ME"][n]>> \in c.answer.listed
                  BY <5>3, <7>2
                <8> QED
                  BY <7>1, <8>1
              <7> QED
                BY <6>3, <7>1, <7>2
            <6> QED
              BY <6>4, <6>5
          <5> HIDE DEF own, free
          <5>5. own \in SUBSET Nat /\ free \in SUBSET Nat /\ \A n \in own : n <= k
            BY <5>4
          <5>6. CASE own # {}
            <6>1. Max(own) \in own
              BY <5>2, <5>5, <5>6, MaxIsGreatest
            <6> QED
              BY <2>1, <3>2, <5>4, <5>6, <6>1 DEF EntryIsOwn
          <5>7. CASE own = {}
            <6>1. Min(free) \in free
              BY <3>5, <5>5, <5>7, MinIsLeast
            <6> QED
              BY <2>1, <3>2, <3>5, <5>4, <5>7, <6>1 DEF EntryIsOwn
          <5> QED
            BY <5>6, <5>7
        <4> HIDE DEF chosen, own, free
        <4> QED
          BY <2>1, <2>3, <2>4, <3>1, <3>3, <3>5, <4>1, OthersSave DEF Steps
      <3> HIDE DEF chosen, own, free
      <3> QED
        BY <3>1, <3>4, <3>5
    <2> QED
      BY <2>5, <2>6
  <1>6. ASSUME NEW r \in Savers, WriteNote(r) PROVE SaveInv'
    <2> DEFINE entry == IF wish[r][2] = NoText THEN Empty ELSE Note(wish[r][1], wish[r][2])
    <2>1. notesMu = r /\ UNCHANGED <<storage, wish, index, misled>> /\ Returns(r)
      BY <1>6 DEF WriteNote, SaveInv
    <2>2. entry \in PhonebookEntries
      BY DEF SaveInv, PhonebookEntries
    <2>3. PICK c \in Outcomes(OK) :
            /\ late' = c.rest
            /\ phonebook' = IF c.obeyed THEN [phonebook EXCEPT ![storage][index[r]] = entry] ELSE phonebook
      BY <1>6 DEF WriteNote, Heard
    <2> HIDE DEF entry
    <2>4. phonebook' = phonebook \/ phonebook' = [phonebook EXCEPT ![storage][index[r]] = entry]
      BY <2>3
    <2>5. DOMAIN phonebook' = {"SM", "ME"} /\ DOMAIN phonebook'["ME"] = DOMAIN phonebook["ME"]
      BY <2>4 DEF SaveInv
    <2>6. ASSUME NEW b \in {"SM", "ME"} PROVE IsBook(phonebook[b])'
      <3>1. PICK k \in Nat : phonebook[b] \in [1 .. k -> PhonebookEntries]
        BY DEF SaveInv, IsBook
      <3>2. phonebook'[b] = phonebook[b] \/ phonebook'[b] = [phonebook[b] EXCEPT ![index[r]] = entry]
        BY <2>4 DEF SaveInv
      <3>3. phonebook'[b] \in [1 .. k -> PhonebookEntries]
        BY <2>2, <3>1, <3>2
      <3> QED
        BY <3>3 DEF IsBook
    <2>7. late' \in Seq(AnswerTypes') /\ storage' \in {"SM", "ME"}
      <3>1. AnswerTypes' = AnswerTypes
        BY <2>5 DEF AnswerTypes
      <3> QED
        BY <1>a, <2>1, <2>3, <3>1, AnswersAre DEF SaveInv
    <2> QED
      BY <2>1, <2>5, <2>6, <2>7, OthersSave DEF Steps, Returns
  <1>7. ASSUME NEW p \in Probers, Probe(p) PROVE SaveInv'
    <2>1. UNCHANGED <<phonebook, notesMu, wish, index>> /\ step[p] = "idle"
      BY <1>7 DEF Probe
    <2>2. PICK c \in Outcomes(OK), next \in {"asks", "done"} :
            /\ late' = c.rest /\ step' = [step EXCEPT ![p] = next]
            /\ storage' = IF c.obeyed THEN "SM" ELSE storage
            /\ misled' = misled \cup {r \in Savers : c.obeyed /\ notesMu = r /\ step[r] \in {"read", "write"}}
      BY <1>7 DEF Probe, Heard, Steps
    <2>3. late' \in Seq(AnswerTypes') /\ storage' \in {"SM", "ME"}
      BY <1>a, <1>b, <2>1, <2>2, AnswersAre DEF SaveInv
    <2>4. \A r \in Savers : step'[r] \in {"select", "status", "read", "write"} => step'[r] = step[r]
      BY <2>2 DEF SaveInv
    <2>5. \A r \in Savers : step[r] \in {"read", "write"} => Knows(r)' /\ notesMu = r
      BY <2>2 DEF SaveInv, Knows
    <2>6. step' = [q \in Savers \cup Probers |-> step'[q]]
      BY <2>2 DEF SaveInv
    <2>7. \A r \in Savers : EntryIsOwn(r) => EntryIsOwn(r)'
      BY <2>1 DEF EntryIsOwn
    <2>8. misled \subseteq misled'
      BY <2>2
    <2> QED
      BY <2>1, <2>3, <2>4, <2>5, <2>6, <2>7, <2>8 DEF SaveInv
  <1>8. ASSUME NEW own \in {OK, Status}, NEW c \in Outcomes(own), late' = c.rest,
               UNCHANGED <<phonebook, storage, notesMu, wish, index, exists, misled>>,
               step' = step \/ \E p \in Probers : step[p] = "asks" /\ step' = [step EXCEPT ![p] = "done"]
        PROVE  SaveInv'
    <2>1. late' \in Seq(AnswerTypes')
      BY <1>a, <1>b, <1>8, AnswersAre
    <2>2. \A r \in Savers : step'[r] \in {"select", "status", "read", "write"} => step'[r] = step[r]
      BY <1>8 DEF SaveInv
    <2>3. step' = [q \in Savers \cup Probers |-> step'[q]]
      BY <1>8 DEF SaveInv
    <2> QED
      BY <1>8, <2>1, <2>2, <2>3 DEF SaveInv, EntryIsOwn, Knows
  <1>9. ASSUME NEW p \in Probers, ProbeAsks(p) PROVE SaveInv'
    BY <1>8, <1>9 DEF ProbeAsks, Heard, Steps
  <1>10. CASE AskElse
    BY <1>8, <1>10 DEF AskElse, Heard
  <1>11. CASE Restarts
    BY <1>11 DEF Restarts, SaveInv, AnswerTypes
  <1>12. CASE ListNotes \/ \E i \in ICCIDs, t \in Texts \cup {NoText} : SaveNote(i, t)
    BY <1>1, <1>12 DEF ListNotes, SaveNote
  <1>13. CASE UNCHANGED noteVars
    BY <1>1, <1>13 DEF noteVars
  <1> QED
    BY <1>2, <1>3, <1>4, <1>5, <1>6, <1>7, <1>9, <1>10, <1>11, <1>12, <1>13 DEF NotesNext

(* A save that heard its own status and listing, and that no probe fell     *)
(* into after the status, replaces no contact of the user and not the note *)
(* of another profile, in either phonebook, whatever else is late or lost  *)
(* (saveModuleESIMNote).                                                   *)
THEOREM SavesKeepOthers == NotesSpec => OthersAreKept
  <1>1. SaveInv /\ [NotesNext]_noteVars => [KeepsOthers \/ notesMu \in misled]_noteVars
    <2> SUFFICES ASSUME SaveInv, NotesNext, notesMu \notin misled, NEW book \in {"SM", "ME"},
                        NEW n \in DOMAIN phonebook["ME"],
                        phonebook[book][n] # phonebook'[book][n], phonebook[book][n] # Empty
                 PROVE  /\ phonebook[book][n] # Contact
                        /\ phonebook'[book][n] \in {Empty} \cup {Note(phonebook[book][n][2], t) : t \in Texts}
      BY DEF KeepsOthers
    <2>1. PICK r \in Savers : WriteNote(r)
      BY DEF NotesNext, LockNotes, SelectME, ReadStatus, ReadNotes, Probe, ProbeAsks, AskElse,
             ListNotes, Restarts, SaveNote, moduleNotes
    <2> DEFINE entry == IF wish[r][2] = NoText THEN Empty ELSE Note(wish[r][1], wish[r][2])
    <2>2. storage = "ME" /\ (index[r] \in DOMAIN phonebook["ME"] => EntryIsOwn(r))
      BY <2>1 DEF WriteNote, SaveInv, Knows
    <2>3. phonebook' = [phonebook EXCEPT !["ME"][index[r]] = entry]
      BY <2>1, <2>2 DEF WriteNote
    <2>4. book = "ME" /\ n = index[r] /\ phonebook'[book][n] = entry
      <3> HIDE DEF entry
      <3> QED
        BY <2>3 DEF SaveInv
    <2>5. PICK t \in Texts : phonebook[book][n] = Note(wish[r][1], t)
      BY <2>2, <2>4 DEF EntryIsOwn
    <2>6. Note(wish[r][1], t) # Contact /\ Note(wish[r][1], t)[2] = wish[r][1]
      <3>1. Note(wish[r][1], t)[1] = "note" /\ Contact[1] = "contact"
        BY DEF Note, Contact
      <3> QED
        BY <3>1 DEF Note
    <2>7. entry = Empty \/ (wish[r][2] \in Texts /\ entry = Note(wish[r][1], wish[r][2]))
      BY DEF SaveInv
    <2> QED
      BY <2>4, <2>5, <2>6, <2>7
  <1> QED
    BY <1>1, SaveInitially, SaveStep, PTL DEF NotesSpec, OthersAreKept

-----------------------------------------------------------------------------
(* USSD.                                                                   *)

Kinds == {"text", "failure", "release"}
Stages == {"idle", "drained", "ready", "prepared", "wait", "done"}
Indication == [kind : Kinds, of : Askers]
EndKinds == {"text", "failure"}
Holds(channel, r) == channel # <<>> /\ channel[1] = r

(* Who is heard of has made its request.                                   *)
USSDTypes ==
  /\ asker \in [Askers -> Stages] /\ told = [r \in Askers |-> told[r]]
  /\ \A r \in Askers : asker[r] \notin {"idle", "done"} => ussdMu = r
  /\ indications \in Seq(Indication)
  /\ \A channel \in {ussdResult, ussdErr, ussdRelease} :
       channel = <<>> \/ \E r \in Askers : channel = <<r>>
  /\ ussdAwaitRelease \in BOOLEAN
  /\ session \in [of : Askers \cup {NoAsker}, state : {"none", "open", "told", "cancelled"}]
  /\ session.state = "none" <=> session.of = NoAsker

Late(r) == asker[r] \in {"wait", "done"}
HeardOfLate ==
  /\ \A n \in DOMAIN indications : Late(indications[n].of)
  /\ \A r \in Askers : Holds(ussdResult, r) \/ Holds(ussdErr, r) \/ Holds(ussdRelease, r) => Late(r)
  /\ session.of # NoAsker => Late(session.of)

(* The end of a session is heard of once, and before its release.          *)
NoEndComing(r) ==
  /\ \A n \in DOMAIN indications : indications[n].of = r => indications[n].kind \notin EndKinds
  /\ session.of = r => session.state # "open"
EndsAreFew ==
  /\ \A r \in Askers :
       Holds(ussdResult, r) \/ Holds(ussdErr, r) \/ Holds(ussdRelease, r) => NoEndComing(r)
  /\ \A n, m \in DOMAIN indications :
       n < m /\ indications[n].of = indications[m].of => indications[m].kind \notin EndKinds
  /\ \A n \in DOMAIN indications : indications[n].of = session.of => session.state # "open"
  /\ \A r \in Askers : ~(Holds(ussdResult, r) /\ Holds(ussdErr, r))
ReleasesAreLast ==
  /\ \A r \in Askers : Holds(ussdRelease, r) => session.of # r
  /\ \A n \in DOMAIN indications : indications[n].kind = "release" => session.of # indications[n].of

(* The end of a session that is still to be heard of is that of the request *)
(* which waits, whose release is awaited, or that was let go; what lies in  *)
(* a channel while nobody asks will be thrown away by the next who does.   *)
Expected(r) == asker[r] = "wait" \/ (ussdAwaitRelease /\ awaited = r) \/ r \in left
EndsAreExpected ==
  /\ \A n \in DOMAIN indications : indications[n].kind \in EndKinds => Expected(indications[n].of)
  /\ \A r \in Askers : Holds(ussdResult, r) \/ Holds(ussdErr, r) => Expected(r) \/ ussdMu = NoAsker
  /\ session.state = "open" => asker[session.of] = "wait" \/ session.of \in left

USSDInv ==
  /\ USSDTypes /\ HeardOfLate /\ EndsAreFew /\ ReleasesAreLast
  /\ \A r \in Askers : asker[r] \in {"prepared", "wait"} => ~ussdAwaitRelease
  /\ EndsAreExpected
  /\ TextsAreOwn

LEMMA SomeonesIndication ==
  ASSUME NEW s \in Seq(Indication), NEW n \in DOMAIN s
  PROVE  s[n].kind \in Kinds /\ s[n].of \in Askers
  <1>1. s[n] \in Indication
    OBVIOUS
  <1> QED
    BY <1>1 DEF Indication

LEMMA Indicated ==
  ASSUME USSDTypes, NEW kind \in Kinds, NEW next, session.of \in Askers, Indicates(kind, next)
  PROVE  /\ indications' \in Seq(Indication)
         /\ DOMAIN indications' = DOMAIN indications \cup {Len(indications) + 1}
         /\ \A n \in DOMAIN indications : n < Len(indications) + 1 /\ indications'[n] = indications[n]
         /\ indications'[Len(indications) + 1].kind = kind
         /\ indications'[Len(indications) + 1].of = session.of
         /\ session' = next
         /\ UNCHANGED <<ussdMu, asker, channelVars, ussdAwaitRelease, told, awaited, left>>
  <1> DEFINE ind == [kind |-> kind, of |-> session.of]
  <1>1. ind \in Indication /\ indications' = Append(indications, ind)
    BY DEF Indicates, Indication
  <1>2. indications \in Seq(Indication)
    BY DEF USSDTypes
  <1>3. /\ indications' \in Seq(Indication)
        /\ DOMAIN indications' = DOMAIN indications \cup {Len(indications) + 1}
        /\ \A n \in DOMAIN indications : n < Len(indications) + 1 /\ indications'[n] = indications[n]
        /\ indications'[Len(indications) + 1] = ind
    <2> HIDE DEF ind
    <2> QED
      BY <1>1, <1>2
  <1> QED
    BY <1>1, <1>3 DEF Indicates, historyVars

LEMMA USSDInitially == USSDInit => USSDInv
  <1> SUFFICES ASSUME USSDInit PROVE USSDInv
    OBVIOUS
  <1>1. USSDTypes
    <2>1. asker \in [Askers -> Stages] /\ told = [r \in Askers |-> told[r]]
      BY DEF USSDInit, Stages
    <2>2. session \in [of : Askers \cup {NoAsker}, state : {"none", "open", "told", "cancelled"}]
      BY DEF USSDInit, NoSession
    <2>3. \A r \in Askers : asker[r] \notin {"idle", "done"} => ussdMu = r
      BY DEF USSDInit
    <2>4. session.state = "none" <=> session.of = NoAsker
      BY DEF USSDInit, NoSession
    <2>5. indications \in Seq(Indication)
      BY DEF USSDInit
    <2> QED
      BY <2>1, <2>2, <2>3, <2>4, <2>5 DEF USSDInit, USSDTypes
  <1>2. HeardOfLate /\ EndsAreFew /\ ReleasesAreLast /\ EndsAreExpected
    BY DEF USSDInit, NoSession, HeardOfLate, EndsAreFew, ReleasesAreLast, EndsAreExpected, Holds,
           NoEndComing
  <1>3. TextsAreOwn
    BY DEF USSDInit, TextsAreOwn, Nothing
  <1> QED
    BY <1>1, <1>2, <1>3 DEF USSDInit, USSDInv

LEMMA USSDStep == USSDInv /\ [USSDNext]_ussdVars => USSDInv'
  <1> SUFFICES ASSUME USSDInv, [USSDNext]_ussdVars PROVE USSDInv'
    OBVIOUS
  <1> USE USSDAssumption DEF channelVars, networkVars, historyVars, Becomes, USSDInv, USSDTypes
  <1>1. ASSUME NEW r \in Askers, Ask(r) PROVE USSDInv'
    <2>1. USSDTypes'
      BY <1>1 DEF Ask, Stages, Kinds, HeardOfLate, Late
    <2>2. HeardOfLate'
      BY <1>1 DEF Ask, HeardOfLate, Late, Holds
    <2>3. EndsAreFew'
      BY <1>1 DEF Ask, EndsAreFew, NoEndComing, Holds, HeardOfLate, Late, EndKinds
    <2>4. ReleasesAreLast'
      BY <1>1 DEF Ask, ReleasesAreLast, Holds, HeardOfLate, Late
    <2>5. \A q \in Askers : asker'[q] \in {"prepared", "wait"} => ~ussdAwaitRelease'
      BY <1>1 DEF Ask
    <2>6. EndsAreExpected'
      BY <1>1 DEF Ask, EndsAreExpected, Expected, HeardOfLate, Late, Holds, EndsAreFew,
         NoEndComing, EndKinds
    <2>7. TextsAreOwn'
      BY <1>1 DEF Ask, TextsAreOwn, EndsAreExpected, Expected, Holds
    <2> QED
      BY <2>1, <2>2, <2>3, <2>4, <2>5, <2>6, <2>7 DEF USSDInv
  <1>2. ASSUME NEW r \in Askers, DrainReleases(r) PROVE USSDInv'
    <2>1. USSDTypes'
      BY <1>2 DEF DrainReleases, Stages, Kinds, HeardOfLate, Late
    <2>2. HeardOfLate'
      BY <1>2 DEF DrainReleases, HeardOfLate, Late, Holds
    <2>3. EndsAreFew'
      BY <1>2 DEF DrainReleases, EndsAreFew, NoEndComing, Holds, HeardOfLate, Late, EndKinds
    <2>4. ReleasesAreLast'
      BY <1>2 DEF DrainReleases, ReleasesAreLast, Holds, HeardOfLate, Late
    <2>5. \A q \in Askers : asker'[q] \in {"prepared", "wait"} => ~ussdAwaitRelease'
      BY <1>2 DEF DrainReleases
    <2>6. EndsAreExpected'
      BY <1>2 DEF DrainReleases, EndsAreExpected, Expected, HeardOfLate, Late, Holds, EndsAreFew,
         NoEndComing, EndKinds
    <2>7. TextsAreOwn'
      BY <1>2 DEF DrainReleases, TextsAreOwn, EndsAreExpected, Expected, Holds
    <2> QED
      BY <2>1, <2>2, <2>3, <2>4, <2>5, <2>6, <2>7 DEF USSDInv
  <1>3. ASSUME NEW r \in Askers, Refuse(r) PROVE USSDInv'
    <2>1. USSDTypes'
      BY <1>3 DEF Refuse, Tells, Stages, Kinds, HeardOfLate, Late
    <2>2. HeardOfLate'
      BY <1>3 DEF Refuse, Tells, HeardOfLate, Late, Holds
    <2>3. EndsAreFew'
      BY <1>3 DEF Refuse, Tells, EndsAreFew, NoEndComing, Holds, HeardOfLate, Late, EndKinds
    <2>4. ReleasesAreLast'
      BY <1>3 DEF Refuse, Tells, ReleasesAreLast, Holds, HeardOfLate, Late
    <2>5. \A q \in Askers : asker'[q] \in {"prepared", "wait"} => ~ussdAwaitRelease'
      BY <1>3 DEF Refuse, Tells
    <2>6. EndsAreExpected'
      BY <1>3 DEF Refuse, Tells, EndsAreExpected, Expected, HeardOfLate, Late, Holds, EndsAreFew,
         NoEndComing, EndKinds
    <2>7. TextsAreOwn'
      BY <1>3 DEF Refuse, Tells, TextsAreOwn, EndsAreExpected, Expected, Holds
    <2> QED
      BY <2>1, <2>2, <2>3, <2>4, <2>5, <2>6, <2>7 DEF USSDInv
  <1>4. ASSUME NEW r \in Askers, Prepare(r) PROVE USSDInv'
    <2>1. USSDTypes'
      BY <1>4 DEF Prepare, Stages, Kinds, HeardOfLate, Late
    <2>2. HeardOfLate'
      BY <1>4 DEF Prepare, HeardOfLate, Late, Holds
    <2>3. EndsAreFew'
      BY <1>4 DEF Prepare, EndsAreFew, NoEndComing, Holds, HeardOfLate, Late, EndKinds
    <2>4. ReleasesAreLast'
      BY <1>4 DEF Prepare, ReleasesAreLast, Holds, HeardOfLate, Late
    <2>5. \A q \in Askers : asker'[q] \in {"prepared", "wait"} => ~ussdAwaitRelease'
      BY <1>4 DEF Prepare
    <2>6. EndsAreExpected'
      BY <1>4 DEF Prepare, EndsAreExpected, Expected, HeardOfLate, Late, Holds, EndsAreFew,
         NoEndComing, EndKinds
    <2>7. TextsAreOwn'
      BY <1>4 DEF Prepare, TextsAreOwn, EndsAreExpected, Expected, Holds
    <2> QED
      BY <2>1, <2>2, <2>3, <2>4, <2>5, <2>6, <2>7 DEF USSDInv
  <1>5. ASSUME NEW r \in Askers, Originate(r) PROVE USSDInv'
    <2>1. USSDTypes'
      BY <1>5 DEF Originate, Opens, Stages, Kinds, HeardOfLate, Late
    <2>2. HeardOfLate'
      BY <1>5 DEF Originate, Opens, HeardOfLate, Late, Holds
    <2>3. EndsAreFew'
      BY <1>5 DEF Originate, Opens, EndsAreFew, NoEndComing, Holds, HeardOfLate, Late, EndKinds
    <2>4. ReleasesAreLast'
      BY <1>5 DEF Originate, Opens, ReleasesAreLast, Holds, HeardOfLate, Late
    <2>5. \A q \in Askers : asker'[q] \in {"prepared", "wait"} => ~ussdAwaitRelease'
      BY <1>5 DEF Originate, Opens
    <2>6. EndsAreExpected'
      BY <1>5 DEF Originate, Opens, EndsAreExpected, Expected, HeardOfLate, Late, Holds,
         EndsAreFew, NoEndComing, EndKinds
    <2>7. TextsAreOwn'
      BY <1>5 DEF Originate, Opens, TextsAreOwn, EndsAreExpected, Expected, Holds
    <2> QED
      BY <2>1, <2>2, <2>3, <2>4, <2>5, <2>6, <2>7 DEF USSDInv
  <1>6. ASSUME NEW r \in Askers, FallBack(r) PROVE USSDInv'
    <2>1. USSDTypes'
      BY <1>6 DEF FallBack, Stages, Kinds, HeardOfLate, Late
    <2>2. HeardOfLate'
      BY <1>6 DEF FallBack, HeardOfLate, Late, Holds
    <2>3. EndsAreFew'
      BY <1>6 DEF FallBack, EndsAreFew, NoEndComing, Holds, HeardOfLate, Late, EndKinds
    <2>4. ReleasesAreLast'
      BY <1>6 DEF FallBack, ReleasesAreLast, Holds, HeardOfLate, Late
    <2>5. \A q \in Askers : asker'[q] \in {"prepared", "wait"} => ~ussdAwaitRelease'
      BY <1>6 DEF FallBack
    <2>6. EndsAreExpected'
      BY <1>6 DEF FallBack, EndsAreExpected, Expected, HeardOfLate, Late, Holds, EndsAreFew,
         NoEndComing, EndKinds
    <2>7. TextsAreOwn'
      BY <1>6 DEF FallBack, TextsAreOwn, EndsAreExpected, Expected, Holds
    <2> QED
      BY <2>1, <2>2, <2>3, <2>4, <2>5, <2>6, <2>7 DEF USSDInv
  <1>7. ASSUME NEW r \in Askers, AnswerAtOnce(r) PROVE USSDInv'
    <2>1. USSDTypes'
      BY <1>7 DEF AnswerAtOnce, Tells, Stages, Kinds, HeardOfLate, Late
    <2>2. HeardOfLate'
      BY <1>7 DEF AnswerAtOnce, Tells, HeardOfLate, Late, Holds
    <2>3. EndsAreFew'
      BY <1>7 DEF AnswerAtOnce, Tells, EndsAreFew, NoEndComing, Holds, HeardOfLate, Late, EndKinds
    <2>4. ReleasesAreLast'
      BY <1>7 DEF AnswerAtOnce, Tells, ReleasesAreLast, Holds, HeardOfLate, Late
    <2>5. \A q \in Askers : asker'[q] \in {"prepared", "wait"} => ~ussdAwaitRelease'
      BY <1>7 DEF AnswerAtOnce, Tells
    <2>6. EndsAreExpected'
      BY <1>7 DEF AnswerAtOnce, Tells, EndsAreExpected, Expected, HeardOfLate, Late, Holds,
         EndsAreFew, NoEndComing, EndKinds
    <2>7. TextsAreOwn'
      BY <1>7 DEF AnswerAtOnce, Tells, TextsAreOwn, EndsAreExpected, Expected, Holds
    <2> QED
      BY <2>1, <2>2, <2>3, <2>4, <2>5, <2>6, <2>7 DEF USSDInv
  <1>8. ASSUME NEW r \in Askers, RequestFails(r) PROVE USSDInv'
    <2>1. USSDTypes'
      <3>1. CASE UNCHANGED session
        BY <1>8, <3>1 DEF RequestFails, Tells, Stages
      <3>2. CASE Opens(r)
        BY <1>8, <3>2 DEF RequestFails, Opens, Tells, Stages
      <3> QED
        BY <1>8, <3>1, <3>2 DEF RequestFails
    <2>2. HeardOfLate'
      BY <1>8 DEF RequestFails, Opens, Tells, HeardOfLate, Late, Holds
    <2>3. EndsAreFew'
      BY <1>8 DEF RequestFails, Opens, Tells, EndsAreFew, NoEndComing, Holds, HeardOfLate, Late, EndKinds
    <2>4. ReleasesAreLast'
      BY <1>8 DEF RequestFails, Opens, Tells, ReleasesAreLast, Holds, HeardOfLate, Late
    <2>5. \A q \in Askers : asker'[q] \in {"prepared", "wait"} => ~ussdAwaitRelease'
      BY <1>8 DEF RequestFails, Opens, Tells
    <2>6. EndsAreExpected'
      BY <1>8 DEF RequestFails, Opens, Tells, EndsAreExpected, Expected, HeardOfLate, Late, Holds,
         EndsAreFew, NoEndComing, EndKinds
    <2>7. TextsAreOwn'
      BY <1>8 DEF RequestFails, Opens, Tells, TextsAreOwn, EndsAreExpected, Expected, Holds
    <2> QED
      BY <2>1, <2>2, <2>3, <2>4, <2>5, <2>6, <2>7 DEF USSDInv
  <1>9. ASSUME NEW r \in Askers, RequestTimesOut(r) PROVE USSDInv'
    <2>1. USSDTypes'
      <3>1. session' \in [of : Askers \cup {NoAsker}, state : {"none", "open", "told", "cancelled"}]
            /\ (session'.state = "none" <=> session'.of = NoAsker)
        <4>1. CASE session' = [of |-> r, state |-> "cancelled"]
          BY <4>1
        <4>2. CASE Cancels
          BY <4>2 DEF Cancels
        <4> QED
          BY <1>9, <4>1, <4>2 DEF RequestTimesOut
      <3>2. asker' \in [Askers -> Stages] /\ told' = [q \in Askers |-> told'[q]]
            /\ \A q \in Askers : asker'[q] \notin {"idle", "done"} => ussdMu' = q
        BY <1>9 DEF RequestTimesOut, Tells, Stages
      <3> QED
        BY <1>9, <3>1, <3>2 DEF RequestTimesOut
    <2>2. HeardOfLate'
      BY <1>9 DEF RequestTimesOut, Tells, Cancels, HeardOfLate, Late, Holds
    <2>3. EndsAreFew'
      BY <1>9 DEF RequestTimesOut, Tells, Cancels, EndsAreFew, NoEndComing, Holds, HeardOfLate,
         Late, EndKinds
    <2>4. ReleasesAreLast'
      BY <1>9 DEF RequestTimesOut, Tells, Cancels, ReleasesAreLast, Holds, HeardOfLate, Late
    <2>5. \A q \in Askers : asker'[q] \in {"prepared", "wait"} => ~ussdAwaitRelease'
      BY <1>9 DEF RequestTimesOut, Tells, Cancels
    <2>6. EndsAreExpected'
      BY <1>9 DEF RequestTimesOut, Tells, Cancels, EndsAreExpected, Expected, HeardOfLate, Late,
         Holds, EndsAreFew, NoEndComing, EndKinds
    <2>7. TextsAreOwn'
      BY <1>9 DEF RequestTimesOut, Tells, Cancels, TextsAreOwn, EndsAreExpected, Expected, Holds
    <2> QED
      BY <2>1, <2>2, <2>3, <2>4, <2>5, <2>6, <2>7 DEF USSDInv
  <1>10. ASSUME NEW r \in Askers, TakeResult(r) PROVE USSDInv'
    <2>1. USSDTypes'
      BY <1>10 DEF TakeResult, LetsGo, Tells, Stages, Kinds, HeardOfLate, Late
    <2>2. HeardOfLate'
      BY <1>10 DEF TakeResult, LetsGo, Tells, HeardOfLate, Late, Holds
    <2>3. EndsAreFew'
      BY <1>10 DEF TakeResult, LetsGo, Tells, EndsAreFew, NoEndComing, Holds, HeardOfLate, Late, EndKinds
    <2>4. ReleasesAreLast'
      BY <1>10 DEF TakeResult, LetsGo, Tells, ReleasesAreLast, Holds, HeardOfLate, Late
    <2>5. \A q \in Askers : asker'[q] \in {"prepared", "wait"} => ~ussdAwaitRelease'
      BY <1>10 DEF TakeResult, LetsGo, Tells
    <2>6. EndsAreExpected'
      BY <1>10 DEF TakeResult, LetsGo, Tells, EndsAreExpected, Expected, HeardOfLate, Late, Holds,
         EndsAreFew, NoEndComing, EndKinds
    <2>7. TextsAreOwn'
      BY <1>10 DEF TakeResult, LetsGo, Tells, TextsAreOwn, EndsAreExpected, Expected, Holds
    <2> QED
      BY <2>1, <2>2, <2>3, <2>4, <2>5, <2>6, <2>7 DEF USSDInv
  <1>11. ASSUME NEW r \in Askers, TakeError(r) PROVE USSDInv'
    <2>1. USSDTypes'
      BY <1>11 DEF TakeError, LetsGo, Tells, Stages, Kinds, HeardOfLate, Late
    <2>2. HeardOfLate'
      BY <1>11 DEF TakeError, LetsGo, Tells, HeardOfLate, Late, Holds
    <2>3. EndsAreFew'
      BY <1>11 DEF TakeError, LetsGo, Tells, EndsAreFew, NoEndComing, Holds, HeardOfLate, Late, EndKinds
    <2>4. ReleasesAreLast'
      BY <1>11 DEF TakeError, LetsGo, Tells, ReleasesAreLast, Holds, HeardOfLate, Late
    <2>5. \A q \in Askers : asker'[q] \in {"prepared", "wait"} => ~ussdAwaitRelease'
      BY <1>11 DEF TakeError, LetsGo, Tells
    <2>6. EndsAreExpected'
      BY <1>11 DEF TakeError, LetsGo, Tells, EndsAreExpected, Expected, HeardOfLate, Late, Holds,
         EndsAreFew, NoEndComing, EndKinds
    <2>7. TextsAreOwn'
      BY <1>11 DEF TakeError, LetsGo, Tells, TextsAreOwn, EndsAreExpected, Expected, Holds
    <2> QED
      BY <2>1, <2>2, <2>3, <2>4, <2>5, <2>6, <2>7 DEF USSDInv
  <1>12. ASSUME NEW r \in Askers, TakeRelease(r) PROVE USSDInv'
    <2>1. USSDTypes'
      BY <1>12 DEF TakeRelease, LetsGo, Tells, Stages, Kinds, HeardOfLate, Late
    <2>2. HeardOfLate'
      BY <1>12 DEF TakeRelease, LetsGo, Tells, HeardOfLate, Late, Holds
    <2>3. EndsAreFew'
      BY <1>12 DEF TakeRelease, LetsGo, Tells, EndsAreFew, NoEndComing, Holds, HeardOfLate, Late, EndKinds
    <2>4. ReleasesAreLast'
      BY <1>12 DEF TakeRelease, LetsGo, Tells, ReleasesAreLast, Holds, HeardOfLate, Late
    <2>5. \A q \in Askers : asker'[q] \in {"prepared", "wait"} => ~ussdAwaitRelease'
      BY <1>12 DEF TakeRelease, LetsGo, Tells
    <2>6. EndsAreExpected'
      <3>1. /\ asker[r] = "wait" /\ ~ussdAwaitRelease /\ ussdMu = r
            /\ UNCHANGED <<indications, session, ussdResult, ussdErr, awaited>>
            /\ asker' = [asker EXCEPT ![r] = "done"] /\ ussdMu' = NoAsker
            /\ left' = left \cup {r} \/ (left' = left /\ ussdRelease = <<r>>)
        <4>1. PICK q \in Askers : ussdRelease = <<q>>
          BY <1>12 DEF TakeRelease
        <4>2. left' = IF q = r THEN left ELSE left \cup {r}
          BY <1>12, <4>1 DEF TakeRelease, LetsGo
        <4> QED
          BY <1>12, <4>1, <4>2 DEF TakeRelease, Tells
      <3>2. CASE left' = left \cup {r}
        BY <3>1, <3>2 DEF EndsAreExpected, Expected, Holds
      <3>3. CASE left' = left /\ ussdRelease = <<r>>
        <4>1. NoEndComing(r) /\ session.of # r
          BY <3>3 DEF Holds, EndsAreFew, ReleasesAreLast
        <4>2. \A q \in Askers : Expected(q) => q = r \/ q \in left
          BY <3>1 DEF Expected
        <4>3. ASSUME NEW n \in DOMAIN indications, indications[n].kind \in EndKinds
              PROVE  indications[n].of \in left
          <5>1. indications[n].of \in Askers /\ Expected(indications[n].of)
            BY <4>3, SomeonesIndication DEF EndsAreExpected
          <5> QED
            BY <4>1, <4>2, <4>3, <5>1 DEF NoEndComing
        <4>4. session.state = "open" => session.of \in left
          BY <3>1, <4>1, <4>2 DEF EndsAreExpected, Expected
        <4> QED
          BY <3>1, <3>3, <4>3, <4>4 DEF EndsAreExpected, Expected
      <3> QED
        BY <3>1, <3>2, <3>3
    <2>7. TextsAreOwn'
      BY <1>12 DEF TakeRelease, LetsGo, Tells, TextsAreOwn, EndsAreExpected, Expected, Holds
    <2> QED
      BY <2>1, <2>2, <2>3, <2>4, <2>5, <2>6, <2>7 DEF USSDInv
  <1>13. ASSUME NEW r \in Askers, WaitTimesOut(r) PROVE USSDInv'
    <2>1. USSDTypes'
      BY <1>13 DEF WaitTimesOut, Tells, Cancels, Stages, Kinds, HeardOfLate, Late
    <2>2. HeardOfLate'
      BY <1>13 DEF WaitTimesOut, Tells, Cancels, HeardOfLate, Late, Holds
    <2>3. EndsAreFew'
      BY <1>13 DEF WaitTimesOut, Tells, Cancels, EndsAreFew, NoEndComing, Holds, HeardOfLate,
         Late, EndKinds
    <2>4. ReleasesAreLast'
      BY <1>13 DEF WaitTimesOut, Tells, Cancels, ReleasesAreLast, Holds, HeardOfLate, Late
    <2>5. \A q \in Askers : asker'[q] \in {"prepared", "wait"} => ~ussdAwaitRelease'
      BY <1>13 DEF WaitTimesOut, Tells, Cancels
    <2>6. EndsAreExpected'
      BY <1>13 DEF WaitTimesOut, Tells, Cancels, EndsAreExpected, Expected, HeardOfLate, Late,
         Holds, EndsAreFew, NoEndComing, EndKinds
    <2>7. TextsAreOwn'
      BY <1>13 DEF WaitTimesOut, Tells, Cancels, TextsAreOwn, EndsAreExpected, Expected, Holds
    <2> QED
      BY <2>1, <2>2, <2>3, <2>4, <2>5, <2>6, <2>7 DEF USSDInv
  <1>14. CASE CancelUSSD
    <2>1. USSDTypes'
      BY <1>14 DEF CancelUSSD, Cancels, Stages, Kinds, HeardOfLate, Late
    <2>2. HeardOfLate'
      BY <1>14 DEF CancelUSSD, Cancels, HeardOfLate, Late, Holds
    <2>3. EndsAreFew'
      BY <1>14 DEF CancelUSSD, Cancels, EndsAreFew, NoEndComing, Holds, HeardOfLate, Late,
         EndKinds
    <2>4. ReleasesAreLast'
      BY <1>14 DEF CancelUSSD, Cancels, ReleasesAreLast, Holds, HeardOfLate, Late
    <2>5. \A q \in Askers : asker'[q] \in {"prepared", "wait"} => ~ussdAwaitRelease'
      BY <1>14 DEF CancelUSSD, Cancels
    <2>6. EndsAreExpected'
      BY <1>14 DEF CancelUSSD, Cancels, EndsAreExpected, Expected, HeardOfLate, Late, Holds,
         EndsAreFew, NoEndComing, EndKinds
    <2>7. TextsAreOwn'
      BY <1>14 DEF CancelUSSD, Cancels, TextsAreOwn, EndsAreExpected, Expected, Holds
    <2> QED
      BY <2>1, <2>2, <2>3, <2>4, <2>5, <2>6, <2>7 DEF USSDInv
  <1>15. CASE Text
    <2>0. /\ session.of \in Askers /\ "text" \in Kinds /\ Indicates("text", [session EXCEPT !.state = "told"])
          /\ USSDTypes /\ HeardOfLate /\ ReleasesAreLast
      BY <1>15 DEF Text, Kinds
    <2>a. /\ indications' \in Seq(Indication)
          /\ DOMAIN indications' = DOMAIN indications \cup {Len(indications) + 1}
          /\ \A n \in DOMAIN indications : n < Len(indications) + 1 /\ indications'[n] = indications[n]
          /\ indications'[Len(indications) + 1].kind = "text"
          /\ indications'[Len(indications) + 1].of = session.of
          /\ session' = [session EXCEPT !.state = "told"]
          /\ UNCHANGED <<ussdMu, asker, channelVars, ussdAwaitRelease, told, awaited, left>>
      BY <2>0, Indicated
    <2>1. USSDTypes'
      <3>1. session' \in [of : Askers \cup {NoAsker}, state : {"none", "open", "told", "cancelled"}]
        BY <2>a DEF NoSession
      <3>2. session'.state = "none" <=> session'.of = NoAsker
        <4>1. session'.state = "told" /\ session'.of = session.of
          BY <2>a
        <4> QED
          BY <2>0, <4>1
      <3> QED
        BY <2>a, <3>1, <3>2
    <2>2. HeardOfLate'
      BY <2>0, <2>a DEF HeardOfLate, Late, Holds
    <2>3. EndsAreFew'
      BY <1>15 DEF Text, Indicates, EndsAreFew, NoEndComing, Holds, HeardOfLate, Late, EndKinds
    <2>4. ReleasesAreLast'
      BY <2>0, <2>a DEF ReleasesAreLast, Holds
    <2>5. \A q \in Askers : asker'[q] \in {"prepared", "wait"} => ~ussdAwaitRelease'
      BY <1>15 DEF Text, Indicates
    <2>6. EndsAreExpected'
      BY <1>15 DEF Text, Indicates, EndsAreExpected, Expected, HeardOfLate, Late, Holds,
         EndsAreFew, NoEndComing, EndKinds
    <2>7. TextsAreOwn'
      BY <1>15 DEF Text, Indicates, TextsAreOwn, EndsAreExpected, Expected, Holds
    <2> QED
      BY <2>1, <2>2, <2>3, <2>4, <2>5, <2>6, <2>7 DEF USSDInv
  <1>16. CASE Failure
    <2>0. /\ session.of \in Askers /\ "failure" \in Kinds /\ Indicates("failure", NoSession)
          /\ USSDTypes /\ HeardOfLate /\ ReleasesAreLast
      BY <1>16 DEF Failure, Kinds
    <2>a. /\ indications' \in Seq(Indication)
          /\ DOMAIN indications' = DOMAIN indications \cup {Len(indications) + 1}
          /\ \A n \in DOMAIN indications : n < Len(indications) + 1 /\ indications'[n] = indications[n]
          /\ indications'[Len(indications) + 1].kind = "failure"
          /\ indications'[Len(indications) + 1].of = session.of
          /\ session' = NoSession
          /\ UNCHANGED <<ussdMu, asker, channelVars, ussdAwaitRelease, told, awaited, left>>
      BY <2>0, Indicated
    <2>1. USSDTypes'
      <3>1. session' \in [of : Askers \cup {NoAsker}, state : {"none", "open", "told", "cancelled"}]
        BY <2>a DEF NoSession
      <3>2. session'.state = "none" <=> session'.of = NoAsker
        BY <2>a DEF NoSession
      <3> QED
        BY <2>a, <3>1, <3>2
    <2>2. HeardOfLate'
      BY <2>0, <2>a DEF NoSession, HeardOfLate, Late, Holds
    <2>3. EndsAreFew'
      BY <1>16 DEF Failure, Indicates, NoSession, EndsAreFew, NoEndComing, Holds, HeardOfLate,
         Late, EndKinds
    <2>4. ReleasesAreLast'
      <3>1. session'.of = NoAsker /\ \A n \in DOMAIN indications' : indications'[n].of \in Askers
        BY <2>a, SomeonesIndication DEF NoSession
      <3> QED
        BY <3>1 DEF ReleasesAreLast
    <2>5. \A q \in Askers : asker'[q] \in {"prepared", "wait"} => ~ussdAwaitRelease'
      BY <1>16 DEF Failure, Indicates, NoSession
    <2>6. EndsAreExpected'
      BY <1>16 DEF Failure, Indicates, NoSession, EndsAreExpected, Expected, HeardOfLate, Late,
         Holds, EndsAreFew, NoEndComing, EndKinds
    <2>7. TextsAreOwn'
      BY <1>16 DEF Failure, Indicates, NoSession, TextsAreOwn, EndsAreExpected, Expected, Holds
    <2> QED
      BY <2>1, <2>2, <2>3, <2>4, <2>5, <2>6, <2>7 DEF USSDInv
  <1>17. CASE Release
    <2>0. /\ session.of \in Askers /\ "release" \in Kinds /\ Indicates("release", NoSession)
          /\ USSDTypes /\ HeardOfLate /\ ReleasesAreLast
      BY <1>17 DEF Release, Kinds
    <2>a. /\ indications' \in Seq(Indication)
          /\ DOMAIN indications' = DOMAIN indications \cup {Len(indications) + 1}
          /\ \A n \in DOMAIN indications : n < Len(indications) + 1 /\ indications'[n] = indications[n]
          /\ indications'[Len(indications) + 1].kind = "release"
          /\ indications'[Len(indications) + 1].of = session.of
          /\ session' = NoSession
          /\ UNCHANGED <<ussdMu, asker, channelVars, ussdAwaitRelease, told, awaited, left>>
      BY <2>0, Indicated
    <2>1. USSDTypes'
      <3>1. session' \in [of : Askers \cup {NoAsker}, state : {"none", "open", "told", "cancelled"}]
        BY <2>a DEF NoSession
      <3>2. session'.state = "none" <=> session'.of = NoAsker
        BY <2>a DEF NoSession
      <3> QED
        BY <2>a, <3>1, <3>2
    <2>2. HeardOfLate'
      BY <2>0, <2>a DEF NoSession, HeardOfLate, Late, Holds
    <2>3. EndsAreFew'
      BY <1>17 DEF Release, Indicates, NoSession, EndsAreFew, NoEndComing, Holds, HeardOfLate,
         Late, EndKinds
    <2>4. ReleasesAreLast'
      <3>1. session'.of = NoAsker /\ \A n \in DOMAIN indications' : indications'[n].of \in Askers
        BY <2>a, SomeonesIndication DEF NoSession
      <3> QED
        BY <3>1 DEF ReleasesAreLast
    <2>5. \A q \in Askers : asker'[q] \in {"prepared", "wait"} => ~ussdAwaitRelease'
      BY <1>17 DEF Release, Indicates, NoSession
    <2>6. EndsAreExpected'
      BY <1>17 DEF Release, Indicates, NoSession, EndsAreExpected, Expected, HeardOfLate, Late,
         Holds, EndsAreFew, NoEndComing, EndKinds
    <2>7. TextsAreOwn'
      BY <1>17 DEF Release, Indicates, NoSession, TextsAreOwn, EndsAreExpected, Expected, Holds
    <2> QED
      BY <2>1, <2>2, <2>3, <2>4, <2>5, <2>6, <2>7 DEF USSDInv
  <1>18. CASE Deliver
    <2>1. USSDTypes'
      <3>1. indications \in Seq(Indication) /\ indications # <<>>
        BY <1>18 DEF Deliver
      <3>2. indications' \in Seq(Indication) /\ Head(indications).of \in Askers
        <4>1. Head(indications) \in Indication /\ indications' \in Seq(Indication)
          BY <1>18, <3>1 DEF Deliver
        <4> QED
          BY <4>1 DEF Indication
      <3>3. /\ UNCHANGED <<ussdMu, asker, ussdAwaitRelease, session, told, left>>
            /\ \A channel \in {ussdResult, ussdErr, ussdRelease}' :
                 channel = <<>> \/ \E r \in Askers : channel = <<r>>
        BY <1>18, <3>2 DEF Deliver, Offer
      <3> QED
        BY <3>2, <3>3
    <2>2. HeardOfLate'
      BY <1>18 DEF Deliver, Offer, HeardOfLate, Late, Holds
    <2>3. EndsAreFew'
      <3>1. /\ indications \in Seq(Indication) /\ indications # <<>>
            /\ indications' = Tail(indications) /\ UNCHANGED session
        BY <1>18 DEF Deliver
      <3>2. /\ Len(indications) \in Nat \ {0} /\ 1 \in DOMAIN indications
            /\ Head(indications) = indications[1] /\ indications[1] \in Indication
        BY <3>1
      <3>3. \A n \in DOMAIN indications' :
              /\ n \in Nat \ {0} /\ n + 1 \in DOMAIN indications
              /\ indications'[n] = indications[n + 1]
        BY <3>1
      <3>4. \A n, m \in DOMAIN indications' :
              n < m /\ indications'[n].of = indications'[m].of => indications'[m].kind \notin EndKinds
        BY <3>3 DEF EndsAreFew
      <3>5. \A n \in DOMAIN indications' : indications'[n].of = session'.of => session'.state # "open"
        BY <3>1, <3>3 DEF EndsAreFew
      <3>6. ASSUME NEW r \in Askers, Holds(ussdResult, r)' \/ Holds(ussdErr, r)' \/ Holds(ussdRelease, r)'
            PROVE  NoEndComing(r)'
        <4>1. \/ Holds(ussdResult, r) \/ Holds(ussdErr, r) \/ Holds(ussdRelease, r)
              \/ Head(indications).of = r
          BY <1>18, <3>6 DEF Deliver, Offer, Holds
        <4>2. CASE NoEndComing(r)
          BY <3>1, <3>3, <4>2 DEF NoEndComing
        <4>3. CASE Head(indications).of = r
          <5>1. session'.of = r => session'.state # "open"
            BY <3>1, <3>2, <4>3 DEF EndsAreFew
          <5>2. \A n \in DOMAIN indications' : indications'[n].of = r => indications'[n].kind \notin EndKinds
            BY <3>2, <3>3, <4>3 DEF EndsAreFew
          <5> QED
            BY <5>1, <5>2 DEF NoEndComing
        <4> QED
          BY <4>1, <4>2, <4>3 DEF EndsAreFew
      <3>7. ASSUME NEW r \in Askers, Holds(ussdResult, r)', Holds(ussdErr, r)' PROVE FALSE
        <4>1. /\ Holds(ussdResult, r) \/ (Head(indications).of = r /\ Head(indications).kind = "text")
              /\ Holds(ussdErr, r) \/ (Head(indications).of = r /\ Head(indications).kind = "failure")
          BY <1>18, <3>7 DEF Deliver, Offer, Holds
        <4>2. NoEndComing(r) /\ Head(indications).of = r => Head(indications).kind \notin EndKinds
          BY <3>2 DEF NoEndComing
        <4> QED
          BY <4>1, <4>2 DEF EndsAreFew, EndKinds
      <3> QED
        BY <3>4, <3>5, <3>6, <3>7 DEF EndsAreFew
    <2>4. ReleasesAreLast'
      BY <1>18 DEF Deliver, Offer, ReleasesAreLast, Holds, HeardOfLate, Late
    <2>5. \A q \in Askers : asker'[q] \in {"prepared", "wait"} => ~ussdAwaitRelease'
      BY <1>18 DEF Deliver, Offer
    <2>6. EndsAreExpected'
      BY <1>18 DEF Deliver, Offer, EndsAreExpected, Expected, HeardOfLate, Late, Holds,
         EndsAreFew, NoEndComing, EndKinds
    <2>7. TextsAreOwn'
      BY <1>18 DEF Deliver, Offer, TextsAreOwn, EndsAreExpected, Expected, Holds
    <2> QED
      BY <2>1, <2>2, <2>3, <2>4, <2>5, <2>6, <2>7 DEF USSDInv
  <1>19. CASE UNCHANGED ussdVars
    BY <1>19 DEF ussdVars, HeardOfLate, EndsAreFew, 
                ReleasesAreLast, EndsAreExpected, TextsAreOwn, Expected, Late, Holds, NoEndComing
  <1> QED
    BY <1>1, <1>2, <1>3, <1>4, <1>5, <1>6, <1>7, <1>8, <1>9, <1>10, <1>11, <1>12, <1>13, <1>14,
       <1>15, <1>16, <1>17, <1>18, <1>19 DEF USSDNext, Asks, Requests, WaitsForText

(* A text that is handed to a request is the answer of its own session, or *)
(* of one that was let go before its end was heard, for any number of      *)
(* requests, time-outs and cancellations and any delay of the indications  *)
(* (ExecuteUSSD, waitQMIUSSDResult, initUSSDCallbacks).                    *)
THEOREM OwnTexts == USSDSpec => []TextsAreOwn
  <1>1. USSDInv => TextsAreOwn
    BY DEF USSDInv
  <1> QED
    BY <1>1, USSDInitially, USSDStep, PTL DEF USSDSpec

-----------------------------------------------------------------------------
(* The call watcher.                                                       *)

States == Lasting \cup {"none", "over"}

(* The module: indices are those of one call each, and one call rings.     *)
ModuleInv ==
  /\ call \in [Calls -> [state : States, index : Nat]]
  /\ \A c, d \in Present : call[c].index = call[d].index => c = d
  /\ \A c \in Present : call[c].index > 0
  /\ \A c, d \in Calls : call[c].state \in Ringing /\ call[d].state \in Ringing => c = d
  /\ \A c \in Calls : call[c].state \in Ringing => c \in Incoming

(* A call that could ring once too often is the one that the record shows   *)
(* ringing, under its index.                                               *)
Stands(c) ==
  /\ activeCall # NoRecord /\ activeCall.state \in Ringing
  /\ activeCall.incoming /\ activeCall.index = call[c].index
RingsInv ==
  /\ callFaults \in Nat /\ rings \in [Calls -> Nat]
  /\ RingsOnce
  /\ \A c \in Calls : call[c].state = "none" => rings[c] = 0
  /\ \A c \in Calls : call[c].state \in Ringing => rings[c] <= callFaults \/ Stands(c)

NumberIsTrue(r) == r.number # "" => r.number = r.of \/ r.of \in Withheld
MissedIsTrue(r, rang, f, taken) ==
  Missed(r) => (rang[r.of] > 0 \/ r.took) /\ (f = 0 => r.of \notin taken)
RecordsInv ==
  /\ answered \subseteq Calls
  /\ \A c \in answered : call[c].state \notin {"incoming", "waiting", "none"}
  /\ activeCall # NoRecord =>
       /\ activeCall.of \in Calls /\ call[activeCall.of].state # "none"
       /\ NumberIsTrue(activeCall) /\ MissedIsTrue(activeCall, rings, callFaults, answered)
  /\ \E R : callHistory \in Seq(R)
  /\ \A n \in DOMAIN callHistory :
       /\ callHistory[n].of \in Calls
       /\ NumberIsTrue(callHistory[n]) /\ MissedIsTrue(callHistory[n], rings, callFaults, answered)
       /\ callFaults = 0 => call[callHistory[n].of].state = "over"

CallInv == ModuleInv /\ RingsInv /\ RecordsInv

LEMMA CallInitially == CallInit => CallInv
  <1> SUFFICES ASSUME CallInit PROVE CallInv
    OBVIOUS
  <1>1. call \in [Calls -> [state : States, index : Nat]] /\ Present = {}
    BY DEF CallInit, States, Present, Lasting, Ringing
  <1>2. ModuleInv
    BY <1>1 DEF CallInit, ModuleInv, Ringing
  <1>3. RingsInv
    BY DEF CallInit, RingsInv, RingsOnce, Ringing
  <1>4. callHistory \in Seq({})
    BY DEF CallInit
  <1>5. RecordsInv
    BY <1>4 DEF CallInit, RecordsInv
  <1> QED
    BY <1>2, <1>3, <1>5 DEF CallInv

(* There is always a free index. *)
LEMMA FreeIsFree ==
  ASSUME ModuleInv
  PROVE  Free \in Nat /\ Free > 0 /\ \A c \in Present : call[c].index # Free
  <1> DEFINE N == Cardinality(Calls)
             used == {call[c].index : c \in Present}
             T == 1 .. N + 1 \ used
  <1>1. N \in Nat
    BY CallAssumption, FS_CardinalityType
  <1>2. T # {}
    <2> SUFFICES ASSUME T = {} PROVE FALSE
      OBVIOUS
    <2> DEFINE f == [i \in 1 .. N + 1 |-> CHOOSE c \in Present : call[c].index = i]
    <2>1. \A i \in 1 .. N + 1 : f[i] \in Calls /\ call[f[i]].index = i
      BY DEF Present
    <2>2. f \in [1 .. N + 1 -> Calls]
      BY <2>1
    <2>3. IsFiniteSet(1 .. N + 1) /\ Cardinality(1 .. N + 1) = N + 1
      <3> HIDE DEF N
      <3>1. 1 \in Int /\ N + 1 \in Int
        BY <1>1
      <3>2. /\ IsFiniteSet(1 .. N + 1)
            /\ Cardinality(1 .. N + 1) = IF 1 > N + 1 THEN 0 ELSE (N + 1) - 1 + 1
        BY <3>1, FS_Interval, Zenon
      <3> QED
        BY <1>1, <3>2
    <2>4. \E i, j \in 1 .. N + 1 : i # j /\ f[i] = f[j]
      <3>1. PICK S : S = 1 .. N + 1
        OBVIOUS
      <3>2. IsFiniteSet(S) /\ f \in [S -> Calls]
        BY <2>2, <2>3, <3>1
      <3>3. Cardinality(Calls) < Cardinality(S)
        BY <1>1, <2>3, <3>1
      <3>4. IsFiniteSet(Calls)
        BY CallAssumption
      <3> HIDE DEF f
      <3>5. \E i, j \in S : i # j /\ f[i] = f[j]
        BY <3>2, <3>3, <3>4, FS_PigeonHole
      <3> QED
        BY <3>1, <3>5
    <2> QED
      BY <2>1, <2>4
  <1>3. Min(T) \in T
    <2>1. T \in SUBSET Nat
      BY <1>1
    <2> HIDE DEF T
    <2> QED
      BY <1>2, <2>1, MinIsLeast
  <1>4. Free \in T
    BY <1>3, Zenon DEF Free
  <1> QED
    BY <1>1, <1>4

(* The most important call exists, and a ringing one comes first. *)
LEMMA SelectedIsFirst ==
  ASSUME ModuleInv, NEW calls \in SUBSET Present, calls # {}
  PROVE  /\ Selected(calls) \in calls
         /\ \A c \in calls : call[c].state \in Ringing => Selected(calls) = c
  <1> DEFINE P(c) == CallStatePriority[call[c].state]
  <1>1. \A c \in calls : P(c) \in 1 .. 5 /\ (P(c) = 5 <=> call[c].state \in Ringing)
    BY DEF CallStatePriority, Present, Lasting, Ringing
  <1> HIDE DEF P
  <1>2. PICK a \in calls : \A d \in calls : P(d) <= P(a)
    <2> DEFINE T == {5 - P(c) : c \in calls}
    <2>1. T \in SUBSET Nat
      BY <1>1
    <2>2. PICK t \in T : \A u \in T : t <= u
      <3>1. T # {}
        OBVIOUS
      <3> HIDE DEF T
      <3> QED
        BY <2>1, <3>1, HasLeast
    <2>3. PICK a \in calls : t = 5 - P(a)
      BY <2>2
    <2>4. \A d \in calls : 5 - P(a) <= 5 - P(d)
      BY <2>2, <2>3
    <2> QED
      BY <1>1, <2>4
  <1>3. PICK c \in calls : P(c) = P(a) /\ \A d \in calls : P(d) = P(a) => call[c].index <= call[d].index
    <2> DEFINE T == {call[d].index : d \in {e \in calls : P(e) = P(a)}}
    <2>1. T \in SUBSET Nat /\ T # {}
      BY DEF ModuleInv, Present
    <2>2. PICK t \in T : \A u \in T : t <= u
      <3> HIDE DEF T
      <3> QED
        BY <2>1, HasLeast
    <2> QED
      BY <2>2
  <1>4. \A d \in calls \ {c} : P(d) < P(c) \/ (P(d) = P(c) /\ call[c].index < call[d].index)
    <2> SUFFICES ASSUME NEW d \in calls, d # c, ~(P(d) < P(c))
                 PROVE  P(d) = P(c) /\ call[c].index < call[d].index
      OBVIOUS
    <2>1. P(d) = P(c)
      BY <1>1, <1>2, <1>3
    <2>2. call[c].index \in Nat /\ call[d].index \in Nat /\ call[c].index # call[d].index
      BY DEF ModuleInv, Present
    <2> QED
      BY <1>3, <2>1, <2>2
  <1>5. Selected(calls) \in calls
        /\ \A d \in calls \ {Selected(calls)} :
             \/ P(d) < P(Selected(calls))
             \/ P(d) = P(Selected(calls)) /\ call[Selected(calls)].index < call[d].index
    BY <1>4 DEF Selected, P
  <1>6. ASSUME NEW d \in calls, call[d].state \in Ringing PROVE Selected(calls) = d
    <2>1. CASE d = Selected(calls)
      BY <2>1
    <2>2. CASE d # Selected(calls)
      <3>1. P(Selected(calls)) = 5
        BY <1>1, <1>5, <1>6, <2>2
      <3>2. call[Selected(calls)].state \in Ringing
        BY <1>1, <1>5, <3>1
      <3> QED
        BY <1>5, <1>6, <3>2 DEF ModuleInv, Present
    <2> QED
      BY <2>1, <2>2
  <1> QED
    BY <1>5, <1>6
LEMMA ModuleStep == ModuleInv /\ [CallNext]_callVars => ModuleInv'
  <1> SUFFICES ASSUME ModuleInv, [CallNext]_callVars PROVE ModuleInv'
    OBVIOUS
  <1>1. CASE UNCHANGED call
    BY <1>1 DEF ModuleInv, Present
  <1>2. ASSUME NEW c \in Calls, Arises(c) PROVE ModuleInv'
    <2>1. PICK s \in {"incoming", "waiting", "dialing"} :
            /\ call' = [call EXCEPT ![c] = [state |-> s, index |-> Free]]
            /\ s \in Ringing => c \in Incoming /\ \A d \in Present : call[d].state \notin Ringing
      BY <1>2 DEF Arises, Ringing
    <2>2. call'[c] = [state |-> s, index |-> Free] /\ s \in Lasting
      BY <2>1 DEF ModuleInv, Lasting, Ringing
    <2>3. \A d \in Calls : d # c => call'[d] = call[d]
      BY <2>1 DEF ModuleInv
    <2>4. call' \in [Calls -> [state : States, index : Nat]]
      BY <2>1, <2>2, FreeIsFree DEF ModuleInv, States
    <2>5. Present' = Present \cup {c}
      BY <2>2, <2>3 DEF Present
    <2>6. \A d \in Calls : call[d].state \in Ringing => d \in Present
      BY DEF Present, Lasting
    <2> QED
      BY <2>1, <2>2, <2>3, <2>4, <2>5, <2>6, FreeIsFree DEF ModuleInv
  <1>3. ASSUME NEW c \in Calls, Moves(c) PROVE ModuleInv'
    <2>1. PICK s \in Following[call[c].state] :
            call' = [call EXCEPT ![c] = [state |-> s, index |-> IF s = "over" THEN 0 ELSE @.index]]
      BY <1>3 DEF Moves
    <2>2. c \in Present /\ s \in States /\ (s \in Ringing => call[c].state \in Ringing)
      BY <1>3, <2>1 DEF Moves, Present, Following, Lasting, Ringing, States
    <2>3. call'[c] = [state |-> s, index |-> IF s = "over" THEN 0 ELSE call[c].index]
      BY <2>1 DEF ModuleInv
    <2>4. \A d \in Calls : d # c => call'[d] = call[d]
      BY <2>1 DEF ModuleInv
    <2>5. call' \in [Calls -> [state : States, index : Nat]]
      BY <2>1, <2>2 DEF ModuleInv
    <2>6. Present' = IF s = "over" THEN Present \ {c} ELSE Present
      <3>1. s \in Lasting <=> s # "over"
        BY <1>3, <2>1 DEF Moves, Present, Following, Lasting, Ringing
      <3> QED
        BY <2>2, <2>3, <2>4, <3>1 DEF Present
    <2>7. call'[c].state = s /\ (s # "over" => call'[c].index = call[c].index)
      BY <2>3
    <2>a. \A d \in Present' : d \in Present /\ call'[d].index = call[d].index
      <3> SUFFICES ASSUME NEW d \in Present' PROVE d \in Present /\ call'[d].index = call[d].index
        OBVIOUS
      <3>1. d \in Calls /\ (d = c => s # "over")
        BY <2>6 DEF Present
      <3> QED
        BY <2>2, <2>4, <2>6, <2>7, <3>1
    <2>8. \A d, e \in Present' : call'[d].index = call'[e].index => d = e
      BY <2>a DEF ModuleInv
    <2>9. \A d \in Present' : call'[d].index > 0
      BY <2>a DEF ModuleInv
    <2>10. \A d \in Calls : call'[d].state \in Ringing => call[d].state \in Ringing
      BY <2>2, <2>4, <2>7
    <2> QED
      BY <2>5, <2>8, <2>9, <2>10 DEF ModuleInv
  <1>4. CASE Unplugged
    <2>1. call' = [c \in Calls |-> IF c \in Present THEN [state |-> "over", index |-> 0] ELSE call[c]]
      BY <1>4 DEF Unplugged
    <2>2. \A c \in Calls : call'[c].state \notin Lasting
      BY <2>1 DEF Present, Lasting, Ringing
    <2>3. call' \in [Calls -> [state : States, index : Nat]]
      BY <2>1 DEF ModuleInv, States
    <2> QED
      BY <2>2, <2>3 DEF ModuleInv, Present, Lasting
  <1>5. CASE PollStep \/ Plugged \/ ForgetsConfiguration \/ UNCHANGED callVars
    BY <1>1, <1>5 DEF PollStep, BeginPoll, Configure, ListCalls, Plugged, ForgetsConfiguration,
                      moduleVars, callVars
  <1> QED
    BY <1>2, <1>3, <1>4, <1>5 DEF CallNext

(* Steps that leave the records alone. *)
LEMMA CallsMove ==
  ASSUME CallInv, UNCHANGED recordVars, callFaults' = callFaults \/ callFaults' = callFaults + 1,
         \A c \in Calls :
           /\ call'[c].state = "none" => call[c].state = "none"
           /\ call'[c].state \in Ringing =>
                \/ call[c].state \in Ringing /\ call'[c].index = call[c].index
                \/ call[c].state = "none"
           /\ call[c].state = "over" => call'[c].state = "over"
  PROVE  RingsInv' /\ RecordsInv'
  <1>1. \A c \in Calls : rings[c] \in Nat /\ callFaults \in Nat /\ callFaults' \in Nat /\ callFaults <= callFaults'
        /\ (callFaults' = 0 => callFaults = 0)
    BY DEF CallInv, RingsInv
  <1>2. \A c \in Calls : call'[c].state \in Ringing => rings[c] <= callFaults \/ Stands(c)'
    BY DEF CallInv, RingsInv, Stands, recordVars
  <1>3. RingsInv'
    BY <1>1, <1>2 DEF CallInv, RingsInv, RingsOnce, recordVars
  <1>4. \A c \in answered : call'[c].state \notin {"incoming", "waiting", "none"}
    BY DEF CallInv, RecordsInv, Ringing
  <1>5. callFaults' = 0 => callFaults = 0
    BY DEF CallInv, RingsInv
  <1>6. \A n \in DOMAIN callHistory :
       /\ callHistory[n].of \in Calls
       /\ NumberIsTrue(callHistory[n]) /\ MissedIsTrue(callHistory[n], rings', callFaults', answered')
       /\ callFaults' = 0 => call'[callHistory[n].of].state = "over"
    BY <1>5 DEF CallInv, RecordsInv, MissedIsTrue, recordVars
  <1> QED
    BY <1>3, <1>4, <1>5, <1>6 DEF CallInv, RecordsInv, recordVars, MissedIsTrue, NumberIsTrue,
       Missed, Ringing

(* What a poll sees is applied to the record. *)
LEMMA PollKeepsRings ==
  ASSUME CallInv, NEW n, attached, UNCHANGED call, ApplyCallPoll(Listed(n)),
         IF Listed(n) = Present THEN UNCHANGED callFaults ELSE CallFault
  PROVE  RingsInv'
  <1>1. callFaults \in Nat /\ rings \in [Calls -> Nat] /\ ModuleInv /\ Listed(n) \in SUBSET Present
    BY DEF CallInv, RingsInv, Listed
  <1>2. callFaults' = IF Listed(n) = Present THEN callFaults ELSE callFaults + 1
    BY DEF CallFault
  <1>3. CASE Listed(n) = {}
    <2>1. rings' = rings
      BY <1>3 DEF ApplyCallPoll
    <2>2. \A c \in Calls : call[c].state \in Ringing => rings[c] <= callFaults'
      <3>1. CASE Present = {}
        BY <3>1 DEF Present, Lasting
      <3>2. CASE Present # {}
        BY <1>1, <1>2, <1>3, <3>2 DEF CallInv, RingsInv, RingsOnce
      <3> QED
        BY <3>1, <3>2
    <2> QED
      BY <1>1, <1>2, <2>1, <2>2 DEF CallInv, RingsInv, RingsOnce
  <1>4. CASE Listed(n) # {}
    <2>0. PICK b : b = Selected(Listed(n))
      OBVIOUS
    <2> DEFINE s == Parsed(b)
    <2>1. b \in Calls /\ b \in Present
      BY <1>1, <1>4, <2>0, SelectedIsFirst DEF Present
    <2>2. /\ activeCall' = Updated(s)
          /\ rings' = IF Announces(s) THEN [rings EXCEPT ![b] = @ + 1] ELSE rings
      BY <1>4, <2>0 DEF ApplyCallPoll, Parsed
    <2>3. Announces(s) => call[b].state \in Ringing
      BY DEF Announces, Parsed
    <2>4. ~Announces(s) /\ call[b].state \in Ringing => Stands(b)
      <3>1. call[b].state \in Ringing => b \in Incoming
        BY <1>1, <2>1 DEF ModuleInv
      <3> QED
        BY <3>1 DEF Announces, IsAnother, Parsed, Stands
    <2>5. call[b].state \in Ringing => Stands(b)'
      <3>1. call[b].state \in Ringing => b \in Incoming
        BY <1>1, <2>1 DEF ModuleInv
      <3>2. activeCall'.index = call[b].index /\ activeCall'.incoming = (b \in Incoming)
            /\ activeCall'.state = call[b].state /\ activeCall' # NoRecord
        <4>1. activeCall'.index = call[b].index /\ activeCall'.incoming = (b \in Incoming)
              /\ activeCall'.state = call[b].state
          BY <2>2 DEF Updated, Parsed
        <4>2. call[b].index # 0
          BY <1>1, <2>1 DEF ModuleInv
        <4>3. NoRecord.index = 0
          BY DEF NoRecord
        <4> QED
          BY <4>1, <4>2, <4>3
      <3>3. call'[b] = call[b]
        OBVIOUS
      <3> HIDE DEF s
      <3> QED
        BY <3>1, <3>2, <3>3 DEF Stands
    <2>6. Announces(s) => ~Stands(b)
      BY DEF Announces, IsAnother, Parsed, Stands
    <2> HIDE DEF s
    <2>7. CASE Listed(n) = Present
      <3>1. callFaults' = callFaults
        BY <1>2, <2>7
      <3>2. \A c \in Calls : call[c].state \in Ringing => c = b
        <4>1. \A c \in Calls : call[c].state \in Ringing => c \in Listed(n)
          BY <2>7 DEF Present, Lasting
        <4> QED
          BY <1>1, <1>4, <2>0, <4>1, SelectedIsFirst
      <3>3. Announces(s) => rings[b] <= callFaults
        BY <2>1, <2>3, <2>6 DEF CallInv, RingsInv
      <3>4. \A c \in Calls : c # b => rings'[c] = rings[c]
        BY <1>1, <2>2
      <3>5. rings' \in [Calls -> Nat] /\ rings'[b] <= 1 + callFaults
        BY <1>1, <2>1, <2>2, <3>3 DEF CallInv, RingsInv, RingsOnce
      <3>6. call[b].state = "none" => ~Announces(s)
        BY <2>3 DEF Ringing
      <3>7. \A c \in Calls : call[c].state \in Ringing => Stands(c)'
        BY <2>5, <3>2
      <3>8. \A c \in Calls : call[c].state = "none" => rings'[c] = 0
        BY <2>2, <3>4, <3>6 DEF CallInv, RingsInv
      <3>9. \A c \in Calls : rings'[c] <= 1 + callFaults'
        BY <3>1, <3>4, <3>5 DEF CallInv, RingsInv, RingsOnce
      <3> QED
        BY <1>1, <3>1, <3>5, <3>7, <3>8, <3>9 DEF RingsInv, RingsOnce
    <2>8. CASE Listed(n) # Present
      <3>1. callFaults' = callFaults + 1
        BY <1>2, <2>8
      <3>2. rings' \in [Calls -> Nat] /\ \A c \in Calls : rings'[c] <= rings[c] + 1 /\ (c # b => rings'[c] = rings[c])
        BY <1>1, <2>1, <2>2
      <3>3. \A c \in Calls : rings[c] <= 1 + callFaults
        BY DEF CallInv, RingsInv, RingsOnce
      <3>4. \A c \in Calls : rings'[c] <= 1 + callFaults'
        BY <1>1, <3>1, <3>2, <3>3
      <3>5. \A c \in Calls : c # b => rings'[c] <= callFaults'
        BY <1>1, <3>1, <3>2, <3>3
      <3>6. call[b].state = "none" => ~Announces(s)
        BY <2>3 DEF Ringing
      <3>7. \A c \in Calls : call[c].state = "none" => rings'[c] = 0
        BY <1>1, <2>2, <3>2, <3>6 DEF CallInv, RingsInv
      <3>8. \A c \in Calls : call[c].state \in Ringing => rings'[c] <= callFaults' \/ Stands(c)'
        BY <2>5, <3>5
      <3> QED
        BY <1>1, <3>1, <3>2, <3>4, <3>7, <3>8 DEF RingsInv, RingsOnce
    <2> QED
      BY <2>7, <2>8
  <1> QED
    BY <1>3, <1>4

LEMMA PollKeepsRecords ==
  ASSUME CallInv, NEW n, attached, UNCHANGED call, ApplyCallPoll(Listed(n)),
         answered' = answered \cup {c \in Listed(n) : call[c].state = "active"},
         IF Listed(n) = Present THEN UNCHANGED callFaults ELSE CallFault
  PROVE  RecordsInv'
  <1>1. callFaults \in Nat /\ ModuleInv /\ RecordsInv /\ Listed(n) \in SUBSET Present /\ Present \subseteq Calls
    BY DEF CallInv, RingsInv, Listed, Present
  <1>2. callFaults' = 0 => callFaults = 0 /\ Listed(n) = Present
    BY <1>1 DEF CallFault
  <1>3. answered' \subseteq Calls /\ \A c \in answered' : call'[c].state \notin {"incoming", "waiting", "none"}
    BY <1>1 DEF RecordsInv
  <1>4. \A c \in answered' : c \in answered \/ call[c].state # "over"
    OBVIOUS
  <1>r. \A c \in Calls : rings[c] \in Nat /\ rings'[c] \in Nat /\ rings[c] <= rings'[c]
    <2>1. rings \in [Calls -> Nat]
      BY DEF CallInv, RingsInv
    <2>2. rings' = rings \/ \E b : rings' = [rings EXCEPT ![b] = @ + 1]
      BY DEF ApplyCallPoll
    <2> QED
      BY <2>1, <2>2
  <1>5. \A k \in DOMAIN callHistory :
          /\ callHistory[k].of \in Calls
          /\ NumberIsTrue(callHistory[k]) /\ MissedIsTrue(callHistory[k], rings', callFaults', answered')
          /\ callFaults' = 0 => call'[callHistory[k].of].state = "over"
    BY <1>1, <1>2, <1>4, <1>r DEF RecordsInv, MissedIsTrue
  <1>6. CASE Listed(n) = {}
    <2>1. activeCall' = NoRecord /\ answered' = answered
      BY <1>6 DEF ApplyCallPoll
    <2>2. CASE activeCall = NoRecord
      <3>1. callHistory' = callHistory
        BY <1>6, <2>2 DEF ApplyCallPoll
      <3> QED
        BY <1>1, <1>3, <1>5, <2>1, <3>1 DEF RecordsInv
    <2>3. CASE activeCall # NoRecord
      <3> DEFINE all == <<activeCall>> \o callHistory
                 k == Min({Len(all), MaxHistory})
      <3>1. callHistory' = SubSeq(all, 1, k)
        BY <1>6, <2>3 DEF ApplyCallPoll
      <3>2. PICK R : callHistory \in Seq(R)
        BY <1>1 DEF RecordsInv
      <3> DEFINE Q == R \cup {activeCall}
      <3>3. /\ all \in Seq(Q) /\ Len(all) \in Nat /\ Len(all) = Len(callHistory) + 1 /\ all[1] = activeCall
            /\ \A m \in 2 .. Len(all) : m - 1 \in DOMAIN callHistory /\ all[m] = callHistory[m - 1]
        <4>1. callHistory \in Seq(Q) /\ <<activeCall>> \in Seq(Q)
          BY <3>2
        <4> HIDE DEF Q
        <4> QED
          BY <4>1
      <3>4. k \in Nat /\ k <= Len(all)
        <4> HIDE DEF all, Q
        <4>1. PICK len : len = Len(all)
          OBVIOUS
        <4>2. len \in Nat /\ MaxHistory \in Nat
          BY <3>3, <4>1, CallAssumption
        <4>3. {len, MaxHistory} \in SUBSET Nat /\ {len, MaxHistory} # {}
          BY <4>2
        <4>4. Min({len, MaxHistory}) \in {len, MaxHistory} /\ Min({len, MaxHistory}) <= len
          BY <4>3, MinIsLeast
        <4> QED
          BY <4>1, <4>2, <4>4
      <3>5. callHistory' \in Seq(Q) /\ DOMAIN callHistory' = 1 .. k
            /\ \A m \in 1 .. k : callHistory'[m] = all[m]
        <4> HIDE DEF all, k, Q
        <4> QED
          BY <3>1, <3>3, <3>4
      <3>6. activeCall.of \in Calls /\ NumberIsTrue(activeCall) /\ MissedIsTrue(activeCall, rings', callFaults', answered')
            /\ (callFaults' = 0 => call'[activeCall.of].state = "over")
        <4>1. activeCall.of \in Calls /\ NumberIsTrue(activeCall) /\ MissedIsTrue(activeCall, rings, callFaults, answered)
              /\ call[activeCall.of].state # "none"
          BY <1>1, <2>3 DEF RecordsInv
        <4>2. MissedIsTrue(activeCall, rings', callFaults', answered')
          BY <1>2, <1>r, <2>1, <4>1 DEF MissedIsTrue
        <4>3. ASSUME callFaults' = 0 PROVE call[activeCall.of].state = "over"
          <5>1. activeCall.of \notin Present
            BY <1>2, <1>6, <4>3
          <5>2. call[activeCall.of].state \in States
            BY <1>1, <4>1 DEF ModuleInv
          <5> QED
            BY <4>1, <5>1, <5>2 DEF Present, States
        <4> QED
          BY <4>1, <4>2, <4>3
      <3> HIDE DEF all, k, Q
      <3>7. ASSUME NEW m \in DOMAIN callHistory'
            PROVE  /\ callHistory'[m].of \in Calls
                   /\ NumberIsTrue(callHistory'[m]) /\ MissedIsTrue(callHistory'[m], rings', callFaults', answered')
                   /\ callFaults' = 0 => call'[callHistory'[m].of].state = "over"
        <4>1. CASE m = 1
          <5>1. callHistory'[m] = activeCall
            BY <3>3, <3>5, <4>1
          <5> QED
            BY <3>6, <5>1 DEF MissedIsTrue
        <4>2. CASE m # 1
          <5>1. m - 1 \in DOMAIN callHistory /\ callHistory'[m] = callHistory[m - 1]
            BY <3>3, <3>4, <3>5, <3>7, <4>2
          <5> QED
            BY <1>5, <5>1 DEF MissedIsTrue
        <4> QED
          BY <4>1, <4>2
      <3> QED
        BY <1>3, <2>1, <3>5, <3>7 DEF RecordsInv, NumberIsTrue
    <2> QED
      BY <2>2, <2>3
  <1>7. CASE Listed(n) # {}
    <2>0. PICK b : b = Selected(Listed(n))
      OBVIOUS
    <2> DEFINE s == Parsed(b)
    <2>1. b \in Present /\ b \in Calls
      BY <1>1, <1>7, <2>0, SelectedIsFirst
    <2>2. activeCall' = Updated(s) /\ callHistory' = callHistory
      BY <1>7, <2>0 DEF ApplyCallPoll
    <2>3. /\ s.call = b /\ s.index = call[b].index /\ s.incoming = (b \in Incoming)
          /\ s.state = call[b].state /\ s.number = IF b \in Withheld THEN "" ELSE b
      BY DEF Parsed
    <2>4. /\ activeCall'.of = b /\ activeCall'.incoming = (b \in Incoming)
          /\ activeCall'.state = call[b].state
          /\ activeCall'.number = (IF s.number = "" /\ ~IsAnother(s) THEN activeCall.number ELSE s.number)
          /\ activeCall'.took = TakesOver(s)
          /\ rings' = IF Announces(s) THEN [rings EXCEPT ![b] = @ + 1] ELSE rings
      BY <1>7, <2>0, <2>2, <2>3 DEF Updated, ApplyCallPoll
    <2>5. NumberIsTrue(activeCall')
      BY <2>1, <2>3, <2>4, CallAssumption DEF NumberIsTrue
    <2>6. ASSUME Missed(activeCall') 
          PROVE  /\ rings'[activeCall'.of] > 0 \/ activeCall'.took
                 /\ callFaults' = 0 => activeCall'.of \notin answered'
      <3>1. b \in Incoming /\ call[b].state \in Ringing
        BY <2>4, <2>6 DEF Missed
      <3>2. b \notin answered'
        BY <1>3, <3>1 DEF Ringing
      <3>3. CASE Announces(s)
        <4>1. rings'[b] = rings[b] + 1 /\ rings[b] \in Nat
          BY <2>1, <2>4, <3>3 DEF CallInv, RingsInv
        <4>2. rings'[b] > 0
          BY <4>1
        <4>3. activeCall'.of = b
          BY <2>4
        <4> QED
          BY <3>2, <4>2, <4>3
      <3>4. CASE ~Announces(s)
        <4>1. ~IsAnother(s) /\ activeCall.state \in Ringing
          BY <2>3, <3>1, <3>4 DEF Announces
        <4>2. activeCall # NoRecord /\ activeCall.incoming = TRUE
          BY <2>3, <3>1, <4>1 DEF IsAnother
        <4>3. rings[activeCall.of] > 0 \/ activeCall.took
          BY <1>1, <4>1, <4>2 DEF RecordsInv, MissedIsTrue, Missed
        <4>4. activeCall.of = b => rings'[b] > 0 \/ TakesOver(s)
          BY <2>1, <2>3, <2>4, <1>r, <3>4, <4>1, <4>3 DEF TakesOver
        <4>5. activeCall.of # b => TakesOver(s)
          BY <2>3, <4>1 DEF TakesOver
        <4> QED
          BY <2>4, <3>2, <4>4, <4>5
      <3> QED
        BY <3>3, <3>4
    <2>7. call'[activeCall'.of].state # "none" /\ activeCall'.of \in Calls
      BY <2>1, <2>4 DEF Present, Lasting, Ringing
    <2> HIDE DEF s
    <2> QED
      BY <1>1, <1>3, <1>5, <2>2, <2>5, <2>6, <2>7 DEF RecordsInv, MissedIsTrue, NumberIsTrue
  <1> QED
    BY <1>6, <1>7

LEMMA CallStep == CallInv /\ [CallNext]_callVars => CallInv'
  <1> SUFFICES ASSUME CallInv, [CallNext]_callVars PROVE CallInv'
    OBVIOUS
  <1>1. ModuleInv'
    BY ModuleStep DEF CallInv
  <1>2. ASSUME UNCHANGED recordVars, UNCHANGED call, callFaults' = callFaults \/ callFaults' = callFaults + 1
        PROVE  CallInv'
    BY <1>1, <1>2, CallsMove DEF CallInv
  <1>3. CASE BeginPoll \/ Configure \/ Plugged \/ ForgetsConfiguration \/ UNCHANGED callVars
    BY <1>2, <1>3 DEF BeginPoll, Configure, Plugged, ForgetsConfiguration, CallFault, moduleVars,
                      recordVars, callVars
  <1>4. ASSUME NEW c \in Calls, Arises(c) PROVE CallInv'
    <2>1. PICK x : call' = [call EXCEPT ![c] = x] /\ x.state \in Lasting
      <3> DEFINE came(s) == [state |-> s, index |-> Free]
      <3>1. \E s \in {"incoming", "waiting", "dialing"} : call' = [call EXCEPT ![c] = came(s)]
        BY <1>4 DEF Arises
      <3>2. \A s \in {"incoming", "waiting", "dialing"} : came(s).state \in Lasting
        BY DEF Lasting, Ringing
      <3> HIDE DEF came
      <3> QED
        BY <3>1, <3>2
    <2>2. call[c].state = "none" /\ UNCHANGED recordVars /\ callFaults' = callFaults
      BY <1>4 DEF Arises
    <2> QED
      BY <1>1, <2>1, <2>2, CallsMove DEF CallInv, ModuleInv, Lasting, Ringing
  <1>5. ASSUME NEW c \in Calls, Moves(c) PROVE CallInv'
    <2>1. PICK s \in Following[call[c].state] :
            call' = [call EXCEPT ![c] = [state |-> s, index |-> IF s = "over" THEN 0 ELSE @.index]]
      BY <1>5 DEF Moves
    <2>2. c \in Present /\ s # "none" /\ (s \in Ringing => call[c].state \in Ringing /\ s # "over")
      BY <1>5, <2>1 DEF Moves, Present, Following, Lasting, Ringing
    <2>3. call'[c].state = s /\ (s # "over" => call'[c].index = call[c].index)
      BY <2>1 DEF CallInv, ModuleInv
    <2>4. \A d \in Calls : d # c => call'[d] = call[d]
      BY <2>1 DEF CallInv, ModuleInv
    <2>5. UNCHANGED recordVars /\ callFaults' = callFaults /\ call[c].state # "over"
      BY <1>5, <2>2 DEF Moves, Present, Lasting, Ringing
    <2> QED
      BY <1>1, <2>2, <2>3, <2>4, <2>5, CallsMove DEF CallInv
  <1>6. CASE Unplugged
    <2>1. call' = [c \in Calls |-> IF c \in Present THEN [state |-> "over", index |-> 0] ELSE call[c]]
          /\ UNCHANGED recordVars /\ callFaults' = callFaults
      BY <1>6 DEF Unplugged
    <2>2. \A c \in Calls : call'[c].state \notin Ringing /\ (call'[c].state = "none" => call[c].state = "none")
                        /\ (call[c].state = "over" => call'[c].state = "over")
      BY <2>1 DEF Present, Lasting, Ringing
    <2> QED
      BY <1>1, <2>1, <2>2, CallsMove DEF CallInv
  <1>7. CASE ListCalls
    <2>1. CASE UNCHANGED recordVars /\ IF attached THEN CallFault ELSE UNCHANGED callFaults
      BY <1>2, <1>7, <2>1 DEF ListCalls, CallFault, moduleVars
    <2>2. ASSUME NEW n, attached, ApplyCallPoll(Listed(n)),
                 answered' = answered \cup {c \in Listed(n) : call[c].state = "active"},
                 IF Listed(n) = Present THEN UNCHANGED callFaults ELSE CallFault
          PROVE  CallInv'
      <3>1. UNCHANGED call
        BY <1>7 DEF ListCalls, moduleVars
      <3> QED
        BY <1>1, <2>2, <3>1, PollKeepsRings, PollKeepsRecords DEF CallInv
    <2> QED
      BY <1>7, <2>1, <2>2 DEF ListCalls
  <1> QED
    BY <1>3, <1>4, <1>5, <1>6, <1>7 DEF CallNext, PollStep

(* A call is announced once, unless an answer that did not list it lets it *)
(* ring again; a missed call of the history was announced itself, unless   *)
(* it took over the record of another that rang under its index; a number  *)
(* is that of the caller, unless a caller without one took over: for any   *)
(* number of calls and faults and any length of the history (pollCallOnce, *)
(* applyCallPoll).                                                         *)
THEOREM CallsAreToldTrue == CallSpec => []CallsAreTold
  <1>1. CallInv => CallsAreTold
    <2> SUFFICES ASSUME CallInv PROVE CallsAreTold
      OBVIOUS
    <2>1. ToSet(callHistory) = {callHistory[n] : n \in DOMAIN callHistory}
      BY DEF ToSet
    <2>2. RecordsAreTrue
      BY <2>1 DEF CallInv, RecordsInv, RecordsAreTrue, Shown, NumberIsTrue, MissedIsTrue
    <2> QED
      BY <2>2 DEF CallInv, RingsInv, CallsAreTold
  <1> QED
    BY <1>1, CallInitially, CallStep, PTL DEF CallSpec

-----------------------------------------------------------------------------
(* The outbox.                                                             *)

ReadingPort == {"reads", "modeReads", "prompt", "text"}
Waiting == {"mode", "modeReads", "segment", "prompt"}

OutTypes ==
  /\ at \in [Clients -> Places]
  /\ \A c \in Clients : at[c] \in ReadingPort => port = c
  /\ \A s \in Senders : at[s] # "idle" => sendMu = s /\ at[s] # "reads" /\ result[s] = None
  /\ segment \in [Senders -> Nat] /\ \A s \in Senders : segment[s] \in 1 .. Segments[s]
  /\ result \in [Senders -> {None, "error", "sent"}]
StreamTypes ==
  /\ joined \in Seq(Tokens) /\ inbound \in Seq(Tokens) /\ due \in Seq(Tokens)
  /\ sent \in Seq(Senders \X Nat)

(* A prompt is the last thing that the module has to say, and its editor is *)
(* not closed before it was read.                                          *)
PromptIsLast ==
  /\ \A n \in DOMAIN inbound :
       inbound[n] = "prompt" => n = Len(inbound) /\ due = <<>> /\ editor # "closed"
  /\ \A n \in DOMAIN due : due[n] = "prompt" => n = Len(due) /\ editor # "closed"

(* So nothing but the answer to a text can follow a prompt.                *)
IsSent(s, i) == \E n \in DOMAIN sent : sent[n] = <<s, i>>
OnlyAnswer(s) ==
  /\ editor = "closed"
  /\ \/ inbound = <<>> /\ due = <<>>
     \/ \E said \in {"sent", "ERROR"} :
          /\ said = "sent" => IsSent(s, segment[s])
          /\ \/ inbound = <<said>> /\ due = <<>>
             \/ inbound = <<>> /\ due = <<said>>
TextIsAnswered == \A s \in Senders : at[s] = "text" => OnlyAnswer(s)

(* The segments of a message that are sent, and the last of them.          *)
UpTo(s, k) ==
  /\ \A n \in DOMAIN sent : sent[n][1] = s => sent[n][2] <= k
  /\ \A i \in 1 .. k : IsSent(s, i)
  /\ k > 0 => Len(sent) > 0 /\ sent[Len(sent)] = <<s, k>>
SentInOrder ==
  /\ \A s \in Senders :
       /\ at[s] = "idle" /\ result[s] = None => segment[s] = 1
       /\ (at[s] = "idle" /\ result[s] = None) \/ at[s] \in Waiting => UpTo(s, segment[s] - 1)
       /\ at[s] = "text" => UpTo(s, segment[s] - 1) \/ UpTo(s, segment[s])
  /\ \A n \in DOMAIN sent : sent[n][2] > 0
  /\ SentAsTold

OutInv == OutTypes /\ StreamTypes /\ PromptIsLast /\ TextIsAnswered /\ SentInOrder

LEMMA OutInitially == OutInit => OutInv
  <1> SUFFICES ASSUME OutInit PROVE OutInv
    OBVIOUS
  <1>1. OutTypes
    <2>1. at \in [Clients -> Places] /\ segment \in [Senders -> Nat]
          /\ result \in [Senders -> {None, "error", "sent"}]
      BY DEF OutInit, Places
    <2>2. \A s \in Senders : Segments[s] \in Nat /\ Segments[s] > 0
      BY OutAssumption
    <2> QED
      BY <2>1, <2>2 DEF OutInit, OutTypes, ReadingPort, Clients
  <1>5. StreamTypes
    BY DEF OutInit, StreamTypes
  <1>2. PromptIsLast /\ TextIsAnswered
    BY DEF OutInit, PromptIsLast, TextIsAnswered, Clients
  <1>3. SentAsTold
    BY DEF OutInit, SentAsTold, SegmentsStayTogether, AckMeansSent, None
  <1>4. SentInOrder
    BY <1>3 DEF OutInit, SentInOrder, UpTo, Waiting, Clients
  <1> QED
    BY <1>1, <1>2, <1>4, <1>5 DEF OutInv

(* A sender that has read its answer lets the port go and ends or goes on. *)
LEMMA EndsWell ==
  ASSUME OutTypes, NEW s \in Senders, at[s] \in ReadingPort, port' = None,
         NEW reply \in {"error", "sent"}, Ends(s, reply)
  PROVE  OutTypes'
  BY OutAssumption DEF Ends, At, OutTypes, Clients, Places, ReadingPort

LEMMA GoesOn ==
  ASSUME OutTypes, NEW s \in Senders, at[s] \in ReadingPort, port' = None, At(s, "segment"),
         UNCHANGED <<sendMu, result>>,
         segment' = segment \/ (segment' = [segment EXCEPT ![s] = @ + 1] /\ segment[s] # Segments[s])
  PROVE  OutTypes'
  <1>1. Segments[s] \in Nat /\ segment[s] \in 1 .. Segments[s]
    BY OutAssumption DEF OutTypes
  <1>2. segment' \in [Senders -> Nat] /\ \A q \in Senders : segment'[q] \in 1 .. Segments[q]
    BY <1>1 DEF OutTypes
  <1> QED
    BY <1>2, OutAssumption DEF At, OutTypes, Clients, Places, ReadingPort

LEMMA OutTypesStep == OutTypes /\ [OutNext]_outVars => OutTypes'
  <1> SUFFICES ASSUME OutTypes, [OutNext]_outVars PROVE OutTypes'
    OBVIOUS
  <1> USE OutAssumption DEF Clients, Places, ReadingPort, At
  <1>1. CASE Answers
    BY <1>1 DEF Answers, senderVars, OutTypes
  <1>2. ASSUME NEW u \in Users, PlainCommand(u) PROVE OutTypes'
    BY <1>2 DEF PlainCommand, Locks, Takes, senderVars, OutTypes
  <1>3. ASSUME NEW u \in Users, PlainReads(u) PROVE OutTypes'
    <2>1. at[u] = "reads" /\ UNCHANGED senderVars
      BY <1>3 DEF PlainReads
    <2>2. CASE UNCHANGED <<port, at>>
      BY <2>1, <2>2 DEF senderVars, OutTypes
    <2>3. CASE port' = None /\ At(u, "idle")
      BY <2>1, <2>3 DEF senderVars, OutTypes
    <2> QED
      BY <1>3, <2>2, <2>3 DEF PlainReads
  <1>4. ASSUME NEW u \in Users, PlainTimesOut(u) PROVE OutTypes'
    BY <1>4 DEF PlainTimesOut, senderVars, OutTypes
  <1>5. ASSUME NEW s \in Senders, LockSend(s) PROVE OutTypes'
    BY <1>5 DEF LockSend, OutTypes
  <1>6. ASSUME NEW s \in Senders, SetMode(s) PROVE OutTypes'
    BY <1>6 DEF SetMode, Locks, Takes, senderVars, OutTypes
  <1>7. ASSUME NEW s \in Senders, ModeReads(s) PROVE OutTypes'
    <2>1. at[s] = "modeReads"
      BY <1>7 DEF ModeReads
    <2>2. CASE UNCHANGED <<port, at, senderVars>>
      BY <2>2 DEF senderVars, OutTypes
    <2>3. CASE port' = None /\ At(s, "segment") /\ UNCHANGED senderVars
      BY <2>1, <2>3, GoesOn DEF senderVars
    <2>4. CASE port' = None /\ Ends(s, "error")
      BY <2>1, <2>4, EndsWell
    <2> QED
      BY <1>7, <2>2, <2>3, <2>4 DEF ModeReads
  <1>8. ASSUME NEW s \in Senders, ModeTimesOut(s) PROVE OutTypes'
    BY <1>8 DEF ModeTimesOut, Ends, OutTypes
  <1>9. ASSUME NEW s \in Senders, SendSegment(s) PROVE OutTypes'
    BY <1>9 DEF SendSegment, Locks, Takes, TakesCMGS, senderVars, OutTypes
  <1>10. ASSUME NEW s \in Senders, PromptReads(s) PROVE OutTypes'
    BY <1>10 DEF PromptReads, Read, TakesText, Ends, senderVars, OutTypes
  <1>11. ASSUME NEW s \in Senders, TextReads(s) PROVE OutTypes'
    <2>1. at[s] = "text"
      BY <1>11 DEF TextReads
    <2>2. CASE UNCHANGED <<port, at, senderVars>>
      BY <2>2 DEF senderVars, OutTypes
    <2>3. CASE port' = None /\ NextSegment(s)
      BY <2>1, <2>3, GoesOn, EndsWell DEF NextSegment
    <2>4. CASE port' = None /\ Ends(s, "error")
      BY <2>1, <2>4, EndsWell
    <2> QED
      BY <1>11, <2>2, <2>3, <2>4 DEF TextReads
  <1>12. ASSUME NEW s \in Senders, SegmentTimesOut(s) PROVE OutTypes'
    BY <1>12 DEF SegmentTimesOut, Ends, OutTypes
  <1>13. CASE UNCHANGED outVars
    BY <1>13 DEF outVars, OutTypes
  <1> QED
    BY <1>1, <1>2, <1>3, <1>4, <1>5, <1>6, <1>7, <1>8, <1>9, <1>10, <1>11, <1>12, <1>13
    DEF OutNext, Sends, Uses

(* What the primitives do with the streams. *)
LEMMA ReadsOne ==
  ASSUME StreamTypes, Read
  PROVE  /\ joined' \in Seq(Tokens) /\ inbound' \in Seq(Tokens) /\ Head(inbound) \in Tokens
         /\ joined' # <<>> /\ Last(joined') = Head(inbound)
         /\ DOMAIN inbound' = 1 .. Len(inbound) - 1 /\ Len(inbound') = Len(inbound) - 1
         /\ \A n \in DOMAIN inbound' : inbound'[n] = inbound[n + 1]
         /\ 1 \in DOMAIN inbound /\ Head(inbound) = inbound[1]
         /\ Contains(joined', Head(inbound))
  <1>1. /\ inbound \in Seq(Tokens) /\ joined \in Seq(Tokens) /\ inbound # <<>>
        /\ joined' = Append(joined, Head(inbound)) /\ inbound' = Tail(inbound)
    BY DEF StreamTypes, Read
  <1>2. Head(inbound) \in Tokens /\ Head(inbound) = inbound[1] /\ 1 \in DOMAIN inbound
    BY <1>1
  <1>3. inbound' \in Seq(Tokens) /\ DOMAIN inbound' = 1 .. Len(inbound) - 1
        /\ Len(inbound') = Len(inbound) - 1 /\ \A n \in DOMAIN inbound' : inbound'[n] = inbound[n + 1]
    BY <1>1
  <1>4. joined' \in Seq(Tokens) /\ Len(joined') = Len(joined) + 1 /\ joined'[Len(joined) + 1] = Head(inbound)
        /\ joined' # <<>> /\ Len(joined) \in Nat
    BY <1>1, <1>2
  <1> QED
    BY <1>2, <1>3, <1>4 DEF Last, Contains

(* A token that is appended to what is due. *)
Owes(token) ==
  /\ due' \in Seq(Tokens) /\ DOMAIN due' = DOMAIN due \cup {Len(due) + 1} /\ Len(due') = Len(due) + 1
  /\ \A n \in DOMAIN due : due'[n] = due[n]
  /\ due'[Len(due) + 1] = token
  /\ due = <<>> => due' = <<token>>

LEMMA OwesOne ==
  ASSUME StreamTypes, NEW token \in Tokens, due' = Append(due, token)
  PROVE  Owes(token)
  <1>1. due \in Seq(Tokens)
    BY DEF StreamTypes
  <1>2. due = <<>> => due' = <<token>>
    OBVIOUS
  <1> QED
    BY <1>1, <1>2 DEF Owes

LEMMA TakesOne ==
  ASSUME StreamTypes, NEW line, Takes(line)
  PROVE  /\ sent' = sent
         /\ \/ editor # "closed" /\ editor' = "spoiled" /\ due' = due
            \/ editor = "closed" /\ editor' = "closed" /\ \E token \in {"OK", "ERROR"} : Owes(token)
  BY OwesOne DEF Takes, Tokens

LEMMA TakesSegment ==
  ASSUME StreamTypes, NEW s, TakesCMGS(s)
  PROVE  /\ sent' = sent
         /\ \/ editor # "closed" /\ editor' = "spoiled" /\ due' = due
            \/ editor = "closed" /\ editor' = "open" /\ Owes("prompt")
            \/ editor = "closed" /\ editor' = "closed" /\ Owes("ERROR")
  <1>1. CASE editor # "closed"
    BY <1>1, TakesOne DEF TakesCMGS
  <1>2. CASE editor = "closed"
    BY <1>2, OwesOne DEF TakesCMGS, Tokens
  <1> QED
    BY <1>1, <1>2

(* A segment that is appended to what was sent. *)
SendsOne(s, k) ==
  /\ sent' \in Seq(Senders \X Nat) /\ Len(sent') = Len(sent) + 1
  /\ DOMAIN sent' = DOMAIN sent \cup {Len(sent) + 1}
  /\ \A n \in DOMAIN sent : n < Len(sent) + 1 /\ sent'[n] = sent[n]
  /\ sent'[Len(sent) + 1] = <<s, k>>

LEMMA TextIsTaken ==
  ASSUME StreamTypes, NEW s \in Senders, segment[s] \in Nat, TakesText(s)
  PROVE  /\ editor # "closed" /\ editor' = "closed"
         /\ \/ Owes("sent") /\ SendsOne(s, segment[s])
            \/ Owes("ERROR") /\ sent' = sent
  <1>1. CASE sent' = Append(sent, <<s, segment[s]>>) /\ due' = Append(due, "sent")
    <2>1. PICK one : one = <<s, segment[s]>>
      OBVIOUS
    <2>2. one \in Senders \X Nat /\ sent \in Seq(Senders \X Nat) /\ sent' = Append(sent, one)
      BY <1>1, <2>1 DEF StreamTypes
    <2>3. PICK P : P = Senders \X Nat
      OBVIOUS
    <2>4. /\ sent' \in Seq(P) /\ Len(sent') = Len(sent) + 1
          /\ DOMAIN sent' = DOMAIN sent \cup {Len(sent) + 1}
          /\ \A n \in DOMAIN sent : n < Len(sent) + 1 /\ sent'[n] = sent[n]
          /\ sent'[Len(sent) + 1] = one
      BY <2>2, <2>3
    <2>5. SendsOne(s, segment[s])
      BY <2>1, <2>3, <2>4 DEF SendsOne
    <2> QED
      BY <1>1, <2>5, OwesOne DEF TakesText, Tokens
  <1>2. CASE due' = Append(due, "ERROR") /\ UNCHANGED sent
    BY <1>2, OwesOne DEF TakesText, Tokens
  <1> QED
    BY <1>1, <1>2 DEF TakesText

LEMMA StreamsStep == OutTypes /\ StreamTypes /\ [OutNext]_outVars => StreamTypes'
  <1> SUFFICES ASSUME OutTypes, StreamTypes, [OutNext]_outVars PROVE StreamTypes'
    OBVIOUS
  <1>1. CASE Answers
    <2>1. due \in Seq(Tokens) /\ inbound \in Seq(Tokens) /\ due # <<>>
      BY <1>1 DEF Answers, StreamTypes
    <2>2. Tail(due) \in Seq(Tokens) /\ Append(inbound, Head(due)) \in Seq(Tokens)
      BY <2>1
    <2> QED
      BY <1>1, <2>2 DEF Answers, StreamTypes
  <1>2. ASSUME NEW u \in Users, PlainCommand(u) PROVE StreamTypes'
    BY <1>2, TakesOne DEF PlainCommand, Locks, Owes, StreamTypes
  <1>3. ASSUME NEW u \in Users, PlainReads(u) PROVE StreamTypes'
    BY <1>3, ReadsOne DEF PlainReads, StreamTypes
  <1>4. ASSUME NEW s \in Senders, SetMode(s) PROVE StreamTypes'
    BY <1>4, TakesOne DEF SetMode, Locks, Owes, StreamTypes
  <1>5. ASSUME NEW s \in Senders, ModeReads(s) PROVE StreamTypes'
    BY <1>5, ReadsOne DEF ModeReads, StreamTypes
  <1>6. ASSUME NEW s \in Senders, SendSegment(s) PROVE StreamTypes'
    BY <1>6, TakesSegment DEF SendSegment, Locks, Owes, StreamTypes
  <1>7. ASSUME NEW s \in Senders, PromptReads(s) PROVE StreamTypes'
    <2>1. Read /\ segment[s] \in Nat
      BY <1>7 DEF PromptReads, OutTypes
    <2>2. CASE due' = due /\ sent' = sent
      BY <2>1, <2>2, ReadsOne DEF StreamTypes
    <2>3. CASE TakesText(s)
      BY <2>1, <2>3, ReadsOne, TextIsTaken DEF Owes, SendsOne, StreamTypes
    <2> QED
      BY <1>7, <2>2, <2>3 DEF PromptReads
  <1>8. ASSUME NEW s \in Senders, TextReads(s) PROVE StreamTypes'
    BY <1>8, ReadsOne DEF TextReads, StreamTypes
  <1>9. CASE /\ UNCHANGED <<joined, inbound, due, sent>>
    BY <1>9 DEF StreamTypes
  <1> QED
    BY <1>1, <1>2, <1>3, <1>4, <1>5, <1>6, <1>7, <1>8, <1>9
    DEF OutNext, Sends, Uses, PlainTimesOut, LockSend, ModeTimesOut, SegmentTimesOut, outVars

LEMMA PromptStep == StreamTypes /\ PromptIsLast /\ TextIsAnswered /\ OutTypes /\ [OutNext]_outVars => PromptIsLast'
  <1> SUFFICES ASSUME StreamTypes, PromptIsLast, TextIsAnswered, OutTypes, [OutNext]_outVars
               PROVE  PromptIsLast'
    OBVIOUS
  <1>1. CASE Answers
    <2>1. due \in Seq(Tokens) /\ inbound \in Seq(Tokens) /\ due # <<>>
      BY <1>1 DEF Answers, StreamTypes
    <2>2. due' = Tail(due) /\ Len(due) \in Nat \ {0} /\ Len(due') = Len(due) - 1 /\ DOMAIN due' = 1 .. Len(due) - 1
          /\ \A n \in DOMAIN due' : due'[n] = due[n + 1] /\ n + 1 \in DOMAIN due
      BY <1>1, <2>1 DEF Answers
    <2>3. \A n \in DOMAIN due' : due'[n] = "prompt" => n = Len(due') /\ editor # "closed"
      BY <2>2 DEF PromptIsLast
    <2>4. editor' = editor
      BY <1>1 DEF Answers
    <2>5. CASE inbound' = inbound
      BY <2>1, <2>3, <2>4, <2>5 DEF PromptIsLast
    <2>6. CASE inbound' = Append(inbound, Head(due))
      <3>1. PICK token \in Tokens : token = due[1]
        BY <2>1
      <3>2. inbound' = Append(inbound, token)
        BY <2>1, <2>6, <3>1
      <3>3. Len(inbound') = Len(inbound) + 1 /\ DOMAIN inbound' = DOMAIN inbound \cup {Len(inbound) + 1}
            /\ (\A n \in DOMAIN inbound : inbound'[n] = inbound[n]) /\ inbound'[Len(inbound) + 1] = token
        BY <2>1, <3>2
      <3>4. \A n \in DOMAIN inbound : inbound[n] # "prompt"
        BY <2>1 DEF PromptIsLast
      <3>5. token = "prompt" => due' = <<>> /\ editor # "closed"
        <4> SUFFICES ASSUME token = "prompt" PROVE due' = <<>> /\ editor # "closed"
          OBVIOUS
        <4>1. 1 \in DOMAIN due /\ due[1] = "prompt"
          BY <2>2, <3>1
        <4>2. 1 = Len(due) /\ editor # "closed"
          BY <4>1 DEF PromptIsLast
        <4> QED
          BY <2>1, <2>2, <4>2
      <3> QED
        BY <2>3, <2>4, <3>3, <3>4, <3>5 DEF PromptIsLast
    <2> QED
      BY <1>1, <2>5, <2>6 DEF Answers
  <1>2. ASSUME inbound' = <<>>, editor = "closed", NEW token \in Tokens, Owes(token),
               token = "prompt" => editor' # "closed"
        PROVE  PromptIsLast'
    <2>1. \A n \in DOMAIN due : due[n] # "prompt"
      BY <1>2 DEF PromptIsLast
    <2> QED
      BY <1>2, <2>1 DEF PromptIsLast, Owes
  <1>3. ASSUME inbound' = <<>>, due' = due, editor' # "closed"
        PROVE  PromptIsLast'
    BY <1>3 DEF PromptIsLast
  <1>4. ASSUME Read, UNCHANGED <<due, editor>>
        PROVE  PromptIsLast'
    BY <1>4, ReadsOne DEF PromptIsLast
  <1>5. ASSUME NEW u \in Users, PlainCommand(u) PROVE PromptIsLast'
    BY <1>2, <1>3, <1>5, TakesOne DEF PlainCommand, Locks, Tokens
  <1>6. ASSUME NEW u \in Users, PlainReads(u) PROVE PromptIsLast'
    BY <1>4, <1>6 DEF PlainReads
  <1>7. ASSUME NEW s \in Senders, SetMode(s) PROVE PromptIsLast'
    BY <1>2, <1>3, <1>7, TakesOne DEF SetMode, Locks, Tokens
  <1>8. ASSUME NEW s \in Senders, ModeReads(s) \/ TextReads(s) PROVE PromptIsLast'
    BY <1>4, <1>8 DEF ModeReads, TextReads
  <1>9. ASSUME NEW s \in Senders, SendSegment(s) PROVE PromptIsLast'
    BY <1>2, <1>3, <1>9, TakesSegment DEF SendSegment, Locks, Tokens
  <1>10. ASSUME NEW s \in Senders, PromptReads(s) PROVE PromptIsLast'
    <2>1. CASE UNCHANGED <<due, editor>>
      BY <1>4, <1>10, <2>1 DEF PromptReads
    <2>2. CASE TakesText(s) /\ AtResponseHasPrompt(joined')
      <3>1. Read /\ Head(inbound) = "prompt" /\ segment[s] \in Nat
        BY <1>10, <2>2, ReadsOne DEF PromptReads, AtResponseHasPrompt, OutTypes
      <3>2. due = <<>> /\ Len(inbound') = 0
        BY <3>1, ReadsOne DEF PromptIsLast
      <3>3. inbound' = <<>>
        BY <3>1, <3>2, ReadsOne
      <3>4. due' = <<"sent">> \/ due' = <<"ERROR">>
        BY <2>2, <3>1, <3>2, TextIsTaken DEF Owes
      <3> QED
        BY <3>3, <3>4 DEF PromptIsLast
    <2> QED
      BY <1>10, <2>1, <2>2 DEF PromptReads
  <1>11. ASSUME NEW s \in Senders, SegmentTimesOut(s) PROVE PromptIsLast'
    <2>1. editor' = editor
      BY <1>11 DEF SegmentTimesOut, TextIsAnswered, OnlyAnswer
    <2> QED
      BY <1>11, <2>1 DEF SegmentTimesOut, PromptIsLast
  <1>12. CASE UNCHANGED <<inbound, due, editor>>
    BY <1>12 DEF PromptIsLast
  <1> QED
    BY <1>1, <1>5, <1>6, <1>7, <1>8, <1>9, <1>10, <1>11, <1>12
    DEF OutNext, Sends, Uses, PlainTimesOut, LockSend, ModeTimesOut, outVars

(* The prompt that a text answers was the last thing said, ... *)
LEMMA PromptIsRead ==
  ASSUME StreamTypes, PromptIsLast, NEW s \in Senders, segment[s] \in Nat, Read, TakesText(s),
         AtResponseHasPrompt(joined')
  PROVE  /\ editor' = "closed" /\ inbound' = <<>>
         /\ \/ due' = <<"sent">> /\ SendsOne(s, segment[s])
            \/ due' = <<"ERROR">> /\ sent' = sent
  <1>1. Head(inbound) = "prompt"
    BY ReadsOne DEF AtResponseHasPrompt
  <1>2. due = <<>> /\ Len(inbound') = 0
    BY <1>1, ReadsOne DEF PromptIsLast
  <1>3. inbound' = <<>>
    BY <1>2, ReadsOne
  <1> QED
    BY <1>2, <1>3, TextIsTaken DEF Owes

(* ... and the answer that is read is the answer to the text. *)
LEMMA AnswerIsRead ==
  ASSUME StreamTypes, NEW s \in Senders, OnlyAnswer(s), Read
  PROVE  AtResponseComplete(joined') /\ (Accepts(joined') => IsSent(s, segment[s]))
  <1>1. inbound # <<>>
    BY DEF Read
  <1>2. PICK said \in {"sent", "ERROR"} :
          inbound = <<said>> /\ (said = "sent" => IsSent(s, segment[s]))
    BY <1>1 DEF OnlyAnswer
  <1>3. Contains(joined', said)
    BY <1>2, ReadsOne
  <1>4. AtResponseComplete(joined')
    BY <1>3, ReadsOne DEF Contains, AtResponseComplete
  <1>5. said = "ERROR" => ~Accepts(joined')
    BY <1>3 DEF Accepts, AtResponseIsError
  <1> QED
    BY <1>2, <1>4, <1>5

LEMMA TextStep ==
  StreamTypes /\ PromptIsLast /\ TextIsAnswered /\ OutTypes /\ [OutNext]_outVars => TextIsAnswered'
  <1> SUFFICES ASSUME StreamTypes, PromptIsLast, TextIsAnswered, OutTypes, [OutNext]_outVars,
                      NEW s \in Senders, at'[s] = "text"
               PROVE  OnlyAnswer(s)'
    BY DEF TextIsAnswered
  <1>1. s \in Clients /\ at \in [Clients -> Places] /\ segment[s] \in Nat
    BY DEF OutTypes, Clients
  <1>2. CASE at[s] = "text"
    <2>1. OnlyAnswer(s) /\ port = s /\ sendMu = s
      BY <1>2, <1>1 DEF TextIsAnswered, OutTypes, ReadingPort
    <2>2. ASSUME UNCHANGED <<editor, inbound, due, sent, segment>> PROVE OnlyAnswer(s)'
      BY <2>1, <2>2 DEF OnlyAnswer, IsSent
    <2>3. CASE Answers
      <3>1. due # <<>> /\ inbound = <<>>
        BY <2>1, <2>3 DEF Answers, OnlyAnswer
      <3>2. PICK said \in {"sent", "ERROR"} :
              due = <<said>> /\ (said = "sent" => IsSent(s, segment[s]))
        BY <2>1, <3>1 DEF OnlyAnswer
      <3>3. due' = <<>> /\ (inbound' = <<>> \/ inbound' = <<said>>)
        BY <2>3, <3>1, <3>2 DEF Answers
      <3>4. UNCHANGED <<editor, sent, segment>>
        BY <2>3 DEF Answers, senderVars
      <3> QED
        BY <2>1, <3>2, <3>3, <3>4 DEF OnlyAnswer, IsSent
    <2>4. s # None /\ s \notin Users
      BY OutAssumption, <1>1
    <2>5. ASSUME NEW u \in Users, PlainCommand(u) \/ Uses(u) PROVE FALSE
      BY <2>1, <2>4, <2>5 DEF PlainCommand, Locks, Uses, PlainReads, PlainTimesOut, OutTypes,
         ReadingPort, Clients
    <2>6. ASSUME NEW q \in Senders, Sends(q) PROVE FALSE
      <3>1. CASE q # s
        <4>1. q \in Clients /\ at[q] \notin ReadingPort /\ sendMu # None /\ at[q] = "idle"
          BY <2>1, <2>4, <3>1 DEF OutTypes, Clients
        <4> QED
          BY <2>6, <4>1 DEF Sends, LockSend, SetMode, ModeReads, ModeTimesOut, SendSegment,
                            PromptReads, TextReads, SegmentTimesOut
      <3>2. CASE q = s
        <4>1. TextReads(s) \/ SegmentTimesOut(s)
          BY <1>2, <2>6, <3>2 DEF Sends, LockSend, SetMode, ModeReads, ModeTimesOut, SendSegment,
                            PromptReads
        <4>2. ASSUME NEW place, At(s, place), place # "text" PROVE FALSE
          BY <1>1, <4>2 DEF At
        <4>3. CASE TextReads(s)
          <5>1. AtResponseComplete(joined')
            BY <2>1, <4>3, AnswerIsRead DEF TextReads
          <5> QED
            BY <4>2, <4>3, <5>1 DEF TextReads, NextSegment, Ends
        <4>4. CASE SegmentTimesOut(s)
          BY <4>2, <4>4 DEF SegmentTimesOut, Ends
        <4> QED
          BY <4>1, <4>3, <4>4
      <3> QED
        BY <3>1, <3>2
    <2> QED
      BY <2>2, <2>3, <2>5, <2>6 DEF OutNext, outVars, senderVars
  <1>3. CASE at[s] # "text"
    <2>1. PromptReads(s) /\ TakesText(s) /\ AtResponseHasPrompt(joined')
      <3>1. ASSUME NEW c \in Clients, NEW place, At(c, place), place # "text" PROVE FALSE
        BY <1>1, <1>3, <3>1 DEF At
      <3>2. ASSUME NEW c \in Clients, c # s, NEW place, At(c, place) PROVE FALSE
        BY <1>1, <1>3, <3>2 DEF At
      <3>3. at' # at
        BY <1>3
      <3>4. ~Answers /\ ~UNCHANGED outVars
        BY <3>3 DEF Answers, outVars
      <3>5. ASSUME NEW u \in Users, PlainCommand(u) \/ Uses(u) PROVE FALSE
        BY <3>1, <3>3, <3>5 DEF PlainCommand, Uses, PlainReads, PlainTimesOut, Clients
      <3>6. ASSUME NEW q \in Senders, ~PromptReads(q) PROVE ~Sends(q)
        <4>1. q \in Clients
          BY DEF Clients
        <4>2. ~LockSend(q) /\ ~SetMode(q) /\ ~ModeTimesOut(q) /\ ~SendSegment(q) /\ ~SegmentTimesOut(q)
          BY <3>1, <4>1 DEF LockSend, SetMode, ModeTimesOut, SendSegment, SegmentTimesOut, Ends
        <4>3. ~ModeReads(q)
          BY <3>1, <3>3, <4>1 DEF ModeReads, Ends
        <4>4. ~TextReads(q)
          BY <3>1, <3>3, <4>1 DEF TextReads, NextSegment, Ends
        <4> QED
          BY <3>6, <4>2, <4>3, <4>4 DEF Sends
      <3>7. PICK q \in Senders : PromptReads(q)
        BY <3>4, <3>5, <3>6 DEF OutNext
      <3>8. TakesText(q) /\ AtResponseHasPrompt(joined') /\ At(q, "text")
        BY <3>1, <3>3, <3>7 DEF PromptReads, Ends, Clients
      <3> QED
        BY <3>2, <3>7, <3>8 DEF Clients
    <2>2. /\ editor' = "closed" /\ inbound' = <<>>
          /\ \/ due' = <<"sent">> /\ SendsOne(s, segment[s])
             \/ due' = <<"ERROR">> /\ sent' = sent
      BY <1>1, <2>1, PromptIsRead DEF PromptReads
    <2>3. segment' = segment
      BY <1>1, <1>3, <2>1 DEF PromptReads, Ends, senderVars
    <2>4. SendsOne(s, segment[s]) => IsSent(s, segment[s])'
      BY <2>3 DEF SendsOne, IsSent
    <2> QED
      BY <2>2, <2>4 DEF OnlyAnswer
  <1> QED
    BY <1>2, <1>3
(* A segment that goes to the network goes after the one before it. *)
LEMMA SentOne ==
  ASSUME StreamTypes, SentInOrder, NEW s \in Senders, NEW k \in Nat \ {0}, UpTo(s, k - 1),
         SendsOne(s, k), result' = result
  PROVE  /\ UpTo(s, k)' /\ SentAsTold'
         /\ \A n \in DOMAIN sent' : sent'[n][2] > 0
         /\ \A q \in Senders : q # s /\ UpTo(q, 0) => UpTo(q, 0)'
  <1> DEFINE L == Len(sent)
  <1>1. /\ L \in Nat /\ Len(sent') = L + 1 /\ DOMAIN sent' = DOMAIN sent \cup {L + 1}
        /\ \A n \in DOMAIN sent : n < L + 1 /\ sent'[n] = sent[n]
        /\ DOMAIN sent = 1 .. L
    BY DEF SendsOne, StreamTypes
  <1>2. sent'[L + 1] = <<s, k>> /\ sent'[L + 1][1] = s /\ sent'[L + 1][2] = k
    BY DEF SendsOne
  <1> HIDE DEF L
  <1>3. \A n \in DOMAIN sent : sent[n][2] \in Nat /\ sent[n] = <<sent[n][1], sent[n][2]>>
    <2> SUFFICES ASSUME NEW n \in DOMAIN sent
                 PROVE  sent[n][2] \in Nat /\ sent[n] = <<sent[n][1], sent[n][2]>>
      OBVIOUS
    <2>1. sent[n] \in Senders \X Nat
      BY DEF StreamTypes
    <2> QED
      BY <2>1
  <1>4. \A q, i : IsSent(q, i) => IsSent(q, i)'
    BY <1>1 DEF IsSent
  <1>5. IsSent(s, k)'
    BY <1>1, <1>2 DEF IsSent
  <1>6. UpTo(s, k)'
    <2>1. \A n \in DOMAIN sent' : sent'[n][1] = s => sent'[n][2] <= k
      BY <1>1, <1>2, <1>3 DEF UpTo
    <2>2. \A i \in 1 .. k : IsSent(s, i)'
      BY <1>4, <1>5 DEF UpTo
    <2> QED
      BY <1>1, <1>2, <2>1, <2>2 DEF UpTo
  <1>7. SegmentsStayTogether'
    <2> SUFFICES ASSUME NEW n \in DOMAIN sent'
                 PROVE  /\ sent'[n][2] > 1 => n > 1 /\ sent'[n - 1] = <<sent'[n][1], sent'[n][2] - 1>>
                        /\ \A m \in DOMAIN sent' : sent'[m] = sent'[n] => m = n
      BY DEF SegmentsStayTogether
    <2>1. \A m \in DOMAIN sent : sent[m] # <<s, k>>
      BY <1>3 DEF UpTo
    <2>2. CASE n \in DOMAIN sent
      <3>1. sent[n][2] > 1 => n > 1 /\ sent[n - 1] = <<sent[n][1], sent[n][2] - 1>>
        BY <2>2 DEF SentInOrder, SentAsTold, SegmentsStayTogether
      <3>2. \A m \in DOMAIN sent : sent[m] = sent[n] => m = n
        BY <2>2 DEF SentInOrder, SentAsTold, SegmentsStayTogether
      <3>3. n > 1 => n - 1 \in DOMAIN sent
        BY <1>1, <2>2
      <3> QED
        BY <1>1, <1>2, <2>1, <2>2, <3>1, <3>2, <3>3
    <2>3. CASE n = L + 1
      <3>1. k > 1 => L > 0 /\ sent[L] = <<s, k - 1>>
        BY DEF UpTo, L
      <3>2. L > 0 => L \in DOMAIN sent
        BY <1>1
      <3> QED
        BY <1>1, <1>2, <2>1, <2>3, <3>1, <3>2
    <2> QED
      BY <1>1, <2>2, <2>3
  <1>8. AckMeansSent'
    <2>1. AckMeansSent /\ \A q, i : IsSent(q, i) <=> \E n \in DOMAIN sent : sent[n] = <<q, i>>
      BY DEF SentInOrder, SentAsTold, IsSent
    <2>2. \A q, i : IsSent(q, i)' <=> \E n \in DOMAIN sent' : sent'[n] = <<q, i>>
      BY DEF IsSent
    <2> QED
      BY <1>4, <2>1, <2>2 DEF AckMeansSent
  <1>9. \A n \in DOMAIN sent' : sent'[n][2] > 0
    BY <1>1, <1>2 DEF SentInOrder
  <1>10. ASSUME NEW q \in Senders, q # s, UpTo(q, 0) PROVE UpTo(q, 0)'
    BY <1>1, <1>2, <1>10 DEF UpTo
  <1> QED
    BY <1>6, <1>7, <1>8, <1>9, <1>10 DEF SentAsTold

(* A sender takes a step and nothing is sent. *)
LEMMA NothingSent ==
  ASSUME SentInOrder, OutTypes, NEW s \in Senders, sent' = sent,
         \A q \in Senders : q # s => at'[q] = at[q] /\ segment'[q] = segment[q] /\ result'[q] = result[q],
         at'[s] = "idle" /\ result'[s] = None => at[s] = "idle" /\ result[s] = None /\ segment'[s] = segment[s],
         at'[s] \in Waiting \cup {"text"} => UpTo(s, segment'[s] - 1),
         result'[s] = "sent" => \A i \in 1 .. Segments[s] : IsSent(s, i)
  PROVE  SentInOrder'
  <1>1. \A q, k : UpTo(q, k)' <=> UpTo(q, k)
    BY DEF UpTo, IsSent
  <1>2. \A q \in Senders : UpTo(q, segment[q] - 1)' <=> UpTo(q, segment'[q] - 1)
    BY DEF UpTo, IsSent
  <1>3. \A q \in Senders : UpTo(q, segment[q])' <=> UpTo(q, segment'[q])
    BY DEF UpTo, IsSent
  <1>4. \A q \in Senders :
       /\ at'[q] = "idle" /\ result'[q] = None => segment'[q] = 1
       /\ (at'[q] = "idle" /\ result'[q] = None) \/ at'[q] \in Waiting => UpTo(q, segment'[q] - 1)
       /\ at'[q] = "text" => UpTo(q, segment'[q] - 1) \/ UpTo(q, segment'[q])
    BY DEF SentInOrder
  <1>5. SegmentsStayTogether'
    BY DEF SentInOrder, SentAsTold, SegmentsStayTogether
  <1>6. AckMeansSent'
    BY DEF SentInOrder, SentAsTold, AckMeansSent, IsSent
  <1> QED
    BY <1>2, <1>3, <1>4, <1>5, <1>6 DEF SentInOrder, SentAsTold

LEMMA SentStep == OutInv /\ [OutNext]_outVars => SentInOrder'
  <1> SUFFICES ASSUME OutInv, [OutNext]_outVars PROVE SentInOrder'
    OBVIOUS
  <1>0. OutTypes /\ StreamTypes /\ PromptIsLast /\ TextIsAnswered /\ SentInOrder
    BY DEF OutInv
  <1>1. ASSUME sent' = sent, UNCHANGED <<segment, result>>, \A s \in Senders : at'[s] = at[s]
        PROVE  SentInOrder'
    BY <1>1 DEF OutInv, SentInOrder, SentAsTold, SegmentsStayTogether, AckMeansSent, UpTo, IsSent
  <1>2. CASE Answers
    BY <1>1, <1>2 DEF Answers, senderVars
  <1>3. ASSUME NEW u \in Users, PlainCommand(u) \/ Uses(u) PROVE SentInOrder'
    <2>1. \A s \in Senders : at'[s] = at[s]
      BY <1>3, OutAssumption DEF PlainCommand, Uses, PlainReads, PlainTimesOut, At, OutInv,
         OutTypes, Clients
    <2>2. sent' = sent
      BY <1>0, <1>3, TakesOne DEF PlainCommand, Uses, PlainReads, PlainTimesOut
    <2> QED
      BY <1>1, <1>3, <2>1, <2>2 DEF PlainCommand, Uses, PlainReads, PlainTimesOut, senderVars
  <1>4. ASSUME NEW s \in Senders, Sends(s) PROVE SentInOrder'
    <2>1. s \in Clients /\ at \in [Clients -> Places] /\ s # None
      BY OutAssumption DEF OutInv, OutTypes, Clients
    <2>2. ASSUME NEW place, At(s, place)
          PROVE  at'[s] = place /\ \A q \in Senders : q # s => at'[q] = at[q]
      BY <2>1, <2>2 DEF At, Clients
    <2>3. ASSUME sent' = sent, Ends(s, "error") PROVE SentInOrder'
      <3>1. result' \in [Senders -> {None, "error", "sent"}] /\ result'[s] = "error" /\ at'[s] = "idle"
            /\ \A q \in Senders : q # s => at'[q] = at[q] /\ segment'[q] = segment[q] /\ result'[q] = result[q]
        BY <1>0, <2>2, <2>3 DEF Ends, OutTypes
      <3> QED
        BY <1>0, <2>3, <3>1, NothingSent DEF None, Waiting
    <2>4. ASSUME sent' = sent, UNCHANGED <<segment, result>>, NEW place \in Waiting, At(s, place),
                 at[s] \in Waiting \/ (at[s] = "idle" /\ result[s] = None)
          PROVE  SentInOrder'
      <3>1. UpTo(s, segment'[s] - 1) /\ result'[s] = None /\ place # "idle"
        BY <1>0, <2>4 DEF SentInOrder, OutTypes, Waiting
      <3> QED
        BY <1>0, <2>2, <2>4, <3>1, NothingSent DEF None
    <2>5. CASE LockSend(s)
      BY <2>4, <2>5 DEF LockSend, Waiting
    <2>6. CASE SetMode(s)
      BY <1>0, <2>4, <2>6, TakesOne DEF SetMode, senderVars, Waiting
    <2>7. CASE ModeReads(s)
      BY <1>1, <2>3, <2>4, <2>7 DEF ModeReads, senderVars, Waiting
    <2>8. CASE ModeTimesOut(s) \/ SegmentTimesOut(s)
      BY <2>3, <2>8 DEF ModeTimesOut, SegmentTimesOut
    <2>9. CASE SendSegment(s)
      BY <1>0, <2>4, <2>9, TakesSegment DEF SendSegment, senderVars, Waiting
    <2>10. CASE PromptReads(s)
      <3>1. CASE sent' = sent /\ (UNCHANGED <<at, senderVars>> \/ Ends(s, "error"))
        BY <1>1, <2>3, <3>1 DEF senderVars
      <3>2. CASE TakesText(s) /\ AtResponseHasPrompt(joined') /\ At(s, "text") /\ UNCHANGED senderVars
        <4>1. segment[s] \in Nat \ {0} /\ UpTo(s, segment[s] - 1) /\ result[s] = None /\ Read
          BY <1>0, <2>10 DEF PromptReads, OutTypes, SentInOrder, Waiting
        <4>2. CASE sent' = sent
          <5>1. at'[s] = "text" /\ segment' = segment /\ result' = result
            BY <2>2, <3>2 DEF senderVars
          <5> QED
            BY <1>0, <2>2, <3>2, <4>1, <4>2, <5>1, NothingSent DEF None
        <4>3. CASE SendsOne(s, segment[s])
          <5>1. PICK k \in Nat \ {0} : k = segment[s]
            BY <4>1
          <5>2. segment' = segment /\ result' = result
            BY <3>2 DEF senderVars
          <5>3. /\ UpTo(s, k)' /\ SentAsTold' /\ \A n \in DOMAIN sent' : sent'[n][2] > 0
                /\ \A q \in Senders : q # s /\ UpTo(q, 0) => UpTo(q, 0)'
            BY <1>0, <4>1, <4>3, <5>1, <5>2, SentOne
          <5>4. UpTo(s, segment[s])'
            BY <5>1, <5>2, <5>3 DEF UpTo, IsSent
          <5>5. ASSUME NEW q \in Senders, q # s
                PROVE  /\ at'[q] = "idle"
                       /\ result'[q] = None => segment'[q] = 1 /\ UpTo(q, segment[q] - 1)'
            <6>1. at'[q] = at[q] /\ at[q] = "idle"
              BY <1>0, <2>1, <2>2, <2>10, <3>2, <5>5 DEF PromptReads, OutTypes
            <6>2. result[q] = None => segment[q] = 1 /\ UpTo(q, segment[q] - 1)
              BY <1>0, <6>1 DEF SentInOrder
            <6>3. ASSUME result[q] = None PROVE UpTo(q, segment[q] - 1)'
              <7>1. UpTo(q, 0)
                BY <6>2, <6>3
              <7>2. UpTo(q, 0)'
                BY <5>3, <5>5, <7>1
              <7>3. segment'[q] - 1 = 0
                BY <5>2, <6>2, <6>3
              <7> QED
                BY <7>2, <7>3 DEF UpTo, IsSent
            <6> QED
              BY <5>2, <6>1, <6>2, <6>3
          <5>6. at'[s] = "text"
            BY <2>2, <3>2
          <5> QED
            BY <5>3, <5>4, <5>5, <5>6 DEF SentInOrder, Waiting
        <4> QED
          BY <1>0, <3>2, <4>1, <4>2, <4>3, TextIsTaken
      <3> QED
        BY <2>10, <3>1, <3>2 DEF PromptReads
    <2>11. CASE TextReads(s)
      <3>1. at[s] = "text" /\ Read /\ OnlyAnswer(s) /\ sent' = sent /\ segment[s] \in 1 .. Segments[s]
            /\ segment[s] \in Nat
        BY <1>0, <2>11 DEF TextReads, TextIsAnswered, OutTypes
      <3>2. AtResponseComplete(joined') /\ (Accepts(joined') => IsSent(s, segment[s]))
        BY <1>0, <3>1, AnswerIsRead
      <3>3. CASE ~Accepts(joined')
        BY <2>3, <2>11, <3>1, <3>2, <3>3 DEF TextReads
      <3>4. CASE Accepts(joined')
        <4>1. NextSegment(s) /\ IsSent(s, segment[s])
          BY <2>11, <3>2, <3>4 DEF TextReads
        <4>2. UpTo(s, segment[s])
          <5>1. CASE UpTo(s, segment[s] - 1)
            <6>1. PICK n \in DOMAIN sent : sent[n] = <<s, segment[s]>>
              BY <4>1 DEF IsSent
            <6>2. sent[n][1] = s /\ sent[n][2] = segment[s]
              BY <6>1
            <6> QED
              BY <3>1, <5>1, <6>2 DEF UpTo
          <5> QED
            BY <1>0, <3>1, <5>1 DEF SentInOrder
        <4>3. CASE segment[s] = Segments[s]
          <5>1. result'[s] = "sent" /\ at'[s] = "idle" /\ segment' = segment
                /\ \A q \in Senders : q # s => at'[q] = at[q] /\ result'[q] = result[q]
            BY <1>0, <2>2, <4>1, <4>3 DEF NextSegment, Ends, OutTypes
          <5>2. \A i \in 1 .. Segments[s] : IsSent(s, i)
            BY <4>2, <4>3 DEF UpTo
          <5> QED
            BY <1>0, <3>1, <5>1, <5>2, NothingSent DEF None, Waiting
        <4>4. CASE segment[s] # Segments[s]
          <5>1. segment' = [segment EXCEPT ![s] = @ + 1] /\ at'[s] = "segment" /\ result' = result
                /\ \A q \in Senders : q # s => at'[q] = at[q] /\ segment'[q] = segment[q]
            BY <1>0, <2>2, <4>1, <4>4 DEF NextSegment, OutTypes
          <5>2. segment'[s] - 1 = segment[s] /\ result[s] = None
            BY <1>0, <3>1, <5>1 DEF OutTypes
          <5>3. UpTo(s, segment'[s] - 1)
            BY <4>2, <5>2
          <5> QED
            BY <1>0, <3>1, <5>1, <5>2, <5>3, NothingSent DEF None
        <4> QED
          BY <4>3, <4>4
      <3> QED
        BY <3>3, <3>4
    <2> QED
      BY <1>4, <2>5, <2>6, <2>7, <2>8, <2>9, <2>10, <2>11 DEF Sends
  <1>5. CASE UNCHANGED outVars
    BY <1>1, <1>5 DEF outVars
  <1> QED
    BY <1>2, <1>3, <1>4, <1>5 DEF OutNext

(* The segments of a message go out in order and in one piece, and a       *)
(* request that was told "sent" has all of them with the network, for any  *)
(* number of requests, segments, pollers and faults (sendUSBATSMS,         *)
(* usbAT.CommandWithPrompt).                                               *)
THEOREM MessagesGoAsTold == OutSpec => []SentAsTold
  <1>1. OutInv => SentAsTold
    BY DEF OutInv, SentInOrder
  <1>2. OutInv /\ [OutNext]_outVars => OutInv'
    BY OutTypesStep, StreamsStep, PromptStep, TextStep, SentStep DEF OutInv
  <1> QED
    BY <1>1, <1>2, OutInitially, PTL DEF OutSpec

-----------------------------------------------------------------------------
(* The readiness gate: one probe at a time, nobody stranded, and the       *)
(* refinement of SingleFlightGate.                                        *)

(* The inductive invariant: an open gate has no probe in flight, which     *)
(* keeps a late report from shutting a gate that another probe opened.     *)
GateInv == AuthTypeOK /\ OneProber /\ NobodyIsStranded /\ (ready => ~probing)

LEMMA GateInit == AuthInit => GateInv
  <1> SUFFICES ASSUME AuthInit PROVE GateInv
    OBVIOUS
  <1>1. CardProbers = {}
    BY DEF AuthInit, CardProbers
  <1>2. AuthTypeOK
    <2>1. 0 \in 0..MaxInvalidations
      BY GateAssumption
    <2> QED
      BY <2>1 DEF AuthInit, AuthTypeOK
  <1>3. OneProber
    BY <1>1 DEF AuthInit, OneProber
  <1>4. NobodyIsStranded
    BY DEF AuthInit, NobodyIsStranded
  <1> QED
    BY <1>2, <1>3, <1>4 DEF AuthInit, GateInv

(* Steps that neither begin nor end a probe. *)
LEMMA CallerStep ==
  ASSUME GateInv, NEW c \in AuthCallers,
         AuthCall(c) \/ ReturnReady(c) \/ JoinProbe(c) \/ ProbeReturns(c) \/ GiveUp(c)
  PROVE  GateInv'
  <1>1. CardProbers' = CardProbers /\ UNCHANGED <<generation, ready, probing, waitC, seen>>
    BY DEF AuthCall, ReturnReady, JoinProbe, ProbeReturns, GiveUp, CardProbers, GateInv, AuthTypeOK
  <1>2. AuthTypeOK'
    BY DEF AuthCall, ReturnReady, JoinProbe, ProbeReturns, GiveUp, GateInv, AuthTypeOK
  <1>3. OneProber'
    BY <1>1 DEF OneProber, GateInv
  <1>4. NobodyIsStranded'
    <2>1. CASE JoinProbe(c)
      <3>1. waitC \in CardProbers
        BY <2>1, GateAssumption DEF JoinProbe, GateInv, OneProber, AuthTypeOK
      <3> QED
        BY <1>1, <2>1, <3>1 DEF JoinProbe, NobodyIsStranded, GateInv, AuthTypeOK
    <2>2. CASE AuthCall(c) \/ ReturnReady(c) \/ ProbeReturns(c) \/ GiveUp(c)
      BY <1>1, <2>2
      DEF AuthCall, ReturnReady, ProbeReturns, GiveUp, NobodyIsStranded, GateInv, AuthTypeOK
    <2> QED
      BY <2>1, <2>2
  <1> QED
    BY <1>1, <1>2, <1>3, <1>4 DEF GateInv

LEMMA StartProbeStep ==
  ASSUME GateInv, NEW c \in AuthCallers, StartProbe(c)
  PROVE  GateInv' /\ CardProbers' = {c} /\ CardProbers = {}
  <1>1. CardProbers = {}
    BY DEF StartProbe, GateInv, OneProber
  <1>2. CardProbers' = {c}
    BY <1>1 DEF StartProbe, CardProbers, GateInv, AuthTypeOK
  <1>3. AuthTypeOK'
    BY DEF StartProbe, GateInv, AuthTypeOK
  <1>4. OneProber'
    BY <1>2, GateAssumption DEF StartProbe, OneProber, GateInv, AuthTypeOK
  <1>5. NobodyIsStranded'
    BY <1>1 DEF StartProbe, NobodyIsStranded, GateInv, AuthTypeOK
  <1> QED
    BY <1>1, <1>2, <1>3, <1>4, <1>5 DEF GateInv, StartProbe

LEMMA ReportStep ==
  ASSUME GateInv, NEW c \in AuthCallers, Report(c)
  PROVE  GateInv' /\ CardProbers = {c} /\ CardProbers' = {} /\ ~ready
  <1>1. CardProbers = {c} /\ probing /\ ~ready /\ waitC = c
    BY DEF Report, CardProbers, GateInv, OneProber, AuthTypeOK
  <1>2. \A d \in AuthCallers : d # c => spot[d] \in {"out", "look", "wait"}
    BY <1>1 DEF CardProbers, GateInv, AuthTypeOK
  <1>3. CardProbers' = {}
    BY <1>2 DEF Report, AuthWoken, CardProbers, GateInv, AuthTypeOK
  <1>4. AuthTypeOK'
    BY DEF Report, AuthWoken, GateInv, AuthTypeOK
  <1>5. OneProber'
    BY <1>1, <1>3 DEF Report, OneProber
  <1>6. \A d \in AuthCallers : spot[d] = "wait" => waitsOn[d] = c
    BY <1>1 DEF GateInv, NobodyIsStranded
  <1>7. \A d \in AuthCallers : spot'[d] # "wait"
    BY <1>2, <1>6 DEF Report, AuthWoken, GateInv, AuthTypeOK
  <1> QED
    BY <1>1, <1>3, <1>4, <1>5, <1>7 DEF GateInv, NobodyIsStranded, Report

LEMMA InvalidateStep ==
  ASSUME GateInv, Invalidate
  PROVE  GateInv'
  <1>1. generation' \in 0..MaxInvalidations /\ generation <= generation'
    BY GateAssumption DEF Invalidate, GateInv, AuthTypeOK
  <1>2. AuthTypeOK'
    BY <1>1 DEF Invalidate, GateInv, AuthTypeOK
  <1>3. CardProbers' = CardProbers
    BY DEF Invalidate, CardProbers
  <1>4. \A c \in CardProbers : seen[c] <= generation'
    BY <1>1, GateAssumption DEF GateInv, AuthTypeOK, OneProber, CardProbers
  <1>5. OneProber'
    BY <1>3, <1>4 DEF Invalidate, OneProber, GateInv
  <1> QED
    BY <1>2, <1>3, <1>5 DEF Invalidate, NobodyIsStranded, GateInv

LEMMA GateNext == GateInv /\ [AuthNext]_authVars => GateInv'
  <1> SUFFICES ASSUME GateInv, [AuthNext]_authVars PROVE GateInv'
    OBVIOUS
  <1>1. CASE UNCHANGED authVars
    BY <1>1 DEF authVars, GateInv, AuthTypeOK, OneProber, NobodyIsStranded, CardProbers
  <1>2. CASE Invalidate
    BY <1>2, InvalidateStep
  <1>3. ASSUME NEW c \in AuthCallers, StartProbe(c)
        PROVE  GateInv'
    BY <1>3, StartProbeStep
  <1>4. ASSUME NEW c \in AuthCallers, Report(c)
        PROVE  GateInv'
    BY <1>4, ReportStep
  <1>5. ASSUME NEW c \in AuthCallers,
               AuthCall(c) \/ ReturnReady(c) \/ JoinProbe(c) \/ ProbeReturns(c) \/ GiveUp(c)
        PROVE  GateInv'
    BY <1>5, CallerStep
  <1> QED
    BY <1>1, <1>2, <1>3, <1>4, <1>5 DEF AuthNext

LEMMA GateInvariant == AuthSpec => []GateInv
  BY GateInit, GateNext, PTL DEF AuthSpec

(* One probe of the card runs at a time, and the channel waiters capture   *)
(* is the one it closes (WaitSIMAuthReady, probing and waitC).             *)
THEOREM ProbesAreShared == AuthSpec => []OneProber
  <1>1. GateInv => OneProber
    BY DEF GateInv
  <1> QED
    BY <1>1, GateInvariant, PTL

(* No waiter is left on a channel that nobody will close.                  *)
THEOREM WaitersAreNotStranded == AuthSpec => []NobodyIsStranded
  <1>1. GateInv => NobodyIsStranded
    BY DEF GateInv
  <1> QED
    BY <1>1, GateInvariant, PTL

-----------------------------------------------------------------------------
(* The refinement: every step is a step of the gate or leaves it as it is. *)

LEMMA GateInitRefines == AuthInit => Gate!Init
  BY DEF AuthInit, Gate!Init, GateState

LEMMA GateStepRefines == GateInv /\ [AuthNext]_authVars => [Gate!Next]_GateState
  <1> SUFFICES ASSUME GateInv, [AuthNext]_authVars PROVE [Gate!Next]_GateState
    OBVIOUS
  <1> USE DEF Gate!Next
  <1>1. CASE UNCHANGED authVars
    <2>1. CardProbers' = CardProbers
      BY <1>1 DEF authVars, CardProbers
    <2> QED
      BY <1>1, <2>1 DEF authVars, GateState
  <1>2. CASE Invalidate
    <2>1. CardProbers' = CardProbers /\ ~ready' /\ probing' = probing /\ seen' = seen
      BY <1>2 DEF Invalidate, CardProbers
    <2>2. \A c \in CardProbers : seen[c] # generation'
      BY <1>2 DEF Invalidate, GateInv, OneProber, AuthTypeOK, CardProbers
    <2>3. CASE ready
      <3>1. GateState = "open" /\ GateState' = "shut"
        BY <2>1, <2>3 DEF GateState, GateInv
      <3> QED
        BY <3>1 DEF Gate!Invalidate
    <2>4. CASE ~ready /\ ~probing
      BY <2>1, <2>4 DEF GateState
    <2>5. CASE ~ready /\ probing
      <3>1. GateState \in {"probing", "tainted"} /\ GateState' = "tainted"
        BY <2>1, <2>2, <2>5 DEF GateState
      <3> QED
        BY <3>1 DEF Gate!Invalidate
    <2> QED
      BY <2>3, <2>4, <2>5
  <1>3. ASSUME NEW c \in AuthCallers, StartProbe(c)
        PROVE  [Gate!Next]_GateState
    <2>1. CardProbers' = {c} /\ ~ready /\ ~probing
      BY <1>3, StartProbeStep DEF StartProbe
    <2>2. ~ready' /\ probing' /\ seen'[c] = generation'
      BY <1>3 DEF StartProbe, GateInv, AuthTypeOK
    <2>3. GateState = "shut" /\ GateState' = "probing"
      BY <2>1, <2>2 DEF GateState
    <2> QED
      BY <2>3 DEF Gate!BeginProbe
  <1>4. ASSUME NEW c \in AuthCallers, Report(c)
        PROVE  [Gate!Next]_GateState
    <2>1. CardProbers = {c} /\ ~ready /\ probing
      BY <1>4, ReportStep DEF GateInv, OneProber
    <2>2. CASE generation = seen[c] /\ good[c]
      <3>1. GateState = "probing" /\ GateState' = "open"
        BY <1>4, <2>1, <2>2 DEF GateState, Report
      <3> QED
        BY <3>1 DEF Gate!Succeed
    <2>3. CASE ~(generation = seen[c] /\ good[c])
      <3>1. ~ready' /\ ~probing'
        BY <1>4, <2>1, <2>3 DEF Report, GateInv, AuthTypeOK
      <3>2. GateState \in {"probing", "tainted"} /\ GateState' = "shut"
        BY <2>1, <3>1 DEF GateState
      <3> QED
        BY <3>2 DEF Gate!EndShut
    <2> QED
      BY <2>2, <2>3
  <1>5. ASSUME NEW c \in AuthCallers,
               AuthCall(c) \/ ReturnReady(c) \/ JoinProbe(c) \/ ProbeReturns(c) \/ GiveUp(c)
        PROVE  [Gate!Next]_GateState
    <2>1. CardProbers' = CardProbers /\ UNCHANGED <<generation, ready, probing, seen>>
      BY <1>5 DEF AuthCall, ReturnReady, JoinProbe, ProbeReturns, GiveUp, CardProbers, GateInv, AuthTypeOK
    <2> QED
      BY <2>1 DEF GateState
  <1> QED
    BY <1>1, <1>2, <1>3, <1>4, <1>5 DEF AuthNext

(* The gate of the code implements the abstract gate: it opens only on a   *)
(* successful probe that no invalidation has overtaken.                    *)
THEOREM Refinement == AuthSpec => RefinesGate
  BY GateInitRefines, GateStepRefines, GateInvariant, PTL
  DEF AuthSpec, RefinesGate, Gate!Spec

-----------------------------------------------------------------------------
(* Receiving SMS: what a poll has listed stays in somebody's hands, and what *)
(* the reassembler puts together is whole.                                 *)

References == {Reference[m] : m \in Messages}
LongItems == {i \in Items : i[1] \in Long \ Broken}

(* The parts of an entry: one item, or the two of a long message in order. *)
WholeText(parts) ==
  \/ \E i \in Items \ LongItems : parts = <<i>>
  \/ \E m \in Long \ Broken : parts = <<<<m, 1>>, <<m, 2>>>>
WholeParts == {parts \in Seq(Items) : WholeText(parts)}
WholeEntries ==
  [parts : WholeParts, at : ({"sent"} \X Items) \cup ({"now"} \X (0 .. MaxNow))]

SMSPlaces == {"idle", "merge", "clearSelect", "clearDelete", "clearCheck",
           "selectSM", "selectME", "listSM", "listME", "readSM", "readME"}
SMSTypes ==
  /\ store \in [Memories -> Seq(Items)] /\ selected \in Memories
  /\ inbox \in Seq(WholeEntries)
  /\ todo \in [Goroutines -> Seq(Items)]
  /\ messages \in [Goroutines -> Seq(WholeEntries)]
  /\ pc \in [Goroutines -> SMSPlaces]
  /\ now \in 0 .. MaxNow /\ listed \subseteq Items

(* The reassembler waits for one part at most of each message: with the other *)
(* it is put together.                                                     *)
Alone(r, fragments) ==
  fragments = <<>> \/ \E i \in LongItems : Reference[i[1]] = r /\ fragments = <<i>>
PartsWait ==
  cache \in [References -> Seq(Items)] /\ \A r \in References : Alone(r, cache[r])

(* What a poll has still to decode it has listed and is reading. *)
OnlyReadersHave ==
  \A g \in Goroutines : todo[g] # <<>> => \E m \in Memories : pc[g] = ReadPlace[m]

(* Stronger than ListedIsKept: what has been listed is in hand even when the *)
(* module no longer has it, so that clearing a memory loses nothing.       *)
Held(i) ==
  \/ i \in PartsOf(inbox) \/ \E r \in References : Contains(cache[r], i)
  \/ \E g \in Goroutines : Contains(todo[g], i) \/ i \in PartsOf(messages[g])
ListedIsHeld == \A i \in listed : Held(i) \/ i \in forgotten

SMSInv == SMSTypes /\ PartsWait /\ OnlyReadersHave /\ ListedIsHeld

LEMMA TwoNumbers ==
  ASSUME NEW i \in Items
  PROVE  /\ i = <<i[1], i[2]>> /\ i[1] \in Messages /\ i[2] \in {1, 2}
         /\ i[1] \notin Long => i[2] = 1
  BY DEF Items, Parts

LEMMA PartsCount ==
  ASSUME NEW m
  PROVE  /\ m \in Long => Cardinality(Parts(m)) = 2
         /\ m \notin Long => Cardinality(Parts(m)) = 1
<1>1. m \notin Long => Cardinality(Parts(m)) = 1
  BY FS_Singleton DEF Parts
<1>2. ASSUME m \in Long PROVE Cardinality(Parts(m)) = 2
  <2>1. IsFiniteSet({1}) /\ Cardinality({1}) = 1
    BY FS_Singleton
  <2>2. 2 \notin {1} /\ {1, 2} = {1} \cup {2}
    OBVIOUS
  <2>3. Cardinality({1, 2}) = 2
    BY <2>1, <2>2, FS_AddElement
  <2>. QED
    BY <1>2, <2>3 DEF Parts
<1>. QED
  BY <1>1, <1>2

LEMMA PairCount ==
  ASSUME NEW x, NEW y, x # y
  PROVE  Cardinality({x, y}) = 2
<1>1. IsFiniteSet({x}) /\ Cardinality({x}) = 1
  BY FS_Singleton
<1>2. y \notin {x} /\ {x, y} = {x} \cup {y}
  OBVIOUS
<1>. QED
  BY <1>1, <1>2, FS_AddElement

(* The two parts of a message, sorted, whichever came first. *)
LEMMA SortedPair ==
  ASSUME NEW m, NEW fragments,
         DOMAIN fragments = 1 .. 2,
         \/ fragments[1] = <<m, 1>> /\ fragments[2] = <<m, 2>>
         \/ fragments[1] = <<m, 2>> /\ fragments[2] = <<m, 1>>
  PROVE  BySeq(fragments) = <<<<m, 1>>, <<m, 2>>>>
<1> DEFINE S == {<<m, 1>>, <<m, 2>>}
           sorted == <<<<m, 1>>, <<m, 2>>>>
           InOrder == {s \in [1 .. 2 -> S] :
              ToSet(s) = S /\ \A i, j \in DOMAIN s : i < j => s[i][2] < s[j][2]}
<1>1. ToSet(fragments) = S
  <2>1. DOMAIN fragments = {1, 2}
    OBVIOUS
  <2>. QED
    BY <2>1 DEF ToSet
<1>2. Cardinality(S) = 2
  <2>1. <<m, 1>> # <<m, 2>>
    OBVIOUS
  <2>. QED
    BY <2>1, PairCount
<1>3. BySeq(fragments) = CHOOSE s \in InOrder : TRUE
  BY <1>1, <1>2 DEF BySeq, Ordered
<1>4. sorted \in InOrder
  <2>1. sorted \in [1 .. 2 -> S] /\ DOMAIN sorted = {1, 2}
    OBVIOUS
  <2>2. sorted[1] = <<m, 1>> /\ sorted[2] = <<m, 2>>
    OBVIOUS
  <2>3. ToSet(sorted) = S
    BY <2>1, <2>2 DEF ToSet
  <2>. QED
    BY <2>1, <2>2, <2>3
<1>5. ASSUME NEW s \in InOrder PROVE s = sorted
  <2>1. s \in [1 .. 2 -> S] /\ s[1] \in S /\ s[2] \in S
    OBVIOUS
  <2>2. s[1][2] < s[2][2]
    OBVIOUS
  <2>3. s[1] = <<m, 1>> /\ s[2] = <<m, 2>>
    BY <2>1, <2>2
  <2>. QED
    BY <2>1, <2>3
<1>. QED
  BY <1>3, <1>4, <1>5

(* What Reassembler.Add does with a part: it keeps the first, drops one that *)
(* it has, and puts the two together.                                      *)
LEMMA AddCases ==
  ASSUME SMSAssumption, PartsWait, NEW item \in LongItems
  PROVE  LET key == Reference[item[1]]
             added == Add(item)
         IN  /\ key \in References
             /\ \/ /\ cache[key] = <<>> /\ ~added.complete
                   /\ added.cache = [cache EXCEPT ![key] = <<item>>]
                \/ /\ cache[key] = <<item>> /\ ~added.complete
                   /\ added.cache = cache
                \/ \E other \in LongItems :
                     /\ cache[key] = <<other>> /\ added.complete
                     /\ added.cache = [cache EXCEPT ![key] = <<>>]
                     /\ BySeq(Append(cache[key], item)) =
                          <<<<item[1], 1>>, <<item[1], 2>>>>
                     /\ item \in {<<item[1], 1>>, <<item[1], 2>>}
                     /\ other \in {<<item[1], 1>>, <<item[1], 2>>}
<1> DEFINE key == Reference[item[1]]
           fragments == Append(cache[key], item)
<1>1. item \in Items /\ item[1] \in Long \ Broken /\ key \in References
  BY TwoNumbers DEF LongItems, References
<1>2. Alone(key, cache[key])
  BY <1>1 DEF PartsWait
<1>3. Cardinality(Parts(item[1])) = 2
  BY <1>1, PartsCount
<1>4. CASE cache[key] = <<>>
  <2>1. DOMAIN cache[key] = {} /\ fragments = <<item>> /\ Len(fragments) = 1
    BY <1>4
  <2>2. Add(item) = [complete |-> FALSE, cache |-> [cache EXCEPT ![key] = fragments],
                     aged |-> aged \ {key}]
    BY <2>1, <1>3 DEF Add
  <2>. QED
    BY <1>1, <1>4, <2>1, <2>2
<1>5. ASSUME NEW other \in LongItems, Reference[other[1]] = key, cache[key] = <<other>>
      PROVE  \/ item = other /\ Add(item).cache = cache /\ ~Add(item).complete
             \/ /\ Add(item).complete /\ Add(item).cache = [cache EXCEPT ![key] = <<>>]
                /\ BySeq(fragments) = <<<<item[1], 1>>, <<item[1], 2>>>>
                /\ item \in {<<item[1], 1>>, <<item[1], 2>>}
                /\ other \in {<<item[1], 1>>, <<item[1], 2>>}
  <2>1. other \in Items /\ other[1] \in Long \ Broken
    BY DEF LongItems
  <2>2. other[1] = item[1]
    BY <1>1, <1>5, <2>1 DEF SMSAssumption
  <2>3. /\ item = <<item[1], item[2]>> /\ item[2] \in {1, 2}
        /\ other = <<item[1], other[2]>> /\ other[2] \in {1, 2}
    BY <1>1, <2>1, <2>2, TwoNumbers
  <2>4. DOMAIN cache[key] = {1} /\ cache[key][1] = other
    BY <1>5
  <2>5. CASE item[2] = other[2]
    <3>1. Add(item) = [complete |-> FALSE, cache |-> cache, aged |-> aged]
      BY <2>4, <2>5 DEF Add
    <3>2. item = other
      BY <2>3, <2>5
    <3>. QED
      BY <3>1, <3>2
  <2>6. CASE item[2] # other[2]
    <3>1. /\ DOMAIN fragments = 1 .. 2 /\ Len(fragments) = 2
          /\ fragments[1] = other /\ fragments[2] = item
      <4>1. fragments = Append(<<other>>, item) /\ <<other>> \in Seq(Items) /\ item \in Items
        BY <1>1, <1>5, <2>1
      <4>2. fragments \in Seq(Items) /\ Len(fragments) = 2
        BY <4>1
      <4>3. fragments[1] = other /\ fragments[2] = item
        BY <4>1
      <4>. QED
        BY <4>2, <4>3
    <3>2. Add(item) = [complete |-> TRUE, cache |-> [cache EXCEPT ![key] = <<>>],
                       aged |-> aged \ {key}]
      BY <1>3, <2>4, <2>6, <3>1 DEF Add
    <3>3. \/ item = <<item[1], 1>> /\ other = <<item[1], 2>>
          \/ item = <<item[1], 2>> /\ other = <<item[1], 1>>
      BY <2>3, <2>6
    <3>4. BySeq(fragments) = <<<<item[1], 1>>, <<item[1], 2>>>>
      BY <3>1, <3>3, SortedPair
    <3>. QED
      BY <3>2, <3>3, <3>4
  <2>. QED
    BY <2>5, <2>6
<1>. QED
  BY <1>1, <1>2, <1>4, <1>5 DEF Alone

(* A step that leaves what has been listed where it is. *)
LEMMA HandsOff ==
  ASSUME SMSInv, UNCHANGED <<inbox, todo, messages, cache, listed, forgotten, now>>,
         store' \in [Memories -> Seq(Items)], selected' \in Memories,
         pc' \in [Goroutines -> SMSPlaces],
         \A g \in Goroutines : pc'[g] = pc[g] \/ todo[g] = <<>>
  PROVE  SMSInv'
<1>1. SMSTypes'
  BY DEF SMSInv, SMSTypes
<1>2. PartsWait'
  BY DEF SMSInv, PartsWait, Alone
<1>3. OnlyReadersHave'
  BY DEF SMSInv, OnlyReadersHave
<1>4. ListedIsHeld'
  BY DEF SMSInv, ListedIsHeld, Held, PartsOf, Contains
<1>. QED
  BY <1>1, <1>2, <1>3, <1>4 DEF SMSInv

(* A goroutine that is not reading has nothing left to decode. *)
LEMMA NothingLeft ==
  ASSUME SMSInv, NEW g \in Goroutines, \A m \in Memories : pc[g] # ReadPlace[m]
  PROVE  todo[g] = <<>>
BY DEF SMSInv, OnlyReadersHave

LEMMA PlacesDiffer ==
  ASSUME NEW m \in Memories, NEW n \in Memories
  PROVE  /\ SelectPlace[m] # ReadPlace[n] /\ ListPlace[m] # ReadPlace[n]
         /\ SelectPlace[m] \in SMSPlaces /\ ListPlace[m] \in SMSPlaces /\ ReadPlace[m] \in SMSPlaces
         /\ ReadPlace[m] \notin {"idle", "merge", "clearSelect", "clearDelete", "clearCheck"}
<1>1. Memories = {"SM", "ME"}
  BY DEF Memories
<1>2. SelectPlace["SM"] = "selectSM" /\ SelectPlace["ME"] = "selectME"
  BY DEF SelectPlace
<1>3. ListPlace["SM"] = "listSM" /\ ListPlace["ME"] = "listME"
  BY DEF ListPlace
<1>4. ReadPlace["SM"] = "readSM" /\ ReadPlace["ME"] = "readME"
  BY DEF ReadPlace
<1>5. /\ SelectPlace[m] \in {"selectSM", "selectME"} /\ ListPlace[m] \in {"listSM", "listME"}
      /\ ReadPlace[m] \in {"readSM", "readME"} /\ ReadPlace[n] \in {"readSM", "readME"}
  BY <1>1, <1>2, <1>3, <1>4
<1>7. SelectPlace[m] \in SMSPlaces /\ ListPlace[m] \in SMSPlaces /\ ReadPlace[m] \in SMSPlaces
  BY <1>5 DEF SMSPlaces
<1>8. SelectPlace[m] # ReadPlace[n] /\ ListPlace[m] # ReadPlace[n]
  BY <1>5
<1>9. ReadPlace[m] \notin {"idle", "merge", "clearSelect", "clearDelete", "clearCheck"}
  BY <1>5
<1>. QED
  BY <1>7, <1>8, <1>9

LEMMA ItsPlace ==
  ASSUME SMSInv, NEW g \in Goroutines, NEW place \in SMSPlaces, Goto(g, place)
  PROVE  /\ pc' \in [Goroutines -> SMSPlaces] /\ pc'[g] = place
         /\ \A h \in Goroutines : pc'[h] = pc[h] \/ h = g
BY DEF SMSInv, SMSTypes, Goto

(* The same, of a goroutine that moves on. *)
LEMMA MovesOn ==
  ASSUME SMSInv, NEW g \in Goroutines, todo[g] = <<>>,
         UNCHANGED <<inbox, todo, messages, cache, listed, forgotten, now>>,
         store' \in [Memories -> Seq(Items)], selected' \in Memories,
         pc' = pc \/ \E place \in SMSPlaces : Goto(g, place)
  PROVE  SMSInv'
<1>1. pc' \in [Goroutines -> SMSPlaces] /\ \A h \in Goroutines : pc'[h] = pc[h] \/ h = g
  BY ItsPlace DEF SMSInv, SMSTypes
<1>. QED
  BY <1>1, HandsOff

LEMMA StartPollStep ==
  ASSUME SMSInv, NEW g \in Goroutines, StartPoll(g) \/ StartClear(g)
  PROVE  SMSInv'
<1>1. /\ UNCHANGED <<inbox, todo, messages, cache, listed, forgotten, now>>
      /\ UNCHANGED <<store, selected>> /\ pc[g] = "idle"
      /\ pc' = pc \/ \E place \in SMSPlaces : Goto(g, place)
  BY DEF StartPoll, StartClear, Starts, moduleState, SMSPlaces
<1>2. todo[g] = <<>>
  BY <1>1, NothingLeft, PlacesDiffer
<1>. QED
  BY <1>1, <1>2, MovesOn DEF SMSInv, SMSTypes

LEMMA PassesPlace ==
  ASSUME NEW g, NEW m, Passes(g, m)
  PROVE  \E place \in SMSPlaces : Goto(g, place)
BY DEF Passes, AfterMemory, SMSPlaces

LEMMA SelectsOne ==
  ASSUME SMSInv, NEW m \in Memories, NEW ok, Selects(m, ok)
  PROVE  selected' \in Memories
BY DEF Selects, SMSInv, SMSTypes

LEMMA SelectStep ==
  ASSUME SMSInv, NEW g \in Goroutines, NEW m \in Memories, SelectMemory(g, m)
  PROVE  SMSInv'
<1>1. /\ UNCHANGED <<inbox, todo, messages, cache, listed, forgotten, now>>
      /\ UNCHANGED store /\ pc[g] = SelectPlace[m]
      /\ \/ Selects(m, TRUE) /\ Goto(g, ListPlace[m])
         \/ Selects(m, FALSE) /\ Passes(g, m)
  BY DEF SelectMemory, bookKeeping
<1>2. todo[g] = <<>>
  BY <1>1, NothingLeft, PlacesDiffer
<1>3. selected' \in Memories
  BY <1>1, SelectsOne
<1>4. \E place \in SMSPlaces : Goto(g, place)
  BY <1>1, PassesPlace, PlacesDiffer
<1>. QED
  BY <1>1, <1>2, <1>3, <1>4, MovesOn DEF SMSInv, SMSTypes

LEMMA ListStep ==
  ASSUME SMSInv, NEW g \in Goroutines, NEW m \in Memories, ListMemory(g, m)
  PROVE  SMSInv'
<1>1. /\ UNCHANGED <<inbox, messages, cache, forgotten, now, store, selected>>
      /\ pc[g] = ListPlace[m]
  BY DEF ListMemory, moduleState
<1>2. todo[g] = <<>>
  BY <1>1, NothingLeft, PlacesDiffer
<1>3. ASSUME Passes(g, m), UNCHANGED <<todo, listed>> PROVE SMSInv'
  BY <1>1, <1>2, <1>3, PassesPlace, MovesOn DEF SMSInv, SMSTypes
<1>4. ASSUME NEW n \in 0 .. Len(store[selected]),
             todo' = [todo EXCEPT ![g] = SubSeq(store[selected], 1, n)],
             listed' = listed \cup ToSet(SubSeq(store[selected], 1, n)),
             Goto(g, ReadPlace[m])
      PROVE  SMSInv'
  <2> DEFINE list == SubSeq(store[selected], 1, n)
  <2>1. store[selected] \in Seq(Items)
    BY DEF SMSInv, SMSTypes
  <2>2. list \in Seq(Items)
    BY <2>1
  <2>3. /\ todo' \in [Goroutines -> Seq(Items)] /\ todo'[g] = list
        /\ \A h \in Goroutines : h # g => todo'[h] = todo[h]
    BY <1>4, <2>2 DEF SMSInv, SMSTypes
  <2>4. \A i \in ToSet(list) : i \in Items /\ Contains(todo'[g], i)
    BY <2>2, <2>3 DEF ToSet, Contains
  <2>5. /\ pc' \in [Goroutines -> SMSPlaces] /\ pc'[g] = ReadPlace[m]
        /\ \A h \in Goroutines : pc'[h] = pc[h] \/ h = g
    BY <1>4, ItsPlace, PlacesDiffer
  <2>6. SMSTypes'
    BY <1>1, <1>4, <2>3, <2>4, <2>5 DEF SMSInv, SMSTypes
  <2>7. PartsWait'
    BY <1>1 DEF SMSInv, PartsWait, Alone
  <2>8. OnlyReadersHave'
    BY <2>3, <2>5 DEF SMSInv, OnlyReadersHave
  <2>9. ListedIsHeld'
    <3>1. SUFFICES ASSUME NEW i \in listed' PROVE Held(i)' \/ i \in forgotten'
      BY DEF ListedIsHeld
    <3>2. CASE i \in ToSet(list)
      BY <2>4, <3>2 DEF Held
    <3>3. CASE i \in listed
      <4>1. ASSUME NEW h \in Goroutines, Contains(todo[h], i) PROVE Contains(todo'[h], i)
        <5>1. h # g
          BY <1>2, <4>1 DEF Contains
        <5>. QED
          BY <2>3, <4>1, <5>1
      <4>2. Held(i) \/ i \in forgotten
        BY <3>3 DEF SMSInv, ListedIsHeld
      <4>. QED
        BY <1>1, <4>1, <4>2 DEF Held, PartsOf
    <3>. QED
      BY <1>4, <3>2, <3>3
  <2>. QED
    BY <2>6, <2>7, <2>8, <2>9 DEF SMSInv
<1>. QED
  BY <1>3, <1>4 DEF ListMemory

LEMMA CleanupStep ==
  ASSUME SMSInv, NEW g \in Goroutines, NEW m \in Memories, CleanupMemory(g, m)
  PROVE  SMSInv'
<1>1. /\ UNCHANGED <<inbox, todo, messages, listed, now, store, selected>>
      /\ todo[g] = <<>> /\ Goto(g, AfterMemory(g, m, errs[g]))
      /\ forgotten' = forgotten \cup UNION {ToSet(cache[r]) : r \in aged}
      /\ cache' = [r \in DOMAIN cache |-> IF r \in aged THEN <<>> ELSE cache[r]]
  BY DEF CleanupMemory, moduleState
<1>2. AfterMemory(g, m, errs[g]) \in SMSPlaces
  BY DEF AfterMemory, SMSPlaces
<1>3. pc' \in [Goroutines -> SMSPlaces] /\ \A h \in Goroutines : pc'[h] = pc[h] \/ h = g
  BY <1>1, <1>2, ItsPlace
<1>4. /\ cache \in [References -> Seq(Items)]
      /\ \A r \in References : cache'[r] = IF r \in aged THEN <<>> ELSE cache[r]
      /\ cache' \in [References -> Seq(Items)]
  BY <1>1 DEF SMSInv, PartsWait
<1>5. SMSTypes'
  BY <1>1, <1>3 DEF SMSInv, SMSTypes
<1>6. PartsWait'
  BY <1>4 DEF SMSInv, PartsWait, Alone
<1>7. OnlyReadersHave'
  BY <1>1, <1>3 DEF SMSInv, OnlyReadersHave
<1>8. ListedIsHeld'
  <2>1. SUFFICES ASSUME NEW i \in listed PROVE Held(i)' \/ i \in forgotten'
    BY <1>1 DEF ListedIsHeld
  <2>2. ASSUME NEW r \in References, Contains(cache[r], i)
        PROVE  Contains(cache'[r], i) \/ i \in forgotten'
    <3>1. CASE r \in aged
      <4>1. i \in ToSet(cache[r])
        BY <1>4, <2>2 DEF Contains, ToSet
      <4>. QED
        BY <1>1, <3>1, <4>1
    <3>2. CASE r \notin aged
      BY <1>4, <2>2, <3>2
    <3>. QED
      BY <3>1, <3>2
  <2>3. Held(i) \/ i \in forgotten
    BY DEF SMSInv, ListedIsHeld
  <2>. QED
    BY <1>1, <2>2, <2>3 DEF Held, PartsOf
<1>. QED
  BY <1>5, <1>6, <1>7, <1>8 DEF SMSInv

LEMMA SequenceIsFinite ==
  ASSUME NEW S, NEW s \in Seq(S)
  PROVE  IsFiniteSet(ToSet(s)) /\ ToSet(s) \subseteq S
<1>1. s \in Surjection(1 .. Len(s), ToSet(s))
  BY DEF Surjection, ToSet
<1>2. IsFiniteSet(1 .. Len(s))
  BY FS_Interval
<1>. QED
  BY <1>1, <1>2, FS_Surjection DEF ToSet

(* Merging sorts and drops repetitions and no more. *)
LEMMA MergesKeepEntries ==
  ASSUME SMSInv, NEW g \in Goroutines, NEW ordered \in Merges(g)
  PROVE  /\ ordered \in Seq(WholeEntries)
         /\ PartsOf(inbox) \cup PartsOf(messages[g]) \subseteq PartsOf(ordered)
<1> DEFINE all == inbox \o messages[g]
<1>1. inbox \in Seq(WholeEntries) /\ messages[g] \in Seq(WholeEntries)
  BY DEF SMSInv, SMSTypes
<1>2. all \in Seq(WholeEntries)
  BY <1>1
<1>3. IsFiniteSet(ToSet(all)) /\ ToSet(all) \subseteq WholeEntries
  BY <1>2, SequenceIsFinite
<1>4. Cardinality(ToSet(all)) \in Nat
  BY <1>3, FS_CardinalityType
<1>5. ordered \in [1 .. Cardinality(ToSet(all)) -> ToSet(all)] /\ ToSet(ordered) = ToSet(all)
  BY DEF Merges, Ordered
<1>6. ordered \in Seq(WholeEntries)
  BY <1>3, <1>4, <1>5
<1>7. ASSUME NEW e \in ToSet(all) PROVE ToSet(e.parts) \subseteq PartsOf(ordered)
  <2>1. PICK k \in DOMAIN ordered : ordered[k] = e
    BY <1>5 DEF ToSet
  <2>. QED
    BY <2>1 DEF PartsOf
<1>8. ASSUME NEW n \in DOMAIN inbox PROVE inbox[n] \in ToSet(all)
  <2>1. n \in DOMAIN all /\ all[n] = inbox[n]
    BY <1>1
  <2>. QED
    BY <2>1 DEF ToSet
<1>9. ASSUME NEW n \in DOMAIN messages[g] PROVE messages[g][n] \in ToSet(all)
  <2>1. Len(inbox) + n \in DOMAIN all /\ all[Len(inbox) + n] = messages[g][n]
    BY <1>1
  <2>. QED
    BY <2>1 DEF ToSet
<1>. QED
  BY <1>6, <1>7, <1>8, <1>9 DEF PartsOf

LEMMA KeptIsPart ==
  ASSUME SMSAssumption, NEW entries \in Seq(WholeEntries)
  PROVE  UpToLimit(entries) \in Seq(WholeEntries)
BY DEF UpToLimit, SMSAssumption

LEMMA MergeStep ==
  ASSUME SMSAssumption, SMSInv, NEW g \in Goroutines, Merge(g)
  PROVE  SMSInv'
<1>1. PICK ordered \in Merges(g) :
        /\ inbox' = UpToLimit(ordered)
        /\ forgotten' = forgotten \cup (PartsOf(ordered) \ PartsOf(UpToLimit(ordered)))
  BY DEF Merge
<1>2. /\ UNCHANGED <<store, selected, cache, todo, now, listed>>
      /\ messages' = [messages EXCEPT ![g] = <<>>] /\ pc[g] = "merge"
      /\ \E place \in SMSPlaces : Goto(g, place)
  BY DEF Merge, moduleState, SMSPlaces
<1>3. todo[g] = <<>>
  BY <1>2, NothingLeft, PlacesDiffer
<1>4. pc' \in [Goroutines -> SMSPlaces] /\ \A h \in Goroutines : pc'[h] = pc[h] \/ h = g
  BY <1>2, ItsPlace
<1>5. /\ ordered \in Seq(WholeEntries)
      /\ PartsOf(inbox) \cup PartsOf(messages[g]) \subseteq PartsOf(ordered)
  BY MergesKeepEntries
<1>6. inbox' \in Seq(WholeEntries)
  BY <1>1, <1>5, KeptIsPart
<1>7. /\ messages' \in [Goroutines -> Seq(WholeEntries)]
      /\ \A h \in Goroutines : h # g => messages'[h] = messages[h]
  BY <1>2 DEF SMSInv, SMSTypes
<1>8. SMSTypes'
  BY <1>2, <1>4, <1>6, <1>7 DEF SMSInv, SMSTypes
<1>9. PartsWait'
  BY <1>2 DEF SMSInv, PartsWait, Alone
<1>10. OnlyReadersHave'
  BY <1>2, <1>3, <1>4 DEF SMSInv, OnlyReadersHave
<1>11. ListedIsHeld'
  <2>1. SUFFICES ASSUME NEW i \in listed PROVE Held(i)' \/ i \in forgotten'
    BY <1>2 DEF ListedIsHeld
  <2>2. Held(i) \/ i \in forgotten
    BY DEF SMSInv, ListedIsHeld
  <2>3. CASE i \in PartsOf(inbox) \cup PartsOf(messages[g])
    <3>1. i \in PartsOf(ordered)
      BY <1>5, <2>3
    <3>2. i \in PartsOf(inbox') \/ i \in forgotten'
      BY <1>1, <3>1
    <3>. QED
      BY <3>2 DEF Held, PartsOf
  <2>4. CASE i \in forgotten
    BY <1>1, <2>4
  <2>5. CASE \E r \in References : Contains(cache[r], i)
    BY <1>2, <2>5 DEF Held
  <2>6. CASE \E h \in Goroutines : Contains(todo[h], i)
    BY <1>2, <2>6 DEF Held
  <2>7. CASE \E h \in Goroutines \ {g} : i \in PartsOf(messages[h])
    <3>1. PICK h \in Goroutines \ {g} : i \in PartsOf(messages[h])
      BY <2>7
    <3>2. messages'[h] = messages[h]
      BY <1>7
    <3>3. i \in PartsOf(messages'[h])
      BY <3>1, <3>2
    <3>. QED
      BY <3>3 DEF Held, PartsOf
  <2>. QED
    BY <2>2, <2>3, <2>4, <2>5, <2>6, <2>7 DEF Held
<1>. QED
  BY <1>8, <1>9, <1>10, <1>11 DEF SMSInv

LEMMA ClearStep ==
  ASSUME SMSInv, NEW g \in Goroutines, Clears(g)
  PROVE  SMSInv'
<1>1. /\ UNCHANGED <<inbox, todo, messages, cache, listed, forgotten, now>>
      /\ pc[g] \in {"clearSelect", "clearDelete", "clearCheck"}
      /\ \E place \in SMSPlaces : Goto(g, place)
  BY DEF Clears, ClearSelects, ClearDeletes, ClearChecks, bookKeeping, SMSPlaces
<1>2. todo[g] = <<>>
  BY <1>1, NothingLeft, PlacesDiffer
<1>3. store' \in [Memories -> Seq(Items)] /\ selected' \in Memories
  <2>1. CASE ClearSelects(g) \/ ClearChecks(g)
    <3>1. store' = store /\ \E ok \in BOOLEAN : Selects("ME", ok)
      BY <2>1 DEF ClearSelects, ClearChecks
    <3>. QED
      BY <3>1, SelectsOne DEF SMSInv, SMSTypes, Memories
  <2>2. CASE ClearDeletes(g)
    <3>1. selected' = selected /\ (store' = store \/ store' = [store EXCEPT ![selected] = <<>>])
      BY <2>2 DEF ClearDeletes
    <3>2. <<>> \in Seq(Items)
      OBVIOUS
    <3>. QED
      BY <3>1, <3>2 DEF SMSInv, SMSTypes
  <2>. QED
    BY <2>1, <2>2 DEF Clears
<1>. QED
  BY <1>1, <1>2, <1>3, MovesOn

LEMMA WorldStep ==
  ASSUME SMSInv,
         (\E i \in Items : Arrive(i)) \/ (\E r \in DOMAIN cache : TenMinutesPass(r))
  PROVE  SMSInv'
<1>1. UNCHANGED <<inbox, todo, messages, cache, listed, forgotten, now, pc, selected>>
  BY DEF Arrive, TenMinutesPass, bookKeeping, moduleState
<1>2. store' \in [Memories -> Seq(Items)]
  <2>1. ASSUME NEW i \in Items, Arrive(i) PROVE store' \in [Memories -> Seq(Items)]
    <3>1. store' = [store EXCEPT ![selected] = Append(store[selected], i)]
      BY <2>1 DEF Arrive
    <3>2. Append(store[selected], i) \in Seq(Items)
      BY DEF SMSInv, SMSTypes
    <3>. QED
      BY <3>1, <3>2 DEF SMSInv, SMSTypes
  <2>. QED
    BY <2>1 DEF TenMinutesPass, moduleState, SMSInv, SMSTypes
<1>. QED
  BY <1>1, <1>2, HandsOff DEF SMSInv, SMSTypes

LEMMA OneMorePart ==
  ASSUME NEW s \in Seq(WholeEntries), NEW e \in WholeEntries
  PROVE  /\ Append(s, e) \in Seq(WholeEntries)
         /\ PartsOf(s) \cup ToSet(e.parts) \subseteq PartsOf(Append(s, e))
<1> DEFINE t == Append(s, e)
<1>1. t \in Seq(WholeEntries) /\ Len(t) = Len(s) + 1 /\ t[Len(t)] = e
  BY DEF WholeEntries
<1>2. \A n \in DOMAIN s : n \in DOMAIN t /\ t[n] = s[n]
  OBVIOUS
<1>3. Len(t) \in DOMAIN t
  BY <1>1
<1>. QED
  BY <1>1, <1>2, <1>3 DEF PartsOf

(* What a decoded item does to the messages of a poll and to the reassembler: *)
(* it is in one of them, and neither gives up what it had but to the other.  *)
Receives(g, item) ==
  /\ messages' \in [Goroutines -> Seq(WholeEntries)] /\ PartsWait'
  /\ \A h \in Goroutines : PartsOf(messages[h]) \subseteq PartsOf(messages'[h])
  /\ \A i : i = item \/ (\E r \in References : Contains(cache[r], i)) =>
       i \in PartsOf(messages'[g]) \/ \E r \in References : Contains(cache'[r], i)

LEMMA CachePut ==
  ASSUME cache \in [References -> Seq(Items)], NEW key \in References,
         NEW fragments \in Seq(Items), cache' = [cache EXCEPT ![key] = fragments]
  PROVE  /\ cache' \in [References -> Seq(Items)] /\ cache'[key] = fragments
         /\ \A r \in References : r # key => cache'[r] = cache[r]
OBVIOUS

LEMMA OneAlone ==
  ASSUME NEW x
  PROVE  Contains(<<x>>, x) /\ \A i : Contains(<<x>>, i) => i = x
BY DEF Contains

LEMMA NoneInEmpty == \A i : ~Contains(<<>>, i)
BY DEF Contains

LEMMA DecodesLong ==
  ASSUME SMSAssumption, SMSInv, NEW g \in Goroutines, NEW m \in Memories,
         DecodeItem(g, m), Head(todo[g]) \in LongItems
  PROVE  Receives(g, Head(todo[g]))
<1> DEFINE item == Head(todo[g])
           key == Reference[item[1]]
           added == Add(item)
           e == [parts |-> BySeq(Append(cache[key], item)), at |-> <<"sent", item>>]
<1>1. /\ item \in Items /\ item[1] \in Long \ Broken
      /\ cache \in [References -> Seq(Items)]
      /\ messages \in [Goroutines -> Seq(WholeEntries)]
  BY DEF LongItems, SMSInv, PartsWait, SMSTypes
<1>2. /\ cache' = added.cache
      /\ messages' = [messages EXCEPT ![g] =
            IF added.complete THEN Append(messages[g], e) ELSE messages[g]]
  BY <1>1 DEF DecodeItem
<1>3. /\ key \in References
      /\ \/ /\ cache[key] = <<>> /\ ~added.complete
            /\ added.cache = [cache EXCEPT ![key] = <<item>>]
         \/ cache[key] = <<item>> /\ ~added.complete /\ added.cache = cache
         \/ \E other \in LongItems :
              /\ cache[key] = <<other>> /\ added.complete
              /\ added.cache = [cache EXCEPT ![key] = <<>>]
              /\ BySeq(Append(cache[key], item)) = <<<<item[1], 1>>, <<item[1], 2>>>>
              /\ item \in {<<item[1], 1>>, <<item[1], 2>>}
              /\ other \in {<<item[1], 1>>, <<item[1], 2>>}
  BY AddCases DEF SMSInv
<1>4. CASE cache[key] = <<>> /\ ~added.complete /\ added.cache = [cache EXCEPT ![key] = <<item>>]
  <2>1. messages' = messages
    BY <1>1, <1>2, <1>4
  <2>2. /\ cache' \in [References -> Seq(Items)] /\ cache'[key] = <<item>>
        /\ \A r \in References : r # key => cache'[r] = cache[r]
    <3>1. <<item>> \in Seq(Items) /\ cache' = [cache EXCEPT ![key] = <<item>>]
      BY <1>1, <1>2, <1>4
    <3>. QED
      BY <1>1, <1>3, <3>1, CachePut
  <2>3. PartsWait'
    BY <2>2 DEF SMSInv, PartsWait, Alone
  <2>4. Contains(cache'[key], item)
    BY <2>2, OneAlone
  <2>5. ASSUME NEW i, NEW r \in References, Contains(cache[r], i) PROVE Contains(cache'[r], i)
    <3>1. r # key
      BY <1>4, <2>5, NoneInEmpty
    <3>. QED
      BY <2>2, <2>5, <3>1
  <2>6. \A i : i = item \/ (\E r \in References : Contains(cache[r], i)) =>
          \E r \in References : Contains(cache'[r], i)
    BY <1>3, <2>4, <2>5
  <2>. QED
    BY <1>1, <2>1, <2>3, <2>6 DEF Receives
<1>5. CASE cache[key] = <<item>> /\ ~added.complete /\ added.cache = cache
  <2>1. messages' = messages /\ cache' = cache
    BY <1>1, <1>2, <1>5
  <2>2. PartsWait'
    BY <2>1 DEF SMSInv, PartsWait, Alone
  <2>3. Contains(cache'[key], item)
    BY <1>5, <2>1, OneAlone
  <2>4. \A i : i = item \/ (\E r \in References : Contains(cache[r], i)) =>
          \E r \in References : Contains(cache'[r], i)
    BY <1>3, <2>1, <2>3
  <2>. QED
    BY <1>1, <2>1, <2>2, <2>4 DEF Receives
<1>6. ASSUME NEW other \in LongItems, cache[key] = <<other>>, added.complete,
             added.cache = [cache EXCEPT ![key] = <<>>],
             BySeq(Append(cache[key], item)) = <<<<item[1], 1>>, <<item[1], 2>>>>,
             item \in {<<item[1], 1>>, <<item[1], 2>>},
             other \in {<<item[1], 1>>, <<item[1], 2>>}
      PROVE  Receives(g, item)
  <2> DEFINE parts == <<<<item[1], 1>>, <<item[1], 2>>>>
  <2>1. e = [parts |-> parts, at |-> <<"sent", item>>]
    BY <1>6
  <2>2. <<item[1], 1>> \in Items /\ <<item[1], 2>> \in Items
    BY <1>1 DEF SMSAssumption, Items, Parts
  <2>3. parts \in Seq(Items) /\ WholeText(parts)
    BY <1>1, <2>2 DEF WholeText
  <2>4. e \in WholeEntries
    BY <1>1, <2>1, <2>3 DEF WholeEntries, WholeParts
  <2>5. item \in ToSet(e.parts) /\ other \in ToSet(e.parts)
    <3>1. e.parts = parts /\ DOMAIN parts = {1, 2}
      BY <2>1
    <3>2. parts[1] = <<item[1], 1>> /\ parts[2] = <<item[1], 2>>
      OBVIOUS
    <3>. QED
      BY <1>6, <3>1, <3>2 DEF ToSet
  <2>6. /\ Append(messages[g], e) \in Seq(WholeEntries)
        /\ PartsOf(messages[g]) \cup ToSet(e.parts) \subseteq PartsOf(Append(messages[g], e))
    BY <1>1, <2>4, OneMorePart
  <2>7. /\ messages' \in [Goroutines -> Seq(WholeEntries)]
        /\ messages'[g] = Append(messages[g], e)
        /\ \A h \in Goroutines : h # g => messages'[h] = messages[h]
    BY <1>1, <1>2, <1>6, <2>6
  <2>8. /\ cache' \in [References -> Seq(Items)] /\ cache'[key] = <<>>
        /\ \A r \in References : r # key => cache'[r] = cache[r]
    <3>1. <<>> \in Seq(Items) /\ cache' = [cache EXCEPT ![key] = <<>>]
      BY <1>2, <1>6
    <3>. QED
      BY <1>1, <1>3, <3>1, CachePut
  <2>9. PartsWait'
    BY <2>8 DEF SMSInv, PartsWait, Alone
  <2>10. \A h \in Goroutines : PartsOf(messages[h]) \subseteq PartsOf(messages'[h])
    BY <2>6, <2>7
  <2>11. ASSUME NEW i, NEW r \in References, Contains(cache[r], i)
         PROVE  i \in PartsOf(messages'[g]) \/ Contains(cache'[r], i)
    <3>1. CASE r = key
      <4>1. i = other
        BY <1>6, <2>11, <3>1, OneAlone
      <4>. QED
        BY <2>5, <2>6, <2>7, <4>1
    <3>. QED
      BY <2>8, <2>11, <3>1
  <2>12. item \in PartsOf(messages'[g])
    BY <2>5, <2>6, <2>7
  <2>. QED
    BY <2>7, <2>9, <2>10, <2>11, <2>12 DEF Receives
<1>. QED
  BY <1>3, <1>4, <1>5, <1>6

LEMMA DecodesOther ==
  ASSUME SMSInv, NEW g \in Goroutines, NEW m \in Memories,
         DecodeItem(g, m), Head(todo[g]) \in Items \ LongItems
  PROVE  Receives(g, Head(todo[g]))
<1> DEFINE item == Head(todo[g])
           e == Entry(item)
<1>1. messages \in [Goroutines -> Seq(WholeEntries)] /\ now \in 0 .. MaxNow
  BY DEF SMSInv, SMSTypes
<1>2. item[1] \notin Long \ Broken
  BY DEF LongItems
<1>3. messages' = [messages EXCEPT ![g] = Append(messages[g], e)] /\ cache' = cache
  BY <1>2 DEF DecodeItem
<1>4. e.parts = <<item>> /\ e \in [parts : {<<item>>}, at : {<<"sent", item>>, <<"now", now>>}]
  BY DEF Entry
<1>5. <<item>> \in WholeParts
  BY DEF WholeParts, WholeText
<1>6. e \in WholeEntries
  BY <1>1, <1>4, <1>5 DEF WholeEntries
<1>7. /\ Append(messages[g], e) \in Seq(WholeEntries)
      /\ PartsOf(messages[g]) \cup ToSet(e.parts) \subseteq PartsOf(Append(messages[g], e))
  BY <1>1, <1>6, OneMorePart
<1>8. /\ messages' \in [Goroutines -> Seq(WholeEntries)]
      /\ messages'[g] = Append(messages[g], e)
      /\ \A h \in Goroutines : h # g => messages'[h] = messages[h]
  BY <1>1, <1>3, <1>7
<1>9. item \in ToSet(e.parts)
  BY <1>4 DEF ToSet
<1>10. PartsWait'
  BY <1>3 DEF SMSInv, PartsWait, Alone
<1>. QED
  BY <1>3, <1>7, <1>8, <1>9, <1>10 DEF Receives

LEMMA DecodeStep ==
  ASSUME SMSAssumption, SMSInv, NEW g \in Goroutines, NEW m \in Memories, DecodeItem(g, m)
  PROVE  SMSInv'
<1> DEFINE item == Head(todo[g])
<1>0. now \in 0 .. MaxNow /\ MaxNow \in Nat
  BY DEF SMSInv, SMSTypes, SMSAssumption
<1>1. /\ UNCHANGED <<store, selected, inbox, pc, forgotten, listed>> /\ pc[g] = ReadPlace[m]
      /\ todo[g] # <<>> /\ todo' = [todo EXCEPT ![g] = Tail(todo[g])]
      /\ now' \in 0 .. MaxNow
  BY <1>0 DEF DecodeItem, moduleState
<1>2. /\ todo \in [Goroutines -> Seq(Items)] /\ todo[g] \in Seq(Items)
      /\ item \in Items /\ Tail(todo[g]) \in Seq(Items)
  BY <1>1 DEF SMSInv, SMSTypes
<1>3. Receives(g, item)
  BY <1>2, DecodesLong, DecodesOther
<1>4. /\ todo' \in [Goroutines -> Seq(Items)] /\ todo'[g] = Tail(todo[g])
      /\ \A h \in Goroutines : h # g => todo'[h] = todo[h]
  BY <1>1, <1>2
<1>5. SMSTypes'
  BY <1>1, <1>3, <1>4 DEF SMSInv, SMSTypes, Receives
<1>6. OnlyReadersHave'
  BY <1>1, <1>4 DEF SMSInv, OnlyReadersHave
<1>7. ASSUME NEW i, Contains(todo[g], i) PROVE i = item \/ Contains(todo'[g], i)
  <2>1. PICK k \in 1 .. Len(todo[g]) : todo[g][k] = i
    BY <1>7 DEF Contains
  <2>2. CASE k = 1
    BY <1>1, <1>2, <2>1, <2>2
  <2>3. CASE k # 1
    <3>1. k - 1 \in 1 .. Len(Tail(todo[g])) /\ Tail(todo[g])[k - 1] = todo[g][k]
      BY <1>1, <1>2, <2>1, <2>3
    <3>. QED
      BY <1>4, <2>1, <3>1 DEF Contains
  <2>. QED
    BY <2>2, <2>3
<1>8. ListedIsHeld'
  <2>1. SUFFICES ASSUME NEW i \in listed PROVE Held(i)' \/ i \in forgotten'
    BY <1>1 DEF ListedIsHeld
  <2>2. Held(i) \/ i \in forgotten
    BY DEF SMSInv, ListedIsHeld
  <2>3. CASE i = item \/ \E r \in References : Contains(cache[r], i)
    <3>1. i \in PartsOf(messages'[g]) \/ \E r \in References : Contains(cache'[r], i)
      BY <1>3, <2>3 DEF Receives
    <3>. QED
      BY <3>1 DEF Held, PartsOf
  <2>4. CASE \E h \in Goroutines : i \in PartsOf(messages[h])
    <3>1. \E h \in Goroutines : i \in PartsOf(messages'[h])
      BY <1>3, <2>4 DEF Receives
    <3>. QED
      BY <3>1 DEF Held, PartsOf
  <2>5. CASE i \in PartsOf(inbox) \/ i \in forgotten
    BY <1>1, <2>5 DEF Held, PartsOf
  <2>6. CASE \E h \in Goroutines : Contains(todo[h], i)
    <3>1. i = item \/ \E h \in Goroutines : Contains(todo'[h], i)
      BY <1>4, <1>7, <2>6
    <3>. QED
      BY <2>3, <3>1 DEF Held
  <2>. QED
    BY <2>2, <2>3, <2>4, <2>5, <2>6 DEF Held
<1>. QED
  BY <1>3, <1>5, <1>6, <1>8 DEF SMSInv, Receives

LEMMA SMSStarts == ASSUME SMSAssumption, SMSInit PROVE SMSInv
<1>1. SMSTypes
  <2>1. InitialSM \in Seq(Items)
    <3>1. {i \in Messages \X {1, 2} : i[2] = 2 => i[1] \in Long} = Items
      BY DEF Items, Parts
    <3>. QED
      BY <3>1 DEF SMSAssumption
  <2>2. \A S : <<>> \in Seq(S)
    OBVIOUS
  <2>3. /\ [SM |-> InitialSM, ME |-> <<>>] \in [Memories -> Seq(Items)]
        /\ selected \in Memories
    <3>1. [SM |-> InitialSM, ME |-> <<>>] \in [{"SM", "ME"} -> Seq(Items)]
      <4>1. DOMAIN [SM |-> InitialSM, ME |-> <<>>] = {"SM", "ME"}
        OBVIOUS
      <4>2. /\ [SM |-> InitialSM, ME |-> <<>>]["SM"] \in Seq(Items)
            /\ [SM |-> InitialSM, ME |-> <<>>]["ME"] \in Seq(Items)
        BY <2>1, <2>2
      <4>. QED
        BY <4>1, <4>2
    <3>. QED
      BY <3>1 DEF Memories, SMSInit
  <2>4. now \in 0 .. MaxNow
    BY DEF SMSInit, SMSAssumption
  <2>. QED
    BY <2>2, <2>3, <2>4 DEF SMSInit, SMSTypes, SMSPlaces
<1>2. PartsWait
  BY DEF SMSInit, PartsWait, Alone, References
<1>3. OnlyReadersHave
  BY DEF SMSInit, OnlyReadersHave
<1>4. ListedIsHeld
  BY DEF SMSInit, ListedIsHeld
<1>. QED
  BY <1>1, <1>2, <1>3, <1>4 DEF SMSInv

LEMMA SMSStays == ASSUME SMSAssumption, SMSInv, [SMSNext]_smsVars PROVE SMSInv'
<1>1. \A g \in Pollers : g \in Goroutines
  BY DEF Goroutines
<1>2. \A g \in Clearers : g \in Goroutines
  BY DEF Goroutines
<1>3. CASE UNCHANGED smsVars
  <2>1. UNCHANGED <<inbox, todo, messages, cache, listed, forgotten, now, store, selected, pc>>
    BY <1>3 DEF smsVars
  <2>. QED
    BY <2>1, HandsOff DEF SMSInv, SMSTypes
<1>4. ASSUME NEW g \in Pollers, StartPoll(g) PROVE SMSInv'
  BY <1>1, <1>4, StartPollStep
<1>5. ASSUME NEW g \in Pollers, Merge(g) PROVE SMSInv'
  BY <1>1, <1>5, MergeStep
<1>6. ASSUME NEW g \in Pollers, NEW m \in Memories, Reads(g, m) PROVE SMSInv'
  BY <1>1, <1>6, SelectStep, ListStep, DecodeStep, CleanupStep DEF Reads
<1>7. ASSUME NEW g \in Clearers, StartClear(g) PROVE SMSInv'
  BY <1>2, <1>7, StartPollStep
<1>8. ASSUME NEW g \in Goroutines, Clears(g) PROVE SMSInv'
  BY <1>8, ClearStep
<1>9. CASE (\E i \in Items : Arrive(i)) \/ (\E r \in DOMAIN cache : TenMinutesPass(r))
  BY <1>9, WorldStep
<1>. QED
  BY <1>3, <1>4, <1>5, <1>6, <1>7, <1>8, <1>9 DEF SMSNext

LEMMA SMSAlways == SMSSpec => []SMSInv
<1>1. SMSInit => SMSInv
  BY SMSStarts, SMSAssumed
<1>2. SMSInv /\ [SMSNext]_smsVars => SMSInv'
  BY SMSStays, SMSAssumed
<1>. QED
  BY <1>1, <1>2, PTL DEF SMSSpec

(* What a poll has listed is never lost (pollSMSOnce, readUSBATSMS,          *)
(* mergeSMS, clearUSBATSMSMemory), however many polls and clears run, fail   *)
(* half-way or delete what another one has just listed.                    *)
THEOREM ListedStays == SMSSpec => []ListedIsKept
<1>1. SMSInv => ListedIsKept
  <2>1. SUFFICES ASSUME SMSInv, NEW i \in listed, i \notin forgotten PROVE i \in Items /\ InHand(i)
    BY DEF ListedIsKept
  <2>2. i \in Items
    BY <2>1 DEF SMSInv, SMSTypes
  <2>3. Held(i)
    BY <2>1 DEF SMSInv, ListedIsHeld
  <2>4. DOMAIN cache = References
    BY <2>1 DEF SMSInv, PartsWait
  <2>. QED
    BY <2>2, <2>3, <2>4 DEF Held, InHand
<1>. QED
  BY <1>1, SMSAlways, PTL

(* A message of the inbox that was put together from parts has them all, in  *)
(* order and of one message (Reassembler.Add), however the parts are spread  *)
(* over memories, polls and goroutines.                                    *)
THEOREM JoinedAreWhole == SMSSpec => []MessagesAreWhole
<1>1. ASSUME SMSInv, NEW e \in ToSet(inbox), e.parts[1][1] \notin Broken
      PROVE  \E m \in Messages : e.parts = [n \in 1 .. Cardinality(Parts(m)) |-> <<m, n>>]
  <2>1. e \in WholeEntries
    BY <1>1, SequenceIsFinite DEF SMSInv, SMSTypes
  <2>2. WholeText(e.parts)
    BY <2>1 DEF WholeEntries, WholeParts
  <2>3. ASSUME NEW i \in Items \ LongItems, e.parts = <<i>>
        PROVE  \E m \in Messages : e.parts = [n \in 1 .. Cardinality(Parts(m)) |-> <<m, n>>]
    <3>1. i[1] \notin Broken
      BY <1>1, <2>3
    <3>2. i[1] \in Messages \ Long /\ i = <<i[1], 1>>
      BY <3>1, TwoNumbers DEF LongItems
    <3>3. Cardinality(Parts(i[1])) = 1
      BY <3>2, PartsCount
    <3>4. e.parts = [n \in 1 .. 1 |-> <<i[1], n>>]
      BY <2>3, <3>2
    <3>. QED
      BY <3>2, <3>3, <3>4
  <2>4. ASSUME NEW m \in Long \ Broken, e.parts = <<<<m, 1>>, <<m, 2>>>>
        PROVE  e.parts = [n \in 1 .. Cardinality(Parts(m)) |-> <<m, n>>] /\ m \in Messages
    <3>1. Cardinality(Parts(m)) = 2 /\ m \in Messages
      BY PartsCount, SMSAssumed DEF SMSAssumption
    <3>2. e.parts = [n \in 1 .. 2 |-> <<m, n>>]
      BY <2>4
    <3>. QED
      BY <3>1, <3>2
  <2>. QED
    BY <2>2, <2>3, <2>4 DEF WholeText
<1>2. SMSInv => MessagesAreWhole
  BY <1>1 DEF MessagesAreWhole
<1>. QED
  BY <1>2, SMSAlways, PTL

=============================================================================
