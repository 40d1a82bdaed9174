---------------------------- MODULE ProfileNotes ----------------------------
(***************************************************************************)
(* Notes about eSIM profiles (main.go): on the Mac, a map that is loaded   *)
(* from a file and saved to it as a whole, and in the module, as entries   *)
(* of its phonebook ME between the user's own contacts.  A save to the     *)
(* module is a conversation of AT commands under moduleNotesMu; the probe  *)
(* of the phonebook runs without it and selects the phonebook of the SIM,  *)
(* and what others ask on the same bridge (usbat_darwin.go) comes between. *)
(***************************************************************************)
EXTENDS Naturals, Sequences, FiniteSets, FiniteSetsExt

CONSTANTS
  Savers,        \* requests of PUT and GET module-notes
  Probers,       \* requests of POST phonebook/probe
  ICCIDs, Texts, \* profiles, and what can be noted about them
  Books,         \* the contents that the phonebooks can have at the start
  MaxNoteFaults, \* commands and writes that fail, crashes (bound of the model)
  MaxSaves       \* requests of PUT notes (bound of the model)

Empty == <<"empty">>
Contact == <<"contact">>
Note(i, t) == <<"note", i, t>>
NoText == "none"                       \* no note, or a request to delete it
PhonebookEntries == {Empty, Contact} \cup {Note(i, t) : i \in ICCIDs, t \in Texts}

ASSUME NotesAssumption ==
  /\ "free" \notin Savers
  /\ Books \subseteq [{"SM", "ME"} -> Seq(PhonebookEntries)]

VARIABLES
  phonebook, \* the entries of SM and ME
  storage,   \* the phonebook that CPBS selected
  notesMu,   \* moduleNotesMu
  step,      \* what each request does next
  wish,      \* the profile and the text of each request
  index,     \* the entry it will write; 0 when there is none
  exists,    \* whether that is the note of the profile
  memory, loadedNotes, file, oldFile,  \* profileNotes, profileNotesLoaded, the two files
  promised,  \* history: what the last request for a profile was told, on the Mac
  late,      \* answers on their way whose reader has gone
  misled,    \* history: savers that were deceived about the phonebook
  saves, noteFaults

moduleNotes == <<phonebook, storage, notesMu, step, wish, index, exists, late, misled>>
localNotes == <<memory, loadedNotes, file, oldFile, promised, saves>>
noteVars == <<moduleNotes, localNotes, noteFaults>>

NoNotes == [i \in ICCIDs |-> NoText]
(* loadProfileNotesLocked; the file of an older program is read while there *)
(* is no other.                                                            *)
OnDisk == CHOOSE notes \in IF file # {} THEN file ELSE IF oldFile # {} THEN oldFile ELSE {NoNotes} : TRUE
NotesLoaded == IF loadedNotes THEN memory ELSE OnDisk

NotesInit ==
  /\ phonebook \in Books /\ storage \in {"SM", "ME"} /\ notesMu = "free"
  /\ step = [r \in Savers \cup Probers |-> "idle"]
  /\ wish \in [Savers -> ICCIDs \X (Texts \cup {NoText})]
  /\ late = <<>> /\ misled = {} /\ index = [r \in Savers |-> 0] /\ exists = [r \in Savers |-> FALSE]
  /\ memory = NoNotes /\ loadedNotes = FALSE
  /\ oldFile \in {{}} \cup {{notes} : notes \in [ICCIDs -> Texts]} /\ file = {}
  /\ promised = OnDisk /\ saves = 0 /\ noteFaults = 0

NoteFault == noteFaults < MaxNoteFaults /\ noteFaults' = noteFaults + 1
Steps(r, place) == step' = [step EXCEPT ![r] = place]

-----------------------------------------------------------------------------
(* Notes in the module.                                                    *)

LockNotesNot(r) ==                     \* mutant: no lock
  /\ r \in Savers /\ step[r] = "idle"
  /\ notesMu' = notesMu /\ Steps(r, "select")
  /\ UNCHANGED <<phonebook, storage, wish, index, exists, late, misled, localNotes, noteFaults>>

LockNotes(r) ==
  /\ r \in Savers /\ step[r] = "idle"
  /\ notesMu = "free" /\ notesMu' = r /\ Steps(r, "select")
  /\ UNCHANGED <<phonebook, storage, wish, index, exists, late, misled, localNotes, noteFaults>>

Returns(r) == Steps(r, "done") /\ notesMu' = "free"

(* Answers: whether they end in OK, and the status or the entries in them.  *)
NoteEntries(book) == {n \in DOMAIN phonebook[book] : phonebook[book][n] # Empty}
OK == [ok |-> TRUE, book |-> "none", used |-> FALSE, listed |-> {}]
Error == [OK EXCEPT !.ok = FALSE]
Status == [OK EXCEPT !.book = storage, !.used = NoteEntries(storage) # {}]
Listing == [OK EXCEPT !.listed =
  {<<n, phonebook[storage][n]>> : n \in DOMAIN phonebook["ME"] \cap NoteEntries(storage)}]

(* A command drains what has come, sends itself and takes the next answer   *)
(* that is complete for its own, be it the late one of a command before it; *)
(* a command that times out, or is cut off, leaves its answer to the next.  *)
Sent(own, obeyed) == Append(late, IF obeyed THEN own ELSE Error)
Hears(queue, obeyed, n) ==
  [obeyed |-> obeyed, answer |-> queue[n], mine |-> n = Len(queue),
   rest |-> SubSeq(queue, n + 1, Len(queue)), faults |-> IF obeyed THEN 0 ELSE 1]
HearsNothing(queue, obeyed, n) ==
  [obeyed |-> obeyed, answer |-> Error, mine |-> TRUE,
   rest |-> SubSeq(queue, n + 1, Len(queue)), faults |-> IF obeyed THEN 1 ELSE 2]
Outcomes(own) ==
  {Hears(Sent(own, obeyed), obeyed, n) : obeyed \in BOOLEAN, n \in 1 .. Len(late) + 1}
  \cup {HearsNothing(Sent(own, obeyed), obeyed, n) : obeyed \in BOOLEAN, n \in 0 .. Len(late) + 1}
Heard(c) ==
  /\ late' = c.rest
  /\ noteFaults + c.faults <= MaxNoteFaults /\ noteFaults' = noteFaults + c.faults

(* AT+CPBS="ME" (readModuleESIMNotes). *)
SelectME(r) ==
  /\ step[r] = "select"
  /\ \E c \in Outcomes(OK) :
       /\ Heard(c) /\ storage' = IF c.obeyed THEN "ME" ELSE storage
       /\ IF c.answer.ok THEN Steps(r, "status") /\ UNCHANGED notesMu ELSE Returns(r)
  /\ UNCHANGED <<phonebook, wish, index, exists, misled, localNotes>>

(* AT+CPBS?; only the status of ME is understood, and an empty phonebook is *)
(* not read.                                                               *)
ReadStatus(r) ==
  /\ step[r] = "status"
  /\ \E c \in Outcomes(Status) :
       /\ Heard(c)
       /\ IF ~c.answer.ok \/ c.answer.book # "ME" THEN Returns(r) /\ UNCHANGED <<index, exists, misled>>
          ELSE /\ misled' = IF c.mine THEN misled ELSE misled \cup {r}
               /\ IF c.answer.used THEN Steps(r, "read") /\ UNCHANGED <<notesMu, index, exists>>
                  ELSE /\ IF wish[r][2] = NoText \/ DOMAIN phonebook["ME"] = {} THEN Returns(r)
                          ELSE Steps(r, "write") /\ UNCHANGED notesMu
                       /\ index' = [index EXCEPT ![r] = 1] /\ exists' = [exists EXCEPT ![r] = FALSE]
  /\ UNCHANGED <<phonebook, storage, wish, localNotes>>

(* AT+CPBR=1,total reads as many entries of the selected phonebook as ME    *)
(* has, and the entry is chosen: the note of the profile, or the first of  *)
(* those that the answer does not list.                                    *)
NotesOf(i, listed) == {e[1] : e \in {entry \in listed : \E t \in Texts : entry[2] = Note(i, t)}}
Vacant(listed) == DOMAIN phonebook["ME"] \ {entry[1] : entry \in listed}
ReadNotes(r) ==
  /\ step[r] = "read"
  /\ \E c \in Outcomes(Listing) :
       /\ Heard(c)
       /\ IF ~c.answer.ok THEN Returns(r) /\ UNCHANGED <<index, exists, misled>>
          ELSE LET own == NotesOf(wish[r][1], c.answer.listed)
                   free == Vacant(c.answer.listed)
               IN  /\ misled' = IF c.mine THEN misled ELSE misled \cup {r}
                   /\ exists' = [exists EXCEPT ![r] = own # {}]
                   /\ index' = [index EXCEPT ![r] =
                        IF own # {} THEN Max(own) ELSE IF free # {} THEN Min(free) ELSE 0]
                   /\ IF own = {} /\ (wish[r][2] = NoText \/ free = {}) THEN Returns(r)
                      ELSE Steps(r, "write") /\ UNCHANGED notesMu
  /\ UNCHANGED <<phonebook, storage, wish, localNotes>>

(* AT+CPBW writes or deletes the entry. *)
WriteNote(r) ==
  LET entry == IF wish[r][2] = NoText THEN Empty ELSE Note(wish[r][1], wish[r][2])
  IN  /\ step[r] = "write" /\ Returns(r)
      /\ \E c \in Outcomes(OK) :
           Heard(c) /\ phonebook' = IF c.obeyed THEN [phonebook EXCEPT ![storage][index[r]] = entry] ELSE phonebook
      /\ UNCHANGED <<storage, wish, index, exists, misled, localNotes>>

(* probeESIMPhonebook selects the phonebook of the SIM between commands that *)
(* only ask, and asks for its status when it believes that it is selected. *)
Probe(p) ==
  /\ p \in Probers /\ step[p] = "idle"
  /\ \E c \in Outcomes(OK) :
       /\ Heard(c) /\ Steps(p, IF c.answer.ok THEN "asks" ELSE "done")
       /\ storage' = IF c.obeyed THEN "SM" ELSE storage
       /\ misled' = misled \cup {r \in Savers : c.obeyed /\ notesMu = r /\ step[r] \in {"read", "write"}}
  /\ UNCHANGED <<phonebook, notesMu, wish, index, exists, localNotes>>

ProbeAsks(p) ==
  /\ p \in Probers /\ step[p] = "asks" /\ Steps(p, "done")
  /\ \E c \in Outcomes(Status) : Heard(c)
  /\ UNCHANGED <<phonebook, storage, notesMu, wish, index, exists, misled, localNotes>>

(* Commands of others, which leave the phonebook alone: the signal, the     *)
(* calls, the messages.                                                    *)
AskElse ==
  /\ \E c \in Outcomes(OK) : Heard(c)
  /\ UNCHANGED <<phonebook, storage, notesMu, step, wish, index, exists, misled, localNotes>>

-----------------------------------------------------------------------------
(* Notes on the Mac.  A request holds profileNotesMu, so it is one step.    *)

ListNotes ==
  /\ loadedNotes' = TRUE /\ memory' = NotesLoaded
  /\ UNCHANGED <<moduleNotes, file, oldFile, promised, saves, noteFaults>>

ChangedUnloaded(i, t) == [memory EXCEPT ![i] = t]       \* mutant: the file is not loaded
Changed(i, t) == [NotesLoaded EXCEPT ![i] = t]

(* persistProfileNotesLocked writes all notes to a file aside and renames   *)
(* it; what fails leaves the file as it was, and the map changed.          *)
SaveNote(i, t) ==
  /\ saves < MaxSaves /\ saves' = saves + 1
  /\ loadedNotes' = TRUE /\ memory' = Changed(i, t)
  /\ \/ /\ file' = {memory'} /\ UNCHANGED noteFaults
        /\ promised' = [promised EXCEPT ![i] = t]
     \/ /\ file' = file /\ NoteFault
        /\ promised' = [promised EXCEPT ![i] = "any"]
  /\ UNCHANGED <<moduleNotes, oldFile>>

Restarts ==
  /\ NoteFault
  /\ memory' = NoNotes /\ loadedNotes' = FALSE
  /\ step' = [r \in DOMAIN step |-> "done"] /\ notesMu' = "free"
  /\ UNCHANGED <<phonebook, storage, wish, index, exists, late, misled, file, oldFile, promised, saves>>

NotesNext ==
  \/ \E r \in Savers :
       LockNotes(r) \/ SelectME(r) \/ ReadStatus(r) \/ ReadNotes(r) \/ WriteNote(r)
  \/ \E p \in Probers : Probe(p) \/ ProbeAsks(p)
  \/ AskElse \/ ListNotes \/ Restarts
  \/ \E i \in ICCIDs, t \in Texts \cup {NoText} : SaveNote(i, t)

NotesSpec == NotesInit /\ [][NotesNext]_noteVars

-----------------------------------------------------------------------------
(* Properties.                                                             *)

NotesTypeOK ==
  /\ storage \in {"SM", "ME"} /\ notesMu \in Savers \cup {"free"}
  /\ \A r \in Savers : step[r] \in {"select", "status", "read", "write"} <=> notesMu = r
  /\ \A r \in Savers : step[r] = "write" => index[r] \in DOMAIN phonebook["ME"]
  /\ \A n \in DOMAIN late : late[n].listed \subseteq (DOMAIN phonebook["ME"]) \X PhonebookEntries
  /\ misled \subseteq Savers
  /\ {memory} \cup file \cup oldFile \subseteq [ICCIDs -> Texts \cup {NoText}]

(* No step replaces a contact of the user, nor the note of one profile by   *)
(* that of another.                                                        *)
KeepsOthers ==
  \A book \in {"SM", "ME"}, n \in DOMAIN phonebook["ME"] :
    LET old == phonebook[book][n]  new == phonebook'[book][n]
    IN  old # new /\ old # Empty => old # Contact /\ new \in {Empty} \cup {Note(old[2], t) : t \in Texts}

(* A save whose status and listing were answers to its own commands, and    *)
(* that no probe fell into after its status, replaces neither a contact of *)
(* the user in either phonebook nor the note of another profile, however   *)
(* the answers to its other commands are delayed or lost and whatever      *)
(* others ask meanwhile (saveModuleESIMNote).  A save that was deceived is  *)
(* excepted: BooksAreSafe says what it does.                               *)
OthersAreKept == [][KeepsOthers \/ notesMu \in misled]_noteVars

(* The same of every step: that the probe is safe for what is stored, and   *)
(* that a save leaves the rest alone whatever was answered late before it  *)
(* (probeESIMPhonebook, saveModuleESIMNote).  The code does neither.        *)
BooksAreSafe == [][KeepsOthers]_noteVars

(* What a request for a note on the Mac was told holds after any number of  *)
(* failures and restarts, until another request for the same profile fails *)
(* (persistProfileNotesLocked).                                            *)
NotesSurvive ==
  \A i \in ICCIDs : promised[i] # "any" => OnDisk[i] = promised[i]

=============================================================================
