--------------------------- MODULE MCServices_proofs ---------------------------
(***************************************************************************)
(* Proofs that every service and every library keeps its types, and that    *)
(* the specification of the runs, which puts them side by side, has the    *)
(* properties of each of them: a behaviour of ServicesSpec is a behaviour  *)
(* of each part's own specification.                                       *)
(***************************************************************************)
EXTENDS MCServices, Services_proofs, Backends_proofs

-----------------------------------------------------------------------------
(* Receiving SMS.                                                          *)

(* What the module has it has received. *)
StoreTyped ==
  /\ arrived \subseteq Items
  /\ \A m \in Memories : \A k \in DOMAIN store[m] : store[m][k] \in arrived
InboxTyped == Len(inbox) <= MaxInbox
(* What grows old is there. *)
AgedTyped == \A r \in aged : r \in DOMAIN cache /\ cache[r] # <<>>
ErrsTyped == errs \in [Goroutines -> SUBSET Memories]

LEMMA SMSTypedInit ==
  ASSUME SMSInit PROVE StoreTyped /\ InboxTyped /\ AgedTyped /\ ErrsTyped
  <1>1. InitialSM \in Seq(Items)
    <2>1. {i \in Messages \X {1, 2} : i[2] = 2 => i[1] \in Long} = Items
      BY DEF Items, Parts
    <2> QED
      BY <2>1, SMSAssumed DEF SMSAssumption
  <1>2. arrived \subseteq Items /\ \A k \in DOMAIN InitialSM : InitialSM[k] \in arrived
    BY <1>1 DEF SMSInit, ToSet
  <1>3. store["SM"] = InitialSM /\ store["ME"] = <<>>
    BY DEF SMSInit
  <1>4. StoreTyped
    BY <1>2, <1>3 DEF StoreTyped, Memories
  <1>5. Len(inbox) = 0 /\ MaxInbox \in Nat
    BY SMSAssumed DEF SMSInit, SMSAssumption
  <1> QED
    BY <1>4, <1>5 DEF SMSInit, InboxTyped, AgedTyped, ErrsTyped

LEMMA StoreTypedStep == SMSInv /\ StoreTyped /\ [SMSNext]_smsVars => StoreTyped'
  <1> SUFFICES ASSUME SMSInv, StoreTyped, [SMSNext]_smsVars PROVE StoreTyped'
    OBVIOUS
  <1>0. store \in [Memories -> Seq(Items)] /\ selected \in Memories
    BY DEF SMSInv, SMSTypes
  <1>1. ASSUME UNCHANGED <<store, arrived>> PROVE StoreTyped'
    BY <1>1 DEF StoreTyped
  <1>2. ASSUME NEW g \in Goroutines, ClearDeletes(g) PROVE StoreTyped'
    <2>1. arrived' = arrived /\ (store' = store \/ store' = [store EXCEPT ![selected] = <<>>])
      BY <1>2 DEF ClearDeletes
    <2> QED
      BY <1>0, <2>1 DEF StoreTyped
  <1>3. ASSUME NEW i \in Items, Arrive(i) PROVE StoreTyped'
    <2>1. arrived' = arrived \cup {i} /\ store' = [store EXCEPT ![selected] = Append(@, i)]
      BY <1>3 DEF Arrive
    <2>2. \A k \in DOMAIN Append(store[selected], i) : Append(store[selected], i)[k] \in arrived'
      BY <1>0, <2>1 DEF StoreTyped
    <2>3. \A m \in Memories : store'[m] = IF m = selected THEN Append(store[selected], i) ELSE store[m]
      BY <1>0, <2>1
    <2> QED
      BY <2>1, <2>2, <2>3 DEF StoreTyped
  <1> QED
    BY <1>1, <1>2, <1>3
    DEF SMSNext, StartPoll, Merge, Reads, StartClear, Clears, ClearSelects, ClearChecks, TenMinutesPass,
        SelectMemory, ListMemory, DecodeItem, CleanupMemory, moduleState, smsVars

(* mergeSMS keeps no more than it may. *)
LEMMA InboxTypedStep == SMSInv /\ InboxTyped /\ [SMSNext]_smsVars => InboxTyped'
  <1> SUFFICES ASSUME SMSInv, InboxTyped, [SMSNext]_smsVars PROVE InboxTyped'
    OBVIOUS
  <1>1. ASSUME UNCHANGED inbox PROVE InboxTyped'
    BY <1>1 DEF InboxTyped
  <1>2. ASSUME NEW g \in Pollers, Merge(g) PROVE InboxTyped'
    <2>1. g \in Goroutines
      BY DEF Goroutines
    <2>2. PICK ordered \in Merges(g) : inbox' = UpToLimit(ordered)
      BY <1>2 DEF Merge
    <2>3. ordered \in Seq(WholeEntries)
      BY <2>1, MergesKeepEntries
    <2>4. MaxInbox \in Nat
      BY SMSAssumed DEF SMSAssumption
    <2>5. ASSUME NEW n \in 0 .. Len(ordered) PROVE Len(SubSeq(ordered, 1, n)) = n
      BY <2>3
    <2>6. (IF Len(ordered) > MaxInbox THEN MaxInbox ELSE Len(ordered)) \in 0 .. Len(ordered)
      BY <2>3, <2>4
    <2>7. Len(UpToLimit(ordered)) = IF Len(ordered) > MaxInbox THEN MaxInbox ELSE Len(ordered)
      BY <2>5, <2>6 DEF UpToLimit
    <2>8. Len(ordered) \in Nat
      BY <2>3
    <2> QED
      BY <2>2, <2>4, <2>7, <2>8 DEF InboxTyped
  <1> QED
    BY <1>1, <1>2
    DEF SMSNext, StartPoll, Reads, StartClear, Clears, ClearSelects, ClearDeletes, ClearChecks, Arrive,
        TenMinutesPass, SelectMemory, ListMemory, DecodeItem, CleanupMemory, smsVars

LEMMA AgedTypedStep == AgedTyped /\ [SMSNext]_smsVars => AgedTyped'
  <1> SUFFICES ASSUME AgedTyped, [SMSNext]_smsVars PROVE AgedTyped'
    OBVIOUS
  <1>1. ASSUME UNCHANGED <<cache, aged>> PROVE AgedTyped'
    BY <1>1 DEF AgedTyped
  <1>2. ASSUME NEW g, NEW m, DecodeItem(g, m) PROVE AgedTyped'
    <2>1. \/ UNCHANGED <<cache, aged>>
          \/ \E key, fragments : cache' = [cache EXCEPT ![key] = fragments] /\ aged' = aged \ {key}
      BY <1>2 DEF DecodeItem, Add
    <2>2. ASSUME NEW key, NEW fragments, cache' = [cache EXCEPT ![key] = fragments], aged' = aged \ {key}
          PROVE  AgedTyped'
      BY <2>2 DEF AgedTyped
    <2> QED
      BY <1>1, <2>1, <2>2
  <1>3. ASSUME NEW g, NEW m, CleanupMemory(g, m) PROVE AgedTyped'
    BY <1>3 DEF CleanupMemory, AgedTyped
  <1>4. ASSUME NEW r \in DOMAIN cache, TenMinutesPass(r) PROVE AgedTyped'
    BY <1>4 DEF TenMinutesPass, AgedTyped
  <1> QED
    BY <1>1, <1>2, <1>3, <1>4
    DEF SMSNext, StartPoll, Merge, Reads, StartClear, Clears, ClearSelects, ClearDeletes, ClearChecks,
        Arrive, SelectMemory, ListMemory, smsVars

LEMMA ErrsTypedStep == ErrsTyped /\ [SMSNext]_smsVars => ErrsTyped'
  <1> SUFFICES ASSUME ErrsTyped, [SMSNext]_smsVars PROVE ErrsTyped'
    OBVIOUS
  <1>1. ASSUME UNCHANGED errs PROVE ErrsTyped'
    BY <1>1 DEF ErrsTyped
  <1>2. ASSUME NEW g \in Goroutines, NEW f \in SUBSET Memories, errs' = [errs EXCEPT ![g] = f]
        PROVE  ErrsTyped'
    BY <1>2 DEF ErrsTyped
  <1>3. ASSUME NEW g \in Goroutines, NEW m \in Memories, Passes(g, m) PROVE ErrsTyped'
    <2>1. (errs[g] \cup {m}) \in SUBSET Memories /\ {} \in SUBSET Memories
      BY DEF ErrsTyped
    <2>2. \/ errs' = [errs EXCEPT ![g] = errs[g] \cup {m}]
          \/ errs' = [errs EXCEPT ![g] = {}]
      BY <1>3 DEF Passes
    <2> QED
      BY <1>2, <2>1, <2>2
  <1>4. ASSUME NEW g \in Pollers, Merge(g) PROVE ErrsTyped'
    <2>1. g \in Goroutines /\ {} \in SUBSET Memories /\ errs' = [errs EXCEPT ![g] = {}]
      BY <1>4 DEF Merge, Goroutines
    <2> QED
      BY <1>2, <2>1
  <1>5. ASSUME NEW g \in Pollers, NEW m \in Memories, Reads(g, m) PROVE ErrsTyped'
    <2>1. g \in Goroutines
      BY DEF Goroutines
    <2> QED
      BY <1>1, <1>3, <1>5, <2>1 DEF Reads, SelectMemory, ListMemory, DecodeItem, CleanupMemory
  <1> QED
    BY <1>1, <1>4, <1>5
    DEF SMSNext, StartPoll, StartClear, Clears, ClearSelects, ClearDeletes, ClearChecks, Arrive,
        TenMinutesPass, smsVars

(* What the inbox and a poll have are entries of the model. *)
LEMMA EntriesAreEntries ==
  ASSUME NEW q \in Seq(WholeEntries)
  PROVE  ToSet(q) \subseteq Entries
  <1> SUFFICES ASSUME NEW e \in WholeEntries PROVE e \in Entries
    BY DEF ToSet
  <1>1. PICK p \in WholeParts : e.parts = p
    BY DEF WholeEntries
  <1>2. PICK t \in ({"sent"} \X Items) \cup ({"now"} \X (0 .. MaxNow)) : e.at = t
    BY DEF WholeEntries
  <1>3. e = [parts |-> p, at |-> t]
    BY <1>1, <1>2 DEF WholeEntries
  <1>4. p \in {<<i>> : i \in Items} \cup (Items \X Items)
    <2>1. CASE \E i \in Items : p = <<i>>
      BY <2>1
    <2>2. CASE \E m \in Long \ Broken : p = <<<<m, 1>>, <<m, 2>>>>
      <3>1. PICK m \in Long \ Broken : p = <<<<m, 1>>, <<m, 2>>>>
        BY <2>2
      <3>2. <<m, 1>> \in Items /\ <<m, 2>> \in Items
        BY SMSAssumed DEF SMSAssumption, Items, Parts
      <3> QED
        BY <3>1, <3>2
    <2> QED
      BY <2>1, <2>2 DEF WholeParts, WholeText
  <1> HIDE DEF Items
  <1> QED
    BY <1>2, <1>3, <1>4 DEF Entries

(* The inbox keeps to its limit, what grows old in the reassembler is there, *)
(* and it has each part where its reference is (mergeSMS, Reassembler.Add,  *)
(* Cleanup).                                                               *)
THEOREM SMSTypeCorrect == SMSSpec => []SMSTypeOK
  <1>1. SMSInv /\ StoreTyped /\ InboxTyped /\ AgedTyped /\ ErrsTyped => SMSTypeOK
    <2> SUFFICES ASSUME SMSInv, StoreTyped, InboxTyped, AgedTyped, ErrsTyped PROVE SMSTypeOK
      OBVIOUS
    <2>1. \A m \in Memories : ToSet(store[m]) \subseteq arrived
      BY DEF StoreTyped, ToSet
    <2>2. ToSet(inbox) \subseteq Entries /\ \A g \in Goroutines : ToSet(messages[g]) \subseteq Entries
      BY EntriesAreEntries DEF SMSInv, SMSTypes
    <2>3. \A r \in DOMAIN cache : \A i \in ToSet(cache[r]) : Reference[i[1]] = r /\ i[1] \in Long
      <3>1. DOMAIN cache = References
        BY DEF SMSInv, PartsWait
      <3>2. ASSUME NEW r \in References, NEW i \in ToSet(cache[r])
            PROVE  Reference[i[1]] = r /\ i[1] \in Long
        <4>1. Alone(r, cache[r])
          BY DEF SMSInv, PartsWait
        <4>2. PICK j \in LongItems : Reference[j[1]] = r /\ cache[r] = <<j>>
          BY <3>2, <4>1 DEF Alone, ToSet
        <4>3. i = j
          BY <3>2, <4>2 DEF ToSet
        <4> QED
          BY <4>2, <4>3 DEF LongItems
      <3> QED
        BY <3>1, <3>2
    <2>4. aged \subseteq {r \in DOMAIN cache : cache[r] # <<>>}
      BY DEF AgedTyped
    <2> QED
      BY <2>1, <2>2, <2>3, <2>4 DEF SMSInv, SMSTypes, StoreTyped, InboxTyped, ErrsTyped, SMSTypeOK
  <1>2. SMSInit => SMSInv
    BY SMSStarts, SMSAssumed
  <1>3. SMSInv /\ [SMSNext]_smsVars => SMSInv'
    BY SMSStays, SMSAssumed
  <1>4. SMSInit => StoreTyped /\ InboxTyped /\ AgedTyped /\ ErrsTyped
    BY SMSTypedInit
  <1> QED
    BY <1>1, <1>2, <1>3, <1>4, StoreTypedStep, InboxTypedStep, AgedTypedStep, ErrsTypedStep, PTL DEF SMSSpec

-----------------------------------------------------------------------------
(* The eSIM operation lock.                                                *)

(* Who is about to close a channel has read one. *)
LockTyped ==
  /\ LockTypeOK
  /\ \A c \in LockCallers : stage[c] \in {"swap", "close"} => chan[c] # NoDone

(* Every variable of the lock has its type: in particular, opDone and the  *)
(* channels that are closed are channels (notifyWriteDone).                *)
THEOREM LockTypeCorrect == LockSpec => []LockTypeOK
  <1> USE LockAssumption
  <1>1. LockInit => LockTyped
    BY DEF LockInit, LockTyped, LockTypeOK
  <1>2. LockTyped /\ [LockNext]_lockVars => LockTyped'
    <2> SUFFICES ASSUME LockTyped, [LockNext]_lockVars PROVE LockTyped'
      OBVIOUS
    <2> USE DEF LockTyped, LockTypeOK, MoveTo
    <2>1. ASSUME NEW c \in LockCallers, Lock(c) \/ FirstTry(c) \/ Capture(c) PROVE LockTyped'
      BY <2>1 DEF Lock, FirstTry, TryLock, Capture
    <2>2. ASSUME NEW c \in LockCallers, WokenByDone(c) \/ Timeout(c) PROVE LockTyped'
      BY <2>2 DEF WokenByDone, TryLock, Timeout
    <2>3. ASSUME NEW c \in LockCallers, ReaderUnlocks(c) \/ Unlock(c) PROVE LockTyped'
      BY <2>3 DEF ReaderUnlocks, Unlock
    <2>4. ASSUME NEW c \in LockCallers, ReadOld(c) PROVE LockTyped'
      BY <2>4 DEF ReadOld
    <2>5. ASSUME NEW c \in LockCallers, StoreNew(c) PROVE LockTyped'
      BY <2>5 DEF StoreNew
    <2>6. ASSUME NEW c \in LockCallers, CloseOld(c) PROVE LockTyped'
      BY <2>6 DEF CloseOld
    <2>7. CASE UNCHANGED lockVars
      BY <2>7 DEF lockVars
    <2> QED
      BY <2>1, <2>2, <2>3, <2>4, <2>5, <2>6, <2>7 DEF LockNext
  <1>3. LockTyped => LockTypeOK
    BY DEF LockTyped
  <1> QED
    BY <1>1, <1>2, <1>3, PTL DEF LockSpec

-----------------------------------------------------------------------------
(* The cellular policy.                                                    *)

PolicyTyped ==
  /\ blocked \subseteq Services /\ services \subseteq Services /\ untracked \subseteq Services
  /\ disk.services \subseteq Services /\ before.services \subseteq Services
  /\ remaining \subseteq Services

(* What the policy remembers and has still to visit are services of the    *)
(* module, and a request or the guard is served whenever the mutex is held *)
(* (applyCellularPolicyLocked, loadNetworkPolicyLocked).                   *)
THEOREM PolicyTypeCorrect == PolicySpec => []PolicyTypeOK
  <1>1. PolicyInit => PolicyTyped
    BY DEF PolicyInit, PolicyTyped
  <1>2. PolicyTyped /\ [PolicyNext]_policyVars => PolicyTyped'
    <2> SUFFICES ASSUME PolicyTyped, [PolicyNext]_policyVars PROVE PolicyTyped'
      OBVIOUS
    <2> USE DEF PolicyTyped, Loaded, worldVars, loopVars
    <2>1. ASSUME NEW off \in BOOLEAN, SetCellularPolicy(off) PROVE PolicyTyped'
      BY <2>1 DEF SetCellularPolicy, Discover
    <2>2. CASE Guard
      BY <2>2 DEF Guard, Discover
    <2>3. ASSUME NEW s \in Services, BlockService(s) \/ RestoreService(s) PROVE PolicyTyped'
      BY <2>3 DEF BlockService, RestoreService
    <2>4. CASE Blocked \/ Restored \/ Persist \/ AnswerPolicy
      BY <2>4 DEF Blocked, Restored, Persist, AnswerPolicy
    <2>5. CASE Fail \/ Crash
      BY <2>5 DEF Fail, Crash
    <2>6. ASSUME NEW s \in Services, ServiceChanges(s) \/ UserRestores(s) PROVE PolicyTyped'
      BY <2>6 DEF ServiceChanges, UserRestores
    <2>7. CASE UNCHANGED policyVars
      BY <2>7 DEF policyVars
    <2> QED
      BY <2>1, <2>2, <2>3, <2>4, <2>5, <2>6, <2>7 DEF PolicyNext, Apply
  <1>3. PolicyInv /\ PolicyTyped => PolicyTypeOK
    BY DEF PolicyInv, PolicyTyped, PolicyTypeOK
  <1> QED
    BY <1>1, <1>2, <1>3, PolicyInitially, PolicyStep, PTL DEF PolicySpec

-----------------------------------------------------------------------------
(* The notes about profiles.                                               *)

(* Only who is in the middle of a save holds the mutex, and the entry to    *)
(* write is one of ME.                                                     *)
NotesTyped ==
  /\ misled \subseteq Savers /\ notesMu \in Savers \cup {"free"}
  /\ \A r \in Savers : notesMu = r => step[r] \in {"select", "status", "read", "write"}
  /\ \A r \in Savers : step[r] = "write" => index[r] \in DOMAIN phonebook["ME"]

(* A step of the save of r. *)
LEMMA SaveIsTyped ==
  ASSUME SaveInv, NotesTyped, NEW r \in Savers, notesMu = r, UNCHANGED phonebook,
         misled' \subseteq Savers, NEW next, Steps(r, next),
         \/ next \in {"select", "status", "read"} /\ notesMu' = r
         \/ next = "write" /\ notesMu' = r /\ index'[r] \in DOMAIN phonebook["ME"]
         \/ next = "done" /\ notesMu' = "free",
         \A q \in Savers \ {r} : index'[q] = index[q]
  PROVE  NotesTyped'
  <1>1. \A q \in Savers : q # r => step'[q] = step[q] /\ step[q] # "write"
    BY DEF SaveInv, Steps
  <1>2. step'[r] = next
    BY DEF SaveInv, Steps
  <1> QED
    BY <1>1, <1>2, NotesAssumption DEF NotesTyped

LEMMA NotesTypedStep == SaveInv /\ NotesTyped /\ [NotesNext]_noteVars => NotesTyped'
  <1> SUFFICES ASSUME SaveInv, NotesTyped, [NotesNext]_noteVars PROVE NotesTyped'
    OBVIOUS
  <1>1. CASE UNCHANGED moduleNotes
    BY <1>1 DEF moduleNotes, NotesTyped
  <1>2. ASSUME NEW r \in Savers, LockNotes(r) PROVE NotesTyped'
    BY <1>2, NotesAssumption DEF LockNotes, Steps, SaveInv, NotesTyped
  <1>3. ASSUME NEW r \in Savers, SelectME(r) PROVE NotesTyped'
    <2>1. notesMu = r /\ UNCHANGED <<phonebook, index, misled>>
      BY <1>3 DEF SelectME, SaveInv, NotesTyped
    <2>2. (Steps(r, "status") /\ notesMu' = r) \/ (Steps(r, "done") /\ notesMu' = "free")
      BY <1>3, <2>1 DEF SelectME, Returns
    <2> QED
      BY <2>1, <2>2, SaveIsTyped DEF NotesTyped
  <1>4. ASSUME NEW r \in Savers, ReadStatus(r) PROVE NotesTyped'
    <2>1. notesMu = r /\ UNCHANGED phonebook /\ misled' \subseteq Savers
      BY <1>4 DEF ReadStatus, SaveInv, NotesTyped
    <2>2. \/ Steps(r, "read") /\ notesMu' = r /\ UNCHANGED index
          \/ Steps(r, "done") /\ notesMu' = "free" /\ (UNCHANGED index \/ index' = [index EXCEPT ![r] = 1])
          \/ /\ Steps(r, "write") /\ notesMu' = r
             /\ index' = [index EXCEPT ![r] = 1] /\ DOMAIN phonebook["ME"] # {}
      BY <1>4, <2>1 DEF ReadStatus, Returns
    <2>3. \A q \in Savers \ {r} : index'[q] = index[q]
      BY <2>2 DEF SaveInv
    <2>4. DOMAIN phonebook["ME"] # {} => 1 \in DOMAIN phonebook["ME"]
      BY DEF SaveInv, IsBook
    <2>5. index' = [index EXCEPT ![r] = 1] => index'[r] = 1
      BY DEF SaveInv
    <2> QED
      BY <2>1, <2>2, <2>3, <2>4, <2>5, SaveIsTyped
  <1>5. ASSUME NEW r \in Savers, ReadNotes(r) PROVE NotesTyped'
    <2>1. notesMu = r /\ UNCHANGED phonebook /\ misled' \subseteq Savers
      BY <1>5 DEF ReadNotes, SaveInv, NotesTyped
    <2>2. PICK c \in Outcomes(Listing) :
            IF ~c.answer.ok THEN Returns(r) /\ UNCHANGED <<index, exists, misled>>
            ELSE LET own == NotesOf(wish[r][1], c.answer.listed)
                     free == Vacant(c.answer.listed)
                 IN  /\ index' = [index EXCEPT ![r] =
                          IF own # {} THEN Max(own) ELSE IF free # {} THEN Min(free) ELSE 0]
                     /\ IF own = {} /\ (wish[r][2] = NoText \/ free = {}) THEN Returns(r)
                        ELSE Steps(r, "write") /\ UNCHANGED notesMu
      BY <1>5 DEF ReadNotes
    <2>3. c.answer \in AnswerTypes
      BY AnswersAre, OutcomeIs DEF SaveInv
    <2> DEFINE own == NotesOf(wish[r][1], c.answer.listed)
               free == Vacant(c.answer.listed)
               chosen == IF own # {} THEN Max(own) ELSE IF free # {} THEN Min(free) ELSE 0
    <2>4. own # {} \/ free # {} => chosen \in DOMAIN phonebook["ME"]
      <3>1. PICK k \in Nat : DOMAIN phonebook["ME"] = 1 .. k
        BY DEF SaveInv, IsBook
      <3>2. c.answer.listed \subseteq (1 .. k) \X PhonebookEntries
        BY <2>3, <3>1 DEF AnswerTypes
      <3>3. own \in SUBSET Nat /\ own \subseteq 1 .. k /\ \A n \in own : n <= k
        BY <3>2 DEF NotesOf
      <3>4. free \in SUBSET Nat /\ free \subseteq 1 .. k
        BY <3>1 DEF Vacant
      <3> HIDE DEF own, free
      <3>5. own # {} => Max(own) \in own
        BY <3>1, <3>3, MaxIsGreatest
      <3>6. free # {} => Min(free) \in free
        BY <3>4, MinIsLeast
      <3> QED
        BY <3>1, <3>3, <3>4, <3>5, <3>6
    <2>5. \/ Returns(r) /\ UNCHANGED index
          \/ Returns(r) /\ index' = [index EXCEPT ![r] = chosen]
          \/ /\ Steps(r, "write") /\ UNCHANGED notesMu
             /\ index' = [index EXCEPT ![r] = chosen] /\ (own # {} \/ free # {})
      BY <2>2
    <2> HIDE DEF chosen, own, free
    <2>6. \A q \in Savers \ {r} : index'[q] = index[q]
      BY <2>5 DEF SaveInv
    <2>7. index' = [index EXCEPT ![r] = chosen] => index'[r] = chosen
      BY DEF SaveInv
    <2> QED
      BY <2>1, <2>4, <2>5, <2>6, <2>7, SaveIsTyped DEF Returns
  <1>6. ASSUME NEW r \in Savers, WriteNote(r) PROVE NotesTyped'
    <2>1. notesMu = r /\ UNCHANGED <<misled, index>> /\ notesMu' = "free" /\ Steps(r, "done")
      BY <1>6 DEF WriteNote, Returns, SaveInv
    <2>2. \A q \in Savers : step'[q] # "write"
      BY <2>1 DEF Steps, SaveInv
    <2> QED
      BY <2>1, <2>2, NotesAssumption DEF NotesTyped
  <1>7. ASSUME NEW p \in Probers, Probe(p) \/ ProbeAsks(p) PROVE NotesTyped'
    <2>1. UNCHANGED <<phonebook, notesMu, index>> /\ misled' \subseteq Savers
      BY <1>7 DEF Probe, ProbeAsks, NotesTyped
    <2>2. step[p] \in {"idle", "asks"} /\ \E next \in {"asks", "done"} : step' = [step EXCEPT ![p] = next]
      BY <1>7 DEF Probe, ProbeAsks, Steps
    <2>3. \A r \in Savers : step[r] \in {"select", "status", "read", "write"} => step'[r] = step[r]
      BY <2>2 DEF SaveInv
    <2>4. \A r \in Savers : step'[r] = "write" => step[r] = "write"
      BY <2>2 DEF SaveInv
    <2> QED
      BY <2>1, <2>3, <2>4 DEF NotesTyped
  <1>11. CASE AskElse
    BY <1>11 DEF AskElse, NotesTyped
  <1>8. CASE Restarts
    BY <1>8, NotesAssumption DEF Restarts, NotesTyped, SaveInv
  <1>9. CASE ListNotes \/ \E i \in ICCIDs, t \in Texts \cup {NoText} : SaveNote(i, t)
    BY <1>1, <1>9 DEF ListNotes, SaveNote
  <1>10. CASE UNCHANGED noteVars
    BY <1>1, <1>10 DEF noteVars
  <1> QED
    BY <1>2, <1>3, <1>4, <1>5, <1>6, <1>7, <1>8, <1>9, <1>10, <1>11 DEF NotesNext

LEMMA LateAreListed ==
  SaveInv => \A n \in DOMAIN late : late[n].listed \subseteq (DOMAIN phonebook["ME"]) \X PhonebookEntries
  <1> SUFFICES ASSUME SaveInv, NEW n \in DOMAIN late PROVE late[n] \in AnswerTypes
    BY DEF AnswerTypes
  <1> QED
    BY DEF SaveInv

(* moduleNotesMu is held by the save that is under way and by nobody else, *)
(* the entry it will write is one of the phonebook ME, an answer that comes *)
(* late lists entries of such a place, and what the map and the files hold *)
(* are notes (readModuleESIMNotes, saveModuleESIMNote,                     *)
(* loadProfileNotesLocked).                                                *)
THEOREM NotesTypeCorrect == NotesSpec => []NotesTypeOK
  <1>1. NotesInit => NotesTyped
    BY NotesAssumption DEF NotesInit, NotesTyped
  <1>2. NotesInv /\ SaveInv /\ NotesTyped => NotesTypeOK
    BY LateAreListed DEF NotesInv, SaveInv, NotesTyped, NotesTypeOK, LocalNotes
  <1> QED
    BY <1>1, <1>2, NotesTypedStep, NotesInitially, NotesStep, SaveInitially, SaveStep, PTL
    DEF NotesSpec

-----------------------------------------------------------------------------
(* The outbox.                                                             *)

(* Only who reads from the port holds it, and only who has a message under *)
(* way holds the lock of the senders.                                      *)
PortTyped ==
  /\ \A c \in Clients : port = c => at[c] \in ReadingPort
  /\ \A s \in Senders : sendMu = s => at[s] # "idle"
  /\ editor \in {"closed", "open", "spoiled"}

LEMMA PortTypedStep == OutTypes /\ PortTyped /\ [OutNext]_outVars => PortTyped'
  <1> SUFFICES ASSUME OutTypes, PortTyped, [OutNext]_outVars PROVE PortTyped'
    OBVIOUS
  <1> USE OutAssumption DEF Clients, ReadingPort, At, OutTypes, PortTyped, senderVars
  <1>1. CASE Answers
    BY <1>1 DEF Answers
  <1>2. ASSUME NEW u \in Users, PlainCommand(u) PROVE PortTyped'
    BY <1>2 DEF PlainCommand, Locks, Takes
  <1>3. ASSUME NEW u \in Users, PlainReads(u) \/ PlainTimesOut(u) PROVE PortTyped'
    BY <1>3 DEF PlainReads, PlainTimesOut
  <1>4. ASSUME NEW s \in Senders, LockSend(s) PROVE PortTyped'
    BY <1>4 DEF LockSend
  <1>5. ASSUME NEW s \in Senders, SetMode(s) PROVE PortTyped'
    BY <1>5 DEF SetMode, Locks, Takes
  <1>6. ASSUME NEW s \in Senders, ModeReads(s) \/ ModeTimesOut(s) PROVE PortTyped'
    BY <1>6 DEF ModeReads, ModeTimesOut, Ends
  <1>7. ASSUME NEW s \in Senders, SendSegment(s) PROVE PortTyped'
    BY <1>7 DEF SendSegment, Locks, TakesCMGS, Takes
  <1>8. ASSUME NEW s \in Senders, PromptReads(s) PROVE PortTyped'
    BY <1>8 DEF PromptReads, TakesText, Ends
  <1>9. ASSUME NEW s \in Senders, TextReads(s) PROVE PortTyped'
    BY <1>9 DEF TextReads, NextSegment, Ends
  <1>10. ASSUME NEW s \in Senders, SegmentTimesOut(s) PROVE PortTyped'
    BY <1>10 DEF SegmentTimesOut, Ends
  <1>11. CASE UNCHANGED outVars
    BY <1>11 DEF outVars
  <1> QED
    BY <1>1, <1>2, <1>3, <1>4, <1>5, <1>6, <1>7, <1>8, <1>9, <1>10, <1>11 DEF OutNext, Sends, Uses

(* The port and the lock of the senders are held by exactly those who are  *)
(* in the middle of a command, or of a message, and a sender is at one of  *)
(* the segments of its message (sendUSBATSMS, usbAT.mu).                   *)
THEOREM OutTypeCorrect == OutSpec => []OutTypeOK
  <1>1. OutInit => PortTyped
    BY OutAssumption DEF OutInit, PortTyped, Clients
  <1>2. OutInv /\ PortTyped => OutTypeOK
    <2> SUFFICES ASSUME OutInv, PortTyped PROVE OutTypeOK
      OBVIOUS
    <2>1. ToSet(joined) \cup ToSet(inbound) \cup ToSet(due) \subseteq Tokens
      BY DEF OutInv, StreamTypes, ToSet
    <2>2. ToSet(sent) \subseteq Senders \X Nat
      BY DEF OutInv, StreamTypes, ToSet
    <2> QED
      BY <2>1, <2>2 DEF OutInv, OutTypes, PortTyped, OutTypeOK, ReadingPort
  <1>3. OutInv /\ [OutNext]_outVars => OutInv'
    BY OutTypesStep, StreamsStep, PromptStep, TextStep, SentStep DEF OutInv
  <1>4. OutInv => OutTypes
    BY DEF OutInv
  <1> QED
    BY <1>1, <1>2, <1>3, <1>4, PortTypedStep, OutInitially, PTL DEF OutSpec

-----------------------------------------------------------------------------
(* The call watcher.                                                       *)

(* A call that arises finds an index among the first as many as there are  *)
(* calls.                                                                  *)
LEMMA FreeIsSmall ==
  ASSUME ModuleInv, NEW c \in Calls \ Present
  PROVE  Free \in 1 .. Cardinality(Calls)
  <1> DEFINE N == Cardinality(Calls)
             used == {call[d].index : d \in Present}
             T == 1 .. N + 1 \ used
             others == Calls \ {c}
  <1>1. N \in Nat /\ IsFiniteSet(Calls)
    BY CallAssumption, FS_CardinalityType
  <1>2. IsFiniteSet(others) /\ Cardinality(others) = N - 1
    BY <1>1, FS_RemoveElement
  <1>3. 1 .. N \cap T # {}
    <2> SUFFICES ASSUME 1 .. N \cap T = {} PROVE FALSE
      OBVIOUS
    <2> DEFINE f == [i \in 1 .. N |-> CHOOSE d \in Present : call[d].index = i]
    <2>1. \A i \in 1 .. N : f[i] \in others /\ call[f[i]].index = i
      <3> SUFFICES ASSUME NEW i \in 1 .. N PROVE f[i] \in others /\ call[f[i]].index = i
        OBVIOUS
      <3>1. i \in used
        BY <1>1
      <3>2. f[i] \in Present /\ call[f[i]].index = i
        BY <3>1
      <3> QED
        BY <3>2 DEF Present
    <2>2. f \in [1 .. N -> others]
      BY <2>1
    <2>3. IsFiniteSet(1 .. N) /\ Cardinality(1 .. N) = N
      <3> HIDE DEF N
      <3>1. 1 \in Int /\ N \in Int
        BY <1>1
      <3>2. /\ IsFiniteSet(1 .. N)
            /\ Cardinality(1 .. N) = IF 1 > N THEN 0 ELSE N - 1 + 1
        BY <3>1, FS_Interval, Zenon
      <3> QED
        BY <1>1, <3>2
    <2>4. \E i, j \in 1 .. N : i # j /\ f[i] = f[j]
      <3>1. PICK S : S = 1 .. N
        OBVIOUS
      <3>2. IsFiniteSet(S) /\ f \in [S -> others]
        BY <2>2, <2>3, <3>1
      <3>3. Cardinality(others) < Cardinality(S)
        BY <1>1, <1>2, <2>3, <3>1
      <3> HIDE DEF f, others
      <3>5. \E i, j \in S : i # j /\ f[i] = f[j]
        BY <1>2, <3>2, <3>3, FS_PigeonHole
      <3> QED
        BY <3>1, <3>5
    <2> QED
      BY <2>1, <2>4
  <1>4. Min(T) \in T /\ \A i \in T : Min(T) <= i
    <2>1. T \in SUBSET Nat /\ T # {}
      BY <1>1, <1>3
    <2> HIDE DEF T
    <2> QED
      BY <2>1, MinIsLeast
  <1>5. Free = Min(T)
    BY Zenon DEF Free
  <1> QED
    BY <1>1, <1>3, <1>4, <1>5

(* The calls in the module have such indices, and the records are those of *)
(* calls that were listed.                                                 *)
IndicesInv == \A c \in Present : call[c].index \in 1 .. Cardinality(Calls)
RecordsTyped ==
  /\ activeCall \in Records \cup {NoRecord}
  /\ \A n \in DOMAIN callHistory : callHistory[n] \in Records
  /\ Len(callHistory) <= MaxHistory

LEMMA IndicesStep == ModuleInv /\ IndicesInv /\ [CallNext]_callVars => IndicesInv'
  <1> SUFFICES ASSUME ModuleInv, IndicesInv, [CallNext]_callVars PROVE IndicesInv'
    OBVIOUS
  <1>1. CASE UNCHANGED call
    BY <1>1 DEF IndicesInv, Present
  <1>2. ASSUME NEW c \in Calls, Arises(c) PROVE IndicesInv'
    <2>1. PICK s : call' = [call EXCEPT ![c] = [state |-> s, index |-> Free]]
      BY <1>2 DEF Arises
    <2>2. c \notin Present
      BY <1>2 DEF Arises, Present, Lasting, Ringing
    <2>3. call'[c].index = Free /\ \A d \in Calls : d # c => call'[d] = call[d]
      BY <2>1 DEF ModuleInv
    <2>4. \A d \in Present' : d = c \/ d \in Present
      BY <2>3 DEF Present
    <2> QED
      BY <2>2, <2>3, <2>4, FreeIsSmall DEF IndicesInv, Present
  <1>3. ASSUME NEW c \in Calls, Moves(c) PROVE IndicesInv'
    <2>1. PICK s \in Following[call[c].state] :
            call' = [call EXCEPT ![c] = [state |-> s, index |-> IF s = "over" THEN 0 ELSE @.index]]
      BY <1>3 DEF Moves
    <2>2. c \in Present
      BY <1>3 DEF Moves
    <2>3. call'[c] = [state |-> s, index |-> IF s = "over" THEN 0 ELSE call[c].index]
          /\ \A d \in Calls : d # c => call'[d] = call[d]
      BY <2>1 DEF ModuleInv
    <2>4. \A d \in Present' : d \in Present /\ call'[d].index = call[d].index
      <3> SUFFICES ASSUME NEW d \in Present' PROVE d \in Present /\ call'[d].index = call[d].index
        OBVIOUS
      <3>1. d \in Calls /\ call'[d].state \in Lasting
        BY DEF Present
      <3>2. CASE d = c
        <4>1. s # "over"
          BY <2>3, <3>1, <3>2 DEF Lasting, Ringing
        <4> QED
          BY <2>2, <2>3, <3>2, <4>1
      <3>3. CASE d # c
        BY <2>3, <3>1, <3>3 DEF Present
      <3> QED
        BY <3>2, <3>3
    <2> QED
      BY <2>4 DEF IndicesInv
  <1>4. CASE Unplugged
    <2>1. call' = [c \in Calls |-> IF c \in Present THEN [state |-> "over", index |-> 0] ELSE call[c]]
      BY <1>4 DEF Unplugged
    <2>2. Present' = {}
      BY <2>1 DEF Present, Lasting, Ringing
    <2> QED
      BY <2>2 DEF IndicesInv
  <1>5. CASE PollStep \/ Plugged \/ ForgetsConfiguration \/ UNCHANGED callVars
    BY <1>1, <1>5 DEF PollStep, BeginPoll, Configure, ListCalls, Plugged, ForgetsConfiguration,
                      moduleVars, callVars
  <1> QED
    BY <1>2, <1>3, <1>4, <1>5 DEF CallNext

LEMMA ParsedIncoming == ASSUME NEW c PROVE Parsed(c).incoming \in BOOLEAN
  BY DEF Parsed

(* What a poll lists makes a record. *)
LEMMA PollMakesRecords ==
  ASSUME CallInv, IndicesInv, RecordsTyped, NEW calls \in SUBSET Present, ApplyCallPoll(calls)
  PROVE  RecordsTyped'
  <1>1. CASE calls = {}
    <2>1. activeCall' = NoRecord
      BY <1>1 DEF ApplyCallPoll
    <2>2. CASE activeCall = NoRecord
      BY <1>1, <2>1, <2>2 DEF ApplyCallPoll, RecordsTyped
    <2>3. CASE activeCall # NoRecord
      <3> DEFINE all == <<activeCall>> \o callHistory
                 k == Min({Len(all), MaxHistory})
      <3>1. PICK R : callHistory \in Seq(R)
        BY DEF CallInv, RecordsInv
      <3>2. callHistory \in Seq(Records) /\ activeCall \in Records
        BY <2>3, <3>1 DEF RecordsTyped
      <3>3. all \in Seq(Records)
        BY <3>2
      <3>4. k \in Nat /\ k <= Len(all) /\ k <= MaxHistory
        <4>1. {Len(all), MaxHistory} \in SUBSET Nat /\ {Len(all), MaxHistory} # {}
          <5>1. Len(all) \in Nat
            BY <3>3
          <5>2. MaxHistory \in Nat
            BY CallAssumption
          <5> QED
            BY <5>1, <5>2
        <4> HIDE DEF all
        <4> QED
          BY <4>1, MinIsLeast
      <3>5. callHistory' = SubSeq(all, 1, k)
        BY <1>1, <2>3 DEF ApplyCallPoll
      <3>6. callHistory' \in Seq(Records) /\ Len(callHistory') = k
        <4> HIDE DEF all, k
        <4> QED
          BY <3>3, <3>4, <3>5
      <3> QED
        BY <2>1, <3>4, <3>6 DEF RecordsTyped
    <2> QED
      BY <2>2, <2>3
  <1>2. CASE calls # {}
    <2> DEFINE c == Selected(calls)
    <2>1. c \in Present
      BY <1>2, SelectedIsFirst DEF CallInv
    <2>2. c \in Calls /\ call[c].state \in Lasting /\ call[c].index \in 1 .. Cardinality(Calls)
      BY <2>1 DEF Present, IndicesInv
    <2>3. activeCall' = Updated(Parsed(c)) /\ UNCHANGED callHistory
      BY <1>2 DEF ApplyCallPoll
    <2> HIDE DEF c
    <2>4. Updated(Parsed(c)) \in Records
      <3>1. activeCall.took \in BOOLEAN /\ activeCall.number \in Calls \cup {""}
        <4>1. CASE activeCall \in Records
          BY <4>1 DEF Records
        <4>2. CASE activeCall = NoRecord
          BY <4>2 DEF NoRecord
        <4> QED
          BY <4>1, <4>2 DEF RecordsTyped
      <3>2. /\ Parsed(c).number \in Calls \cup {""} /\ Parsed(c).call = c
            /\ Parsed(c).index = call[c].index
            /\ Parsed(c).state = call[c].state
        BY <2>2 DEF Parsed
      <3> DEFINE s == Parsed(c)
      <3> HIDE DEF s
      <3>3. Updated(s).number \in Calls \cup {""}
        BY <3>1, <3>2 DEF Updated, s
      <3>7. PICK number \in Calls \cup {""} : number = Updated(s).number
        BY <3>3
      <3>8. PICK took \in BOOLEAN : took = TakesOver(s)
        BY <3>1 DEF TakesOver
      <3>9. Updated(s) = [index |-> call[c].index, incoming |-> s.incoming, state |-> call[c].state,
                          number |-> number, took |-> took, of |-> c]
        BY <3>2, <3>7, <3>8 DEF Updated, s
      <3>a. PICK i \in 1 .. Cardinality(Calls) : i = call[c].index
        BY <2>2
      <3>b. PICK coming \in BOOLEAN : coming = s.incoming
        <4>1. s.incoming \in BOOLEAN
          BY ParsedIncoming DEF s
        <4> QED
          BY <4>1
      <3>c. PICK state \in Lasting : state = call[c].state
        BY <2>2
      <3>11. [index |-> i, incoming |-> coming, state |-> state, number |-> number, took |-> took,
              of |-> c] \in Records
        BY <2>2 DEF Records
      <3>12. Updated(s) \in Records
        BY <3>9, <3>a, <3>b, <3>c, <3>11
      <3> QED
        BY <3>12 DEF s
    <2> QED
      BY <2>3, <2>4 DEF RecordsTyped
  <1> QED
    BY <1>1, <1>2

(* The record of the active call and those of the history, of which there  *)
(* are at most as many as are kept, are those of calls that were listed    *)
(* (applyCallPoll).                                                        *)
THEOREM CallTypeCorrect == CallSpec => []CallTypeOK
  <1>1. CallInit => IndicesInv /\ RecordsTyped
    <2> SUFFICES ASSUME CallInit PROVE IndicesInv /\ RecordsTyped
      OBVIOUS
    <2>1. IndicesInv
      BY DEF CallInit, IndicesInv, Present, Lasting, Ringing
    <2>2. MaxHistory \in Nat
      BY CallAssumption
    <2>3. activeCall = NoRecord /\ callHistory = <<>>
      BY DEF CallInit
    <2>4. RecordsTyped
      BY <2>2, <2>3 DEF RecordsTyped
    <2> QED
      BY <2>1, <2>4
  <1>2. CallInv /\ IndicesInv /\ RecordsTyped /\ [CallNext]_callVars => RecordsTyped'
    <2> SUFFICES ASSUME CallInv, IndicesInv, RecordsTyped, [CallNext]_callVars PROVE RecordsTyped'
      OBVIOUS
    <2>1. CASE UNCHANGED <<activeCall, callHistory>>
      BY <2>1 DEF RecordsTyped
    <2>2. CASE ListCalls
      <3>1. \A n : Listed(n) \in SUBSET Present
        BY DEF Listed
      <3> QED
        BY <2>1, <2>2, <3>1, PollMakesRecords DEF ListCalls, recordVars
    <2>3. CASE ~ListCalls
      BY <2>1, <2>3 DEF CallNext, PollStep, BeginPoll, Configure, Unplugged, Plugged,
         ForgetsConfiguration, Arises, Moves, recordVars, callVars
    <2> QED
      BY <2>2, <2>3
  <1>3. CallInv /\ IndicesInv /\ RecordsTyped => CallTypeOK
    BY DEF CallInv, ModuleInv, States, RecordsTyped, CallTypeOK, ToSet
  <1>4. CallInv => ModuleInv
    BY DEF CallInv
  <1> QED
    BY <1>1, <1>2, <1>3, <1>4, IndicesStep, CallInitially, CallStep, PTL DEF CallSpec

-----------------------------------------------------------------------------
(* USSD.                                                                   *)

(* Only who is in the middle of a request holds the mutex. *)
AskerTyped ==
  /\ ussdMu \in Askers \cup {NoAsker}
  /\ \A r \in Askers : ussdMu = r => asker[r] \notin {"idle", "done"}

LEMMA AskerTypedStep == USSDTypes /\ AskerTyped /\ [USSDNext]_ussdVars => AskerTyped'
  <1> SUFFICES ASSUME USSDTypes, AskerTyped, [USSDNext]_ussdVars PROVE AskerTyped'
    OBVIOUS
  <1> USE USSDAssumption DEF Becomes, Tells, AskerTyped
  <1>0. asker \in [Askers -> Stages] /\ \A r \in Askers : asker[r] \notin {"idle", "done"} => ussdMu = r
    BY DEF USSDTypes
  <1>1. ASSUME NEW r \in Askers, Asks(r) PROVE AskerTyped'
    BY <1>0, <1>1 DEF Asks, Ask, DrainReleases, Refuse, Prepare
  <1>2. ASSUME NEW r \in Askers, Requests(r) PROVE AskerTyped'
    BY <1>0, <1>2 DEF Requests, Originate, FallBack, AnswerAtOnce, RequestFails, RequestTimesOut
  <1>3. ASSUME NEW r \in Askers, WaitsForText(r) PROVE AskerTyped'
    BY <1>0, <1>3 DEF WaitsForText, TakeResult, TakeError, TakeRelease, WaitTimesOut
  <1>4. CASE Text \/ Failure \/ Release
    BY <1>4 DEF Text, Failure, Release, Indicates
  <1>5. CASE Deliver \/ CancelUSSD
    BY <1>5 DEF Deliver, CancelUSSD
  <1>6. CASE UNCHANGED ussdVars
    BY <1>6 DEF ussdVars
  <1> QED
    BY <1>1, <1>2, <1>3, <1>4, <1>5, <1>6 DEF USSDNext

(* ussdMu is held by the request that is under way and by nobody else, and  *)
(* what lies in the channels is about sessions of requests (ExecuteUSSD,   *)
(* initUSSDCallbacks).                                                     *)
THEOREM USSDTypeCorrect == USSDSpec => []USSDTypeOK
  <1>1. USSDInit => AskerTyped
    BY USSDAssumption DEF USSDInit, AskerTyped
  <1>2. USSDInv => USSDTypes
    BY DEF USSDInv
  <1>3. USSDTypes /\ AskerTyped => USSDTypeOK
    <2> SUFFICES ASSUME USSDTypes, AskerTyped PROVE USSDTypeOK
      OBVIOUS
    <2>1. \A channel \in {ussdResult, ussdErr, ussdRelease} : channel = <<>> \/ channel[1] \in Askers
      BY DEF USSDTypes
    <2>2. session.state \in {"none", "open", "told", "cancelled"}
      BY DEF USSDTypes
    <2>3. \A r \in Askers : asker[r] \in Stages
      BY DEF USSDTypes
    <2> QED
      BY <2>1, <2>2, <2>3 DEF USSDTypes, AskerTyped, USSDTypeOK, Stages
  <1> QED
    BY <1>1, <1>2, <1>3, AskerTypedStep, USSDInitially, USSDStep, PTL DEF USSDSpec

-----------------------------------------------------------------------------
(* The MBIM channel.                                                       *)

PiecesFor(longest, length) ==
  IF longest - 48 <= 0 \/ longest - 20 <= 0 \/ length <= longest - 48 THEN 1
  ELSE 1 + (length - (longest - 48) + (longest - 20) - 1) \div (longest - 20)

(* A command has at least one fragment. *)
LEMMA AtLeastOnePiece ==
  ASSUME NEW length \in Nat, NEW longest \in Int
  PROVE  PiecesFor(longest, length) \in Nat /\ PiecesFor(longest, length) >= 1
  <1>1. CASE longest - 48 <= 0 \/ longest - 20 <= 0 \/ length <= longest - 48
    BY <1>1 DEF PiecesFor
  <1>2. CASE ~(longest - 48 <= 0 \/ longest - 20 <= 0 \/ length <= longest - 48)
    <2> DEFINE n == length - (longest - 48) + (longest - 20) - 1
               d == longest - 20
    <2>1. n \in Nat /\ d \in Nat \ {0}
      BY <1>2
    <2>2. n \div d \in Nat
      <3> HIDE DEF n, d
      <3> QED
        BY <2>1
    <2>3. PiecesFor(longest, length) = 1 + n \div d
      BY <1>2 DEF PiecesFor
    <2> HIDE DEF n, d
    <2> QED
      BY <2>2, <2>3
  <1> QED
    BY <1>1, <1>2

(* No more fragments are written than the command has. *)
MBIMTyped ==
  /\ maxCtrl \in Int /\ writeMu \in MBIMCallers \cup {Opener, NoWriter}
  /\ \A c \in MBIMUsers :
       /\ request[c].sent <= PiecesOf(c)
       /\ request[c].step \in {"lock", "send"} => request[c].sent < PiecesOf(c)
  /\ Len(indicationQueue) <= IndicationSlots
  /\ readLoop \in {"none", "running", "ended"}

(* The fragments of the command of a caller, now and after a step. *)
LEMMA PiecesPositive ==
  ASSUME maxCtrl \in Int, NEW c \in MBIMUsers, request[c].what = "command" => c \in MBIMCallers
  PROVE  PiecesOf(c) \in Nat /\ PiecesOf(c) >= 1
  <1>1. CASE request[c].what = "command"
    <2>1. InfoLength[c] \in Nat
      BY <1>1, MBIMAssumption
    <2>2. PiecesOf(c) = PiecesFor(maxCtrl, InfoLength[c])
      BY <1>1 DEF PiecesOf, Pieces, PiecesFor
    <2> QED
      BY <2>1, <2>2, AtLeastOnePiece
  <1>2. CASE request[c].what # "command"
    BY <1>2 DEF PiecesOf
  <1> QED
    BY <1>1, <1>2

LEMMA PiecesPositiveNext ==
  ASSUME maxCtrl' \in Int, NEW c \in MBIMUsers, request'[c].what = "command" => c \in MBIMCallers
  PROVE  PiecesOf(c)' \in Nat /\ PiecesOf(c)' >= 1
  <1>1. CASE request'[c].what = "command"
    <2>1. InfoLength[c] \in Nat
      BY <1>1, MBIMAssumption
    <2>2. PiecesOf(c)' = PiecesFor(maxCtrl', InfoLength[c])
      BY <1>1 DEF PiecesOf, Pieces, PiecesFor
    <2> QED
      BY <2>1, <2>2, AtLeastOnePiece
  <1>2. CASE request'[c].what # "command"
    BY <1>2 DEF PiecesOf
  <1> QED
    BY <1>1, <1>2

LEMMA PiecesKept ==
  ASSUME UNCHANGED maxCtrl, NEW c, request'[c].what = request[c].what
  PROVE  PiecesOf(c)' = PiecesOf(c)
  BY DEF PiecesOf, Pieces

(* A caller that goes on. *)
LEMMA CallIsTyped ==
  ASSUME CallTypes, MBIMTyped, NEW c \in MBIMUsers, CallMoves(c),
         UNCHANGED <<maxCtrl, indicationQueue, readLoop>>,
         writeMu' \in MBIMCallers \cup {Opener, NoWriter},
         request'[c].sent <= PiecesOf(c),
         request'[c].step \in {"lock", "send"} => request'[c].sent < PiecesOf(c)
  PROVE  MBIMTyped'
  <1>1. \A d \in MBIMUsers : PiecesOf(d)' = PiecesOf(d)
    BY PiecesKept DEF CallMoves
  <1>2. \A d \in MBIMUsers : d # c => request'[d] = request[d]
    BY DEF CallMoves
  <1> QED
    BY <1>1, <1>2 DEF MBIMTyped

(* A caller that asks. *)
LEMMA AskIsTyped ==
  ASSUME CallTypes, MBIMTyped, NEW c \in MBIMUsers, OnlyAsks(c),
         \/ UNCHANGED maxCtrl
         \/ maxCtrl' = MaxControlTransfer /\ \A d \in MBIMUsers : request[d] = Resting,
         request'[c].what = "command" => c \in MBIMCallers,
         UNCHANGED <<indicationQueue, writeMu>>, readLoop' \in {readLoop, "running"}
  PROVE  MBIMTyped'
  <1>1. maxCtrl' \in Int
    BY MBIMAssumption DEF MBIMTyped
  <1>2. PiecesOf(c)' \in Nat /\ PiecesOf(c)' >= 1 /\ request'[c].sent = 0
    <2>1. PiecesOf(c)' \in Nat /\ PiecesOf(c)' >= 1
      BY <1>1, PiecesPositiveNext
    <2> QED
      BY <2>1 DEF OnlyAsks
  <1>3. ASSUME NEW d \in MBIMUsers, d # c
        PROVE  /\ request'[d].sent <= PiecesOf(d)'
               /\ request'[d].step \in {"lock", "send"} => request'[d].sent < PiecesOf(d)'
    <2>1. request'[d] = request[d]
      BY <1>3 DEF OnlyAsks
    <2>2. CASE UNCHANGED maxCtrl
      BY <2>1, <2>2, PiecesKept DEF MBIMTyped
    <2>3. CASE request[d] = Resting
      BY <2>1, <2>3 DEF Resting, PiecesOf
    <2> QED
      BY <2>2, <2>3
  <1> QED
    BY <1>1, <1>2, <1>3 DEF MBIMTyped

(* Before it opens the device the opener has no command. *)
OpenerRests == opened = "no" => request[Opener] = Resting

LEMMA OpenerRestsStep == MBIMInv /\ OpenerRests /\ [MBIMNext]_mbimVars => OpenerRests'
  <1> SUFFICES ASSUME MBIMInv, OpenerRests, [MBIMNext]_mbimVars, opened' = "no" PROVE request'[Opener] = Resting
    BY DEF OpenerRests
  <1>0. CallTypes
    BY DEF MBIMInv
  <1>a. Opener \in MBIMUsers /\ Opener \notin MBIMCallers
    BY MBIMAssumption DEF MBIMUsers
  <1>1. ASSUME opened = "no", UNCHANGED request PROVE request'[Opener] = Resting
    BY <1>1 DEF OpenerRests
  <1>2. ASSUME NEW c \in MBIMUsers, MBIMCall(c), opened = "no" PROVE request'[Opener] = Resting
    <2>1. request[Opener] = Resting
      BY <1>2 DEF OpenerRests
    <2>2. CASE c = Opener
      BY <1>2, <1>a, <2>1, <2>2
      DEF MBIMCall, Command, TakeWriteMu, WriteMessage, WriteFails, ContextDone, TakeAnswer, Resting
    <2>3. CASE c # Opener
      <3>1. ~Command(c)
        BY <1>2 DEF Command
      <3>2. CallMoves(c)
        BY <1>0, <1>2, <3>1, OtherCallsMove DEF MBIMCall, MBIMInv
      <3> QED
        BY <1>a, <2>1, <2>3, <3>2 DEF CallMoves
    <2> QED
      BY <2>2, <2>3
  <1> QED
    BY <1>1, <1>2 DEF MBIMNext, Open, OpenGoesOn, CloseBegins, CloseEnds, ModuleReplies, ModuleChanges,
       LosesMessage, RepeatsMessage, Reading, ReadDone, ReadCommandDone, ReadIndication, ReadFails, Run,
       mbimVars, deviceVars, callingVars, MBIMCall, Command, TakeWriteMu, WriteMessage, WriteFails,
       ContextDone, TakeAnswer, CallReturns

LEMMA MBIMTypedStep == MBIMInv /\ OpenerRests /\ MBIMTyped /\ [MBIMNext]_mbimVars => MBIMTyped'
  <1> SUFFICES ASSUME MBIMInv, OpenerRests, MBIMTyped, [MBIMNext]_mbimVars PROVE MBIMTyped'
    OBVIOUS
  <1>0. CallTypes /\ NumbersInv /\ WritersInv
    BY DEF MBIMInv
  <1>a. Opener \in MBIMUsers /\ MBIMCallers \subseteq MBIMUsers
    BY DEF MBIMUsers
  <1>1. ASSUME UNCHANGED <<maxCtrl, writeMu, request>>,
               \/ UNCHANGED indicationQueue
               \/ \E m : indicationQueue' = Append(indicationQueue, m) /\ Len(indicationQueue) < IndicationSlots
               \/ indicationQueue # <<>> /\ indicationQueue' = Tail(indicationQueue),
               readLoop' \in {readLoop, "ended"}
        PROVE  MBIMTyped'
    <2>1. \A c \in MBIMUsers : PiecesOf(c)' = PiecesOf(c)
      BY <1>1, PiecesKept
    <2>2. Len(indicationQueue') <= IndicationSlots
      <3>1. IndicationSlots \in Nat
        BY MBIMAssumption
      <3>2. PICK R : indicationQueue \in Seq(R)
        BY DEF MBIMInv, LineTypes
      <3>3. Len(indicationQueue) \in Nat
        BY <3>2
      <3>4. ASSUME NEW m PROVE Len(Append(indicationQueue, m)) = Len(indicationQueue) + 1
        <4>1. indicationQueue \in Seq(R \cup {m})
          BY <3>2
        <4> QED
          BY <4>1
      <3>5. indicationQueue # <<>> => Len(Tail(indicationQueue)) <= Len(indicationQueue)
        BY <3>2, <3>3
      <3> QED
        BY <1>1, <3>1, <3>3, <3>4, <3>5 DEF MBIMTyped
    <2> QED
      BY <1>1, <2>1, <2>2 DEF MBIMTyped
  <1>2. CASE Open
    <2>1. \A d \in MBIMUsers : request[d] = Resting
      <3>1. opened = "no"
        BY <1>2 DEF Open
      <3> QED
        BY <1>0, <3>1 DEF WritersInv, OpenerRests, MBIMUsers
    <2> QED
      BY <1>2, <2>1, <1>0, <1>a, RegisterAsks, AskIsTyped DEF Open, monitorVars
  <1>3. CASE OpenGoesOn
    <2>1. CASE Register(Opener, "open")
      BY <1>3, <2>1, <1>0, <1>a, RegisterAsks, AskIsTyped DEF OpenGoesOn, monitorVars
    <2>2. CASE UNCHANGED <<nextTx, pending, request>>
      BY <1>1, <1>3, <2>2 DEF OpenGoesOn, monitorVars
    <2> QED
      BY <1>3, <2>1, <2>2 DEF OpenGoesOn
  <1>4. ASSUME NEW c \in MBIMUsers, Command(c) PROVE MBIMTyped'
    BY <1>4, <1>0, RegisterAsks, AskIsTyped DEF Command, monitorVars
  <1>5. ASSUME NEW c \in MBIMUsers, TakeWriteMu(c) PROVE MBIMTyped'
    <2>1. CallMoves(c)
      BY <1>0, <1>5, OtherCallsMove
    <2>2. /\ request[c].step = "lock" /\ writeMu' = c
          /\ UNCHANGED <<maxCtrl, indicationQueue, readLoop>>
      BY <1>5 DEF TakeWriteMu, deviceVars, monitorVars
    <2>3. request'[c].sent = request[c].sent /\ request'[c].step = "send"
      BY <1>0, <1>5 DEF TakeWriteMu, CallTypes, MBIMRequests
    <2> QED
      BY <1>0, <2>1, <2>2, <2>3, CallIsTyped DEF MBIMTyped, MBIMUsers
  <1>6. ASSUME NEW c \in MBIMUsers, WriteMessage(c) PROVE MBIMTyped'
    <2> DEFINE s == IF request[c].sent + 1 = PiecesOf(c) THEN "wait" ELSE "send"
    <2>1. CallMoves(c)
      BY <1>0, <1>6, OtherCallsMove
    <2>2. /\ request[c].step = "send"
          /\ writeMu' = writeMu \/ writeMu' = NoWriter
          /\ UNCHANGED <<maxCtrl, indicationQueue, readLoop>>
      BY <1>6 DEF WriteMessage, Releases, deviceVars, monitorVars
    <2>3. request'[c].sent = request[c].sent + 1 /\ request'[c].step = s
      <3>1. request' = [request EXCEPT ![c].sent = @ + 1, ![c].step = s]
        BY <1>6 DEF WriteMessage
      <3> HIDE DEF s
      <3>2. request'[c] = [request[c] EXCEPT !.sent = @ + 1, !.step = s]
        BY <1>0, <3>1 DEF CallTypes, MBIMRequests
      <3> QED
        BY <1>0, <3>2 DEF CallTypes, MBIMRequests
    <2>4. request[c].sent \in Nat /\ PiecesOf(c) \in Nat
      <3>1. request[c].what = "command" => c \in MBIMCallers
        BY <1>0 DEF WritersInv, MBIMUsers
      <3> QED
        BY <1>0, <3>1, PiecesPositive DEF CallTypes, MBIMRequests, MBIMTyped
    <2>5. request[c].sent < PiecesOf(c)
      BY <2>2 DEF MBIMTyped
    <2>6. request'[c].sent <= PiecesOf(c) /\ (s = "send" => request'[c].sent < PiecesOf(c))
      BY <2>3, <2>4, <2>5
    <2>7. s \in {"wait", "send"}
      OBVIOUS
    <2> HIDE DEF s
    <2>8. writeMu' \in MBIMCallers \cup {Opener, NoWriter}
      BY <2>2 DEF MBIMTyped
    <2> QED
      BY <1>0, <2>1, <2>2, <2>3, <2>6, <2>7, <2>8, CallIsTyped
  <1>7. ASSUME NEW c \in MBIMUsers, WriteFails(c) \/ ContextDone(c) \/ TakeAnswer(c) PROVE MBIMTyped'
    <2>1. CallMoves(c)
      BY <1>0, <1>7, OtherCallsMove
    <2>2. \E what : CallReturns(c, what)
      BY <1>7 DEF WriteFails, ContextDone, TakeAnswer
    <2>3. /\ writeMu' = writeMu \/ writeMu' = NoWriter
          /\ UNCHANGED <<maxCtrl, indicationQueue, readLoop>>
      BY <1>7, <2>2 DEF WriteFails, ContextDone, TakeAnswer, Releases, CallReturns, monitorVars
    <2>4. request'[c].sent = request[c].sent /\ request'[c].step = "done"
      BY <1>0, <2>2 DEF CallReturns, CallTypes, MBIMRequests
    <2>5. writeMu' \in MBIMCallers \cup {Opener, NoWriter}
      BY <2>3 DEF MBIMTyped
    <2>6. request'[c].sent <= PiecesOf(c)
      BY <2>4 DEF MBIMTyped
    <2> QED
      BY <1>0, <2>1, <2>3, <2>4, <2>5, <2>6, CallIsTyped
  <1>8. CASE \/ CloseBegins \/ CloseEnds \/ \E tx \in Transactions : ModuleReplies(tx)
             \/ ModuleChanges \/ LosesMessage \/ RepeatsMessage
    BY <1>1, <1>8 DEF CloseBegins, CloseEnds, ModuleReplies, ModuleChanges, LosesMessage, RepeatsMessage,
       callingVars, deviceVars, monitorVars
  <1>9. CASE ReadDone \/ ReadCommandDone \/ ReadFails
    BY <1>1, <1>9 DEF ReadDone, ReadCommandDone, ReadFails, monitorVars
  <1>10. CASE ReadIndication
    BY <1>1, <1>10 DEF ReadIndication, callingVars
  <1>11. CASE Run
    BY <1>1, <1>11 DEF Run, callingVars, deviceVars
  <1>12. CASE UNCHANGED mbimVars
    BY <1>1, <1>12 DEF mbimVars, callingVars, deviceVars, monitorVars
  <1> QED
    BY <1>2, <1>3, <1>4, <1>5, <1>6, <1>7, <1>8, <1>9, <1>10, <1>11, <1>12
    DEF MBIMNext, MBIMCall, Reading

(* Numbers are given to commands only while there are some, no more         *)
(* fragments of a command are written than it has, and neither the         *)
(* collector nor the queue of indications holds more than it may (Command, *)
(* fragmentCommand, collector, readLoop).                                  *)
THEOREM MBIMTypeCorrect == MBIMSpec => []MBIMTypeOK
  <1>1. MBIMInit => OpenerRests /\ MBIMTyped
    <2> SUFFICES ASSUME MBIMInit PROVE OpenerRests /\ MBIMTyped
      OBVIOUS
    <2>1. \A c \in MBIMUsers : request[c] = Resting
      BY DEF MBIMInit
    <2>2. \A c \in MBIMUsers : /\ request[c].sent <= PiecesOf(c)
                               /\ request[c].step \notin {"lock", "send"}
      BY <2>1 DEF Resting, PiecesOf
    <2>3. Len(indicationQueue) = 0 /\ IndicationSlots \in Nat
      BY MBIMAssumption DEF MBIMInit
    <2> QED
      BY <2>1, <2>2, <2>3 DEF MBIMInit, MBIMTyped, OpenerRests, MBIMUsers
  <1>2. MBIMInv /\ MBIMTyped => MBIMTypeOK
    <2> SUFFICES ASSUME MBIMInv, MBIMTyped PROVE MBIMTypeOK
      OBVIOUS
    <2>1. nextTx \in Transactions \cup {0} /\ pending \subseteq 1 .. nextTx
      BY InRange DEF MBIMInv, CallTypes
    <2>2. \A c \in MBIMUsers : request[c].step \in {"idle", "lock", "send", "wait", "done"}
      BY DEF MBIMInv, CallTypes, MBIMRequests
    <2> QED
      BY <2>1, <2>2 DEF MBIMInv, CallTypes, LineTypes, MBIMTyped, MBIMTypeOK
  <1>3. MBIMInv /\ [MBIMNext]_mbimVars => MBIMInv'
    BY MBIMStep
  <1>4. MBIMInit => MBIMInv
    BY MBIMInitInv
  <1> QED
    BY <1>1, <1>2, <1>3, <1>4, MBIMTypedStep, OpenerRestsStep, PTL DEF MBIMSpec

-----------------------------------------------------------------------------
(* The AT manager, stopped or not.                                         *)

OneAnswer(answers) == answers = <<>> \/ \E a : answers = <<a>>
ATShape ==
  /\ callers \in [ATCallers -> {"idle", "send", "wait"}] /\ held \in [ATCallers -> Owned]
  /\ content = [k \in AllChannels |-> content[k]] /\ \A k \in AllChannels : OneAnswer(content[k])
  /\ cmdChan \in Seq(RequestsOf(ATCallers)) /\ cmdChanHigh \in Seq(RequestsOf(ATCallers))
  /\ current \in RequestsOf(ATCallers) \cup {NoRequest}
  /\ loop \in {"look", "select", "busy", "ended"} /\ (loop = "busy" <=> current.of # Lost)

(* The watchdog has stopped the manager when it has counted to the end, and *)
(* no command begins after that.                                           *)
ATLife ==
  /\ atPort \in {"open"} \cup Losses /\ reader \in {"reads", "gone"}
  /\ notified => stopClosed
  /\ running \/ stopClosed
  /\ atTimeoutStreak \in 0 .. Threshold
  /\ atTimeoutStreak = Threshold => stopClosed /\ loop # "busy"

LEMMA ATShapeInit == ATInit => ATShape /\ ATLife
  BY PoolAssumption, ThresholdAssumption
  DEF ATInit, ATShape, ATLife, OneAnswer, Owned, NoRequest, AllChannels

(* Who a request is of. *)
LEMMA RequestIsOf ==
  /\ \A r \in RequestsOf(ATCallers) : r.of \in ATCallers /\ r.of # Lost /\ r.chan \in Owned
  /\ NoRequest.of = Lost /\ NoRequest.chan = NoChannel
  BY PoolAssumption DEF RequestsOf, NoRequest

LEMMA AnswerShape ==
  ASSUME ATShape, NEW k \in Owned, NEW a,
         content' = IF k = NoChannel THEN content ELSE [content EXCEPT ![k] = <<a>>]
  PROVE  content' = [l \in AllChannels |-> content'[l]] /\ \A l \in AllChannels : OneAnswer(content'[l])
  BY DEF ATShape, OneAnswer, Owned

LEMMA ReturnShape ==
  ASSUME ATShape, NEW c \in ATCallers, Return(c)
  PROVE  ATShape'
  <1>1. cmdChanHigh' \in Seq(RequestsOf(ATCallers))
    BY Forgotten DEF Return, ATShape
  <1>2. current' \in RequestsOf(ATCallers) \cup {NoRequest} /\ current'.of = current.of
    BY CurrentForgotten DEF Return, ATShape
  <1>3. /\ callers' = [callers EXCEPT ![c] = "idle"] /\ held' = [held EXCEPT ![c] = NoChannel]
        /\ content' = [content EXCEPT ![held[c]] = <<>>] /\ UNCHANGED <<cmdChan, loop>>
    BY DEF Return, Move
  <1>4. callers' \in [ATCallers -> {"idle", "send", "wait"}] /\ held' \in [ATCallers -> Owned]
    BY <1>3 DEF ATShape, Owned
  <1>5. content' = [k \in AllChannels |-> content'[k]] /\ \A k \in AllChannels : OneAnswer(content'[k])
    BY <1>3 DEF ATShape, OneAnswer
  <1> QED
    BY <1>1, <1>2, <1>3, <1>4, <1>5 DEF ATShape

LEMMA BeginShape ==
  ASSUME ATShape, loop # "busy", NEW r \in RequestsOf(ATCallers), Begins(r), UNCHANGED callerVars,
         cmdChan' \in Seq(RequestsOf(ATCallers)), cmdChanHigh' \in Seq(RequestsOf(ATCallers))
  PROVE  ATShape'
  <1>1. CASE UNCHANGED <<content>>
    BY <1>1, RequestIsOf DEF Begins, ATShape, callerVars, Owned
  <1>2. CASE content' = IF r.chan = NoChannel THEN content ELSE [content EXCEPT ![r.chan] = <<{}>>]
    <2>1. content' = [l \in AllChannels |-> content'[l]] /\ \A l \in AllChannels : OneAnswer(content'[l])
      BY <1>2, RequestIsOf, AnswerShape
    <2>2. \/ loop' = "look" /\ UNCHANGED current
          \/ loop' = "busy" /\ current' = r
      BY DEF Begins
    <2> QED
      BY <2>1, <2>2, RequestIsOf DEF ATShape, callerVars
  <1> QED
    BY <1>1, <1>2 DEF Begins

LEMMA OverShape ==
  ASSUME ATShape, NEW a, Answer(a), NEW lines, NEW commands, Over(lines, commands),
         UNCHANGED <<callerVars, cmdChan, cmdChanHigh>>
  PROVE  ATShape'
  <1>1. current.chan \in Owned
    BY RequestIsOf DEF ATShape, Owned
  <1>2. content' = [l \in AllChannels |-> content'[l]] /\ \A l \in AllChannels : OneAnswer(content'[l])
    BY <1>1, AnswerShape DEF Answer
  <1> QED
    BY <1>2, RequestIsOf DEF ATShape, callerVars, Over

LEMMA ATShapeStep == ATShape /\ [ATNext]_atVars => ATShape'
  <1> SUFFICES ASSUME ATShape, [ATNext]_atVars PROVE ATShape'
    OBVIOUS
  <1>1. ASSUME UNCHANGED <<callerVars, content, cmdChan, cmdChanHigh, current>>,
               loop' = loop \/ (loop # "busy" /\ loop' \in {"look", "select", "ended"})
        PROVE  ATShape'
    BY <1>1 DEF ATShape, callerVars
  <1>2. CASE Stop \/ StopEnds \/ LookAgain \/ LoopEnds \/ IdleLine
    BY <1>1, <1>2 DEF Stop, StopEnds, LookAgain, LoopEnds, IdleLine
  <1>3. CASE CommandLine \/ WriteText \/ UNCHANGED atVars
    BY <1>1, <1>3 DEF CommandLine, WriteText, atVars, callerVars
  <1>4. CASE ModuleAnswers \/ ModuleKeepsSilent \/ StrangeNotice \/ LosePort \/ ReaderEnds
    BY <1>1, <1>4 DEF ModuleAnswers, ModuleKeepsSilent, StrangeNotice, LosePort, ReaderEnds, Emits, HostOnly
  <1>5. CASE TakeHigh
    <2>1. Head(cmdChanHigh) \in RequestsOf(ATCallers) /\ cmdChanHigh' \in Seq(RequestsOf(ATCallers))
      BY <1>5 DEF TakeHigh, ATShape
    <2> QED
      BY <1>5, <2>1, BeginShape DEF TakeHigh, ATShape
  <1>6. CASE TakeNormal
    <2>1. Head(cmdChan) \in RequestsOf(ATCallers) /\ cmdChan' \in Seq(RequestsOf(ATCallers))
      BY <1>6 DEF TakeNormal, ATShape
    <2> QED
      BY <1>6, <2>1, BeginShape DEF TakeNormal, ATShape
  <1>7. CASE CommandEnds
    BY <1>7, OverShape DEF CommandEnds
  <1>8. CASE CommandFails
    BY <1>8, OverShape DEF CommandFails
  <1>9. CASE CommandTimesOut
    BY <1>9, OverShape DEF CommandTimesOut
  <1>10. ASSUME NEW c \in ATCallers, Call(c) PROVE ATShape'
    <2>1. \E k \in Owned : held' = [held EXCEPT ![c] = k]
      BY <1>10 DEF Call, OwnsChannels, Owned, AllChannels
    <2>2. callers' = [callers EXCEPT ![c] = "send"]
      BY <1>10 DEF Call, Move
    <2> QED
      BY <1>10, <2>1, <2>2 DEF Call, ATShape
  <1>11. ASSUME NEW c \in ATCallers, Enqueue(c) PROVE ATShape'
    <2>1. Request(c) \in RequestsOf(ATCallers)
      <3>1. held[c] \in Owned
        BY DEF ATShape
      <3> QED
        BY <3>1 DEF Request, RequestsOf
    <2> HIDE DEF Request
    <2>2. cmdChan' \in Seq(RequestsOf(ATCallers)) /\ cmdChanHigh' \in Seq(RequestsOf(ATCallers))
      <3>1. ASSUME NEW T, NEW q \in Seq(T), NEW r \in T PROVE Append(q, r) \in Seq(T)
        OBVIOUS
      <3>2. cmdChan \in Seq(RequestsOf(ATCallers)) /\ cmdChanHigh \in Seq(RequestsOf(ATCallers))
        BY DEF ATShape
      <3>3. \/ cmdChan' = Append(cmdChan, Request(c)) /\ UNCHANGED cmdChanHigh
            \/ cmdChanHigh' = Append(cmdChanHigh, Request(c)) /\ UNCHANGED cmdChan
        BY <1>11 DEF Enqueue
      <3>4. /\ Append(cmdChan, Request(c)) \in Seq(RequestsOf(ATCallers))
            /\ Append(cmdChanHigh, Request(c)) \in Seq(RequestsOf(ATCallers))
        BY <2>1, <3>1, <3>2
      <3> QED
        BY <3>2, <3>3, <3>4
    <2>3. callers' = [callers EXCEPT ![c] = "wait"]
      BY <1>11 DEF Enqueue, Move
    <2> QED
      BY <1>11, <2>2, <2>3 DEF Enqueue, ATShape
  <1>12. ASSUME NEW c \in ATCallers, Receive(c) \/ QueueFull(c) \/ ReturnStopped(c) \/ SendTimesOut(c)
         PROVE  ATShape'
    BY <1>12, ReturnShape DEF Receive, QueueFull, ReturnStopped, SendTimesOut
  <1> QED
    BY <1>2, <1>3, <1>4, <1>5, <1>6, <1>7, <1>8, <1>9, <1>10, <1>11, <1>12
    DEF ATNext, Loops, Handles, Waits

LEMMA ATLifeStep == ATShape /\ ATLife /\ [ATNext]_atVars => ATLife'
  <1> SUFFICES ASSUME ATShape, ATLife, [ATNext]_atVars PROVE ATLife'
    OBVIOUS
  <1>1. ASSUME UNCHANGED lifeVars \/ Condemned \/ ClosesStop \/ (stopClosed' = TRUE /\ UNCHANGED running),
               notified' => notified \/ stopClosed',
               UNCHANGED atTimeoutStreak \/ atTimeoutStreak' = 0,
               loop' = "busy" => loop = "busy" \/ ~stopClosed,
               atPort' \in {"open"} \cup Losses, reader' \in {"reads", "gone"}
        PROVE  ATLife'
    <2>1. stopClosed => stopClosed'
      BY <1>1 DEF lifeVars, Condemned, ClosesStop
    <2>2. running' \/ stopClosed'
      BY <1>1 DEF ATLife, lifeVars, Condemned, ClosesStop
    <2>3. notified' => stopClosed'
      BY <1>1, <2>1 DEF ATLife
    <2>4. atTimeoutStreak' \in 0 .. Threshold /\ (atTimeoutStreak' = Threshold => UNCHANGED atTimeoutStreak)
      BY <1>1, ThresholdAssumption DEF ATLife
    <2> QED
      BY <1>1, <2>1, <2>2, <2>3, <2>4 DEF ATLife
  <1>a. UNCHANGED <<atPort, reader>> => atPort' \in {"open"} \cup Losses /\ reader' \in {"reads", "gone"}
    BY DEF ATLife
  <1>2. CASE Stop
    BY <1>1, <1>a, <1>2 DEF Stop, ClosesStop, wireVars
  <1>3. CASE StopEnds
    BY <1>3 DEF StopEnds, ATLife, wireVars
  <1>4. CASE LookAgain \/ LoopEnds
    BY <1>1, <1>a, <1>4 DEF LookAgain, LoopEnds, lifeVars, wireVars
  <1>5. CASE IdleLine
    BY <1>1, <1>a, <1>5 DEF IdleLine, lifeVars
  <1>6. ASSUME NEW r, Begins(r), UNCHANGED <<atPort, reader, atTimeoutStreak>> PROVE ATLife'
    <2>1. loop' = "busy" => ~stopClosed
      BY <1>6 DEF Begins
    <2>2. UNCHANGED lifeVars \/ Condemned
      BY <1>6 DEF Begins
    <2>3. notified' => notified \/ stopClosed'
      BY <2>2 DEF Condemned, lifeVars
    <2> QED
      BY <1>1, <1>a, <1>6, <2>1, <2>2, <2>3
  <1>7. CASE TakeHigh \/ TakeNormal
    BY <1>6, <1>7 DEF TakeHigh, TakeNormal
  <1>8. CASE CommandLine \/ WriteText
    BY <1>1, <1>a, <1>8 DEF CommandLine, WriteText, lifeVars
  <1>9. CASE CommandEnds
    BY <1>1, <1>a, <1>9 DEF CommandEnds, Over, lifeVars
  <1>10. CASE CommandFails
    BY <1>1, <1>a, <1>10 DEF CommandFails, Over, Condemned, lifeVars
  <1>11. CASE CommandTimesOut
    <2>1. /\ loop = "busy" /\ loop' = "look" /\ UNCHANGED <<atPort, reader>>
          /\ atTimeoutStreak' = atTimeoutStreak \/ atTimeoutStreak' = atTimeoutStreak + 1
          /\ IF atTimeoutStreak' > atTimeoutStreak /\ atTimeoutStreak' >= Threshold
               THEN Condemned ELSE UNCHANGED lifeVars
      BY <1>11 DEF CommandTimesOut, Over, RecordATTimeout
    <2>2. atTimeoutStreak \in Nat /\ Threshold \in Nat /\ atTimeoutStreak < Threshold
      BY <2>1, ThresholdAssumption DEF ATLife
    <2>3. atTimeoutStreak' \in 0 .. Threshold
      BY <2>1, <2>2
    <2>4. atTimeoutStreak' = Threshold => Condemned
      BY <2>1, <2>2
    <2>5. Condemned => stopClosed'
      BY DEF Condemned, ATLife, lifeVars
    <2>6. Condemned \/ UNCHANGED lifeVars
      BY <2>1
    <2>7. (notified' => stopClosed') /\ (running' \/ stopClosed')
      BY <2>6 DEF Condemned, lifeVars, ATLife
    <2> QED
      BY <1>a, <2>1, <2>3, <2>4, <2>5, <2>7 DEF ATLife
  <1>12. CASE ModuleAnswers \/ ModuleKeepsSilent \/ StrangeNotice
    BY <1>1, <1>a, <1>12 DEF ModuleAnswers, ModuleKeepsSilent, StrangeNotice, Emits, HostOnly, lifeVars
  <1>13. CASE LosePort
    BY <1>1, <1>13 DEF LosePort, HostOnly, lifeVars, ATLife
  <1>14. CASE ReaderEnds
    BY <1>1, <1>14 DEF ReaderEnds, HostOnly, lifeVars, ATLife
  <1>15. ASSUME NEW c \in ATCallers, Call(c) \/ Waits(c) PROVE ATLife'
    BY <1>1, <1>a, <1>15
    DEF Call, Waits, Enqueue, Receive, QueueFull, ReturnStopped, SendTimesOut, Return, wireVars, lifeVars
  <1>16. CASE UNCHANGED atVars
    BY <1>1, <1>a, <1>16 DEF atVars, lifeVars
  <1> QED
    BY <1>2, <1>3, <1>4, <1>5, <1>7, <1>8, <1>9, <1>10, <1>11, <1>12, <1>13, <1>14, <1>15, <1>16
    DEF ATNext, Loops, Handles

(* A channel holds one answer at most, also after a late one, and the       *)
(* watchdog that has counted to its threshold has stopped the manager, so  *)
(* that it counts no further (executeAT, reqPool, RecordATTimeout,          *)
(* tripATTimeoutWatchdog).                                                 *)
THEOREM ATTypeCorrect == ATSpec => []ATTypeOK
  <1>1. ATShape /\ ATLife => ATTypeOK
    <2>1. ASSUME NEW q, OneAnswer(q) PROVE Len(q) <= 1
      <3>1. Len(<<>>) = 0 /\ \A a : Len(<<a>>) = 1
        OBVIOUS
      <3>2. Len(q) = 0 \/ Len(q) = 1
        BY <2>1, <3>1, Zenon DEF OneAnswer
      <3> QED
        BY <3>2
    <2>2. ATShape => \A k \in AllChannels : Len(content[k]) <= 1
      BY <2>1 DEF ATShape
    <2> QED
      BY <2>2 DEF ATShape, ATLife, ATTypeOK, Owned
  <1> QED
    BY <1>1, ATShapeInit, ATShapeStep, ATLifeStep, PTL DEF ATSpec

-----------------------------------------------------------------------------
(* The gate of the SIM and the reading of received SMS: their types are     *)
(* part of the invariants their safety rests on.                           *)

(* The generation a probe began in is one there has been, and who waits     *)
(* waits for a caller (WaitSIMAuthReady, Invalidate).                      *)
THEOREM AuthTypeCorrect == AuthSpec => []AuthTypeOK
  <1>1. GateInv => AuthTypeOK
    BY DEF GateInv
  <1> QED
    BY <1>1, GateInvariant, PTL

(* Parts are kept only of what has been read, and a storage that was        *)
(* selected before is one of the module's (switchSMSStorageForRead).       *)
THEOREM MessagesTypeCorrect == MessagesSpec => []MessagesTypeOK
  <1>1. MessagesInv => MessagesTypeOK
    BY DEF MessagesInv, MessagesTypes
  <1> QED
    BY <1>1, MessagesInitially, MessagesStep, PTL DEF MessagesSpec

-----------------------------------------------------------------------------
(* The parts side by side.                                                 *)

PartNames == {"sms", "policy", "calls", "outbox", "notes", "at", "received", "ussd", "mbim",
              "config", "auth", "lock"}

(* While one part moves the others rest. *)
LEMMA OnePartMoves ==
  ASSUME ServicesNext \/ UNCHANGED servicesVars
  PROVE
    /\ SMSNext \/ UNCHANGED smsVars
    /\ PolicyNext \/ UNCHANGED policyVars
    /\ CallNext \/ UNCHANGED callVars
    /\ OutNext \/ UNCHANGED outVars
    /\ NotesNext \/ UNCHANGED noteVars
    /\ ATNext \/ UNCHANGED atVars
    /\ MessagesNext \/ UNCHANGED messageVars
    /\ USSDNext \/ UNCHANGED ussdVars
    /\ MBIMNext \/ UNCHANGED mbimVars
    /\ ConfigNext \/ UNCHANGED configVars
    /\ AuthNext \/ UNCHANGED authVars
    /\ LockNext \/ UNCHANGED lockVars
    /\ UNCHANGED part
  <1>1. ASSUME NEW p, Rest(p) PROVE UNCHANGED part
    BY <1>1 DEF Rest
  <1>2. ServicesNext => UNCHANGED part
    BY <1>1 DEF ServicesNext, SMSPart, PolicyPart, CallsPart, OutboxPart, NotesPart, ATPart,
       ReceivedPart, USSDPart, MBIMPart, ConfigPart, AuthPart, LockPart
  <1>3. CASE SMSPart
    BY <1>3 DEF SMSPart, Rest
  <1>4. CASE PolicyPart
    BY <1>4 DEF PolicyPart, Rest
  <1>5. CASE CallsPart
    BY <1>5 DEF CallsPart, Rest
  <1>6. CASE OutboxPart
    BY <1>6 DEF OutboxPart, Rest
  <1>7. CASE NotesPart
    BY <1>7 DEF NotesPart, Rest
  <1>8. CASE ATPart
    BY <1>8 DEF ATPart, Rest
  <1>9. CASE ReceivedPart
    BY <1>9 DEF ReceivedPart, Rest
  <1>10. CASE USSDPart
    BY <1>10 DEF USSDPart, Rest
  <1>11. CASE MBIMPart
    BY <1>11 DEF MBIMPart, Rest
  <1>12. CASE ConfigPart
    BY <1>12 DEF ConfigPart, Rest
  <1>13. CASE AuthPart
    BY <1>13 DEF AuthPart, Rest
  <1>14. CASE LockPart
    BY <1>14 DEF LockPart, Rest
  <1>15. CASE UNCHANGED servicesVars
    BY <1>15 DEF servicesVars
  <1> QED
    BY <1>2, <1>3, <1>4, <1>5, <1>6, <1>7, <1>8, <1>9, <1>10, <1>11, <1>12, <1>13, <1>14, <1>15 DEF ServicesNext

(* A behaviour of the runs is one of every part. *)
LEMMA BehavesAsParts ==
  ServicesSpec =>
    /\ SMSSpec
    /\ PolicySpec
    /\ CallSpec
    /\ OutSpec
    /\ NotesSpec
    /\ ATSpec
    /\ MessagesSpec
    /\ USSDSpec
    /\ MBIMSpec
    /\ ConfigSpec
    /\ AuthSpec
    /\ LockSpec
    /\ [](part \in PartNames)
  <1>1. ServicesInit =>
          /\ SMSInit
          /\ PolicyInit
          /\ CallInit
          /\ OutInit
          /\ NotesInit
          /\ ATInit
          /\ MessagesInit
          /\ USSDInit
          /\ MBIMInit
          /\ ConfigInit
          /\ AuthInit
          /\ LockInit
          /\ part \in PartNames
    BY ComponentsAssumption DEF ServicesInit, PartNames
  <1>2. [ServicesNext]_servicesVars => [SMSNext]_smsVars
    BY OnePartMoves
  <1>3. [ServicesNext]_servicesVars => [PolicyNext]_policyVars
    BY OnePartMoves
  <1>4. [ServicesNext]_servicesVars => [CallNext]_callVars
    BY OnePartMoves
  <1>5. [ServicesNext]_servicesVars => [OutNext]_outVars
    BY OnePartMoves
  <1>6. [ServicesNext]_servicesVars => [NotesNext]_noteVars
    BY OnePartMoves
  <1>7. [ServicesNext]_servicesVars => [ATNext]_atVars
    BY OnePartMoves
  <1>8. [ServicesNext]_servicesVars => [MessagesNext]_messageVars
    BY OnePartMoves
  <1>9. [ServicesNext]_servicesVars => [USSDNext]_ussdVars
    BY OnePartMoves
  <1>10. [ServicesNext]_servicesVars => [MBIMNext]_mbimVars
    BY OnePartMoves
  <1>11. [ServicesNext]_servicesVars => [ConfigNext]_configVars
    BY OnePartMoves
  <1>12. [ServicesNext]_servicesVars => [AuthNext]_authVars
    BY OnePartMoves
  <1>13. [ServicesNext]_servicesVars => [LockNext]_lockVars
    BY OnePartMoves
  <1>14. part \in PartNames /\ [ServicesNext]_servicesVars => (part \in PartNames)'
    BY OnePartMoves
  <1> QED
    BY <1>1, <1>2, <1>3, <1>4, <1>5, <1>6, <1>7, <1>8, <1>9, <1>10, <1>11, <1>12, <1>13, <1>14, PTL
    DEF ServicesSpec, SMSSpec, PolicySpec, CallSpec, OutSpec, NotesSpec, ATSpec, MessagesSpec, USSDSpec,
        MBIMSpec, ConfigSpec, AuthSpec, LockSpec

(* In every run of the services and libraries the part it is about keeps    *)
(* its types, whatever the constants (each part's own module names the     *)
(* code).                                                                  *)
THEOREM ServicesTypeCorrect == ServicesSpec => []ServicesTypeOK
  <1>1. /\ part \in PartNames
        /\ SMSTypeOK
        /\ PolicyTypeOK
        /\ CallTypeOK
        /\ OutTypeOK
        /\ NotesTypeOK
        /\ ATTypeOK
        /\ MessagesTypeOK
        /\ USSDTypeOK
        /\ MBIMTypeOK
        /\ ConfigTypeOK
        /\ AuthTypeOK
        /\ LockTypeOK
        => ServicesTypeOK
    BY DEF PartNames, ServicesTypeOK
  <1> QED
    BY <1>1, BehavesAsParts, SMSTypeCorrect, PolicyTypeCorrect, CallTypeCorrect, OutTypeCorrect, NotesTypeCorrect, ATTypeCorrect, MessagesTypeCorrect, USSDTypeCorrect, MBIMTypeCorrect, ConfigTypeCorrect, AuthTypeCorrect, LockTypeCorrect,
       PTL

(* Every safety property of the services and libraries holds of the parts   *)
(* side by side, for every value of the constants: no SMS that was listed  *)
(* is lost or joined wrongly, a policy is restored, calls, answers, texts  *)
(* and messages go to whom they are for, notes and changes of the          *)
(* configuration stay, and eSIM operations exclude each other.             *)
THEOREM ServicesAreSafe ==
  ServicesSpec =>
    /\ []ListedIsKept
    /\ []MessagesAreWhole
    /\ []OnRestoresTracked
    /\ []CallsAreTold
    /\ []SentAsTold
    /\ []NotesSurvive
    /\ OthersAreKept
    /\ []AnswersAreOwn
    /\ []SeparateReadsLoseNothing
    /\ []TextsAreOwn
    /\ []OnlyWholeMessages
    /\ []ChangesAreKept
    /\ []OneProber
    /\ []NobodyIsStranded
    /\ []OperationsExclude
  BY BehavesAsParts, ListedStays, JoinedAreWhole, OnRestores, CallsAreToldTrue, MessagesGoAsTold, NotesStay,
     SavesKeepOthers, AnswersStayOwn, SeparateReaders, OwnTexts, WholeMessages, KeepsChanges, ProbesAreShared,
     WaitersAreNotStranded, MutualExclusion
=============================================================================
