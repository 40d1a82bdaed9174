----------------------------- MODULE MCServices -----------------------------
(* The services that keep to themselves, side by side in one run each for  *)
(* safety and for liveness: a behaviour picks one of Components and is a   *)
(* behaviour of that component, the others rest in an initial state.       *)
EXTENDS SMSService, CellularPolicy, CallWatcher, SMSOutbox, ProfileNotes,
        ATManager, ATMessages, USSDSession, MBIMDevice, ConfigFile, SIMAuthReady, ESIMOperationLock, TLC

CONSTANT Components   \* the components a run is about
ASSUME ComponentsAssumption ==
  Components \subseteq {"sms", "policy", "calls", "outbox", "notes", "at", "received", "ussd", "mbim",
                        "config", "auth", "lock"}

VARIABLE part         \* the one this behaviour is about

MCReference == [m \in Messages |-> m]
MCInitialSM == <<<<"l", 1>>>>
MCNothing == <<>>
MCSegments == [s \in Senders |-> IF s = CHOOSE t \in Senders : TRUE THEN 2 ELSE 1]
MCArriving == "a" :> "SM" @@ "b" :> "ME"
MCWhole == "a" :> "long" @@ "b" :> "long"
MCBooks ==
  LET note == Note("i1", "t1")
  IN  {[SM |-> <<Contact, Contact, Contact>>, ME |-> <<Contact, note, Empty>>],
       [SM |-> <<Empty, Contact, Empty>>, ME |-> <<Empty, Empty, Empty>>]}
MCInfoLength == [c \in MBIMCallers |-> IF c = CHOOSE d \in MBIMCallers : TRUE THEN 30 ELSE 17]
MCDeviceChanges ==
  {[op |-> "add", id |-> "d2", imei |-> NoIMEI],
   [op |-> "update", id |-> "d1", new |-> "d2", imei |-> "i1"],
   [op |-> "delete", id |-> "d1"],
   [op |-> "imei", imeis |-> "d1" :> "i1" @@ "d2" :> NoIMEI],
   [op |-> "settings", value |-> "new"]}

-----------------------------------------------------------------------------
(* A component that rests does so in one of its initial states. *)
ServicesInit ==
  /\ part \in Components
  /\ SMSInit /\ (part # "sms" => selected = "SM")
  /\ PolicyInit /\ CallInit /\ OutInit /\ ATInit /\ AuthInit
  /\ NotesInit
  /\ oldFile # {} => phonebook = CHOOSE b \in Books : TRUE   \* they have nothing in common
  /\ part # "notes" =>
       /\ phonebook = (CHOOSE b \in Books : TRUE) /\ storage = "SM" /\ oldFile = {}
       /\ \A r \in Savers : wish[r][1] = (CHOOSE i \in ICCIDs : TRUE) /\ wish[r][2] = NoText
  /\ MessagesInit /\ (part # "received" => atStorage = (CHOOSE s \in Storages : TRUE))
  /\ USSDInit /\ (part # "ussd" => noWait /\ domains.service = "PSOnly")
  /\ MBIMInit /\ (part # "mbim" => ~proxy)
  /\ ConfigInit
  /\ LockInit /\ opDone = (CHOOSE h \in DoneChannels : TRUE)   \* channels are alike

(* The components other than p rest. *)
Rest(p) ==
  /\ part = p /\ UNCHANGED part
  /\ IF p = "sms" THEN TRUE ELSE UNCHANGED smsVars
  /\ IF p = "policy" THEN TRUE ELSE UNCHANGED policyVars
  /\ IF p = "calls" THEN TRUE ELSE UNCHANGED callVars
  /\ IF p = "outbox" THEN TRUE ELSE UNCHANGED outVars
  /\ IF p = "notes" THEN TRUE ELSE UNCHANGED noteVars
  /\ IF p = "at" THEN TRUE ELSE UNCHANGED atVars
  /\ IF p = "received" THEN TRUE ELSE UNCHANGED messageVars
  /\ IF p = "ussd" THEN TRUE ELSE UNCHANGED ussdVars
  /\ IF p = "mbim" THEN TRUE ELSE UNCHANGED mbimVars
  /\ IF p = "config" THEN TRUE ELSE UNCHANGED configVars
  /\ IF p = "auth" THEN TRUE ELSE UNCHANGED authVars
  /\ IF p = "lock" THEN TRUE ELSE UNCHANGED lockVars

SMSPart == Rest("sms") /\ SMSNext
PolicyPart == Rest("policy") /\ PolicyNext
CallsPart == Rest("calls") /\ CallNext
OutboxPart == Rest("outbox") /\ OutNext
NotesPart == Rest("notes") /\ NotesNext
ATPart == Rest("at") /\ ATNext
ReceivedPart == Rest("received") /\ MessagesNext
USSDPart == Rest("ussd") /\ USSDNext
MBIMPart == Rest("mbim") /\ MBIMNext
ConfigPart == Rest("config") /\ ConfigNext
AuthPart == Rest("auth") /\ AuthNext
LockPart == Rest("lock") /\ LockNext

ServicesNext ==
  \/ SMSPart \/ PolicyPart \/ CallsPart \/ OutboxPart \/ NotesPart
  \/ ATPart \/ ReceivedPart \/ USSDPart \/ MBIMPart \/ ConfigPart \/ AuthPart \/ LockPart

servicesVars == <<part, smsVars, policyVars, callVars, outVars, noteVars, atVars, messageVars,
                  ussdVars, mbimVars, configVars, authVars, lockVars>>

ServicesSpec == ServicesInit /\ [][ServicesNext]_servicesVars

(* The fairness of each component, for the behaviours that are about it: those *)
(* of the hub, and those of the libraries.                                 *)
HubFairness ==
  /\ WF_smsVars(part = "sms" /\ StartPoll(Timer))
  /\ \A g \in Pollers : WF_smsVars(part = "sms" /\ (Merge(g) \/ \E m \in Memories : Reads(g, m)))
  /\ \A g \in Goroutines : WF_smsVars(part = "sms" /\ Clears(g))
  /\ SF_policyVars(part = "policy" /\ Guard) /\ WF_policyVars(part = "policy" /\ Apply)
  /\ WF_callVars(part = "calls" /\ PollStep)

LibraryFairness ==
  /\ WF_atVars(part = "at" /\ StopEnds) /\ WF_atVars(part = "at" /\ Loops)
  /\ WF_atVars(part = "at" /\ Handles) /\ WF_atVars(part = "at" /\ ReaderEnds)
  /\ SF_atVars(part = "at" /\ TakeNormal)
  /\ \A c \in ATCallers : WF_atVars(part = "at" /\ Waits(c))
  /\ \A c \in AuthCallers :
       /\ WF_authVars(/\ part = "auth"
                      /\ ReturnReady(c) \/ JoinProbe(c) \/ StartProbe(c) \/ Report(c))
       /\ WF_authVars(part = "auth" /\ ProbeReturns(c))
  /\ \A c \in LockCallers :
       /\ WF_lockVars(/\ part = "lock"
                      /\ \/ Capture(c) \/ ReaderUnlocks(c) \/ Unlock(c) \/ ReadOld(c)
                         \/ StoreNew(c) \/ CloseOld(c))
       /\ SF_lockVars(part = "lock" /\ Timeout(c))

FairHubSpec == ServicesSpec /\ HubFairness
FairLibrarySpec == ServicesSpec /\ LibraryFairness

(* The component in question keeps its types. *)
ServicesTypeOK ==
  CASE part = "sms" -> SMSTypeOK [] part = "policy" -> PolicyTypeOK [] part = "calls" -> CallTypeOK
    [] part = "outbox" -> OutTypeOK [] part = "notes" -> NotesTypeOK [] part = "at" -> ATTypeOK
    [] part = "received" -> MessagesTypeOK [] part = "ussd" -> USSDTypeOK
    [] part = "mbim" -> MBIMTypeOK [] part = "config" -> ConfigTypeOK
    [] part = "auth" -> AuthTypeOK [] part = "lock" -> LockTypeOK

(* Every call of the AT manager, of the gate of the SIM and of the eSIM      *)
(* lock returns (executeAT, WaitSIMAuthReady, acquireOperationLock,        *)
(* waitForNoWriteOperation).                                               *)
EveryLibraryCallReturns == EveryATCallReturns /\ EveryAuthCallReturns /\ EveryLockCallReturns
=============================================================================
