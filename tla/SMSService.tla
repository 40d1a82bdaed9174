---------------------------- MODULE SMSService ----------------------------
(***************************************************************************)
(* Receiving SMS over the USB AT bridge (main.go, reassembler.go): a poll  *)
(* lists the two memories of the module one after the other, puts the      *)
(* parts of long messages together, merges what is complete into the inbox *)
(* and clears the memory ME; POST clear does the last step alone.  The     *)
(* timer and every request run at once, and nothing but the single AT      *)
(* command is exclusive: which memory is selected belongs to the module.   *)
(***************************************************************************)
EXTENDS Naturals, Sequences, SequencesExt, FiniteSets

CONSTANTS
  Pollers,      \* the timer's poll and the polls of POST refresh
  Clearers,     \* requests of POST clear
  Messages,     \* messages that are sent to the module
  Long,         \* those of them that come in two parts
  Broken,       \* those of them that do not decode
  Reference,    \* sender and reference number of each message
  InitialSM,    \* what the SIM holds at the start
  MaxRequests,  \* requests that are made (bound of the model)
  MaxFaults,    \* AT commands that go wrong (bound of the model)
  MaxInbox,     \* mergeSMS keeps 500
  MaxNow        \* clock readings that are told apart (bound of the model)

(* A part is told by its sender and reference number, and two long messages *)
(* that share them are put together by the part that comes first: a SIM is *)
(* taken to hold no such two within the ten minutes of the reassembler.    *)
SMSAssumption ==
  /\ \A m, n \in Long \ Broken : Reference[m] = Reference[n] => m = n
  /\ Long \subseteq Messages
  /\ InitialSM \in Seq({i \in Messages \X {1, 2} : i[2] = 2 => i[1] \in Long})
  /\ MaxInbox \in Nat /\ MaxNow \in Nat
ASSUME SMSAssumed == SMSAssumption

Memories == {"SM", "ME"}
Parts(m) == IF m \in Long THEN {1, 2} ELSE {1}
Items == {i \in Messages \X {1, 2} : i[2] \in Parts(i[1])}
Goroutines == Pollers \cup Clearers
Timer == CHOOSE p \in Pollers : TRUE

(* What a poll does with a memory: it selects it, lists it and reads the list. *)
SelectPlace == [SM |-> "selectSM", ME |-> "selectME"]
ListPlace == [SM |-> "listSM", ME |-> "listME"]
ReadPlace == [SM |-> "readSM", ME |-> "readME"]

VARIABLES
  store,      \* the PDUs in each memory of the module, by index
  selected,   \* the memory that CPMS selected; new messages are stored there
  arrived,    \* items that the module has received
  inbox,      \* a.sms
  cache,      \* smsReassembler.cache: the parts of each reference, in order
  aged,       \* references whose last part came over ten minutes ago
  pc,         \* what each goroutine does next
  todo,       \* the listed items it has still to decode
  messages,   \* the complete messages it has
  errs,       \* the memories it could not list
  now,        \* the clock, read for messages that carry no time
  requests, faults,
  listed,     \* history: items that a poll has listed
  forgotten   \* history: items dropped by Cleanup or by the limit of the inbox

smsVars == <<store, selected, arrived, inbox, cache, aged, pc, todo, messages, errs, now,
             requests, faults, listed, forgotten>>
moduleState == <<store, selected, arrived>>
bookKeeping == <<now, requests, listed, forgotten>>

SMSInit ==
  /\ store = [SM |-> InitialSM, ME |-> <<>>] /\ selected \in Memories
  /\ arrived = ToSet(InitialSM)
  /\ inbox = <<>> /\ cache = [r \in {Reference[m] : m \in Messages} |-> <<>>] /\ aged = {}
  /\ pc = [g \in Goroutines |-> "idle"] /\ todo = [g \in Goroutines |-> <<>>]
  /\ messages = [g \in Goroutines |-> <<>>] /\ errs = [g \in Goroutines |-> {}]
  /\ now = 0 /\ requests = 0 /\ faults = 0 /\ listed = {} /\ forgotten = {}

Goto(g, place) == pc' = [pc EXCEPT ![g] = place]

-----------------------------------------------------------------------------
(* An AT command.  It may fail without an effect or after it; an ERROR from *)
(* the module is an answer like another, no error (usbAT.Command).         *)

Fault == faults < MaxFaults /\ faults' = faults + 1

(* AT+CPMS="m","m","m" *)
Selects(m, ok) ==
  \/ ok /\ selected' = m /\ UNCHANGED faults
  \/ ok /\ selected' = selected /\ Fault         \* ERROR
  \/ ~ok /\ selected' \in {m, selected} /\ Fault

-----------------------------------------------------------------------------
(* A poll (pollSMSOnce, readUSBATSMS).                                     *)

Starts(g) ==
  /\ pc[g] = "idle"
  /\ IF g = Timer THEN UNCHANGED requests
     ELSE requests < MaxRequests /\ requests' = requests + 1

(* ensureUSBAT and AT+CMGF=0; without them the poll is over. *)
StartPoll(g) ==
  /\ g \in Pollers /\ Starts(g)
  /\ \/ Goto(g, "selectSM") /\ UNCHANGED faults
     \/ UNCHANGED pc /\ Fault
  /\ UNCHANGED <<moduleState, inbox, cache, aged, todo, messages, errs, now, listed, forgotten>>

(* A memory that fails is noted and passed over; with both gone and nothing *)
(* read the poll is over, and otherwise what was read is merged.           *)
AfterMemory(g, m, failed) ==
  IF m = "SM" THEN "selectME"
  ELSE IF failed = Memories /\ messages[g] = <<>> THEN "idle" ELSE "merge"

PassesForGood(g, m) ==                 \* mutant: a failure ends the poller
  UNCHANGED errs /\ Goto(g, "ended")
Passes(g, m) ==
  LET failed == errs[g] \cup {m}
      next   == AfterMemory(g, m, failed)
  IN  /\ errs' = [errs EXCEPT ![g] = IF next = "idle" THEN {} ELSE failed]
      /\ Goto(g, next)

SelectMemory(g, m) ==
  /\ pc[g] = SelectPlace[m]
  /\ \/ Selects(m, TRUE) /\ Goto(g, ListPlace[m]) /\ UNCHANGED errs
     \/ Selects(m, FALSE) /\ Passes(g, m)
  /\ UNCHANGED <<store, arrived, inbox, cache, aged, todo, messages, bookKeeping>>

(* AT+CMGL=4 lists the selected memory, whichever that is by now.  An      *)
(* answer that is cut off by the time-out is read as far as it came, and   *)
(* an ERROR is an empty list.                                              *)
ListMemory(g, m) ==
  /\ pc[g] = ListPlace[m]
  /\ \/ \E n \in 0 .. Len(store[selected]) :
          /\ IF n = Len(store[selected]) THEN UNCHANGED faults ELSE Fault
          /\ todo' = [todo EXCEPT ![g] = SubSeq(store[selected], 1, n)]
          /\ listed' = listed \cup ToSet(SubSeq(store[selected], 1, n))
          /\ Goto(g, ReadPlace[m]) /\ UNCHANGED errs
     \/ Fault /\ Passes(g, m) /\ UNCHANGED <<todo, listed>>
  /\ UNCHANGED <<moduleState, inbox, cache, aged, messages, now, requests, forgotten>>

(* A message of the inbox: its parts, and the time of the part that made it *)
(* complete.  One that did not decode carries the time it was read.        *)
Entry(item) ==
  IF item[1] \in Broken THEN [parts |-> <<item>>, at |-> <<"now", now>>]
  ELSE [parts |-> <<item>>, at |-> <<"sent", item>>]

(* The sequences of the elements of a set that are in order. *)
Ordered(S, Before(_, _)) ==
  {s \in [1 .. Cardinality(S) -> S] :
     ToSet(s) = S /\ \A i, j \in DOMAIN s : i < j => Before(s[i], s[j])}

(* Reassembler.Add: a part whose number is there already is dropped, and    *)
(* the parts are put together when their count is the total.               *)
AsTheyCame(fragments) == fragments       \* mutant: the parts are not sorted
BySeq(fragments) ==
  CHOOSE s \in Ordered(ToSet(fragments), LAMBDA f, h : f[2] < h[2]) : TRUE
Add(item) ==
  LET key == Reference[item[1]]
      fragments == Append(cache[key], item)
  IN  IF \E i \in DOMAIN cache[key] : cache[key][i][2] = item[2]
      THEN [complete |-> FALSE, cache |-> cache, aged |-> aged]
      ELSE IF Len(fragments) # Cardinality(Parts(item[1]))
           THEN [complete |-> FALSE, cache |-> [cache EXCEPT ![key] = fragments],
                 aged |-> aged \ {key}]
           ELSE [complete |-> TRUE, cache |-> [cache EXCEPT ![key] = <<>>],
                 aged |-> aged \ {key}]

DecodeItem(g, m) ==
  /\ pc[g] = ReadPlace[m] /\ todo[g] # <<>>
  /\ LET item  == Head(todo[g])
         added == Add(item)
     IN  IF item[1] \in Long \ Broken
         THEN /\ cache' = added.cache /\ aged' = added.aged
              /\ messages' = [messages EXCEPT ![g] =
                   IF added.complete
                   THEN Append(@, [parts |-> BySeq(Append(cache[Reference[item[1]]], item)),
                                   at |-> <<"sent", item>>])
                   ELSE @]
              /\ UNCHANGED now
         ELSE /\ messages' = [messages EXCEPT ![g] = Append(@, Entry(item))]
              /\ now' = IF item[1] \in Broken /\ now < MaxNow THEN now + 1 ELSE now
              /\ UNCHANGED <<cache, aged>>
  /\ todo' = [todo EXCEPT ![g] = Tail(@)]
  /\ UNCHANGED <<moduleState, inbox, pc, errs, requests, faults, listed, forgotten>>

CleanupAll(g, m) ==                    \* mutant: the age is not looked at
  /\ pc[g] = ReadPlace[m] /\ todo[g] = <<>>
  /\ cache' = [r \in DOMAIN cache |-> <<>>] /\ aged' = {}
  /\ Goto(g, AfterMemory(g, m, errs[g]))
  /\ UNCHANGED <<moduleState, inbox, todo, messages, errs, now, requests, faults, listed,
                 forgotten>>

(* Reassembler.Cleanup, at the end of each memory. *)
CleanupMemory(g, m) ==
  /\ pc[g] = ReadPlace[m] /\ todo[g] = <<>>
  /\ forgotten' = forgotten \cup UNION {ToSet(cache[r]) : r \in aged}
  /\ cache' = [r \in DOMAIN cache |-> IF r \in aged THEN <<>> ELSE cache[r]]
  /\ aged' = {}
  /\ Goto(g, AfterMemory(g, m, errs[g]))
  /\ UNCHANGED <<moduleState, inbox, todo, messages, errs, now, requests, faults, listed>>

(* mergeSMS: what is there already, sender, text and time, is not added     *)
(* again.  readUSBATSMS drops repetitions in the same way.                 *)
Times == [now |-> 1, sent |-> 0]
Newer(e, f) ==  \* broken messages carry the time of reading, which is later
  \/ Times[e.at[1]] > Times[f.at[1]]
  \/ e.at[1] = "now" /\ f.at[1] = "now" /\ e.at[2] > f.at[2]

(* A stable sort: of two entries of the same time the first one stays first. *)
Merges(g) ==
  LET all == inbox \o messages[g]
      First(e) == CHOOSE n \in DOMAIN all :
                    all[n] = e /\ \A k \in DOMAIN all : all[k] = e => n <= k
      Before(e, f) == Newer(e, f) \/ (~Newer(f, e) /\ First(e) < First(f))
  IN  Ordered(ToSet(all), Before)
UpToLimit(entries) ==
  SubSeq(entries, 1, IF Len(entries) > MaxInbox THEN MaxInbox ELSE Len(entries))

PartsOf(entries) == UNION {ToSet(entries[n].parts) : n \in DOMAIN entries}

Merge(g) ==
  /\ pc[g] = "merge"
  /\ \E ordered \in Merges(g) :
       /\ inbox' = UpToLimit(ordered)
       /\ forgotten' = forgotten \cup (PartsOf(ordered) \ PartsOf(UpToLimit(ordered)))
  /\ Goto(g, IF messages[g] # <<>> THEN "clearSelect" ELSE "idle")   \* smsAutoCleanupME
  /\ messages' = [messages EXCEPT ![g] = <<>>] /\ errs' = [errs EXCEPT ![g] = {}]
  /\ UNCHANGED <<moduleState, cache, aged, todo, now, requests, faults, listed>>

-----------------------------------------------------------------------------
(* Clearing ME (clearUSBATSMSMemory), after a poll or on request.          *)

StartClear(g) ==
  /\ g \in Clearers /\ Starts(g)
  /\ \/ Goto(g, "clearSelect") /\ UNCHANGED faults
     \/ UNCHANGED pc /\ Fault
  /\ UNCHANGED <<moduleState, inbox, cache, aged, todo, messages, errs, now, listed, forgotten>>

ClearSelects(g) ==
  /\ pc[g] = "clearSelect"
  /\ \/ Selects("ME", TRUE) /\ Goto(g, "clearDelete")
     \/ Selects("ME", FALSE) /\ Goto(g, "idle")
  /\ UNCHANGED <<store, arrived, inbox, cache, aged, todo, messages, errs, bookKeeping>>

(* AT+CMGD=1,4 deletes all of the selected memory. *)
ClearDeletes(g) ==
  /\ pc[g] = "clearDelete"
  /\ \/ /\ store' = [store EXCEPT ![selected] = <<>>]
        /\ \/ Goto(g, "clearCheck") /\ UNCHANGED faults
           \/ Goto(g, "idle") /\ Fault            \* the answer is lost
     \/ UNCHANGED store /\ Fault /\ Goto(g, "idle")
  /\ UNCHANGED <<selected, arrived, inbox, cache, aged, todo, messages, errs, bookKeeping>>

ClearChecks(g) ==
  /\ pc[g] = "clearCheck"
  /\ \E ok \in BOOLEAN : Selects("ME", ok)
  /\ Goto(g, "idle")
  /\ UNCHANGED <<store, arrived, inbox, cache, aged, todo, messages, errs, bookKeeping>>

-----------------------------------------------------------------------------
(* The network and the clock.                                              *)

Arrive(i) ==
  /\ i \notin arrived
  /\ arrived' = arrived \cup {i} /\ store' = [store EXCEPT ![selected] = Append(@, i)]
  /\ UNCHANGED <<selected, inbox, cache, aged, pc, todo, messages, errs, faults, bookKeeping>>

TenMinutesPass(r) ==
  /\ cache[r] # <<>> /\ r \notin aged
  /\ aged' = aged \cup {r}
  /\ UNCHANGED <<moduleState, inbox, cache, pc, todo, messages, errs, faults, bookKeeping>>

Reads(g, m) ==
  SelectMemory(g, m) \/ ListMemory(g, m) \/ DecodeItem(g, m) \/ CleanupMemory(g, m)
Clears(g) == ClearSelects(g) \/ ClearDeletes(g) \/ ClearChecks(g)

SMSNext ==
  \/ \E g \in Pollers : StartPoll(g) \/ Merge(g) \/ \E m \in Memories : Reads(g, m)
  \/ \E g \in Clearers : StartClear(g)
  \/ \E g \in Goroutines : Clears(g)
  \/ \E i \in Items : Arrive(i)
  \/ \E r \in DOMAIN cache : TenMinutesPass(r)

(* Goroutines run and the timer of the poller ticks; nobody has to send a   *)
(* message or to make a request.                                           *)
SMSFairness ==
  /\ WF_smsVars(StartPoll(Timer))
  /\ \A g \in Pollers : WF_smsVars(Merge(g) \/ \E m \in Memories : Reads(g, m))
  /\ \A g \in Goroutines : WF_smsVars(Clears(g))

SMSSpec == SMSInit /\ [][SMSNext]_smsVars
FairSMSSpec == SMSSpec /\ SMSFairness

-----------------------------------------------------------------------------
(* Properties.                                                             *)

Entries == [parts : {<<i>> : i \in Items} \cup (Items \X Items),
            at : ({"sent"} \X Items) \cup ({"now"} \X (0 .. MaxNow))]
SMSTypeOK ==
  /\ \A m \in Memories : ToSet(store[m]) \subseteq arrived
  /\ selected \in Memories /\ arrived \subseteq Items
  /\ ToSet(inbox) \subseteq Entries /\ Len(inbox) <= MaxInbox
  /\ \A r \in DOMAIN cache : \A i \in ToSet(cache[r]) : Reference[i[1]] = r /\ i[1] \in Long
  /\ aged \subseteq {r \in DOMAIN cache : cache[r] # <<>>}
  /\ \A g \in Goroutines : errs[g] \subseteq Memories /\ ToSet(messages[g]) \subseteq Entries

(* What a poll has listed is never lost, whatever other polls and clears    *)
(* do meanwhile and whichever command fails: the module still has it, or it *)
(* is in the inbox, in the reassembler or in the hands of a poll, unless    *)
(* its other parts did not come in ten minutes or 500 newer messages did    *)
(* (pollSMSOnce clears ME after mergeSMS).                                 *)
InHand(i) ==
  \/ \E m \in Memories : Contains(store[m], i)
  \/ i \in PartsOf(inbox) \/ \E r \in DOMAIN cache : Contains(cache[r], i)
  \/ \E g \in Goroutines : Contains(todo[g], i) \/ i \in PartsOf(messages[g])
ListedIsKept == listed \subseteq {i \in Items : InHand(i)} \cup forgotten

(* A long message of the inbox has all its parts, in order, and they are of *)
(* one message, in whatever order and over however many polls they came    *)
(* (Reassembler.Add).                                                      *)
MessagesAreWhole ==
  \A e \in ToSet(inbox) : e.parts[1][1] \notin Broken =>
    \E m \in Messages : e.parts = [n \in 1 .. Cardinality(Parts(m)) |-> <<m, n>>]

(* Clearing "only clears ME": it never deletes a message of the SIM.       *)
ClearTouchesOnlyME ==
  [][\A g \in Goroutines : ClearDeletes(g) => store'["SM"] = store["SM"]]_smsVars

(* A short message that stays on the module is shown in the end, also after *)
(* polls that failed half-way (startSMSPoller polls again).                *)
ShownInTheEnd ==
  \A i \in Items : i[1] \notin Long =>
    (\E m \in Memories : Contains(store[m], i)) ~>
      (i \in PartsOf(inbox) \/ \A m \in Memories : ~Contains(store[m], i))

=============================================================================
