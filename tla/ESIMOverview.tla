--------------------------- MODULE ESIMOverview ---------------------------
(***************************************************************************)
(* The overview cache of internal/esim/manager.go between the calls that   *)
(* read it (loadOverview, one scan of the card shared by a singleflight    *)
(* group, and the background reload), the operations that change the card, *)
(* and the resets of the module that cmd/djonehub-macos/main.go reports.   *)
(*                                                                         *)
(* The profile list of a card is its edition, a number that every rename,  *)
(* delete, download or change of card increases; which profile is enabled  *)
(* is kept apart, because a switch patches it into the cache in place.     *)
(***************************************************************************)
EXTENDS Naturals, FiniteSets

CONSTANTS
  Loaders,     \* goroutines of GET /api/esim and /api/esim/health
  Reloader,    \* the goroutine of triggerOverviewReload
  Writers,     \* goroutines of the operations that change the card
  ChipReaders, \* goroutines in GetEUICCChipInfo
  Operations,  \* the operations the program offers
  Cards, Profiles,
  MaxChanges,  \* bound: operations started, resets and indications
  Nobody, Nothing

Loading == Loaders \cup {Reloader}
Callers == Loading \cup Writers \cup ChipReaders

ASSUME OverviewAssumption ==
  /\ Reloader \notin Loaders /\ Loading \cap Writers = {}
  /\ ChipReaders \cap (Loading \cup Writers) = {}
  /\ Nobody \notin Callers
  /\ Operations \subseteq {"switch", "disable", "edit", "download"}
  /\ Cards # {} /\ Profiles # {} /\ MaxChanges \in Nat

Changes == 0 .. MaxChanges
Generations == 0 .. 2 * MaxChanges
Editions == Changes
Unread == MaxChanges + 1   \* the profile list failed and was left empty

Card == [eid : Cards, edition : Editions, enabled : SUBSET Profiles]
Chip == [eid : Cards, product : Cards]
Overview == [chip : Chip \cup {Nothing}, edition : Editions \cup {Unread}, enabled : SUBSET Profiles]

ASSUME NothingAssumption == Nothing \notin Chip \cup Overview

VARIABLES
  card,               \* the inserted eUICC
  resetDue,           \* the module was reset or lost; its handle is dead
  rebootOwed,         \* a switch was accepted and no reset has followed yet
  unheard,            \* the card obeyed, its answer was not heard, nothing was dropped since
  opMu,               \* the writer that holds the lock, or Nobody
  overviewCache, chipInfoCache, overviewGeneration,
  suppressUntil, now, \* reload windows opened, and those that are over
  refreshing,         \* the loaders in RefreshOverview
  flight,             \* the singleflight group: generation -> leader
  pc,
  key,                \* the generation, or the window, a loading goroutine read
  copy,               \* what it has read
  floor,              \* the edition it may not answer below
  job,                \* what each writer was asked to do and has done
  acked,              \* the newest edition somebody has been told of
  changes             \* the budget that is used

cacheVars == <<overviewCache, chipInfoCache, overviewGeneration, unheard>>
windowVars == <<suppressUntil, now, refreshing>>
moduleVars == <<card, resetDue, rebootOwed, opMu, job, acked, changes>>
loadVars == <<flight, key, copy, floor>>
vars == <<moduleVars, cacheVars, windowVars, loadVars, pc>>

Init ==
  /\ card \in {c \in Card : c.edition = 0 /\ Cardinality(c.enabled) <= 1}
  /\ resetDue = FALSE /\ rebootOwed = FALSE /\ opMu = Nobody
  /\ overviewCache = Nothing /\ chipInfoCache = Nothing /\ overviewGeneration = 0
  /\ unheard = FALSE
  /\ suppressUntil = 0 /\ now = 0 /\ refreshing = {}
  /\ flight = [g \in Generations |-> Nobody]
  /\ pc = [c \in Callers |-> "out"]
  /\ key = [l \in Loading |-> 0]
  /\ copy = [l \in Loading \cup ChipReaders |-> Nothing]
  /\ floor = [l \in Loaders |-> 0]
  /\ job = [w \in Writers |-> Nothing]
  /\ acked = 0 /\ changes = 0

Goto(c, place) == pc' = [pc EXCEPT ![c] = place]
Suppressed == now < suppressUntil
overviewReloading == pc[Reloader] # "out"
Spend == changes < MaxChanges /\ changes' = changes + 1

-----------------------------------------------------------------------------
(* loadOverview.                                                           *)

Call(l) ==
  /\ l \in Loaders /\ pc[l] = "out"
  /\ floor' = [floor EXCEPT ![l] = acked]
  /\ Goto(l, "look")
  /\ UNCHANGED <<moduleVars, cacheVars, windowVars, flight, key, copy>>

(* The background goroutine reads the window once and sleeps until then.   *)
ReadWindow ==
  /\ pc[Reloader] = "start"
  /\ key' = [key EXCEPT ![Reloader] = suppressUntil]
  /\ Goto(Reloader, "window")
  /\ UNCHANGED <<moduleVars, cacheVars, windowVars, flight, copy, floor>>

WindowIsOver ==
  /\ pc[Reloader] = "window" /\ now >= key[Reloader]
  /\ Goto(Reloader, "look")
  /\ UNCHANGED <<moduleVars, cacheVars, windowVars, loadVars>>

(* A cached overview is answered, through a copy made outside cacheMu. *)
Look(l) ==
  /\ pc[l] = "look"
  /\ IF overviewCache = Nothing
     THEN copy' = copy /\ Goto(l, "generation")
     ELSE copy' = [copy EXCEPT ![l] = overviewCache] /\ Goto(l, "clone")
  /\ UNCHANGED <<moduleVars, cacheVars, windowVars, flight, key, floor>>

Clone(l) ==
  /\ pc[l] = "clone"
  /\ Goto(l, "answer")
  /\ UNCHANGED <<moduleVars, cacheVars, windowVars, loadVars>>

OneKey(l) ==                           \* mutant: the key leaves the generation out
  /\ pc[l] = "generation"
  /\ key' = [key EXCEPT ![l] = 0]
  /\ Goto(l, "join")
  /\ UNCHANGED <<moduleVars, cacheVars, windowVars, flight, copy, floor>>

ReadGeneration(l) ==
  /\ pc[l] = "generation"
  /\ key' = [key EXCEPT ![l] = overviewGeneration]
  /\ Goto(l, "join")
  /\ UNCHANGED <<moduleVars, cacheVars, windowVars, flight, copy, floor>>

(* singleflight.Do: lead the scan of this generation or wait for it. *)
Join(l) ==
  /\ pc[l] = "join"
  /\ IF flight[key[l]] = Nobody
     THEN flight' = [flight EXCEPT ![key[l]] = l] /\ Goto(l, "again")
     ELSE flight' = flight /\ Goto(l, "joined")
  /\ UNCHANGED <<moduleVars, cacheVars, windowVars, key, copy, floor>>

(* The flight of l ends with a result; Nothing is an error. *)
Party(l) == {k \in Loading : k = l \/ (pc[k] = "joined" /\ key[k] = key[l])}
Land(l, result) ==
  /\ flight' = [flight EXCEPT ![key[l]] = Nobody]
  /\ copy' = [k \in DOMAIN copy |-> IF k \in Party(l) THEN result ELSE copy[k]]
  /\ pc' = [c \in Callers |->
              IF c \in Party(l) THEN "answer" ELSE pc[c]]

LookAgain(l) ==
  /\ pc[l] = "again"
  /\ IF overviewCache = Nothing
     THEN Goto(l, "lock") /\ UNCHANGED <<flight, copy>>
     ELSE Land(l, overviewCache)
  /\ UNCHANGED <<moduleVars, cacheVars, windowVars, key, floor>>

(* waitForNoWriteOperation finds the lock free; it keeps nothing. *)
LockIsFree(l) ==
  /\ pc[l] = "lock" /\ opMu = Nobody
  /\ Goto(l, "scan")
  /\ UNCHANGED <<moduleVars, cacheVars, windowVars, loadVars>>

ScanLeavesNone(l) ==                   \* mutant: a failed list is no list instead of an empty one
  /\ pc[l] = "scan" /\ ~resetDue
  /\ \E edition \in {card.edition, Nothing} :
       copy' = [copy EXCEPT ![l] =
         [chip |-> [eid |-> card.eid, product |-> card.eid], edition |-> edition,
          enabled |-> card.enabled]]
  /\ Goto(l, "product")
  /\ UNCHANGED <<moduleVars, cacheVars, windowVars, flight, key, floor>>

(* forEachEUICC: EID and profile list over one logical channel; the list   *)
(* may fail alone, which leaves the group empty.                           *)
Scan(l) ==
  /\ pc[l] = "scan" /\ ~resetDue
  /\ \E edition \in {card.edition, Unread} :
       copy' = [copy EXCEPT ![l] =
         [chip |-> [eid |-> card.eid, product |-> card.eid], edition |-> edition,
          enabled |-> IF edition = Unread THEN {} ELSE card.enabled]]
  /\ Goto(l, "product")
  /\ UNCHANGED <<moduleVars, cacheVars, windowVars, flight, key, floor>>

(* The product information comes from chipInfoCache, from the card, which  *)
(* may not be the one that was scanned any more, or is guessed by the EID. *)
ProductsOf(eid) ==
  IF chipInfoCache # Nothing THEN {chipInfoCache.product}
  ELSE {eid} \cup (IF resetDue THEN {} ELSE {card.eid})

Product(l) ==
  /\ pc[l] = "product"
  /\ \E product \in ProductsOf(copy[l].chip.eid) :
       copy' = [copy EXCEPT ![l].chip.product = product]
  /\ Goto(l, "publish")
  /\ UNCHANGED <<moduleVars, cacheVars, windowVars, flight, key, floor>>

PublishAlways(l) ==                    \* mutant: setOverviewCache ignores the generation
  /\ pc[l] = "publish"
  /\ overviewCache' = copy[l] /\ chipInfoCache' = copy[l].chip
  /\ Land(l, copy[l])
  /\ UNCHANGED <<moduleVars, overviewGeneration, unheard, windowVars, key, floor>>

(* setOverviewCache, and the result goes to all who joined. *)
Publish(l) ==
  /\ pc[l] = "publish"
  /\ IF key[l] = overviewGeneration
     THEN overviewCache' = copy[l] /\ chipInfoCache' = copy[l].chip
     ELSE UNCHANGED <<overviewCache, chipInfoCache>>
  /\ Land(l, copy[l])
  /\ UNCHANGED <<moduleVars, overviewGeneration, unheard, windowVars, key, floor>>

LeadTriesAgain(l) ==                   \* mutant: a failed scan is tried again without a limit
  /\ pc[l] \in {"lock", "scan"}
  /\ (pc[l] = "lock" => opMu # Nobody)
  /\ Goto(l, "lock")
  /\ UNCHANGED <<moduleVars, cacheVars, windowVars, loadVars>>

(* The lock times out or no eUICC answers: the error is published too. *)
LoadFails(l) ==
  /\ pc[l] \in {"lock", "scan"}
  /\ (pc[l] = "lock" => opMu # Nobody)
  /\ overviewCache' = IF key[l] = overviewGeneration THEN Nothing ELSE overviewCache
  /\ Land(l, Nothing)
  /\ UNCHANGED <<moduleVars, chipInfoCache, overviewGeneration, unheard, windowVars, key, floor>>

(* A RefreshOverview that gets an overview without chip information drops   *)
(* what is cached of the chip.                                             *)
ChipIsMissing(l) == l \in refreshing /\ copy[l] # Nothing /\ copy[l].chip = Nothing
Return(l) ==
  /\ pc[l] = "answer"
  /\ chipInfoCache' = IF ChipIsMissing(l) THEN Nothing ELSE chipInfoCache
  /\ copy' = [copy EXCEPT ![l] = Nothing]
  /\ refreshing' = refreshing \ {l}
  /\ Goto(l, "out")
  /\ UNCHANGED <<moduleVars, overviewCache, overviewGeneration, unheard, suppressUntil, now,
                 flight, key, floor>>

-----------------------------------------------------------------------------
(* Invalidations.                                                          *)

TriggerReload(p) == [p EXCEPT ![Reloader] = IF @ = "out" THEN "start" ELSE @]

Invalidate ==
  /\ overviewGeneration' = overviewGeneration + 1
  /\ overviewCache' = Nothing /\ chipInfoCache' = Nothing /\ unheard' = FALSE

(* NotifyModemReset. *)
Cleared(p) == IF Suppressed THEN p ELSE TriggerReload(p)

(* The module resets or is unplugged, perhaps with another card in it when *)
(* it comes back; its handle fails until markUSBATDetached drops it.       *)
ModuleResets ==
  /\ ~resetDue /\ Spend
  /\ resetDue' = TRUE
  /\ \/ card' = card
     \/ \E c \in Card : /\ c.eid # card.eid /\ Cardinality(c.enabled) <= 1
                        /\ c.edition = card.edition + 1 /\ card' = c
  /\ UNCHANGED <<rebootOwed, opMu, job, acked, cacheVars, windowVars, loadVars, pc>>

NotifyModemReset ==
  /\ resetDue
  /\ Invalidate
  /\ resetDue' = FALSE /\ rebootOwed' = FALSE /\ acked' = card.edition
  /\ pc' = Cleared(pc)
  /\ UNCHANGED <<card, opMu, job, changes, windowVars, loadVars>>

(* A reload window ends. *)
Tick ==
  /\ Suppressed
  /\ now' = now + 1
  /\ UNCHANGED <<moduleVars, cacheVars, suppressUntil, refreshing, loadVars, pc>>

-----------------------------------------------------------------------------
(* The operations: opMu is held from Lock to Unlock.                       *)

Lock(w) ==
  /\ w \in Writers /\ pc[w] = "out" /\ opMu = Nobody /\ Spend
  /\ opMu' = w
  /\ \E op \in Operations, p \in Profiles :
       job' = [job EXCEPT ![w] = [op |-> op, target |-> p, made |-> 0]]
  /\ Goto(w, "prepare")
  /\ UNCHANGED <<card, resetDue, rebootOwed, acked, cacheVars, windowVars, loadVars>>

(* The ICCID is invalid or on no eUICC, no channel opens, too little space. *)
Reject(w) ==
  /\ w \in Writers /\ pc[w] = "prepare"
  /\ Goto(w, "unlock")
  /\ UNCHANGED <<moduleVars, cacheVars, windowVars, loadVars>>

(* beginOverviewReloadSuppression: five seconds always end later than any  *)
(* window before, the two of a download only if no longer one is open.     *)
LongWindow == suppressUntil' = suppressUntil + 1
ShortWindow == suppressUntil' \in {suppressUntil + 1} \cup (IF Suppressed THEN {suppressUntil} ELSE {})

(* A switch opens its window before the APDU goes out. *)
Prepare(w) ==
  /\ w \in Writers /\ pc[w] = "prepare"
  /\ IF job[w].op = "switch" THEN LongWindow ELSE UNCHANGED suppressUntil
  /\ Goto(w, "commit")
  /\ UNCHANGED <<moduleVars, cacheVars, now, refreshing, loadVars>>

Effect(j) ==
  CASE j.op = "switch"  -> [card EXCEPT !.enabled = {j.target}]
    [] j.op = "disable" -> [card EXCEPT !.enabled = @ \ {j.target}]
    [] OTHER            -> [card EXCEPT !.edition = @ + 1]

(* What the writer will tell of the list, if told at all: a switch tells   *)
(* nothing of it, a failed operation only if it drops what is cached.      *)
ToldEdition(op, place, edition) ==
  IF op = "switch" \/ (place = "failed" /\ op # "download") THEN 0 ELSE edition

(* The card obeys, and its answer arrives; or it is lost with the module,  *)
(* and then the writer itself reports the reset before it sees the error;  *)
(* or it comes late, cut or behind the answer of another command: the      *)
(* bridge returns what it has, the channel cannot parse it, and the        *)
(* operation fails without a reset.                                        *)
Commit(w) ==
  /\ w \in Writers /\ pc[w] = "commit" /\ ~resetDue
  /\ card' = Effect(job[w])
  /\ \E place \in {"settle", "lost", "failed"} :
       /\ job' = [job EXCEPT ![w].made = ToldEdition(job[w].op, place, card'.edition)]
       /\ rebootOwed' = (rebootOwed \/ (job[w].op = "switch" /\ place # "failed"))
       /\ resetDue' = (place = "lost")
       /\ unheard' = (unheard \/ place = "failed")
       /\ Goto(w, place)
  /\ UNCHANGED <<opMu, acked, changes, overviewCache, chipInfoCache, overviewGeneration,
                 windowVars, loadVars>>

Refuse(w) ==
  /\ w \in Writers /\ pc[w] = "commit"
  /\ Goto(w, "failed")
  /\ UNCHANGED <<moduleVars, cacheVars, windowVars, loadVars>>

LostReturns(w) ==
  /\ w \in Writers /\ pc[w] = "lost" /\ ~resetDue
  /\ Goto(w, "failed")
  /\ UNCHANGED <<moduleVars, cacheVars, windowVars, loadVars>>

(* Only a failed download invalidates: it may have installed something. *)
Fail(w) ==
  /\ w \in Writers /\ pc[w] = "failed"
  /\ IF job[w].op = "download" THEN Invalidate ELSE UNCHANGED cacheVars
  /\ Goto(w, "unlock")
  /\ UNCHANGED <<moduleVars, windowVars, loadVars>>

(* patchCachedActiveProfile changes the cached overview in place, also     *)
(* under a caller that is copying it.                                      *)
Mixes(old, new) == {old, new, old \cup new, {}}
SettleSwitch(w) ==
  /\ IF overviewCache = Nothing \/ overviewCache.edition = Unread
     THEN UNCHANGED <<overviewCache, copy>>
     ELSE /\ overviewCache' = [overviewCache EXCEPT !.enabled = {job[w].target}]
          /\ \E mix \in Mixes(overviewCache.enabled, {job[w].target}) :
               copy' = [l \in DOMAIN copy |->
                 IF l \in Loading /\ pc[l] = "clone" /\ copy[l] = overviewCache
                 THEN [copy[l] EXCEPT !.enabled = mix] ELSE copy[l]]
  /\ Goto(w, "unlock")
  /\ UNCHANGED <<moduleVars, chipInfoCache, overviewGeneration, unheard, windowVars, flight, key, floor>>

(* The other operations invalidate the cache and start a reload. *)
SettleEdit(w) ==
  /\ Invalidate
  /\ CASE job[w].op = "disable"  -> LongWindow
       [] job[w].op = "download" -> ShortWindow
       [] OTHER                  -> UNCHANGED suppressUntil
  /\ pc' = TriggerReload([pc EXCEPT ![w] = "unlock"])
  /\ UNCHANGED <<moduleVars, now, refreshing, loadVars>>

(* What a successful operation does with what is cached. *)
Settle(w) ==
  /\ w \in Writers /\ pc[w] = "settle"
  /\ IF job[w].op = "switch" THEN SettleSwitch(w) ELSE SettleEdit(w)

Later(a, b) == IF a > b THEN a ELSE b
Unlock(w) ==
  /\ w \in Writers /\ pc[w] = "unlock"
  /\ opMu' = Nobody
  /\ acked' = Later(acked, job[w].made)
  /\ job' = [job EXCEPT ![w] = Nothing]
  /\ Goto(w, "out")
  /\ UNCHANGED <<card, resetDue, rebootOwed, changes, cacheVars, windowVars, loadVars>>

-----------------------------------------------------------------------------
(* The rest of the interface, which the program does not call.             *)

(* GetEUICCChipInfo looks in the cache, *)
ChipCall(c) ==
  /\ c \in ChipReaders /\ pc[c] = "out" /\ chipInfoCache = Nothing
  /\ Goto(c, "lock")
  /\ UNCHANGED <<moduleVars, cacheVars, windowVars, loadVars>>

(* scans for the EIDs when no operation is running, *)
ChipScan(c) ==
  /\ c \in ChipReaders /\ pc[c] = "lock" /\ opMu = Nobody /\ ~resetDue
  /\ copy' = [copy EXCEPT ![c] = [eid |-> card.eid, product |-> card.eid]]
  /\ Goto(c, "product")
  /\ UNCHANGED <<moduleVars, cacheVars, windowVars, flight, key, floor>>

ChipFails(c) ==
  /\ c \in ChipReaders /\ pc[c] = "lock"
  /\ Goto(c, "out")
  /\ UNCHANGED <<moduleVars, cacheVars, windowVars, loadVars>>

ChipProduct(c) ==
  /\ c \in ChipReaders /\ pc[c] = "product"
  /\ \E product \in ProductsOf(copy[c].eid) :
       copy' = [copy EXCEPT ![c].product = product]
  /\ Goto(c, "publish")
  /\ UNCHANGED <<moduleVars, cacheVars, windowVars, flight, key, floor>>

(* and stores what it found whatever happened since. *)
ChipPublish(c) ==
  /\ c \in ChipReaders /\ pc[c] = "publish"
  /\ chipInfoCache' = copy[c]
  /\ copy' = [copy EXCEPT ![c] = Nothing]
  /\ Goto(c, "out")
  /\ UNCHANGED <<moduleVars, overviewCache, overviewGeneration, unheard, windowVars, flight, key, floor>>

(* An indication of the modem; in a reload window it is dropped. *)
NotifyUIMIndication ==
  /\ ~Suppressed /\ Spend
  /\ Invalidate
  /\ pc' = TriggerReload(pc)
  /\ UNCHANGED <<card, resetDue, rebootOwed, opMu, job, acked, windowVars, loadVars>>

(* RefreshOverview waits for the window it read, and unless a background    *)
(* reload is or was running it starts a new generation; then it loads.     *)
RefreshOverview(l) ==
  /\ l \in Loaders /\ pc[l] = "out" /\ Spend
  /\ key' = [key EXCEPT ![l] = suppressUntil]
  /\ floor' = [floor EXCEPT ![l] = acked]
  /\ refreshing' = refreshing \cup {l}
  /\ Goto(l, IF overviewReloading THEN "shared" ELSE "alone")
  /\ UNCHANGED <<card, resetDue, rebootOwed, opMu, job, acked, cacheVars, suppressUntil, now,
                 flight, copy>>

RefreshShares(l) ==
  /\ pc[l] \in {"shared", "alone"} /\ now >= key[l]
  /\ pc[l] = "shared" \/ overviewReloading
  /\ Goto(l, "look")
  /\ UNCHANGED <<moduleVars, cacheVars, windowVars, loadVars>>

(* Chip information is kept if it names the product. *)
RefreshRenews(l) ==
  /\ pc[l] = "alone" /\ now >= key[l] /\ ~overviewReloading
  /\ overviewGeneration' = overviewGeneration + 1 /\ unheard' = FALSE
  /\ overviewCache' = Nothing /\ chipInfoCache' \in {chipInfoCache, Nothing}
  /\ Goto(l, "look")
  /\ UNCHANGED <<moduleVars, windowVars, loadVars>>

(* RefreshProfiles scans when no operation runs and stores the lists in     *)
(* the overview of that moment, or in one without chip information.        *)
RefreshProfiles(c) ==
  /\ c \in ChipReaders /\ pc[c] = "out" /\ Spend
  /\ Goto(c, "profiles")
  /\ UNCHANGED <<card, resetDue, rebootOwed, opMu, job, acked, cacheVars, windowVars, loadVars>>

LoadProfiles(c) ==
  /\ c \in ChipReaders /\ pc[c] = "profiles"
  /\ \/ /\ opMu = Nobody /\ ~resetDue /\ Goto(c, "store")
        /\ \E edition \in {card.edition, Unread} :
             copy' = [copy EXCEPT ![c] =
               [chip |-> Nothing, edition |-> edition,
                enabled |-> IF edition = Unread THEN {} ELSE card.enabled]]
     \/ Goto(c, "out") /\ UNCHANGED copy
  /\ UNCHANGED <<moduleVars, cacheVars, windowVars, flight, key, floor>>

StoreProfiles(c) ==
  /\ c \in ChipReaders /\ pc[c] = "store"
  /\ overviewCache' =
       IF overviewCache = Nothing THEN copy[c]
       ELSE [overviewCache EXCEPT !.edition = copy[c].edition, !.enabled = copy[c].enabled]
  /\ copy' = [copy EXCEPT ![c] = Nothing]
  /\ Goto(c, "out")
  /\ UNCHANGED <<moduleVars, chipInfoCache, overviewGeneration, unheard, windowVars, flight, key, floor>>

(* NotifyModemResetDelayed opens a window of its own, if there is none. *)
NotifyModemResetDelayed ==
  /\ resetDue
  /\ Invalidate
  /\ resetDue' = FALSE /\ rebootOwed' = FALSE /\ acked' = card.edition
  /\ IF Suppressed THEN UNCHANGED <<suppressUntil, pc>>
                   ELSE LongWindow /\ pc' = TriggerReload(pc)
  /\ UNCHANGED <<card, opMu, job, changes, now, refreshing, loadVars>>

WarmOverviewAsync ==
  /\ ~overviewReloading /\ Spend /\ pc' = TriggerReload(pc)
  /\ UNCHANGED <<card, resetDue, rebootOwed, opMu, job, acked, cacheVars, windowVars, loadVars>>

-----------------------------------------------------------------------------
LoadStep(l) ==
  \/ Look(l) \/ Clone(l) \/ ReadGeneration(l) \/ Join(l) \/ LookAgain(l)
  \/ LockIsFree(l) \/ Scan(l) \/ Product(l) \/ Publish(l) \/ LoadFails(l) \/ Return(l)
WriteStep(w) ==
  \/ Reject(w) \/ Prepare(w) \/ Commit(w) \/ Refuse(w) \/ LostReturns(w)
  \/ Fail(w) \/ Settle(w) \/ Unlock(w)

Next ==
  \/ \E l \in Loading : Call(l) \/ LoadStep(l)
  \/ ReadWindow \/ WindowIsOver
  \/ \E w \in Writers : Lock(w) \/ WriteStep(w)
  \/ ModuleResets \/ NotifyModemReset \/ Tick

LibraryNext ==
  \/ Next
  \/ \E c \in ChipReaders :
       \/ ChipCall(c) \/ ChipScan(c) \/ ChipFails(c) \/ ChipProduct(c) \/ ChipPublish(c)
       \/ RefreshProfiles(c) \/ LoadProfiles(c) \/ StoreProfiles(c)
  \/ \E l \in Loaders : RefreshOverview(l) \/ RefreshShares(l) \/ RefreshRenews(l)
  \/ NotifyUIMIndication \/ NotifyModemResetDelayed \/ WarmOverviewAsync

Spec == Init /\ [][Next]_vars
LibrarySpec == Init /\ [][LibraryNext]_vars

(* Goroutines run, the lock wait times out, windows end and a lost module  *)
(* is noticed by the next command.  New calls and operations are free.     *)
Fairness ==
  /\ \A l \in Loading : WF_vars(LoadStep(l) \/ RefreshShares(l) \/ RefreshRenews(l))
  /\ \A w \in Writers : WF_vars(WriteStep(w))
  /\ WF_vars(ReadWindow) /\ WF_vars(WindowIsOver)
  /\ WF_vars(NotifyModemReset) /\ WF_vars(Tick)

FairLibrarySpec == LibrarySpec /\ Fairness

-----------------------------------------------------------------------------
(* Properties.                                                             *)

(* Every variable has its type. *)
TypeOK ==
  /\ card \in Card /\ resetDue \in BOOLEAN /\ rebootOwed \in BOOLEAN /\ unheard \in BOOLEAN
  /\ refreshing \subseteq Loaders
  /\ opMu \in Writers \cup {Nobody}
  /\ overviewCache \in Overview \cup {Nothing} /\ chipInfoCache \in Chip \cup {Nothing}
  /\ overviewGeneration \in Generations
  /\ suppressUntil \in Changes /\ now \in 0 .. suppressUntil
  /\ flight \in [Generations -> Loading \cup {Nobody}]
  /\ pc \in [Callers -> {"out", "start", "window", "look", "clone", "generation", "join",
                         "joined", "again", "lock", "scan", "product", "publish", "answer",
                         "prepare", "commit", "settle", "lost", "failed", "unlock",
                         "shared", "alone", "profiles", "store"}]
  /\ key \in [Loading -> Generations]
  /\ copy \in [Loading \cup ChipReaders -> Overview \cup Chip \cup {Nothing}]
  /\ floor \in [Loaders -> Editions]
  /\ job \in [Writers -> [op : Operations, target : Profiles, made : Editions] \cup {Nothing}]
  /\ acked \in Editions /\ changes \in Changes

(* No operation is between its effect on the card and its invalidation,    *)
(* and no reset waits to be noticed.                                       *)
Settled == ~resetDue /\ \A w \in Writers : pc[w] \notin {"settle", "lost"}

(* The cached profile list is the card's, or the empty one of a list that  *)
(* failed to read, however loads, joined loads, operations and resets      *)
(* overlap (setOverviewCache, invalidateOverviewCache).  It is not after   *)
(* an operation that the card obeyed and the bridge reported as failed: a  *)
(* failed rename, delete, switch or disable drops nothing, and the old     *)
(* list stays until the next invalidation (unheard).                       *)
CachedListIsCurrent ==
  (Settled /\ ~unheard /\ overviewCache # Nothing) => overviewCache.edition \in {card.edition, Unread}

(* The chip information is that of the inserted card (NotifyModemReset).   *)
ChipInfoIsCurrent ==
  ~resetDue => /\ chipInfoCache # Nothing => chipInfoCache = [eid |-> card.eid, product |-> card.eid]
               /\ overviewCache # Nothing => overviewCache.chip.eid = card.eid

(* The cached enabled profile is the card's, unless a switch still owes    *)
(* the module its restart: a load that was on its way may overwrite what   *)
(* the switch has patched (patchCachedActiveProfile, switchESIM); again    *)
(* not after an operation whose answer was not heard.                      *)
EnabledIsCurrent ==
  (Settled /\ ~unheard /\ ~rebootOwed /\ overviewCache # Nothing /\ overviewCache.edition # Unread) =>
    overviewCache.enabled = card.enabled

(* All that is cached is current. *)
CachesAreCurrent == CachedListIsCurrent /\ ChipInfoIsCurrent /\ EnabledIsCurrent

(* Whoever calls after an operation that changes the list was told to have *)
(* succeeded, after a download that failed, or after a reset was noticed,  *)
(* is not answered with a profile list from before it, through the cache   *)
(* or through a scan it joined (loadOverview).  Of an operation that was   *)
(* reported as failed nobody has been told that the card obeyed it.        *)
AnswersAreFresh ==
  \A l \in Loaders : (pc[l] = "answer" /\ copy[l] # Nothing) => copy[l].edition >= floor[l]

(* The page says of every refresh that it reads the card, and of what it   *)
(* then shows that it was read: an overview that GET /api/esim finds in    *)
(* the cache while nothing is at work has the card's list.  It has not     *)
(* after a rename or delete whose answer came late or cut.                 *)
RefreshShowsTheCard ==
  (opMu = Nobody /\ ~resetDue /\ overviewCache # Nothing) => overviewCache.edition \in {card.edition, Unread}

(* Every call of the overview is answered, and every background reload     *)
(* ends (loadOverview, triggerOverviewReload).                             *)
EveryLoadEnds == \A l \in Loading : pc[l] # "out" ~> pc[l] = "out"

(* While the window of a switch is open, nothing is reloaded by itself.    *)
ReloadWindowsHold ==
  [][Suppressed => ~Scan(Reloader)]_vars

=============================================================================
