------------------------- MODULE ESIMOverview_proofs -------------------------
(***************************************************************************)
(* That what is cached is current and what is answered is fresh, for any   *)
(* loaders, writers, cards, profiles and number of changes, as long as     *)
(* only the operations of the program run (Spec).                          *)
(*                                                                         *)
(* A cache is as good as what is written to it, so the invariant speaks of *)
(* everything that a load with the present generation has in its hands,    *)
(* and says which changes of the card still owe an invalidation.           *)
(***************************************************************************)
EXTENDS ESIMOverview, TLAPS

LoadPlaces == {"out", "start", "window", "look", "clone", "generation", "join", "joined", "again",
               "lock", "scan", "product", "publish", "answer"}
WritePlaces == {"out", "prepare", "commit", "settle", "lost", "failed", "unlock"}
Keyed == {"join", "joined", "again", "lock", "scan", "product", "publish"}
Holding == {"product", "publish"}
WriteJob == [op : Operations, target : Profiles, made : Editions]

(* Who may be where; the writers' lock; the bounds of what is counted.     *)
Shape ==
  /\ \A l \in Loading : pc[l] \in LoadPlaces
  /\ \A l \in Loaders : pc[l] \notin {"start", "window"}
  /\ \A w \in Writers : /\ pc[w] \in WritePlaces
                        /\ pc[w] # "out" => opMu = w /\ job[w] \in WriteJob
                        /\ pc[w] \in {"prepare", "commit"} => job[w].made = 0
  /\ \A l \in Loading : pc[l] \in Holding => copy[l] \in Overview /\ copy[l].chip \in Chip
  /\ \A l \in Loading : copy[l] \in Overview \cup {Nothing}

(* A load's key is no newer than the generation. *)
KeysAreOld == \A l \in Loading : pc[l] \in Keyed => key[l] <= overviewGeneration

(* What the budget of changes still has to cover: invalidations, editions  *)
(* and windows that the writer with the lock and a reset may yet cause.    *)
Owes(invalidations, editions, windows) ==
  /\ overviewGeneration + invalidations + (IF resetDue THEN 1 ELSE 0) <= changes + changes
  /\ card.edition + editions <= changes
  /\ suppressUntil + windows <= changes

OwesFor(place, op) ==
  /\ Owes(0, 0, 0)
  /\ place = "prepare" => Owes(2, 1, 1)
  /\ place = "commit" => Owes(2, 1, 0) /\ (op # "switch" => Owes(2, 1, 1))
  /\ place = "settle" => Owes(1, 0, 0) /\ (op # "switch" => Owes(1, 0, 1))
  /\ place \in {"lost", "failed"} => Owes(1, 0, 0)

Budget ==
  /\ Owes(0, 0, 0)
  /\ \A w \in Writers : opMu = w => OwesFor(pc[w], job[w].op)

(* The card has changed, and the invalidation is still to come. *)
Dirty == resetDue \/ \E w \in Writers : pc[w] = "settle" /\ job[w].op # "switch"

(* o is what the card says, unless it did something nobody has heard of. *)
Current(o) ==
  /\ ~Dirty /\ ~unheard => o.edition \in {card.edition, Unread}
  /\ ~Dirty /\ ~unheard /\ ~rebootOwed /\ o.edition # Unread => o.enabled = card.enabled
  /\ ~resetDue => o.chip.eid = card.eid

(* Those that have reported their change, or need not; a download that     *)
(* failed has yet to drop what is cached.                                  *)
Past(w) ==
  \/ pc[w] = "unlock"
  \/ pc[w] = "failed" /\ job[w].op # "download"
  \/ pc[w] = "lost" /\ ~resetDue
  \/ pc[w] = "settle" /\ job[w].op = "switch"

(* o is not older than what anybody has been told of, or soon will be. *)
Recent(o) ==
  /\ o.edition >= acked
  /\ \A w \in Writers : Past(w) => o.edition >= job[w].made

Publishes(l) == pc[l] \in Holding /\ key[l] = overviewGeneration

CacheIsSound ==
  /\ overviewCache # Nothing => Current(overviewCache) /\ Recent(overviewCache)
  /\ overviewCache # Nothing => overviewCache.chip # Nothing
  /\ ~resetDue /\ chipInfoCache # Nothing => chipInfoCache = [eid |-> card.eid, product |-> card.eid]

LoadsAreSound ==
  \A l \in Loading :
    Publishes(l) => /\ Current(copy[l]) /\ Recent(copy[l])
                    /\ pc[l] = "publish" /\ ~resetDue => copy[l].chip.product = card.eid

(* A reset between a switch and its patch leaves nothing to patch. *)
NothingToPatch ==
  \A w \in Writers : pc[w] = "settle" /\ job[w].op = "switch" /\ ~rebootOwed =>
    /\ overviewCache = Nothing
    /\ \A l \in Loading : pc[l] \in {"scan"} \cup Holding => key[l] # overviewGeneration

(* Nobody expects more than the card has. *)
FloorsHold ==
  /\ acked <= card.edition
  /\ \A w \in Writers : pc[w] # "out" => job[w].made <= card.edition
  /\ \A l \in Loaders : floor[l] <= acked

(* What a leader has is fresh for all that wait for it. *)
FlightsAreFresh ==
  /\ \A k \in Loading, l \in Loaders :
       pc[k] \in Holding /\ pc[l] \in Keyed /\ key[k] = key[l] => copy[k].edition >= floor[l]
  /\ \A l \in Loaders : pc[l] \in {"clone", "answer"} /\ copy[l] # Nothing => copy[l].edition >= floor[l]

OverviewInv ==
  /\ TypeOK /\ Shape /\ KeysAreOld /\ Budget
  /\ CacheIsSound /\ LoadsAreSound /\ NothingToPatch
  /\ FloorsHold /\ FlightsAreFresh

-----------------------------------------------------------------------------
(* What each kind of step leaves alone.                                    *)

LEMMA Parties ==
  /\ Reloader \in Loading /\ Loaders \subseteq Loading /\ Loading \subseteq Callers
  /\ Writers \subseteq Callers /\ Loading \cap Writers = {} /\ Reloader \notin Loaders
  /\ Nobody \notin Loading /\ Nobody \notin Writers /\ MaxChanges \in Nat
  /\ Loading = Loaders \cup {Reloader}
  BY OverviewAssumption DEF Loading, Callers

LoadAction(l) == Call(l) \/ LoadStep(l) \/ (l = Reloader /\ (ReadWindow \/ WindowIsOver))

LEMMA LoadFrame ==
  ASSUME TypeOK, NEW l \in Loading, LoadAction(l)
  PROVE  /\ UNCHANGED <<card, resetDue, rebootOwed, opMu, job, acked, changes,
                        overviewGeneration, unheard, suppressUntil, now>>
         /\ \A w \in Writers : pc'[w] = pc[w]
         /\ \A k \in Loading : k # l /\ pc[k] # "joined" => pc'[k] = pc[k] /\ copy'[k] = copy[k]
         /\ \A k \in Loading : k # l => key'[k] = key[k]
         /\ \A k \in Loaders : k # l => floor'[k] = floor[k]
<1> USE Parties DEF moduleVars, cacheVars, windowVars, loadVars, Goto
<1>1. pc \in [Callers -> {pc[c] : c \in Callers}] /\ key \in [Loading -> Generations]
      /\ DOMAIN copy = Loading \cup ChipReaders /\ DOMAIN floor = Loaders
  BY DEF TypeOK
<1>2. CASE Call(l) \/ Look(l) \/ Clone(l) \/ ReadGeneration(l) \/ Join(l) \/ LockIsFree(l)
             \/ Scan(l) \/ Product(l) \/ Return(l)
  BY <1>1, <1>2 DEF Call, Look, Clone, ReadGeneration, Join, LockIsFree, Scan, Product, Return
<1>3. CASE l = Reloader /\ (ReadWindow \/ WindowIsOver)
  BY <1>1, <1>3 DEF ReadWindow, WindowIsOver
<1>4. CASE LookAgain(l)
  BY <1>1, <1>4 DEF LookAgain, Land, Party
<1>5. CASE Publish(l)
  BY <1>1, <1>5 DEF Publish, Land, Party
<1>6. CASE LoadFails(l)
  BY <1>1, <1>6 DEF LoadFails, Land, Party
<1> QED BY <1>2, <1>3, <1>4, <1>5, <1>6 DEF LoadAction, LoadStep

WriteAction(w) == Lock(w) \/ WriteStep(w)

(* The reload that an operation or a reset starts is all it does to loads, *)
(* but for the enabled profile in a copy that is being made.               *)
LoadsStay ==
  /\ UNCHANGED <<flight, key, floor>>
  /\ \A l \in Loading : \/ pc'[l] = pc[l]
                        \/ l = Reloader /\ pc[l] = "out" /\ pc'[l] = "start"
  /\ \A l \in Loading : pc[l] # "clone" => copy'[l] = copy[l]
  /\ DOMAIN copy' = DOMAIN copy

LEMMA WriteFrame ==
  ASSUME TypeOK, NEW w \in Writers, WriteAction(w)
  PROVE  /\ LoadsStay /\ now' = now
         /\ \A v \in Writers : v # w => pc'[v] = pc[v] /\ job'[v] = job[v]
<1> USE Parties DEF moduleVars, cacheVars, windowVars, loadVars, Goto, LoadsStay, TriggerReload
<1>1. /\ DOMAIN pc = Callers /\ DOMAIN copy = Loading \cup ChipReaders
      /\ DOMAIN job = Writers
  BY DEF TypeOK
<1>2. CASE Lock(w) \/ Reject(w) \/ Prepare(w) \/ Commit(w) \/ Refuse(w) \/ LostReturns(w) \/ Fail(w) \/ Unlock(w)
  BY <1>1, <1>2 DEF Lock, Reject, Prepare, Commit, Refuse, LostReturns, Fail, Unlock, Invalidate
<1>3. CASE Settle(w) /\ job[w].op = "switch"
  BY <1>1, <1>3 DEF Settle, SettleSwitch
<1>4. CASE Settle(w) /\ job[w].op # "switch"
  BY <1>1, <1>4 DEF Settle, SettleEdit
<1> QED BY <1>2, <1>3, <1>4 DEF WriteAction, WriteStep

ModuleAction == ModuleResets \/ NotifyModemReset \/ Tick

LEMMA ModuleFrame ==
  ASSUME TypeOK, ModuleAction
  PROVE  /\ LoadsStay /\ UNCHANGED <<opMu, job, suppressUntil>>
         /\ \A w \in Writers : pc'[w] = pc[w]
<1> USE Parties DEF moduleVars, cacheVars, windowVars, loadVars, LoadsStay, TriggerReload, Cleared
<1>1. DOMAIN pc = Callers
  BY DEF TypeOK
<1>2. CASE ModuleResets \/ Tick
  BY <1>1, <1>2 DEF ModuleResets, Tick
<1>3. CASE NotifyModemReset
  BY <1>1, <1>3 DEF NotifyModemReset
<1> QED BY <1>2, <1>3 DEF ModuleAction

LEMMA NextIs ==
  Next => \/ \E l \in Loading : LoadAction(l)
          \/ \E w \in Writers : WriteAction(w)
          \/ ModuleAction
  BY Parties DEF Next, LoadAction, WriteAction, ModuleAction

LEMMA Landed ==
  ASSUME TypeOK, NEW l \in Loading, NEW r, Land(l, r), NEW k \in Loading
  PROVE  /\ k \in Party(l) => pc'[k] = "answer" /\ copy'[k] = r
         /\ k \notin Party(l) => pc'[k] = pc[k] /\ copy'[k] = copy[k]
         /\ k \in Party(l) <=> k = l \/ (pc[k] = "joined" /\ key[k] = key[l])
  BY Parties DEF Land, Party, TypeOK

-----------------------------------------------------------------------------
(* Shape.                                                                  *)

LEMMA LoadShape ==
  ASSUME TypeOK, Shape, NEW l \in Loading, LoadAction(l)
  PROVE  Shape'
<1> USE Parties DEF moduleVars, cacheVars, windowVars, loadVars, Goto
<1>1. /\ DOMAIN pc = Callers /\ DOMAIN copy = Loading \cup ChipReaders
      /\ overviewCache \in Overview \cup {Nothing}
  BY DEF TypeOK
<1>2. \A w \in Writers : /\ pc'[w] \in WritePlaces
                         /\ pc'[w] # "out" => opMu' = w /\ job'[w] \in WriteJob
                         /\ pc'[w] \in {"prepare", "commit"} => job'[w].made = 0
  BY LoadFrame DEF Shape
<1>3. SUFFICES ASSUME NEW k \in Loading
               PROVE  /\ pc'[k] \in LoadPlaces
                      /\ k \in Loaders => pc'[k] \notin {"start", "window"}
                      /\ pc'[k] \in Holding => copy'[k] \in Overview /\ copy'[k].chip \in Chip
                      /\ copy'[k] \in Overview \cup {Nothing}
  BY <1>2 DEF Shape
<1>4. /\ pc[k] \in LoadPlaces /\ pc[l] \in LoadPlaces
      /\ k \in Loaders => pc[k] \notin {"start", "window"}
      /\ pc[k] \in Holding => copy[k] \in Overview /\ copy[k].chip \in Chip
      /\ copy[k] \in Overview \cup {Nothing} /\ copy[l] \in Overview \cup {Nothing}
  BY DEF Shape
<1>5. CASE Call(l) \/ Clone(l) \/ ReadGeneration(l) \/ Join(l) \/ LockIsFree(l)
             \/ (l = Reloader /\ (ReadWindow \/ WindowIsOver))
  BY <1>1, <1>4, <1>5 DEF Call, Clone, ReadGeneration, Join, LockIsFree, ReadWindow, WindowIsOver,
                          LoadPlaces, Holding
<1>6. CASE Look(l) \/ Return(l)
  BY <1>1, <1>4, <1>6 DEF Look, Return, LoadPlaces, Holding
<1>7. CASE Scan(l)
  <2>1. PICK edition \in {card.edition, Unread} :
          copy' = [copy EXCEPT ![l] =
            [chip |-> [eid |-> card.eid, product |-> card.eid], edition |-> edition,
             enabled |-> IF edition = Unread THEN {} ELSE card.enabled]]
    BY <1>7 DEF Scan
  <2>2. card.eid \in Cards /\ card.edition \in Editions /\ card.enabled \in SUBSET Profiles
    BY DEF TypeOK, Card
  <2>3. [eid |-> card.eid, product |-> card.eid] \in Chip
    BY <2>2 DEF Chip
  <2>4. [chip |-> [eid |-> card.eid, product |-> card.eid], edition |-> edition,
         enabled |-> IF edition = Unread THEN {} ELSE card.enabled] \in Overview
    BY <2>2, <2>3 DEF Overview
  <2>5. copy'[l] \in Overview /\ copy'[l].chip \in Chip /\ pc'[l] = "product" /\ (k # l => pc'[k] = pc[k] /\ copy'[k] = copy[k])
    BY <1>1, <1>7, <2>1, <2>3, <2>4 DEF Scan
  <2> QED BY <1>4, <2>5 DEF LoadPlaces
<1>8. CASE Product(l)
  <2>1. PICK product \in ProductsOf(copy[l].chip.eid) :
          copy' = [copy EXCEPT ![l].chip.product = product]
    BY <1>8 DEF Product
  <2>2. copy[l] \in Overview /\ copy[l].chip \in Chip
    BY <1>8 DEF Product, Shape, Holding
  <2>3. product \in Cards
    BY <2>1, <2>2 DEF ProductsOf, TypeOK, Chip, Card
  <2>4. [copy[l].chip EXCEPT !.product = product] \in Chip
    BY <2>2, <2>3 DEF Chip
  <2>5. [copy[l] EXCEPT !.chip = [@ EXCEPT !.product = product]] \in Overview
    BY <2>2, <2>4 DEF Overview
  <2>6. /\ copy'[l] = [copy[l] EXCEPT !.chip = [@ EXCEPT !.product = product]]
        /\ pc'[l] = "publish" /\ (k # l => pc'[k] = pc[k] /\ copy'[k] = copy[k])
    BY <1>1, <1>8, <2>1 DEF Product
  <2>7. copy'[l] \in Overview /\ copy'[l].chip \in Chip
    BY <2>2, <2>4, <2>5, <2>6 DEF Overview
  <2> QED BY <1>4, <2>6, <2>7 DEF LoadPlaces
<1>9. CASE LookAgain(l) \/ Publish(l) \/ LoadFails(l)
  <2>1. CASE LookAgain(l) /\ overviewCache = Nothing
    BY <1>1, <1>4, <2>1 DEF LookAgain, LoadPlaces, Holding
  <2>2. ASSUME NEW r \in Overview \cup {Nothing}, Land(l, r)
        PROVE  /\ pc'[k] \in LoadPlaces
               /\ k \in Loaders => pc'[k] \notin {"start", "window"}
               /\ pc'[k] \in Holding => copy'[k] \in Overview /\ copy'[k].chip \in Chip
               /\ copy'[k] \in Overview \cup {Nothing}
    BY <1>4, <2>2, Landed DEF LoadPlaces, Holding
  <2>3. copy[l] \in Overview \cup {Nothing}
    BY <1>4
  <2> QED BY <1>1, <1>9, <2>1, <2>2, <2>3 DEF LookAgain, Publish, LoadFails
<1> QED BY <1>5, <1>6, <1>7, <1>8, <1>9 DEF LoadAction, LoadStep

LEMMA EffectIs ==
  ASSUME TypeOK, NEW j \in WriteJob, card.edition + 1 <= MaxChanges
  PROVE  /\ Effect(j) \in Card /\ Effect(j).eid = card.eid
         /\ j.op = "switch" => Effect(j).enabled = {j.target}
         /\ j.op \in {"switch", "disable"} => Effect(j).edition = card.edition
         /\ Effect(j).edition \in {card.edition, card.edition + 1}
<1> USE DEF Effect, Card, WriteJob, TypeOK, Editions, Changes
<1>1. CASE j.op = "switch"
  BY <1>1
<1>2. CASE j.op = "disable"
  BY <1>2
<1>3. CASE j.op \notin {"switch", "disable"}
  <2>1. card.edition + 1 \in Editions
    BY Parties
  <2> QED BY <1>3, <2>1
<1> QED BY <1>1, <1>2, <1>3

LEMMA CommitIs ==
  ASSUME TypeOK, Shape, NEW w \in Writers, Commit(w)
  PROVE  /\ pc[w] = "commit" /\ ~resetDue /\ card' = Effect(job[w]) /\ opMu' = opMu
         /\ pc'[w] \in {"settle", "lost", "failed"} /\ job[w] \in WriteJob /\ opMu = w
         /\ job' = [job EXCEPT ![w] = job'[w]]
         /\ job'[w] = [job[w] EXCEPT !.made = job'[w].made] /\ job'[w].op = job[w].op
         /\ job'[w].made \in {0, card'.edition}
         /\ job[w].op = "switch" => job'[w].made = 0
         /\ pc'[w] = "failed" /\ job[w].op # "download" => job'[w].made = 0
         /\ rebootOwed' = (rebootOwed \/ (job[w].op = "switch" /\ pc'[w] # "failed"))
         /\ resetDue' = (pc'[w] = "lost") /\ unheard' = (unheard \/ pc'[w] = "failed")
         /\ UNCHANGED <<acked, changes, overviewCache, chipInfoCache, overviewGeneration,
                        suppressUntil, now, refreshing>>
<1>1. /\ DOMAIN pc = Callers /\ DOMAIN job = Writers /\ pc[w] = "commit" /\ job[w] \in WriteJob
      /\ opMu = w
  BY DEF TypeOK, Shape, Commit
<1>2. PICK place \in {"settle", "lost", "failed"} :
       /\ job' = [job EXCEPT ![w].made = ToldEdition(job[w].op, place, card'.edition)]
       /\ rebootOwed' = (rebootOwed \/ (job[w].op = "switch" /\ place # "failed"))
       /\ resetDue' = (place = "lost")
       /\ unheard' = (unheard \/ place = "failed")
       /\ Goto(w, place)
  BY DEF Commit
<1>3. pc'[w] = place
  BY <1>1, <1>2, Parties DEF Goto
<1>4. job'[w] = [job[w] EXCEPT !.made = ToldEdition(job[w].op, place, card'.edition)]
  BY <1>1, <1>2
<1>5. /\ job'[w].op = job[w].op /\ job'[w].made = ToldEdition(job[w].op, place, card'.edition)
  BY <1>1, <1>4 DEF WriteJob
<1>6. job' = [job EXCEPT ![w] = job'[w]]
  BY <1>1, <1>2, <1>4
<1> QED BY <1>1, <1>2, <1>3, <1>4, <1>5, <1>6 DEF Commit, ToldEdition, windowVars

LEMMA WriteShape ==
  ASSUME TypeOK, Shape, Budget, NEW w \in Writers, WriteAction(w)
  PROVE  Shape'
<1> USE Parties DEF moduleVars, cacheVars, windowVars, loadVars, Goto
<1>1. /\ DOMAIN pc = Callers /\ DOMAIN copy = Loading \cup ChipReaders /\ DOMAIN job = Writers
      /\ pc[w] \in WritePlaces /\ (pc[w] # "out" => opMu = w /\ job[w] \in WriteJob)
  BY DEF TypeOK, Shape
<1>2. /\ \A l \in Loading : pc'[l] = pc[l] \/ (l = Reloader /\ pc[l] = "out" /\ pc'[l] = "start")
      /\ \A l \in Loading : pc[l] # "clone" => copy'[l] = copy[l]
      /\ \A v \in Writers : v # w => pc'[v] = pc[v] /\ job'[v] = job[v]
  BY WriteFrame DEF LoadsStay
<1>3. \A v \in Writers : v # w => pc[v] = "out"
  BY <1>1 DEF Shape, WriteAction, WriteStep, Lock, Reject, Prepare, Commit, Refuse, LostReturns,
     Fail,
              Settle, Unlock
<1>4. /\ pc'[w] \in WritePlaces
      /\ pc'[w] # "out" => opMu' = w /\ job'[w] \in WriteJob
      /\ pc'[w] \in {"prepare", "commit"} => job'[w].made = 0
  <2>1. CASE Lock(w)
    <3>1. PICK op \in Operations, p \in Profiles :
            job' = [job EXCEPT ![w] = [op |-> op, target |-> p, made |-> 0]]
      BY <2>1 DEF Lock
    <3>2. [op |-> op, target |-> p, made |-> 0] \in WriteJob
      BY DEF WriteJob, Editions, Changes
    <3> QED BY <1>1, <2>1, <3>1, <3>2 DEF Lock, WritePlaces
  <2>2. CASE Reject(w) \/ Prepare(w) \/ Refuse(w) \/ LostReturns(w) \/ Fail(w) \/ Unlock(w)
    BY <1>1, <2>2 DEF Shape, Reject, Prepare, Refuse, LostReturns, Fail, Unlock, WritePlaces
  <2>3. CASE Commit(w)
    <3>1. card.edition + 1 <= MaxChanges
      BY <1>1, <2>3 DEF Commit, Budget, OwesFor, Owes, TypeOK, Card, Editions, Changes
    <3>2. card' \in Card
      BY <1>1, <2>3, <3>1, EffectIs DEF Commit
    <3>3. /\ pc'[w] \in {"settle", "lost", "failed"} /\ opMu' = opMu /\ pc[w] = "commit"
          /\ job'[w] = [job[w] EXCEPT !.made = job'[w].made] /\ job'[w].made \in {0, card'.edition}
      BY <2>3, CommitIs
    <3>4. job'[w].made \in Editions
      BY <3>2, <3>3 DEF Card, Editions, Changes
    <3>5. job'[w] \in WriteJob
      BY <1>1, <3>3, <3>4 DEF WriteJob
    <3> QED BY <1>1, <3>3, <3>5 DEF WritePlaces
  <2>4. CASE Settle(w)
    BY <1>1, <2>4 DEF Settle, SettleSwitch, SettleEdit, TriggerReload, WritePlaces
  <2> QED BY <2>1, <2>2, <2>3, <2>4 DEF WriteAction, WriteStep
<1>5. \A v \in Writers : /\ pc'[v] \in WritePlaces
                         /\ pc'[v] # "out" => opMu' = v /\ job'[v] \in WriteJob
                         /\ pc'[v] \in {"prepare", "commit"} => job'[v].made = 0
  BY <1>2, <1>3, <1>4 DEF Shape, WritePlaces
<1>6. ASSUME NEW l \in Loading PROVE copy'[l] \in Overview \cup {Nothing}
  <2>1. copy[l] \in Overview \cup {Nothing} /\ (pc[l] # "clone" => copy'[l] = copy[l])
    BY <1>2 DEF Shape
  <2>2. CASE Settle(w) /\ job[w].op = "switch" /\ copy'[l] # copy[l]
    <3>0. PICK mix \in Mixes(overviewCache.enabled, {job[w].target}) :
            /\ overviewCache # Nothing
            /\ copy' = [k \in DOMAIN copy |->
                         IF k \in Loading /\ pc[k] = "clone" /\ copy[k] = overviewCache
                         THEN [copy[k] EXCEPT !.enabled = mix] ELSE copy[k]]
      BY <2>2 DEF Settle, SettleSwitch
    <3>1. /\ overviewCache \in Overview /\ copy[l] = overviewCache /\ job[w] \in WriteJob
          /\ copy'[l] = [copy[l] EXCEPT !.enabled = mix]
      <4>1. l \in DOMAIN copy
        BY <1>1
      <4>2. copy[l] = overviewCache /\ copy'[l] = [copy[l] EXCEPT !.enabled = mix]
        BY <2>2, <3>0, <4>1
      <4>3. overviewCache \in Overview
        BY <3>0 DEF TypeOK
      <4>4. job[w] \in WriteJob
        BY <1>1, <2>2 DEF Settle
      <4> QED BY <4>2, <4>3, <4>4
    <3>2. mix \in SUBSET Profiles
      BY <3>1 DEF Mixes, Overview, WriteJob
    <3> QED BY <3>1, <3>2 DEF Overview
  <2>3. CASE ~(Settle(w) /\ job[w].op = "switch")
    BY <1>1, <2>1, <2>3 DEF WriteAction, WriteStep, Lock, Reject, Prepare, Commit, Refuse,
       LostReturns,
                            Fail, Settle, SettleEdit, Unlock
  <2> QED BY <2>1, <2>2, <2>3
<1> QED BY <1>2, <1>5, <1>6 DEF Shape, LoadPlaces, Holding

LEMMA ModuleShape ==
  ASSUME TypeOK, Shape, ModuleAction
  PROVE  Shape'
<1>1. /\ \A l \in Loading : pc'[l] = pc[l] \/ (l = Reloader /\ pc[l] = "out" /\ pc'[l] = "start")
      /\ copy' = copy /\ UNCHANGED <<opMu, job>>
      /\ \A w \in Writers : pc'[w] = pc[w]
  BY ModuleFrame DEF LoadsStay, ModuleAction, ModuleResets, NotifyModemReset, Tick, loadVars
<1> QED BY <1>1, Parties DEF Shape, LoadPlaces, Holding

-----------------------------------------------------------------------------
(* The budget, and with it the types.                                      *)

LEMMA OneIsPaid ==
  ASSUME NEW c \in Nat, NEW g \in Nat, NEW h \in Nat, NEW d \in 0 .. 1,
         h <= g + 1, g + 1 + d <= c + c
  PROVE  h + 0 + d <= c + c
  OBVIOUS

LEMMA PaysOne ==
  ASSUME overviewGeneration \in Nat, changes \in Nat, suppressUntil \in Nat, card.edition \in Nat,
         card' = card, resetDue' = resetDue, changes' = changes,
         overviewGeneration' \in {overviewGeneration, overviewGeneration + 1},
         Owes(1, 0, 0),
         \/ suppressUntil' = suppressUntil
         \/ suppressUntil' = suppressUntil + 1 /\ Owes(1, 0, 1)
  PROVE  Owes(0, 0, 0)'
<1>1. PICK due \in 0 .. 1 : due = IF resetDue THEN 1 ELSE 0
  OBVIOUS
<1>2. overviewGeneration + 1 + due <= changes + changes /\ card.edition <= changes
  BY <1>1 DEF Owes
<1>3. overviewGeneration' + 0 + due <= changes + changes
  <2>1. overviewGeneration' \in Nat /\ overviewGeneration' <= overviewGeneration + 1
    OBVIOUS
  <2> QED BY <1>2, <2>1, OneIsPaid
<1>4. overviewGeneration' + 0 + due <= changes' + changes'
  BY <1>3
<1>5. suppressUntil' + 0 <= changes
  BY DEF Owes
<1>6. (IF resetDue' THEN 1 ELSE 0) = due
  BY <1>1
<1> QED BY <1>2, <1>4, <1>5, <1>6 DEF Owes

LEMMA WriteBudget ==
  ASSUME TypeOK, Shape, Budget, NEW w \in Writers, WriteAction(w)
  PROVE  Budget'
<1> USE Parties DEF Goto, Owes
<1>1. /\ DOMAIN pc = Callers /\ DOMAIN job = Writers /\ overviewGeneration \in Nat /\ changes \in Nat
      /\ card.edition \in Nat /\ suppressUntil \in Nat /\ resetDue \in BOOLEAN
      /\ (pc[w] # "out" => opMu = w /\ job[w] \in WriteJob)
  BY DEF TypeOK, Shape, Generations, Changes, Editions, Card
<1>2. CASE Lock(w)
  <2>1. /\ opMu = Nobody /\ changes' = changes + 1 /\ opMu' = w /\ pc'[w] = "prepare"
        /\ UNCHANGED <<overviewGeneration, resetDue, card, suppressUntil>>
    BY <1>1, <1>2 DEF Lock, Spend, cacheVars, windowVars
  <2>2. Owes(0, 0, 0)
    BY <2>1 DEF Budget
  <2>3. \A v \in Writers : opMu' = v => v = w
    BY <2>1
  <2> QED BY <1>1, <2>1, <2>2, <2>3 DEF Budget, OwesFor
<1>3. CASE Unlock(w)
  <2>1. /\ opMu' = Nobody
        /\ UNCHANGED <<overviewGeneration, resetDue, card, suppressUntil, changes>>
    BY <1>3 DEF Unlock, cacheVars, windowVars
  <2>2. Owes(0, 0, 0)
    BY DEF Budget
  <2> QED BY <2>1, <2>2 DEF Budget
<1>4. CASE ~Lock(w) /\ ~Unlock(w)
  <2>1. opMu = w /\ opMu' = w /\ changes' = changes
    BY <1>1, <1>4 DEF WriteAction, WriteStep, Reject, Prepare, Commit, Refuse, LostReturns, Fail,
       Settle,
                      SettleSwitch, SettleEdit, moduleVars
  <2>2. OwesFor(pc[w], job[w].op)
    BY <2>1 DEF Budget
  <2>3. SUFFICES OwesFor(pc[w], job[w].op)'
    BY <2>1 DEF Budget, OwesFor
  <2>4. CASE Reject(w) \/ Refuse(w) \/ LostReturns(w)
    BY <1>1, <2>2, <2>4 DEF OwesFor, Reject, Refuse, LostReturns, moduleVars, cacheVars,
       windowVars
  <2>5. CASE Prepare(w)
    BY <1>1, <2>2, <2>5 DEF OwesFor, Prepare, LongWindow, moduleVars, cacheVars
  <2>6. CASE Commit(w)
    <3>1. /\ pc[w] = "commit" /\ ~resetDue /\ card' = Effect(job[w])
          /\ \/ resetDue' = FALSE /\ pc'[w] \in {"settle", "failed"}
             \/ resetDue' = TRUE /\ pc'[w] = "lost"
          /\ UNCHANGED <<changes, overviewGeneration, suppressUntil>>
      BY <2>6, CommitIs
    <3>2. job'[w].op = job[w].op
      BY <2>6, CommitIs
    <3>3. card.edition + 1 <= MaxChanges
      BY <1>1, <2>2, <3>1 DEF OwesFor, TypeOK, Changes
    <3>4. card'.edition \in {card.edition, card.edition + 1}
      BY <1>1, <3>1, <3>3, EffectIs
    <3> QED BY <1>1, <2>2, <3>1, <3>2, <3>4 DEF OwesFor
  <2>7. CASE Fail(w)
    BY <1>1, <2>2, <2>7 DEF OwesFor, Fail, Invalidate, moduleVars, cacheVars, windowVars
  <2>8. CASE Settle(w)
    <3>1. /\ pc[w] = "settle" /\ pc'[w] = "unlock" /\ UNCHANGED <<card, resetDue, changes>>
          /\ overviewGeneration' \in {overviewGeneration, overviewGeneration + 1}
      BY <1>1, <2>8, Parties DEF Settle, SettleSwitch, SettleEdit, Invalidate, TriggerReload,
         moduleVars
    <3>2. \/ suppressUntil' = suppressUntil
          \/ job[w].op # "switch" /\ suppressUntil' = suppressUntil + 1
      BY <2>8 DEF Settle, SettleSwitch, SettleEdit, LongWindow, ShortWindow, windowVars
    <3>3. Owes(1, 0, 0) /\ (job[w].op # "switch" => Owes(1, 0, 1))
      BY <2>2, <3>1 DEF OwesFor
    <3>4. Owes(0, 0, 0)'
      BY <1>1, <3>1, <3>2, <3>3, PaysOne
    <3> QED BY <3>1, <3>4 DEF OwesFor
  <2> QED BY <1>4, <2>4, <2>5, <2>6, <2>7, <2>8 DEF WriteAction, WriteStep
<1> QED BY <1>2, <1>3, <1>4

LEMMA LoadBudget ==
  ASSUME TypeOK, Budget, NEW l \in Loading, LoadAction(l)
  PROVE  Budget'
  BY LoadFrame DEF Budget, OwesFor, Owes

LEMMA ModuleBudget ==
  ASSUME TypeOK, Shape, Budget, ModuleAction
  PROVE  Budget'
<1>1. /\ overviewGeneration \in Nat /\ changes \in Nat /\ card.edition \in Nat /\ resetDue \in BOOLEAN
      /\ suppressUntil \in Nat
  BY DEF TypeOK, Generations, Changes, Editions, Card
<1>2. UNCHANGED <<opMu, job, suppressUntil>> /\ \A w \in Writers : pc'[w] = pc[w]
  BY ModuleFrame
<1>3. \/ /\ UNCHANGED <<overviewGeneration, changes, card, resetDue>>
      \/ /\ ~resetDue /\ resetDue' = TRUE /\ changes' = changes + 1
         /\ overviewGeneration' = overviewGeneration /\ card'.edition \in {card.edition, card.edition + 1}
      \/ /\ resetDue /\ resetDue' = FALSE /\ UNCHANGED <<changes, card>>
         /\ overviewGeneration' = overviewGeneration + 1
  BY DEF ModuleAction, ModuleResets, NotifyModemReset, Tick, Spend, Invalidate, moduleVars,
     cacheVars
<1>4. ASSUME NEW i \in 0 .. 2, NEW e \in 0 .. 1, NEW n \in 0 .. 1, Owes(i, e, n)
      PROVE  Owes(i, e, n)'
  BY <1>1, <1>2, <1>3, <1>4 DEF Owes
<1>5. ASSUME NEW place, NEW op, OwesFor(place, op) PROVE OwesFor(place, op)'
  BY <1>4, <1>5 DEF OwesFor
<1> QED BY <1>2, <1>4, <1>5 DEF Budget, OwesFor

(* A step of a load is a function update; so pc and copy stay functions. *)
LEMMA LoadTypes ==
  ASSUME TypeOK, Shape, KeysAreOld, Shape', NEW l \in Loading, LoadAction(l)
  PROVE  TypeOK'
<1> USE Parties DEF moduleVars, cacheVars, windowVars, loadVars, Goto
<1>1. UNCHANGED <<card, resetDue, rebootOwed, opMu, job, acked, changes,
                  overviewGeneration, unheard, suppressUntil, now>>
  BY LoadFrame
<1>0. refreshing' \subseteq Loaders
  <2>1. refreshing' \subseteq refreshing
    BY DEF LoadAction, LoadStep, Call, Look, Clone, ReadGeneration, Join, LookAgain, LockIsFree,
       Scan, Product, Publish, LoadFails, Return, ReadWindow, WindowIsOver
  <2> QED BY <2>1 DEF TypeOK
<1>2. /\ overviewCache' \in Overview \cup {Nothing} /\ chipInfoCache' \in Chip \cup {Nothing}
  <2>1. CASE Publish(l)
    <3>1. copy[l] \in Overview /\ copy[l].chip \in Chip
      BY <2>1 DEF Publish, Shape, Holding
    <3> QED BY <2>1, <3>1 DEF Publish, TypeOK
  <2>2. CASE LoadFails(l)
    BY <2>2 DEF LoadFails, TypeOK
  <2>3. CASE Return(l)
    BY <2>3 DEF Return, TypeOK
  <2>4. CASE ~Publish(l) /\ ~LoadFails(l) /\ ~Return(l)
    BY <2>4 DEF LoadAction, LoadStep, Call, Look, Clone, ReadGeneration, Join, LookAgain,
       LockIsFree, Scan, Product, ReadWindow, WindowIsOver, TypeOK
  <2> QED BY <2>1, <2>2, <2>3, <2>4
<1>3. flight' \in [Generations -> Loading \cup {Nobody}]
  BY DEF LoadAction, LoadStep, Call, Look, Clone, ReadGeneration, Join, LookAgain, LockIsFree,
     Scan,
         Product, Publish, LoadFails, Return, ReadWindow, WindowIsOver, Land, TypeOK
<1>4. key' \in [Loading -> Generations]
  <2>1. suppressUntil \in Generations /\ overviewGeneration \in Generations
    BY DEF TypeOK, Generations, Changes
  <2> QED
    BY <2>1 DEF LoadAction, LoadStep, Call, Look, Clone, ReadGeneration, Join, LookAgain,
       LockIsFree, Scan,
         Product, Publish, LoadFails, Return, ReadWindow, WindowIsOver, Land, TypeOK
<1>5. floor' \in [Loaders -> Editions]
  BY DEF LoadAction, LoadStep, Call, Look, Clone, ReadGeneration, Join, LookAgain, LockIsFree,
     Scan,
         Product, Publish, LoadFails, Return, ReadWindow, WindowIsOver, Land, TypeOK
<1>6. pc' \in [Callers -> LoadPlaces \cup WritePlaces \cup {"shared", "alone", "profiles", "store"}]
  <2>1. DOMAIN pc = Callers /\ \A c \in Callers :
          pc[c] \in LoadPlaces \cup WritePlaces \cup {"shared", "alone", "profiles", "store"}
    BY DEF TypeOK, LoadPlaces, WritePlaces
  <2>2. CASE LookAgain(l) \/ Publish(l) \/ LoadFails(l)
    <3>1. CASE pc' = [c \in Callers |-> IF c \in Party(l) THEN "answer" ELSE pc[c]]
      BY <2>1, <3>1 DEF LoadPlaces
    <3>2. CASE pc' = [pc EXCEPT ![l] = "lock"]
      BY <2>1, <3>2 DEF LoadPlaces
    <3> QED BY <2>2, <3>1, <3>2 DEF LookAgain, Publish, LoadFails, Land
  <2>3. CASE Call(l) \/ Look(l) \/ Clone(l) \/ ReadGeneration(l) \/ Join(l) \/ LockIsFree(l)
             \/ Scan(l) \/ Product(l) \/ Return(l) \/ (l = Reloader /\ (ReadWindow \/ WindowIsOver))
    <3>1. \E place \in LoadPlaces : pc' = [pc EXCEPT ![l] = place]
      BY <2>3 DEF Call, Look, Clone, ReadGeneration, Join, LockIsFree, Scan,
                        Product, Return, ReadWindow, WindowIsOver, LoadPlaces
    <3> QED BY <2>1, <3>1
  <2> QED BY <2>2, <2>3 DEF LoadAction, LoadStep
<1>7. copy' \in [Loading \cup ChipReaders -> Overview \cup Chip \cup {Nothing}]
  <2>1. copy \in [Loading \cup ChipReaders -> Overview \cup Chip \cup {Nothing}]
    BY DEF TypeOK
  <2>2. \A c \in Loading : copy'[c] \in Overview \cup {Nothing}
    BY DEF Shape
  <2>3. /\ copy' = [c \in Loading \cup ChipReaders |-> copy'[c]]
        /\ \A c \in ChipReaders \ Loading : copy'[c] = copy[c]
    BY <2>1 DEF LoadAction, LoadStep, Call, Look, Clone, ReadGeneration, Join, LookAgain,
       LockIsFree, Scan,
         Product, Publish, LoadFails, Return, ReadWindow, WindowIsOver, Land, Party
  <2> QED BY <2>1, <2>2, <2>3
<1> QED BY <1>0, <1>1, <1>2, <1>3, <1>4, <1>5, <1>6, <1>7 DEF TypeOK, LoadPlaces, WritePlaces

LEMMA WithinBounds ==
  ASSUME NEW g \in Nat, NEW e \in Nat, NEW s \in Nat, NEW c \in Nat, NEW due \in 0 .. 1, NEW m \in Nat,
         c <= m, g + 0 + due <= c + c, e + 0 <= c, s + 0 <= c
  PROVE  g <= 2 * m /\ e <= m /\ s <= m
  OBVIOUS

LEMMA BoundedNext ==
  ASSUME Budget', changes' \in Changes, overviewGeneration' \in Nat, card'.edition \in Nat,
         suppressUntil' \in Nat
  PROVE  /\ overviewGeneration' \in Generations /\ card'.edition \in Editions
         /\ suppressUntil' \in Changes
<1>1. PICK due \in 0 .. 1 : due = IF resetDue' THEN 1 ELSE 0
  OBVIOUS
<1>2. /\ overviewGeneration' + 0 + due <= changes' + changes'
      /\ card'.edition + 0 <= changes' /\ suppressUntil' + 0 <= changes'
  BY <1>1 DEF Budget, Owes
<1>3. changes' \in Nat /\ changes' <= MaxChanges /\ MaxChanges \in Nat
  BY Parties DEF Changes
<1>4. overviewGeneration' <= 2 * MaxChanges /\ card'.edition <= MaxChanges /\ suppressUntil' <= MaxChanges
  BY <1>2, <1>3, WithinBounds
<1> QED BY <1>4 DEF Generations, Editions, Changes

LEMMA WriteTypes ==
  ASSUME TypeOK, Shape, Budget, Shape', Budget', NEW w \in Writers, WriteAction(w)
  PROVE  TypeOK'
<1> USE Parties DEF moduleVars, cacheVars, windowVars, loadVars, Goto
<1>1. /\ pc[w] # "out" => job[w] \in WriteJob /\ opMu = w
      /\ overviewGeneration \in Nat /\ card.edition \in Nat /\ suppressUntil \in Nat /\ changes \in Nat
      /\ acked \in Nat /\ card.edition \in Editions
  BY DEF TypeOK, Shape, Generations, Changes, Editions, Card
<1>2. card' \in Card
  <2>1. CASE Commit(w)
    <3>1. card.edition + 1 <= MaxChanges
      BY <1>1, <2>1 DEF Commit, Budget, OwesFor, Owes, TypeOK, Changes
    <3> QED BY <1>1, <2>1, <3>1, EffectIs DEF Commit
  <2>2. CASE ~Commit(w)
    BY <2>2 DEF WriteAction, WriteStep, Lock, Reject, Prepare, Refuse, LostReturns, Fail, Settle,
                SettleSwitch, SettleEdit, Unlock, TypeOK
  <2> QED BY <2>1, <2>2
<1>3. /\ resetDue' \in BOOLEAN /\ rebootOwed' \in BOOLEAN /\ opMu' \in Writers \cup {Nobody}
      /\ unheard' \in BOOLEAN /\ refreshing' \subseteq Loaders
  <2>1. CASE Commit(w)
    BY <2>1, CommitIs DEF TypeOK
  <2>2. CASE ~Commit(w)
    BY <2>2 DEF WriteAction, WriteStep, Lock, Reject, Prepare, Refuse, LostReturns, Fail, Settle,
         SettleSwitch, SettleEdit, Unlock, Invalidate, TypeOK
  <2> QED BY <2>1, <2>2
<1>4. changes' \in Changes
  BY <1>1 DEF WriteAction, WriteStep, Lock, Reject, Prepare, Commit, Refuse, LostReturns, Fail,
     Settle,
              SettleSwitch, SettleEdit, Unlock, TypeOK, Spend, Changes
<1>5. overviewGeneration' \in Nat /\ suppressUntil' \in Nat /\ suppressUntil' >= suppressUntil
  <2>1. CASE Settle(w)
    BY <1>1, <2>1 DEF Settle, SettleSwitch, SettleEdit, Invalidate, LongWindow, ShortWindow
  <2>2. CASE Prepare(w) \/ Fail(w)
    BY <1>1, <2>2 DEF Prepare, Fail, Invalidate, LongWindow
  <2>3. CASE ~Settle(w) /\ ~Prepare(w) /\ ~Fail(w)
    BY <1>1, <2>3 DEF WriteAction, WriteStep, Lock, Reject, Commit, Refuse, LostReturns, Unlock
  <2> QED BY <2>1, <2>2, <2>3
<1>6. /\ overviewGeneration' \in Generations /\ card'.edition \in Editions
      /\ suppressUntil' \in Changes /\ now' \in 0 .. suppressUntil'
  <2>1. card'.edition \in Nat
    BY <1>2 DEF Card, Editions, Changes
  <2>2. overviewGeneration' \in Generations /\ suppressUntil' \in Changes
    BY <1>4, <1>5, <2>1, BoundedNext
  <2> QED BY <1>2, <1>5, <2>2, WriteFrame DEF Card, TypeOK, Changes
<1>7. overviewCache' \in Overview \cup {Nothing} /\ chipInfoCache' \in Chip \cup {Nothing}
  <2>1. CASE Settle(w) /\ job[w].op = "switch"
    <3>1. job[w].target \in Profiles
      BY <1>1, <2>1 DEF Settle, WriteJob
    <3>2. \A o \in Overview : [o EXCEPT !.enabled = {job[w].target}] \in Overview
      BY <3>1 DEF Overview
    <3> QED BY <2>1, <3>2 DEF Settle, SettleSwitch, TypeOK
  <2>2. CASE ~(Settle(w) /\ job[w].op = "switch")
    BY <2>2 DEF WriteAction, WriteStep, Lock, Reject, Prepare, Commit, Refuse, LostReturns, Fail,
       Settle,
                SettleEdit, Unlock, Invalidate, TypeOK
  <2> QED BY <2>1, <2>2
<1>8. /\ flight' \in [Generations -> Loading \cup {Nobody}] /\ key' \in [Loading -> Generations]
      /\ floor' \in [Loaders -> Editions]
  BY WriteFrame DEF LoadsStay, TypeOK
<1>9. pc' \in [Callers -> LoadPlaces \cup WritePlaces \cup {"shared", "alone", "profiles", "store"}]
  <2>1. pc \in [Callers -> LoadPlaces \cup WritePlaces \cup {"shared", "alone", "profiles", "store"}]
    BY DEF TypeOK, LoadPlaces, WritePlaces
  <2>2. CASE \E place \in WritePlaces : pc' = [pc EXCEPT ![w] = place]
    BY <2>1, <2>2
  <2>3. CASE pc' = TriggerReload([pc EXCEPT ![w] = "unlock"])
    BY <2>1, <2>3 DEF TriggerReload, LoadPlaces, WritePlaces
  <2>4. \/ \E place \in WritePlaces : pc' = [pc EXCEPT ![w] = place]
        \/ pc' = TriggerReload([pc EXCEPT ![w] = "unlock"])
    BY DEF WriteAction, WriteStep, Lock, Reject, Prepare, Commit, Refuse, LostReturns, Fail,
       Settle,
           SettleSwitch, SettleEdit, Unlock, WritePlaces
  <2> QED BY <2>2, <2>3, <2>4
<1>10. copy' \in [Loading \cup ChipReaders -> Overview \cup Chip \cup {Nothing}]
  <2>1. copy \in [Loading \cup ChipReaders -> Overview \cup Chip \cup {Nothing}]
    BY DEF TypeOK
  <2>2. \A c \in Loading : copy'[c] \in Overview \cup {Nothing}
    BY DEF Shape
  <2>3. /\ copy' = [c \in Loading \cup ChipReaders |-> copy'[c]]
        /\ \A c \in ChipReaders \ Loading : copy'[c] = copy[c]
    <3>1. CASE copy' = copy
      BY <2>1, <3>1
    <3>2. CASE Settle(w) /\ job[w].op = "switch" /\ copy' # copy
      BY <2>1, <3>2 DEF Settle, SettleSwitch
    <3> QED BY <3>1, <3>2
            DEF WriteAction, WriteStep, Lock, Reject, Prepare, Commit, Refuse, LostReturns, Fail, Settle,
                SettleEdit, Unlock
  <2> QED BY <2>1, <2>2, <2>3
<1>11. acked' \in Editions /\ job' \in [Writers -> WriteJob \cup {Nothing}]
  <2>1. job \in [Writers -> WriteJob \cup {Nothing}] /\ acked \in Editions
    BY DEF TypeOK, WriteJob
  <2>2. CASE Unlock(w)
    BY <1>1, <2>1, <2>2 DEF Unlock, Later, WriteJob
  <2>3. CASE Lock(w)
    <3>1. PICK op \in Operations, p \in Profiles :
            job' = [job EXCEPT ![w] = [op |-> op, target |-> p, made |-> 0]]
      BY <2>3 DEF Lock
    <3>2. [op |-> op, target |-> p, made |-> 0] \in WriteJob
      BY DEF WriteJob, Editions, Changes
    <3> QED BY <2>1, <2>3, <3>1, <3>2 DEF Lock
  <2>4. CASE Commit(w)
    <3>1. /\ job' = [job EXCEPT ![w] = job'[w]] /\ job'[w] = [job[w] EXCEPT !.made = job'[w].made]
          /\ job'[w].made \in {0, card'.edition} /\ job[w] \in WriteJob /\ acked' = acked
      BY <2>4, CommitIs
    <3>2. job'[w].made \in Editions
      BY <1>6, <3>1 DEF Editions, Changes
    <3>3. job'[w] \in WriteJob
      BY <3>1, <3>2 DEF WriteJob
    <3> QED BY <2>1, <3>1, <3>3
  <2>5. CASE ~Unlock(w) /\ ~Lock(w) /\ ~Commit(w)
    BY <2>1, <2>5 DEF WriteAction, WriteStep, Reject, Prepare, Refuse, LostReturns, Fail, Settle,
                      SettleSwitch, SettleEdit
  <2> QED BY <2>2, <2>3, <2>4, <2>5
<1> QED BY <1>2, <1>3, <1>4, <1>6, <1>7, <1>8, <1>9, <1>10, <1>11
        DEF TypeOK, LoadPlaces, WritePlaces, WriteJob

LEMMA ModuleTypes ==
  ASSUME TypeOK, Shape, Budget', ModuleAction
  PROVE  TypeOK'
<1> USE Parties DEF moduleVars, cacheVars, windowVars, loadVars
<1>1. /\ overviewGeneration \in Nat /\ changes \in Nat /\ card.edition \in Editions
      /\ suppressUntil \in Nat /\ now \in Nat
  BY DEF TypeOK, Generations, Changes, Editions, Card
<1>2. card' \in Card /\ resetDue' \in BOOLEAN /\ rebootOwed' \in BOOLEAN /\ changes' \in Changes
      /\ acked' \in Editions /\ unheard' \in BOOLEAN /\ refreshing' \subseteq Loaders
  <2>1. CASE ModuleResets
    BY <1>1, <2>1 DEF ModuleResets, Spend, TypeOK, Changes
  <2>2. CASE NotifyModemReset \/ Tick
    BY <1>1, <2>2 DEF NotifyModemReset, Tick, Invalidate, TypeOK
  <2> QED BY <2>1, <2>2 DEF ModuleAction
<1>3. overviewGeneration' \in Nat /\ suppressUntil' = suppressUntil
  BY <1>1 DEF ModuleAction, ModuleResets, NotifyModemReset, Tick, Invalidate
<1>4. overviewGeneration' \in Generations /\ suppressUntil' \in Changes /\ now' \in 0 .. suppressUntil'
  <2>1. card'.edition \in Nat /\ suppressUntil' \in Nat
    BY <1>1, <1>2, <1>3 DEF Card, Editions, Changes
  <2>2. now' \in 0 .. suppressUntil'
    BY <1>1, <1>3 DEF ModuleAction, ModuleResets, NotifyModemReset, Tick, Suppressed, TypeOK
  <2> QED BY <1>2, <1>3, <2>1, <2>2, BoundedNext
<1>5. /\ overviewCache' \in Overview \cup {Nothing} /\ chipInfoCache' \in Chip \cup {Nothing}
      /\ UNCHANGED <<opMu, job, flight, key, copy, floor>>
  BY DEF ModuleAction, ModuleResets, NotifyModemReset, Tick, Invalidate, TypeOK
<1>6. pc' \in [Callers -> LoadPlaces \cup WritePlaces \cup {"shared", "alone", "profiles", "store"}]
  <2>1. pc \in [Callers -> LoadPlaces \cup WritePlaces \cup {"shared", "alone", "profiles", "store"}]
    BY DEF TypeOK, LoadPlaces, WritePlaces
  <2>2. pc' = pc \/ pc' = TriggerReload(pc)
    BY DEF ModuleAction, ModuleResets, NotifyModemReset, Tick, Cleared
  <2> QED BY <2>1, <2>2 DEF TriggerReload, LoadPlaces
<1> QED BY <1>2, <1>4, <1>5, <1>6 DEF TypeOK, LoadPlaces, WritePlaces


-----------------------------------------------------------------------------
(* Keys, and what is left of a load after an invalidation.                 *)

LEMMA LoadKeys ==
  ASSUME TypeOK, Shape, KeysAreOld, NEW l \in Loading, LoadAction(l)
  PROVE  \A k \in Loading : pc'[k] \in Keyed =>
           \/ key'[k] = key[k] /\ pc[k] \in Keyed
           \/ k = l /\ ReadGeneration(l) /\ key'[k] = overviewGeneration
<1> USE Parties DEF moduleVars, cacheVars, windowVars, loadVars, Goto
<1>1. DOMAIN pc = Callers /\ DOMAIN key = Loading 
  BY DEF TypeOK
<1>2. SUFFICES ASSUME NEW k \in Loading, pc'[k] \in Keyed
               PROVE  \/ key'[k] = key[k] /\ pc[k] \in Keyed
                      \/ k = l /\ ReadGeneration(l) /\ key'[k] = overviewGeneration
  OBVIOUS
<1>3. CASE LookAgain(l) \/ Publish(l) \/ LoadFails(l)
  <2>1. \/ \E r : Land(l, r)
        \/ pc[l] = "again" /\ pc'[l] = "lock" /\ (k # l => pc'[k] = pc[k])
    BY <1>1, <1>3 DEF LookAgain, Publish, LoadFails
  <2>2. key' = key
    BY <1>3 DEF LookAgain, Publish, LoadFails
  <2> QED BY <1>2, <2>1, <2>2, Landed DEF Keyed
<1>4. CASE Call(l) \/ Look(l) \/ Clone(l) \/ Join(l) \/ LockIsFree(l) \/ Scan(l) \/ Product(l) \/ Return(l)
           \/ (l = Reloader /\ (ReadWindow \/ WindowIsOver))
  BY <1>1, <1>2, <1>4 DEF Call, Look, Clone, Join, LockIsFree, Scan, Product, Return, ReadWindow,
                          WindowIsOver, Keyed
<1>5. CASE ReadGeneration(l)
  BY <1>1, <1>2, <1>5 DEF ReadGeneration
<1> QED BY <1>3, <1>4, <1>5 DEF LoadAction, LoadStep

(* A load that began before an invalidation publishes nothing after it. *)
LEMMA Invalidated ==
  ASSUME TypeOK, KeysAreOld, Invalidate, LoadsStay
  PROVE  CacheIsSound' /\ LoadsAreSound' /\ NothingToPatch'
<1>1. \A l \in Loading : pc'[l] \in Keyed => key'[l] # overviewGeneration'
  BY Parties DEF KeysAreOld, Invalidate, LoadsStay, TypeOK, Generations, Keyed
<1> QED BY <1>1 DEF CacheIsSound, LoadsAreSound, NothingToPatch, Invalidate, Publishes, Keyed, Holding

LEMMA KeysStayOld ==
  ASSUME TypeOK, KeysAreOld, LoadsStay, overviewGeneration' \in {overviewGeneration, overviewGeneration + 1}
  PROVE  KeysAreOld'
  BY DEF KeysAreOld, LoadsStay, TypeOK, Generations, Keyed

LEMMA NextKeys ==
  ASSUME TypeOK, Shape, KeysAreOld, Next
  PROVE  KeysAreOld'
<1>1. ASSUME NEW w \in Writers, WriteAction(w)
      PROVE  overviewGeneration' \in {overviewGeneration, overviewGeneration + 1}
  BY <1>1 DEF WriteAction, WriteStep, Lock, Reject, Prepare, Commit, Refuse, LostReturns, Fail,
     Settle,
              SettleSwitch, SettleEdit, Unlock, Invalidate, cacheVars
<1>2. ASSUME ModuleAction
      PROVE  overviewGeneration' \in {overviewGeneration, overviewGeneration + 1}
  BY <1>2 DEF ModuleAction, ModuleResets, NotifyModemReset, Tick, Invalidate, cacheVars
<1>3. ASSUME NEW l \in Loading, LoadAction(l) PROVE KeysAreOld'
  <2>1. overviewGeneration' = overviewGeneration /\ overviewGeneration \in Nat
    BY <1>3, LoadFrame DEF TypeOK, Generations
  <2> QED BY <1>3, <2>1, LoadKeys DEF KeysAreOld
<1> QED BY <1>1, <1>2, <1>3, KeysStayOld, NextIs, WriteFrame, ModuleFrame

-----------------------------------------------------------------------------
(* What is cached and in hand stays sound.                                 *)

LEMMA Holders ==
  ASSUME LoadsStay, NEW l \in Loading, pc'[l] \in {"scan"} \cup Holding
  PROVE  /\ pc[l] = pc'[l] /\ copy'[l] = copy[l] /\ key'[l] = key[l]
  BY DEF LoadsStay, Holding

(* A step need only keep what is sound sound. *)
LEMMA KeptLoads ==
  ASSUME TypeOK, Shape, LoadsAreSound, LoadsStay, overviewGeneration' = overviewGeneration,
         \A o \in Overview : Current(o) /\ Recent(o) => Current(o)' /\ Recent(o)',
         ~resetDue' => ~resetDue /\ card'.eid = card.eid
  PROVE  LoadsAreSound'
<1>1. SUFFICES ASSUME NEW l \in Loading, Publishes(l)'
               PROVE  /\ Current(copy[l])' /\ Recent(copy[l])'
                      /\ (pc[l] = "publish" /\ ~resetDue => copy[l].chip.product = card.eid)'
  BY DEF LoadsAreSound
<1>2. pc[l] = pc'[l] /\ copy'[l] = copy[l] /\ key'[l] = key[l]
  BY <1>1, Holders DEF Publishes
<1>3. Publishes(l) /\ copy[l] \in Overview
  BY <1>1, <1>2 DEF Publishes, Shape
<1>4. Current(copy[l])' /\ Recent(copy[l])'
  BY <1>2, <1>3 DEF LoadsAreSound, Current, Recent
<1> QED BY <1>2, <1>3, <1>4 DEF LoadsAreSound

LEMMA KeptStep ==
  ASSUME TypeOK, Shape, CacheIsSound, LoadsAreSound, LoadsStay,
         UNCHANGED <<overviewCache, chipInfoCache, overviewGeneration>>,
         \A o \in Overview : Current(o) /\ Recent(o) => Current(o)' /\ Recent(o)',
         ~resetDue' => ~resetDue /\ card'.eid = card.eid
  PROVE  CacheIsSound' /\ LoadsAreSound'
<1>1. overviewCache # Nothing => overviewCache \in Overview
  BY DEF TypeOK
<1>2. overviewCache # Nothing => Current(overviewCache)' /\ Recent(overviewCache)'
  BY <1>1 DEF CacheIsSound, Current, Recent
<1> QED BY <1>2, KeptLoads DEF CacheIsSound

(* A step that the card does not notice. *)
LEMMA QuietStep ==
  ASSUME TypeOK, Shape, CacheIsSound, LoadsAreSound, NothingToPatch, LoadsStay,
         UNCHANGED <<card, resetDue, rebootOwed, unheard, acked, overviewCache, chipInfoCache,
                     overviewGeneration>>,
         Dirty => Dirty',
         \A w \in Writers : Past(w)' => \/ Past(w) /\ job'[w].made = job[w].made
                                        \/ job'[w].made = 0,
         \A w \in Writers : pc'[w] = "settle" /\ job'[w].op = "switch" => pc[w] = "settle" /\ job[w].op = "switch"
  PROVE  CacheIsSound' /\ LoadsAreSound' /\ NothingToPatch'
<1>1. ASSUME NEW o \in Overview, Current(o), Recent(o)
      PROVE  Current(o)' /\ Recent(o)'
  <2>1. Current(o)'
    BY <1>1 DEF Current
  <2>2. o.edition >= 0
    BY Parties DEF Overview, Editions, Changes, Unread
  <2>3. Recent(o)'
    BY <1>1, <2>2 DEF Recent
  <2> QED BY <2>1, <2>3
<1>2. NothingToPatch'
  BY Holders DEF NothingToPatch
<1> QED BY <1>1, <1>2, KeptStep

Sound == CacheIsSound /\ LoadsAreSound /\ NothingToPatch

(* The others are out while w works, so what w owes is all that is owed. *)
LEMMA Alone ==
  ASSUME TypeOK, Shape, NEW w \in Writers, WriteAction(w)
  PROVE  /\ \A v \in Writers : v # w => pc[v] = "out" /\ pc'[v] = "out" /\ ~Past(v) /\ ~Past(v)'
         /\ pc[w] # "out" => job[w] \in WriteJob
         /\ Dirty <=> resetDue \/ (pc[w] = "settle" /\ job[w].op # "switch")
         /\ Dirty' <=> resetDue' \/ (pc'[w] = "settle" /\ job'[w].op # "switch")
<1>1. \A v \in Writers : v # w => pc[v] = "out" /\ pc'[v] = "out"
  BY WriteFrame, Parties
     DEF Shape, WriteAction, WriteStep, Lock, Reject, Prepare, Commit, Refuse, LostReturns, Fail, Settle, Unlock
<1> QED BY <1>1 DEF Past, Dirty, Shape

LEMMA QuietWrites ==
  ASSUME TypeOK, Shape, Sound, NEW w \in Writers, WriteAction(w),
         Lock(w) \/ Reject(w) \/ Prepare(w) \/ Refuse(w) \/ LostReturns(w) \/ (Fail(w) /\ job[w].op # "download")
  PROVE  Sound'
<1> USE Parties DEF moduleVars, cacheVars, windowVars, loadVars, Goto
<1>1. /\ DOMAIN pc = Callers /\ DOMAIN job = Writers /\ LoadsStay
      /\ pc[w] \in {"prepare", "commit"} => job[w].made = 0
  BY WriteFrame DEF TypeOK, Shape
<1>2. UNCHANGED <<card, resetDue, rebootOwed, unheard, acked, overviewCache, chipInfoCache,
                  overviewGeneration>>
  BY DEF Lock, Reject, Prepare, Refuse, LostReturns, Fail
<1>3. /\ pc[w] # "settle" /\ pc'[w] # "settle"
      /\ Past(w)' => \/ Past(w) /\ job'[w].made = job[w].made
                     \/ job'[w].made = 0
  BY <1>1, <1>2 DEF Lock, Reject, Prepare, Refuse, LostReturns, Fail, Past
<1> QED BY <1>1, <1>2, <1>3, Alone, QuietStep DEF Sound

LEMMA UnlockSound ==
  ASSUME TypeOK, Shape, Sound, NEW w \in Writers, Unlock(w)
  PROVE  Sound'
<1> USE Parties DEF moduleVars, cacheVars, windowVars, loadVars, Goto
<1>1. /\ DOMAIN pc = Callers /\ pc[w] = "unlock" /\ pc'[w] = "out" /\ acked' = Later(acked, job[w].made)
      /\ UNCHANGED <<card, resetDue, rebootOwed, unheard, overviewCache, chipInfoCache,
                     overviewGeneration>>
      /\ job[w].made \in Nat /\ acked \in Nat
  BY DEF Unlock, TypeOK, Shape, WriteJob, Editions, Changes
<1>2. LoadsStay /\ WriteAction(w)
  BY WriteFrame DEF WriteAction, WriteStep
<1>3. \A v \in Writers : ~Past(v)' /\ pc'[v] = "out"
  BY <1>1, <1>2, Alone DEF Past
<1>4. Dirty => Dirty'
  BY <1>1, <1>2, Alone
<1>5. ASSUME NEW o \in Overview, Current(o), Recent(o)
      PROVE  Current(o)' /\ Recent(o)'
  <2>1. Current(o)'
    BY <1>1, <1>4, <1>5 DEF Current
  <2>2. o.edition >= acked /\ o.edition >= job[w].made
    BY <1>1, <1>5 DEF Recent, Past
  <2>3. Recent(o)'
    BY <1>1, <1>3, <2>2 DEF Recent, Later
  <2> QED BY <2>1, <2>3
<1>6. NothingToPatch'
  BY <1>3 DEF NothingToPatch
<1> QED BY <1>1, <1>2, <1>5, <1>6, KeptStep DEF Sound

LEMMA CommitSound ==
  ASSUME TypeOK, Shape, Budget, Sound, NEW w \in Writers, Commit(w)
  PROVE  Sound'
<1> USE Parties DEF cacheVars, windowVars, loadVars, Goto
<1>1. LoadsStay /\ WriteAction(w)
  BY WriteFrame DEF WriteAction, WriteStep
<1>2. /\ DOMAIN pc = Callers /\ DOMAIN job = Writers /\ pc[w] = "commit" /\ opMu = w /\ job[w] \in WriteJob
      /\ card.edition \in Nat /\ acked \in Nat
  BY DEF Commit, TypeOK, Shape, Card, Editions, Changes
<1>3. /\ card' = Effect(job[w]) /\ ~resetDue /\ job'[w].op = job[w].op
      /\ job'[w].made \in {0, card'.edition} /\ (job[w].op = "switch" => job'[w].made = 0)
      /\ pc'[w] = "failed" /\ job[w].op # "download" => job'[w].made = 0
      /\ rebootOwed' = (rebootOwed \/ (job[w].op = "switch" /\ pc'[w] # "failed"))
      /\ pc'[w] \in {"settle", "lost", "failed"} /\ resetDue' = (pc'[w] = "lost")
      /\ unheard' = (unheard \/ pc'[w] = "failed")
      /\ UNCHANGED <<acked, overviewCache, chipInfoCache, overviewGeneration>>
  BY CommitIs
<1>4. /\ card'.eid = card.eid
      /\ job[w].op = "switch" => card'.edition = card.edition
  <2>1. card.edition + 1 <= MaxChanges
    BY <1>2, <1>3 DEF Budget, OwesFor, Owes, TypeOK, Changes
  <2> QED BY <1>2, <1>3, <2>1, EffectIs
<1>5. ~Dirty
  BY <1>1, <1>2, <1>3, Alone
<1>6. ASSUME NEW o \in Overview, Current(o), Recent(o)
      PROVE  Current(o)' /\ Recent(o)'
  <2>1. Current(o)'
    BY <1>1, <1>3, <1>4, <1>5, <1>6, Alone DEF Current
  <2>2. o.edition >= 0
    BY DEF Overview, Editions, Changes, Unread
  <2>3. Recent(o)'
    BY <1>1, <1>3, <1>6, <2>2, Alone DEF Recent, Past
  <2> QED BY <2>1, <2>3
<1>7. NothingToPatch'
  BY <1>1, <1>3, Alone DEF NothingToPatch
<1> QED BY <1>1, <1>3, <1>4, <1>6, <1>7, KeptStep DEF Sound

LEMMA SettleSound ==
  ASSUME TypeOK, Shape, KeysAreOld, Sound, NEW w \in Writers, Settle(w) \/ (Fail(w) /\ job[w].op = "download")
  PROVE  Sound'
<1> USE Parties DEF moduleVars, cacheVars, windowVars, loadVars, Goto
<1>1. LoadsStay /\ WriteAction(w)
  BY WriteFrame DEF WriteAction, WriteStep
<1>2. CASE Invalidate
  BY <1>1, <1>2, Invalidated DEF Sound
<1>3. CASE Settle(w) /\ job[w].op = "switch"
  <2>1. /\ DOMAIN pc = Callers /\ pc[w] = "settle" /\ pc'[w] = "unlock"
        /\ UNCHANGED <<card, resetDue, rebootOwed, unheard, acked, job, chipInfoCache,
                       overviewGeneration>>
    BY <1>3 DEF Settle, SettleSwitch, TypeOK
  <2>2. /\ Dirty <=> resetDue
        /\ Dirty' <=> resetDue
        /\ \A v \in Writers : Past(v)' <=> Past(v)
    BY <1>1, <1>3, <2>1, Alone DEF Past
  <2>3. \A o \in Overview : Current(o) /\ Recent(o) => Current(o)' /\ Recent(o)'
    BY <2>1, <2>2 DEF Current, Recent
  <2>4. NothingToPatch'
    BY <1>1, <2>1, Alone DEF NothingToPatch
  <2>5. CASE overviewCache' = overviewCache
    BY <1>1, <2>1, <2>3, <2>4, <2>5, KeptStep DEF Sound
  <2>6. CASE overviewCache' = [overviewCache EXCEPT !.enabled = {job[w].target}] /\ overviewCache # Nothing
    <3>1. /\ overviewCache \in Overview /\ rebootOwed /\ Current(overviewCache) /\ Recent(overviewCache)
          /\ overviewCache.chip # Nothing
      BY <1>3, <2>1, <2>6 DEF Sound, NothingToPatch, CacheIsSound, TypeOK
    <3>2. overviewCache'.edition = overviewCache.edition /\ overviewCache'.chip = overviewCache.chip
      BY <2>6, <3>1 DEF Overview
    <3>3. CacheIsSound'
      BY <2>1, <2>2, <3>1, <3>2 DEF Sound, CacheIsSound, Current, Recent
    <3>4. LoadsAreSound'
      BY <1>1, <2>1, <2>3, KeptLoads DEF Sound
    <3> QED BY <2>4, <3>3, <3>4 DEF Sound
  <2> QED BY <1>3, <2>5, <2>6 DEF Settle, SettleSwitch
<1> QED BY <1>2, <1>3 DEF Settle, SettleEdit, Fail

LEMMA WriteSound ==
  ASSUME TypeOK, Shape, Budget, KeysAreOld, Sound, NEW w \in Writers, WriteAction(w)
  PROVE  Sound'
  BY QuietWrites, UnlockSound, CommitSound, SettleSound DEF WriteAction, WriteStep

LEMMA ModuleSound ==
  ASSUME TypeOK, Shape, KeysAreOld, Sound, ModuleAction
  PROVE  Sound'
<1> USE Parties DEF moduleVars, cacheVars, windowVars, loadVars
<1>1. LoadsStay /\ job' = job /\ \A w \in Writers : pc'[w] = pc[w]
  BY ModuleFrame
<1>2. CASE NotifyModemReset
  BY <1>1, <1>2, Invalidated DEF NotifyModemReset, Sound
<1>3. CASE Tick
  <2>1. UNCHANGED <<card, resetDue, rebootOwed, unheard, acked, overviewCache, chipInfoCache,
                    overviewGeneration>>
    BY <1>3 DEF Tick
  <2>2. \A w \in Writers : Past(w)' <=> Past(w)
    BY <1>1, <2>1 DEF Past
  <2>3. Dirty' <=> Dirty
    BY <1>1, <2>1 DEF Dirty
  <2> QED BY <1>1, <2>1, <2>2, <2>3, QuietStep DEF Sound
<1>4. CASE ModuleResets
  <2>1. /\ resetDue' = TRUE
        /\ UNCHANGED <<rebootOwed, unheard, acked, overviewCache, chipInfoCache, overviewGeneration>>
    BY <1>4 DEF ModuleResets
  <2>2. \A o \in Overview : Current(o) /\ Recent(o) => Current(o)' /\ Recent(o)'
    BY <1>1, <2>1 DEF Current, Recent, Past, Dirty
  <2>3. NothingToPatch'
    BY <1>1, <2>1, Holders DEF Sound, NothingToPatch
  <2> QED BY <1>1, <2>1, <2>2, <2>3, KeptStep DEF Sound
<1> QED BY <1>2, <1>3, <1>4 DEF ModuleAction

(* What a load reads from the card, it reads as it is. *)
LEMMA ScannedIs ==
  ASSUME TypeOK, Shape, FloorsHold, NEW l \in Loading, Scan(l)
  PROVE  /\ copy'[l] \in Overview /\ ~resetDue
         /\ Current(copy'[l]) /\ Recent(copy'[l])
         /\ pc'[l] = "product" /\ pc[l] = "scan"
         /\ \A k \in Loading : k # l => pc'[k] = pc[k] /\ copy'[k] = copy[k]
<1> USE Parties DEF moduleVars, cacheVars, windowVars, loadVars, Goto
<1>1. /\ DOMAIN pc = Callers /\ DOMAIN copy = Loading \cup ChipReaders
      /\ card.eid \in Cards /\ card.edition \in Editions /\ card.enabled \in SUBSET Profiles
      /\ acked \in Editions
  BY DEF TypeOK, Card
<1>2. PICK edition \in {card.edition, Unread} :
        copy' = [copy EXCEPT ![l] =
          [chip |-> [eid |-> card.eid, product |-> card.eid], edition |-> edition,
           enabled |-> IF edition = Unread THEN {} ELSE card.enabled]]
  BY DEF Scan
<1>3. copy'[l] = [chip |-> [eid |-> card.eid, product |-> card.eid], edition |-> edition,
                  enabled |-> IF edition = Unread THEN {} ELSE card.enabled]
  BY <1>1, <1>2
<1>4. copy'[l] \in Overview
  BY <1>1, <1>3 DEF Overview, Chip
<1>5. edition >= card.edition
  BY <1>1 DEF Unread, Editions, Changes
<1>6. Recent(copy'[l])
  <2>1. edition >= acked
    BY <1>1, <1>5 DEF FloorsHold, Editions, Changes, Unread
  <2>2. ASSUME NEW w \in Writers, Past(w) PROVE edition >= job[w].made
    <3>1. job[w].made <= card.edition /\ job[w].made \in Editions
      BY <2>2 DEF Past, FloorsHold, Shape, WriteJob
    <3> QED BY <1>1, <1>5, <3>1 DEF Editions, Changes, Unread
  <2> QED BY <1>3, <2>1, <2>2 DEF Recent
<1>7. Current(copy'[l])
  BY <1>3 DEF Current
<1> QED BY <1>1, <1>2, <1>4, <1>6, <1>7 DEF Scan

LEMMA ProductIs ==
  ASSUME TypeOK, Shape, NEW l \in Loading, Product(l)
  PROVE  /\ copy[l] \in Overview /\ copy[l].chip \in Chip
         /\ pc'[l] = "publish" /\ pc[l] = "product"
         /\ copy'[l].edition = copy[l].edition /\ copy'[l].enabled = copy[l].enabled
         /\ copy'[l].chip.eid = copy[l].chip.eid
         /\ copy'[l].chip.product \in ProductsOf(copy[l].chip.eid)
         /\ \A k \in Loading : k # l => pc'[k] = pc[k] /\ copy'[k] = copy[k]
<1> USE Parties DEF Goto
<1>1. DOMAIN pc = Callers /\ DOMAIN copy = Loading \cup ChipReaders
  BY DEF TypeOK
<1>2. PICK product \in ProductsOf(copy[l].chip.eid) :
        copy' = [copy EXCEPT ![l].chip.product = product]
  BY DEF Product
<1>3. copy[l] \in Overview /\ copy[l].chip \in Chip
  BY DEF Product, Shape, Holding
<1>4. copy'[l] = [copy[l] EXCEPT !.chip = [@ EXCEPT !.product = product]]
  BY <1>1, <1>2
<1>5. /\ copy'[l].edition = copy[l].edition /\ copy'[l].enabled = copy[l].enabled
      /\ copy'[l].chip.eid = copy[l].chip.eid /\ copy'[l].chip.product = product
  BY <1>3, <1>4 DEF Overview, Chip
<1> QED BY <1>1, <1>2, <1>3, <1>5 DEF Product

LEMMA NewHolders ==
  ASSUME TypeOK, Shape, KeysAreOld, NEW l \in Loading, LoadAction(l),
         NEW k \in Loading, pc'[k] \in {"scan"} \cup Holding
  PROVE  /\ key'[k] = key[k] /\ pc[k] \in Keyed
         /\ \/ pc'[k] = pc[k] /\ copy'[k] = copy[k]
            \/ k = l /\ (Scan(l) \/ Product(l) \/ (LockIsFree(l) /\ pc'[k] = "scan"))
<1> USE Parties DEF Goto, Holding
<1>1. DOMAIN pc = Callers /\ DOMAIN copy = Loading \cup ChipReaders
  BY DEF TypeOK
<1>2. key'[k] = key[k] /\ pc[k] \in Keyed
  BY <1>1, LoadKeys DEF Keyed, ReadGeneration
<1>3. CASE LookAgain(l) \/ Publish(l) \/ LoadFails(l)
  <2>1. \/ \E r : Land(l, r)
        \/ copy' = copy /\ pc'[l] = "lock" /\ (k # l => pc'[k] = pc[k])
    BY <1>1, <1>3 DEF LookAgain, Publish, LoadFails
  <2> QED BY <1>2, <2>1, Landed
<1>4. CASE Call(l) \/ Look(l) \/ Clone(l) \/ ReadGeneration(l) \/ Join(l) \/ LockIsFree(l) \/ Return(l)
           \/ (l = Reloader /\ (ReadWindow \/ WindowIsOver))
  BY <1>1, <1>2, <1>4 DEF Call, Look, Clone, ReadGeneration, Join, LockIsFree, Return, ReadWindow,
                          WindowIsOver, loadVars
<1>5. CASE Scan(l) \/ Product(l)
  BY <1>1, <1>2, <1>5, ScannedIs, ProductIs DEF Scan, Product
<1> QED BY <1>3, <1>4, <1>5 DEF LoadAction, LoadStep

LEMMA LoadSound ==
  ASSUME TypeOK, Shape, KeysAreOld, Sound, FloorsHold, NEW l \in Loading, LoadAction(l)
  PROVE  Sound'
<1> USE Parties DEF Sound
<1>1. /\ UNCHANGED <<card, resetDue, rebootOwed, unheard, opMu, job, acked, overviewGeneration>>
      /\ \A w \in Writers : pc'[w] = pc[w]
  BY LoadFrame
<1>2. \A o \in Overview : Current(o) /\ Recent(o) => Current(o)' /\ Recent(o)'
  BY <1>1 DEF Current, Recent, Past, Dirty
<1>3. CacheIsSound'
  <2>1. CASE UNCHANGED <<overviewCache, chipInfoCache>>
    <3>1. overviewCache # Nothing => overviewCache \in Overview
      BY DEF TypeOK
    <3>2. overviewCache # Nothing => Current(overviewCache)' /\ Recent(overviewCache)'
      BY <1>2, <2>1, <3>1 DEF CacheIsSound, Current, Recent
    <3> QED BY <1>1, <2>1, <3>2 DEF CacheIsSound
  <2>2. CASE Publish(l) /\ key[l] = overviewGeneration
    <3>1. /\ overviewCache' = copy[l] /\ chipInfoCache' = copy[l].chip
          /\ copy[l] \in Overview /\ copy[l].chip \in Chip /\ pc[l] = "publish" /\ Publishes(l)
      BY <2>2 DEF Publish, Shape, Holding, Publishes
    <3>2. /\ Current(copy[l]) /\ Recent(copy[l]) /\ (~resetDue => copy[l].chip.product = card.eid)
      BY <3>1 DEF LoadsAreSound
    <3>3. Current(overviewCache)' /\ Recent(overviewCache)'
      BY <1>2, <3>1, <3>2 DEF Current, Recent
    <3>4. ~resetDue => copy[l].chip = [eid |-> card.eid, product |-> card.eid]
      BY <3>1, <3>2 DEF Current, Chip
    <3>5. copy[l].chip # Nothing
      BY <3>1, NothingAssumption
    <3> QED BY <1>1, <3>1, <3>3, <3>4, <3>5 DEF CacheIsSound
  <2>3. CASE LoadFails(l) /\ overviewCache' = Nothing
    BY <1>1, <2>3 DEF CacheIsSound, LoadFails
  <2>4. CASE Return(l)
    <3>1. overviewCache' = overviewCache /\ chipInfoCache' \in {chipInfoCache, Nothing}
      BY <2>4 DEF Return
    <3>2. overviewCache # Nothing => overviewCache \in Overview
      BY DEF TypeOK
    <3>3. overviewCache # Nothing => Current(overviewCache)' /\ Recent(overviewCache)'
      BY <1>2, <3>1, <3>2 DEF CacheIsSound, Current, Recent
    <3> QED BY <1>1, <3>1, <3>3 DEF CacheIsSound
  <2> QED
    BY <2>1, <2>2, <2>3, <2>4 DEF LoadAction, LoadStep, Call, Look, Clone, ReadGeneration, Join,
       LookAgain, LockIsFree, Scan, Product, Publish, LoadFails, ReadWindow, WindowIsOver, cacheVars
<1>4. LoadsAreSound'
  <2>1. SUFFICES ASSUME NEW k \in Loading, Publishes(k)'
                 PROVE  /\ Current(copy[k])' /\ Recent(copy[k])'
                        /\ (pc[k] = "publish" /\ ~resetDue => copy[k].chip.product = card.eid)'
    BY DEF LoadsAreSound
  <2>2. /\ key'[k] = key[k] /\ key[k] = overviewGeneration /\ pc'[k] \in Holding
    BY <1>1, <2>1, NewHolders DEF Publishes
  <2>3. CASE pc'[k] = pc[k] /\ copy'[k] = copy[k]
    <3>1. Publishes(k) /\ copy[k] \in Overview
      BY <2>2, <2>3 DEF Publishes, Shape
    <3>2. Current(copy[k])' /\ Recent(copy[k])'
      BY <1>2, <2>3, <3>1 DEF LoadsAreSound, Current, Recent
    <3> QED BY <1>1, <2>3, <3>1, <3>2 DEF LoadsAreSound
  <2>4. CASE k = l /\ Scan(l)
    <3>1. Current(copy'[l]) /\ Recent(copy'[l]) /\ copy'[l] \in Overview /\ pc'[l] = "product"
      BY <2>4, ScannedIs
    <3>2. Current(copy[l])' /\ Recent(copy[l])'
      BY <1>2, <3>1 DEF Current, Recent
    <3> QED BY <2>4, <3>1, <3>2
  <2>5. CASE k = l /\ Product(l)
    <3>1. /\ pc[l] = "product"
          /\ copy'[l].edition = copy[l].edition /\ copy'[l].enabled = copy[l].enabled
          /\ copy'[l].chip.eid = copy[l].chip.eid /\ copy[l] \in Overview
          /\ copy'[l].chip.product \in ProductsOf(copy[l].chip.eid)
      BY <2>5, ProductIs
    <3>2. Current(copy[l]) /\ Recent(copy[l])
      BY <2>2, <2>5, <3>1 DEF LoadsAreSound, Publishes, Holding
    <3>3. Current(copy[l])' /\ Recent(copy[l])'
      BY <1>1, <3>1, <3>2 DEF Current, Recent, Past, Dirty
    <3>4. ~resetDue => copy'[l].chip.product = card.eid
      BY <3>1, <3>2 DEF Current, ProductsOf, CacheIsSound
    <3> QED BY <1>1, <2>5, <3>3, <3>4
  <2> QED BY <1>1, <2>1, <2>2, <2>3, <2>4, <2>5, NewHolders DEF Holding
<1>5. NothingToPatch'
  <2>1. SUFFICES ASSUME NEW w \in Writers, pc[w] = "settle", job[w].op = "switch", ~rebootOwed
                 PROVE  /\ overviewCache' = Nothing
                        /\ \A k \in Loading : pc'[k] \in {"scan"} \cup Holding => key'[k] # overviewGeneration
    BY <1>1 DEF NothingToPatch
  <2>2. /\ overviewCache = Nothing /\ opMu = w
        /\ \A k \in Loading : pc[k] \in {"scan"} \cup Holding => key[k] # overviewGeneration
    BY <2>1 DEF NothingToPatch, Shape
  <2>3. overviewCache' = Nothing
    BY <2>2 DEF LoadAction, LoadStep, Call, Look, Clone, ReadGeneration, Join, LookAgain,
       LockIsFree, Scan, Product, Publish, LoadFails, Return, ReadWindow, WindowIsOver, cacheVars, Holding
  <2>4. ASSUME NEW k \in Loading, pc'[k] \in {"scan"} \cup Holding
        PROVE  key'[k] # overviewGeneration
    <3>1. pc[k] \in {"scan"} \cup Holding /\ key'[k] = key[k]
      BY <2>2, <2>4, NewHolders DEF Scan, Product, LockIsFree, Holding
    <3> QED BY <2>2, <3>1
  <2> QED BY <2>3, <2>4
<1> QED BY <1>3, <1>4, <1>5

-----------------------------------------------------------------------------
(* Freshness.                                                              *)

LEMMA WriteFloors ==
  ASSUME TypeOK, Shape, Budget, FloorsHold, NEW w \in Writers, WriteAction(w)
  PROVE  FloorsHold'
<1> USE Parties DEF moduleVars, cacheVars, windowVars, loadVars, Goto
<1>1. /\ DOMAIN pc = Callers /\ DOMAIN job = Writers /\ acked \in Nat /\ card.edition \in Nat
      /\ pc[w] # "out" => job[w] \in WriteJob /\ opMu = w
      /\ floor' = floor /\ \A l \in Loaders : floor[l] \in Nat
  BY WriteFrame DEF TypeOK, Shape, Card, Editions, Changes, LoadsStay
<1>2. \A v \in Writers : v # w => pc'[v] = "out"
  BY Alone
<1>3. CASE Lock(w)
  BY <1>1, <1>2, <1>3 DEF Lock, FloorsHold
<1>4. CASE Unlock(w)
  <2>1. /\ card' = card /\ acked' = Later(acked, job[w].made) /\ pc'[w] = "out"
        /\ job[w].made \in Nat /\ job[w].made <= card.edition
    BY <1>1, <1>4 DEF Unlock, FloorsHold, WriteJob, Editions, Changes
  <2> QED BY <1>1, <1>2, <2>1 DEF FloorsHold, Later
<1>5. CASE Commit(w)
  <2>1. card.edition + 1 <= MaxChanges
    BY <1>1, <1>5 DEF Commit, Budget, OwesFor, Owes, TypeOK, Changes
  <2>2. /\ card'.edition \in {card.edition, card.edition + 1} /\ acked' = acked
        /\ job'[w].made \in {0, card'.edition}
    BY <1>1, <1>5, <2>1, EffectIs, CommitIs
  <2> QED BY <1>1, <1>2, <2>2 DEF FloorsHold
<1>6. CASE ~Lock(w) /\ ~Unlock(w) /\ ~Commit(w)
  <2>1. UNCHANGED <<card, job, acked>> /\ pc[w] # "out"
    BY <1>6 DEF WriteAction, WriteStep, Reject, Prepare, Refuse, LostReturns, Fail, Settle,
                SettleSwitch, SettleEdit
  <2> QED BY <1>1, <1>2, <2>1 DEF FloorsHold
<1> QED BY <1>3, <1>4, <1>5, <1>6

LEMMA ModuleFloors ==
  ASSUME TypeOK, Shape, FloorsHold, ModuleAction
  PROVE  FloorsHold'
<1> USE Parties DEF moduleVars
<1>1. /\ card.edition \in Nat /\ acked \in Nat /\ floor' = floor /\ job' = job
      /\ \A w \in Writers : pc'[w] = pc[w]
      /\ \A l \in Loaders : floor[l] \in Nat
      /\ \A w \in Writers : pc[w] # "out" => job[w].made \in Nat
  BY ModuleFrame DEF TypeOK, Shape, WriteJob, Card, Editions, Changes, LoadsStay
<1>2. CASE ModuleResets
  <2>1. acked' = acked /\ card'.edition \in {card.edition, card.edition + 1}
    BY <1>2 DEF ModuleResets
  <2>2. ASSUME NEW w \in Writers, pc[w] # "out" PROVE job[w].made <= card'.edition
    BY <1>1, <2>1, <2>2 DEF FloorsHold
  <2> QED BY <1>1, <2>1, <2>2 DEF FloorsHold
<1>3. CASE NotifyModemReset
  BY <1>1, <1>3 DEF NotifyModemReset, FloorsHold
<1>4. CASE Tick
  BY <1>1, <1>4 DEF Tick, FloorsHold
<1> QED BY <1>2, <1>3, <1>4 DEF ModuleAction

LEMMA LoadFloors ==
  ASSUME TypeOK, FloorsHold, NEW l \in Loading, LoadAction(l)
  PROVE  FloorsHold'
<1>1. /\ UNCHANGED <<card, job, acked>> /\ \A w \in Writers : pc'[w] = pc[w]
      /\ acked \in Nat
  BY LoadFrame DEF TypeOK, Editions, Changes
<1>2. \A k \in Loaders : floor'[k] = floor[k] \/ floor'[k] = acked
  BY DEF LoadAction, LoadStep, Call, Look, Clone, ReadGeneration, Join, LookAgain, LockIsFree,
     Scan,
         Product, Publish, LoadFails, Return, ReadWindow, WindowIsOver, TypeOK, loadVars
<1> QED BY <1>1, <1>2 DEF FloorsHold

(* Only a copy that is being made changes under its owner, in its enabled profile. *)
LEMMA StayFresh ==
  ASSUME TypeOK, Shape, FlightsAreFresh, LoadsStay,
         \A l \in Loading : copy'[l] # Nothing => copy[l] # Nothing /\ copy'[l].edition = copy[l].edition
  PROVE  FlightsAreFresh'
  BY Parties, Holders DEF FlightsAreFresh, LoadsStay, Holding, Keyed

LEMMA EditionsStay ==
  ASSUME TypeOK, Shape, ModuleAction \/ \E w \in Writers : WriteAction(w)
  PROVE  LoadsStay /\
         \A l \in Loading : copy'[l] # Nothing => copy[l] # Nothing /\ copy'[l].edition = copy[l].edition
<1>1. CASE ModuleAction
  BY <1>1, ModuleFrame DEF ModuleAction, ModuleResets, NotifyModemReset, Tick, loadVars
<1>2. ASSUME NEW w \in Writers, WriteAction(w), copy' # copy
      PROVE  \A l \in Loading : copy'[l] # Nothing => copy[l] # Nothing /\ copy'[l].edition = copy[l].edition
  <2>1. Settle(w) /\ job[w].op = "switch" /\ overviewCache # Nothing
    BY <1>2 DEF WriteAction, WriteStep, Lock, Reject, Prepare, Commit, Refuse, LostReturns, Fail,
       Settle,
                SettleSwitch, SettleEdit, Unlock, loadVars
  <2>2. PICK mix \in Mixes(overviewCache.enabled, {job[w].target}) :
          copy' = [l \in DOMAIN copy |->
            IF l \in Loading /\ pc[l] = "clone" /\ copy[l] = overviewCache
            THEN [copy[l] EXCEPT !.enabled = mix] ELSE copy[l]]
    BY <1>2, <2>1 DEF Settle, SettleSwitch
  <2>3. overviewCache \in Overview /\ DOMAIN copy = Loading \cup ChipReaders
    BY <2>1 DEF TypeOK
  <2>4. [overviewCache EXCEPT !.enabled = mix].edition = overviewCache.edition
    BY <2>3 DEF Overview
  <2> QED BY <2>1, <2>2, <2>3, <2>4
<1> QED BY <1>1, <1>2, WriteFrame

LEMMA LoadFresh ==
  ASSUME TypeOK, Shape, KeysAreOld, Sound, FloorsHold, FlightsAreFresh, NEW l \in Loading, LoadAction(l)
  PROVE  FlightsAreFresh'
<1> USE Parties DEF Goto
<1>1. /\ DOMAIN pc = Callers /\ DOMAIN copy = Loading \cup ChipReaders /\ DOMAIN floor = Loaders
      /\ acked \in Nat /\ \A k \in Loaders : floor[k] \in Nat /\ floor[k] <= acked
      /\ \A k \in Loading : key'[k] = key[k] \/ k = l
  BY LoadFrame DEF TypeOK, FloorsHold, Editions, Changes
<1>2. \A o \in Overview : o.edition \in Nat
  BY DEF Overview, Editions, Changes, Unread
<1>3. ASSUME NEW m \in Loaders PROVE floor'[m] = floor[m] \/ (m = l /\ pc'[m] = "look")
  BY <1>1 DEF LoadAction, LoadStep, Call, Look, Clone, ReadGeneration, Join, LookAgain,
     LockIsFree, Scan,
       Product, Publish, LoadFails, Return, ReadWindow, WindowIsOver, loadVars
<1>4. ASSUME NEW k \in Loading, NEW m \in Loaders,
             pc'[k] \in Holding, pc'[m] \in Keyed, key'[k] = key'[m]
      PROVE  copy'[k].edition >= floor'[m]
  <2>1. floor'[m] = floor[m] /\ m \in Loading
    BY <1>3, <1>4 DEF Keyed
  <2>2. /\ key'[k] = key[k] /\ pc[k] \in Keyed
        /\ \/ pc'[k] = pc[k] /\ copy'[k] = copy[k]
           \/ k = l /\ (Scan(l) \/ Product(l))
    <3>1. pc'[k] \in {"scan"} \cup Holding /\ pc'[k] # "scan"
      BY <1>4 DEF Holding
    <3> QED BY <3>1, NewHolders
  <2>3. CASE k = l /\ Scan(l)
    <3>1. Recent(copy'[l]) /\ copy'[l] \in Overview
      BY <2>3, ScannedIs
    <3> QED BY <1>1, <1>2, <2>1, <2>3, <3>1 DEF Recent
  <2>4. CASE ~(k = l /\ Scan(l))
    <3>1. pc[k] \in Holding /\ copy[k] \in Overview /\ copy'[k].edition = copy[k].edition
      BY <2>2, <2>4, <1>4, ProductIs DEF Holding, Shape
    <3>2. CASE key'[m] = key[m] /\ pc[m] \in Keyed
      BY <1>4, <2>1, <2>2, <3>1, <3>2 DEF FlightsAreFresh
    <3>3. CASE key'[m] = overviewGeneration
      <4>1. Publishes(k)
        BY <1>4, <2>2, <3>1, <3>3 DEF Publishes
      <4>2. copy[k].edition >= acked
        BY <4>1 DEF Sound, LoadsAreSound, Recent
      <4> QED BY <1>1, <1>2, <2>1, <3>1, <4>2
    <3> QED BY <1>4, <2>1, <3>2, <3>3, LoadKeys
  <2> QED BY <2>3, <2>4
<1>5. ASSUME NEW m \in Loaders, pc'[m] \in {"clone", "answer"}, copy'[m] # Nothing
      PROVE  copy'[m].edition >= floor'[m]
  <2>1. floor'[m] = floor[m] /\ m \in Loading
    BY <1>3, <1>5
  <2>2. overviewCache # Nothing => overviewCache \in Overview /\ overviewCache.edition >= acked
    BY DEF TypeOK, Sound, CacheIsSound, Recent
  <2>3. ASSUME NEW r, Land(l, r), r # Nothing => r.edition >= floor[m] \/ m \notin Party(l)
        PROVE  copy'[m].edition >= floor'[m]
    BY <1>5, <2>1, <2>3, Landed DEF FlightsAreFresh
  <2>4. CASE LookAgain(l) /\ overviewCache # Nothing
    BY <1>1, <1>2, <2>2, <2>3, <2>4 DEF LookAgain
  <2>5. CASE Publish(l)
    <3>1. pc[l] = "publish" /\ Land(l, copy[l])
      BY <2>5 DEF Publish
    <3>2. m \in Party(l) => copy[l].edition >= floor[m]
      BY <2>1, <3>1 DEF Party, FlightsAreFresh, Holding, Keyed
    <3> QED BY <2>3, <3>1, <3>2
  <2>6. CASE LoadFails(l)
    BY <2>3, <2>6 DEF LoadFails
  <2>7. CASE Look(l)
    BY <1>1, <1>2, <1>5, <2>1, <2>2, <2>7 DEF Look, FlightsAreFresh
  <2>8. CASE Call(l) \/ Clone(l) \/ ReadGeneration(l) \/ Join(l) \/ LockIsFree(l) \/ Return(l)
             \/ (l = Reloader /\ (ReadWindow \/ WindowIsOver))
             \/ (LookAgain(l) /\ overviewCache = Nothing)
    BY <1>1, <1>5, <2>1, <2>8 DEF Call, Clone, ReadGeneration, Join, LockIsFree, Return,
       ReadWindow,
         WindowIsOver, LookAgain, FlightsAreFresh, loadVars
  <2>9. CASE Scan(l) \/ Product(l)
    BY <1>5, <2>1, <2>9, ScannedIs, ProductIs DEF FlightsAreFresh
  <2> QED BY <2>4, <2>5, <2>6, <2>7, <2>8, <2>9 DEF LoadAction, LoadStep
<1> QED BY <1>4, <1>5 DEF FlightsAreFresh

-----------------------------------------------------------------------------
(* The theorems.                                                           *)

LEMMA InitHolds ==
  Init => OverviewInv
<1> SUFFICES ASSUME Init PROVE OverviewInv
  OBVIOUS
<1> USE Parties
<1>1. /\ card \in Card /\ card.edition = 0 /\ 0 \in Generations /\ 0 \in Editions /\ 0 \in Changes
      /\ pc = [c \in Callers |-> "out"] /\ copy = [l \in Loading \cup ChipReaders |-> Nothing]
  BY DEF Init, Generations, Editions, Changes
<1>2. TypeOK
  <2>1. /\ flight \in [Generations -> Loading \cup {Nobody}]
        /\ key \in [Loading -> Generations] /\ floor \in [Loaders -> Editions]
    BY <1>1 DEF Init
  <2>2. /\ copy \in [Loading \cup ChipReaders -> Overview \cup Chip \cup {Nothing}]
        /\ job \in [Writers -> [op : Operations, target : Profiles, made : Editions] \cup {Nothing}]
    BY <1>1 DEF Init
  <2>3. suppressUntil \in Changes /\ now \in 0 .. suppressUntil
    BY <1>1 DEF Init
  <2>4. pc \in [Callers -> {"out"}]
    BY <1>1
  <2>5. /\ unheard \in BOOLEAN /\ refreshing \subseteq Loaders
        /\ resetDue \in BOOLEAN /\ rebootOwed \in BOOLEAN /\ opMu \in Writers \cup {Nobody}
        /\ overviewCache \in Overview \cup {Nothing} /\ chipInfoCache \in Chip \cup {Nothing}
        /\ overviewGeneration \in Generations /\ acked \in Editions /\ changes \in Changes
    BY <1>1 DEF Init
  <2> QED BY <1>1, <2>1, <2>2, <2>3, <2>4, <2>5 DEF TypeOK
<1>3. \A c \in Callers : pc[c] = "out"
  BY <1>1
<1>4. Shape
  BY <1>1, <1>3 DEF Init, Shape, LoadPlaces, WritePlaces, Holding
<1>5. KeysAreOld /\ Budget
  BY <1>1, <1>3 DEF Init, KeysAreOld, Keyed, Budget, Owes
<1>6. CacheIsSound /\ LoadsAreSound /\ NothingToPatch
  BY <1>3 DEF Init, CacheIsSound, LoadsAreSound, NothingToPatch, Publishes, Holding
<1>7. FloorsHold /\ FlightsAreFresh
  BY <1>1, <1>3 DEF Init, FloorsHold, FlightsAreFresh, Keyed
<1> QED BY <1>2, <1>4, <1>5, <1>6, <1>7 DEF OverviewInv

LEMMA StepHolds ==
  OverviewInv /\ [Next]_vars => OverviewInv'
<1> SUFFICES ASSUME OverviewInv, [Next]_vars PROVE OverviewInv'
  OBVIOUS
<1>1. TypeOK /\ Shape /\ KeysAreOld /\ Budget /\ Sound /\ FloorsHold /\ FlightsAreFresh
  BY DEF OverviewInv, Sound
<1>2. SUFFICES TypeOK' /\ Shape' /\ KeysAreOld' /\ Budget' /\ Sound' /\ FloorsHold' /\ FlightsAreFresh'
  BY DEF OverviewInv, Sound
<1>3. CASE UNCHANGED vars
  <2> USE <1>3 DEF vars, moduleVars, cacheVars, windowVars, loadVars
  <2>1. TypeOK' /\ Shape'
    BY <1>1 DEF TypeOK, Shape
  <2>2. KeysAreOld' /\ Budget'
    BY <1>1 DEF KeysAreOld, Budget, OwesFor, Owes
  <2>3. CacheIsSound' /\ LoadsAreSound'
    BY <1>1 DEF Sound, CacheIsSound, LoadsAreSound, Publishes, Current, Recent, Past, Dirty
  <2>4. NothingToPatch' /\ FloorsHold' /\ FlightsAreFresh'
    BY <1>1 DEF Sound, NothingToPatch, FloorsHold, FlightsAreFresh
  <2> QED BY <2>1, <2>2, <2>3, <2>4 DEF Sound
<1>4. ASSUME NEW l \in Loading, LoadAction(l), Next
      PROVE  TypeOK' /\ Shape' /\ KeysAreOld' /\ Budget' /\ Sound' /\ FloorsHold' /\ FlightsAreFresh'
  BY <1>1, <1>4, LoadTypes, LoadShape, NextKeys, LoadBudget, LoadSound, LoadFloors, LoadFresh
<1>5. ASSUME NEW w \in Writers, WriteAction(w), Next
      PROVE  TypeOK' /\ Shape' /\ KeysAreOld' /\ Budget' /\ Sound' /\ FloorsHold' /\ FlightsAreFresh'
  <2>1. Shape' /\ Budget'
    BY <1>1, <1>5, WriteShape, WriteBudget
  <2>2. FlightsAreFresh'
    BY <1>1, <1>5, EditionsStay, StayFresh
  <2> QED BY <1>1, <1>5, <2>1, <2>2, WriteTypes, NextKeys, WriteSound, WriteFloors
<1>6. ASSUME ModuleAction, Next
      PROVE  TypeOK' /\ Shape' /\ KeysAreOld' /\ Budget' /\ Sound' /\ FloorsHold' /\ FlightsAreFresh'
  <2>1. Shape' /\ Budget'
    BY <1>1, <1>6, ModuleShape, ModuleBudget
  <2>2. FlightsAreFresh'
    BY <1>1, <1>6, EditionsStay, StayFresh
  <2> QED BY <1>1, <1>6, <2>1, <2>2, ModuleTypes, NextKeys, ModuleSound, ModuleFloors
<1> QED BY <1>3, <1>4, <1>5, <1>6, NextIs

(* Every reachable state satisfies the invariant of this module, the state *)
(* of the overview cache between internal/esim's loads and operations.     *)
THEOREM OverviewInvariant == Spec => []OverviewInv
<1> QED BY InitHolds, StepHolds, PTL DEF Spec

(* Every variable has its type; the generation never exceeds twice, the    *)
(* edition never once the operations and resets that were started, so the  *)
(* bounds of the model cut nothing off.                                    *)
THEOREM OverviewTypeCorrect == Spec => []TypeOK
<1>1. OverviewInv => TypeOK
  BY DEF OverviewInv
<1> QED BY <1>1, OverviewInvariant, PTL

(* What loadOverview's cache holds is current: no scan that began before   *)
(* an operation or a reset is stored after it, for any number of callers   *)
(* that join each other's scans (setOverviewCache).                        *)
THEOREM CachesStayCurrent == Spec => []CachesAreCurrent
<1>1. OverviewInv => CachesAreCurrent
  <2> SUFFICES ASSUME OverviewInv PROVE CachesAreCurrent
    OBVIOUS
  <2>1. CacheIsSound /\ (Settled => ~Dirty)
    BY DEF OverviewInv, Settled, Dirty
  <2> QED BY <2>1 DEF CacheIsSound, Current, CachesAreCurrent, CachedListIsCurrent, ChipInfoIsCurrent,
                      EnabledIsCurrent, Settled
<1> QED BY <1>1, OverviewInvariant, PTL

(* No caller of the overview is answered with a profile list older than    *)
(* what anybody was told of before the call, whether it reads the cache,   *)
(* leads a scan or joins one (loadOverview).                               *)
THEOREM AnswersStayFresh == Spec => []AnswersAreFresh
<1>1. OverviewInv => AnswersAreFresh
  BY DEF OverviewInv, FlightsAreFresh, AnswersAreFresh
<1> QED BY <1>1, OverviewInvariant, PTL

=============================================================================
