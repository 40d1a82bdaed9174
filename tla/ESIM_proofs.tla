----------------------------- MODULE ESIM_proofs -----------------------------
(***************************************************************************)
(* Proofs about the eSIM manager: its calls on the channels of the card,   *)
(* its switches and its notifications.                                     *)
(***************************************************************************)
EXTENDS MCESIM, ESIMOverview_proofs, LeastNumbers

-----------------------------------------------------------------------------
(* The channels.  The calls on the card are kept apart, for any number of   *)
(* users, channels, failing calls and stops, over every transport.  The    *)
(* invariant says of each user what its place in the work lets it hold, of *)
(* each pair what their leases and mutexes mean, and of each channel whose *)
(* it is.                                                                  *)

HoldsChannel(u) == u.next \in {"have", "send", "close"}

(* A user has a channel while its work is on one, sweeps only over AT,     *)
(* rests between calls, and has a lease only on the way to the card.       *)
UserShape(u) ==
  /\ u.next \in {"idle", "wait", "have"} => u.at = "rest"
  /\ u.chan # 0 <=> HoldsChannel(u)
  /\ u.next = "sweep" => OverAT /\ u.n \in CardChannels
  /\ u.lease = "held" => arbitrated /\ u.at \in {"mutex", "card"}

(* Who works under the operation lock, and what a write has met. *)
LockSound(c) ==
  /\ user[c].job = "write" <=> writer = c
  /\ user[c].next \in {"wait", "sweep"} => user[c].job \in {"scan", "write"}
  /\ (user[c].next \in {"wait", "sweep"} /\ writer \notin {NoUser, c}) => c \in met

LeasesApart ==
  \A c, d \in Leased : c # d =>
    ByChannel(user[c]) /\ ByChannel(user[d]) /\ user[c].chan # user[d].chan
MutexesApart ==
  \A c, d \in Users :
    (c # d /\ AtCard(c) /\ AtCard(d) /\ user[c].era = user[d].era) =>
      MutexOf(user[c]) # MutexOf(user[d])
OpenersSound ==
  \A c \in Users : (HoldsChannel(user[c]) /\ ~user[c].spoiled) => opener[user[c].chan] = c

InUse == {user[c].chan : c \in {d \in Users : user[d].next \in {"have", "send"}}}
NothingLost ==
  (failures = 0 /\ era = 0) =>
    /\ \A k \in CardChannels : opener[k] # Unused => user[opener[k]].chan = k
    /\ mode \in {"QMI", "MBIM"} => (\A c \in Users : ~user[c].spoiled) /\ sessions = InUse

ChannelsInv ==
  /\ ChannelsTypeOK
  /\ \A c \in Users : UserShape(user[c]) /\ LockSound(c)
  /\ up # "up" => era # 0
  /\ LeasesApart /\ MutexesApart /\ OpenersSound /\ NothingLost

-----------------------------------------------------------------------------
(* What the updates of a user's record are. *)
LEMMA AskingIs ==
  ASSUME NEW u \in UserType, NEW op \in Nexts
  PROVE  /\ Asking(u, op) \in UserType
         /\ Asking(u, op).job = u.job /\ Asking(u, op).next = op
         /\ Asking(u, op).at = "lease" /\ Asking(u, op).n = u.n
         /\ Asking(u, op).chan = u.chan /\ Asking(u, op).era = u.era
         /\ Asking(u, op).lease = u.lease /\ Asking(u, op).spoiled = u.spoiled
  BY Zenon DEF Asking, UserType, Places
LEMMA LeasingIs ==
  ASSUME NEW u \in UserType, era \in 0 .. MaxStops, arbitrated \in BOOLEAN
  PROVE  /\ Leasing(u) \in UserType
         /\ Leasing(u).job = u.job /\ Leasing(u).next = u.next
         /\ Leasing(u).at = "mutex" /\ Leasing(u).n = u.n
         /\ Leasing(u).chan = u.chan /\ Leasing(u).era = era
         /\ Leasing(u).lease = (IF arbitrated THEN "held" ELSE "none")
         /\ Leasing(u).spoiled = u.spoiled
  BY Zenon DEF Leasing, UserType, Places
LEMMA EvictedIs ==
  ASSUME NEW u \in UserType
  PROVE  /\ Evicted(u) \in UserType
         /\ Evicted(u).job = u.job /\ Evicted(u).next = u.next
         /\ Evicted(u).at = u.at /\ Evicted(u).n = u.n /\ Evicted(u).chan = u.chan
         /\ Evicted(u).era = u.era /\ Evicted(u).lease = "evicted"
         /\ Evicted(u).spoiled = u.spoiled
  BY Zenon DEF Evicted, UserType
LEMMA OnCardIs ==
  ASSUME NEW u \in UserType
  PROVE  /\ OnCard(u) \in UserType
         /\ OnCard(u).job = u.job /\ OnCard(u).next = u.next
         /\ OnCard(u).at = "card" /\ OnCard(u).n = u.n /\ OnCard(u).chan = u.chan
         /\ OnCard(u).era = u.era /\ OnCard(u).lease = u.lease
         /\ OnCard(u).spoiled = u.spoiled
  BY Zenon DEF OnCard, UserType, Places
LEMMA BereftIs ==
  ASSUME NEW u \in UserType, NEW lost \in BOOLEAN
  PROVE  /\ Bereft(u, lost) \in UserType
         /\ Bereft(u, lost).job = u.job /\ Bereft(u, lost).next = u.next
         /\ Bereft(u, lost).at = u.at /\ Bereft(u, lost).n = u.n
         /\ Bereft(u, lost).chan = u.chan /\ Bereft(u, lost).era = u.era
         /\ Bereft(u, lost).lease = u.lease
         /\ Bereft(u, lost).spoiled = (u.spoiled \/ lost)
  BY Zenon DEF Bereft, UserType
LEMMA IdleIs ==
  /\ Idle \in UserType /\ Idle.job = "none" /\ Idle.next = "idle" /\ Idle.at = "rest"
  /\ Idle.n = 0 /\ Idle.chan = 0 /\ Idle.era = 0 /\ Idle.lease = "none" /\ ~Idle.spoiled
  BY ChannelsAssumption DEF Idle, UserType, Jobs, Nexts, Places
LEMMA StartingIs ==
  ASSUME NEW kind \in Jobs, NEW next \in Nexts, NEW place \in Places
  PROVE  /\ Starting(kind, next, place) \in UserType
         /\ Starting(kind, next, place).job = kind /\ Starting(kind, next, place).next = next
         /\ Starting(kind, next, place).at = place /\ Starting(kind, next, place).n = 0
         /\ Starting(kind, next, place).chan = 0 /\ Starting(kind, next, place).era = 0
         /\ Starting(kind, next, place).lease = "none" /\ ~Starting(kind, next, place).spoiled
  BY IdleIs, Zenon DEF Starting, UserType
LEMMA PreCleansIs ==
  ASSUME NEW u \in UserType
  PROVE  /\ PreCleans(u) \in UserType
         /\ PreCleans(u).job = u.job /\ PreCleans(u).at = u.at /\ PreCleans(u).chan = u.chan
         /\ PreCleans(u).era = u.era /\ PreCleans(u).lease = u.lease
         /\ PreCleans(u).spoiled = u.spoiled
         /\ PreCleans(u).next = (IF OverAT THEN "sweep" ELSE "open")
         /\ OverAT => PreCleans(u).n \in CardChannels
  <1>1. {"sweep", "open"} \subseteq Nexts /\ 1 \in CardChannels /\ "sweep" # "open"
    BY ChannelsAssumption DEF Nexts, CardChannels
  <1>2. CASE OverAT
    <2>1. PreCleans(u) = [u EXCEPT !.next = "sweep", !.n = 1]
      BY <1>2 DEF PreCleans
    <2> QED BY <1>1, <1>2, <2>1, Zenon DEF UserType
  <1>3. CASE ~OverAT
    <2>1. PreCleans(u) = [u EXCEPT !.next = "open"]
      BY <1>3 DEF PreCleans
    <2> QED BY <1>1, <1>3, <2>1, Zenon DEF UserType
  <1> QED BY <1>2, <1>3

(* What follows a call: the user is done, or goes on with its work. *)
LEMMA AfterIs ==
  ASSUME NEW u \in UserType, NEW opened \in CardChannels \cup {0},
         u.next = "sweep" => u.n \in CardChannels
  PROVE  /\ After(u, opened) \in UserType
         /\ After(u, opened).at = "rest" /\ After(u, opened).lease = "none"
         /\ \/ After(u, opened) = Idle
            \/ /\ After(u, opened).next # "idle" /\ After(u, opened).job = u.job
               /\ After(u, opened).spoiled = u.spoiled
         /\ u.next = "sweep" =>
              /\ After(u, opened).chan = 0 /\ After(u, opened).next \in {"sweep", "open"}
              /\ After(u, opened).next = "sweep" => After(u, opened).n \in CardChannels
         /\ u.next = "open" =>
              /\ After(u, opened).chan = opened
              /\ After(u, opened).next = (IF opened = 0 THEN "open" ELSE "have")
         /\ u.next = "send" =>
              After(u, opened).chan = u.chan /\ After(u, opened).next = "have"
         /\ u.next \notin {"sweep", "open", "send"} => After(u, opened) = Idle
  <1>0. /\ u.n \in CardChannels \cup {0} /\ u.chan \in CardChannels \cup {0}
        /\ 0 \in CardChannels \cup {0} /\ 0 \in 0 .. MaxStops /\ "rest" \in Places
        /\ "sweep" \in Nexts /\ "open" \in Nexts /\ "have" \in Nexts
    BY ChannelsAssumption DEF UserType, Nexts, Places
  <1>1. CASE u.next = "sweep" /\ u.n = ChannelCount
    <2>2. After(u, opened) = Over(u, "open", 0, 0)
      BY <1>1 DEF After
    <2>3. /\ Over(u, "open", 0, 0) \in UserType /\ Over(u, "open", 0, 0).at = "rest" /\ Over(u, "open", 0, 0).lease = "none"
          /\ Over(u, "open", 0, 0).job = u.job /\ Over(u, "open", 0, 0).spoiled = u.spoiled
          /\ Over(u, "open", 0, 0).next = "open" /\ Over(u, "open", 0, 0).n = 0 /\ Over(u, "open", 0, 0).chan = 0
      BY <1>0, Zenon DEF Over, UserType
    <2> QED BY <1>1, <2>2, <2>3
  <1>2. CASE u.next = "sweep" /\ u.n # ChannelCount
    <2>1. u.n + 1 \in CardChannels
      BY <1>2, ChannelsAssumption DEF CardChannels
    <2>2. After(u, opened) = Over(u, "sweep", u.n + 1, 0)
      BY <1>2 DEF After
    <2>3. /\ Over(u, "sweep", u.n + 1, 0) \in UserType /\ Over(u, "sweep", u.n + 1, 0).at = "rest" /\ Over(u, "sweep", u.n + 1, 0).lease = "none"
          /\ Over(u, "sweep", u.n + 1, 0).job = u.job /\ Over(u, "sweep", u.n + 1, 0).spoiled = u.spoiled
          /\ Over(u, "sweep", u.n + 1, 0).next = "sweep" /\ Over(u, "sweep", u.n + 1, 0).n = u.n + 1 /\ Over(u, "sweep", u.n + 1, 0).chan = 0
      BY <1>0, <2>1, Zenon DEF Over, UserType
    <2> QED BY <1>2, <2>2, <2>3, <2>1
  <1>3. CASE u.next = "open" /\ opened = 0
    <2>2. After(u, opened) = Over(u, "open", u.n, opened)
      BY <1>3 DEF After
    <2>3. /\ Over(u, "open", u.n, opened) \in UserType /\ Over(u, "open", u.n, opened).at = "rest" /\ Over(u, "open", u.n, opened).lease = "none"
          /\ Over(u, "open", u.n, opened).job = u.job /\ Over(u, "open", u.n, opened).spoiled = u.spoiled
          /\ Over(u, "open", u.n, opened).next = "open" /\ Over(u, "open", u.n, opened).n = u.n /\ Over(u, "open", u.n, opened).chan = opened
      BY <1>0, Zenon DEF Over, UserType
    <2> QED BY <1>3, <2>2, <2>3
  <1>4. CASE u.next = "open" /\ opened # 0
    <2>2. After(u, opened) = Over(u, "have", u.n, opened)
      BY <1>4 DEF After
    <2>3. /\ Over(u, "have", u.n, opened) \in UserType /\ Over(u, "have", u.n, opened).at = "rest" /\ Over(u, "have", u.n, opened).lease = "none"
          /\ Over(u, "have", u.n, opened).job = u.job /\ Over(u, "have", u.n, opened).spoiled = u.spoiled
          /\ Over(u, "have", u.n, opened).next = "have" /\ Over(u, "have", u.n, opened).n = u.n /\ Over(u, "have", u.n, opened).chan = opened
      BY <1>0, Zenon DEF Over, UserType
    <2> QED BY <1>4, <2>2, <2>3
  <1>5. CASE u.next = "send"
    <2>2. After(u, opened) = Over(u, "have", u.n, u.chan)
      BY <1>5 DEF After
    <2>3. /\ Over(u, "have", u.n, u.chan) \in UserType /\ Over(u, "have", u.n, u.chan).at = "rest" /\ Over(u, "have", u.n, u.chan).lease = "none"
          /\ Over(u, "have", u.n, u.chan).job = u.job /\ Over(u, "have", u.n, u.chan).spoiled = u.spoiled
          /\ Over(u, "have", u.n, u.chan).next = "have" /\ Over(u, "have", u.n, u.chan).n = u.n /\ Over(u, "have", u.n, u.chan).chan = u.chan
      BY <1>0, Zenon DEF Over, UserType
    <2> QED BY <1>5, <2>2, <2>3
  <1>6. CASE u.next \notin {"sweep", "open", "send"}
    <2>1. After(u, opened) = Idle
      BY <1>6 DEF After
    <2> QED BY <1>6, <2>1, IdleIs
  <1> QED BY <1>1, <1>2, <1>3, <1>4, <1>5, <1>6

-----------------------------------------------------------------------------
(* What moving one user leaves. *)
LEMMA Moved ==
  ASSUME NEW f \in [Users -> UserType], NEW c \in Users, NEW u \in UserType,
         user' = [f EXCEPT ![c] = u]
  PROVE  /\ user' \in [Users -> UserType] /\ user'[c] = u
         /\ \A d \in Users \ {c} : user'[d] = f[d]
  OBVIOUS

LEMMA MutexesKept ==
  ASSUME MutexesApart,
         \A d \in Users : user'[d].at = "card" =>
           /\ user[d].at = "card" /\ user'[d].next = user[d].next
           /\ user'[d].chan = user[d].chan /\ user'[d].era = user[d].era
  PROVE  MutexesApart'
  BY DEF MutexesApart, AtCard, MutexOf

LEMMA LeasesKept ==
  ASSUME LeasesApart, UNCHANGED mode,
         \A d \in Users : user'[d].lease = "held" =>
           /\ user[d].lease = "held" /\ user'[d].next = user[d].next
           /\ user'[d].chan = user[d].chan
  PROVE  LeasesApart'
  BY DEF LeasesApart, Leased, ByChannel

LEMMA OpenersKept ==
  ASSUME OpenersSound,
         \A d \in Users : (HoldsChannel(user'[d]) /\ ~user'[d].spoiled) =>
           /\ HoldsChannel(user[d]) /\ ~user[d].spoiled /\ user'[d].chan = user[d].chan
           /\ opener'[user[d].chan] = opener[user[d].chan]
  PROVE  OpenersSound'
  BY DEF OpenersSound

LEMMA LostKept ==
  ASSUME ChannelsTypeOK, NothingLost, UNCHANGED mode,
         (failures' = 0 /\ era' = 0) =>
           /\ failures = 0 /\ era = 0 /\ UNCHANGED <<opener, sessions>>
           /\ \A d \in Users :
                /\ user'[d].chan = user[d].chan /\ (user'[d].spoiled => user[d].spoiled)
                /\ user'[d].next \in {"have", "send"} <=> user[d].next \in {"have", "send"}
  PROVE  NothingLost'
  <1> SUFFICES ASSUME failures' = 0, era' = 0
               PROVE  /\ \A k \in CardChannels : opener'[k] # Unused => user'[opener'[k]].chan = k
                      /\ mode \in {"QMI", "MBIM"} => (\A c \in Users : ~user'[c].spoiled) /\ sessions' = InUse'
    BY DEF NothingLost
  <1>1. InUse' = InUse
    BY DEF InUse
  <1>2. \A k \in CardChannels : opener[k] # Unused => opener[k] \in Users
    BY DEF ChannelsTypeOK
  <1> QED BY <1>1, <1>2 DEF NothingLost

(* A user that goes on, or is done and gives the lock back. *)
LEMMA LockKept ==
  ASSUME ChannelsInv, NEW c \in Users, NEW f \in [Users -> UserType], NEW u \in UserType,
         Becomes(c, u, f),
         \A d \in Users : f[d].job = user[d].job /\ f[d].next = user[d].next,
         \/ u = Idle
         \/ /\ u.next # "idle" /\ u.job = user[c].job
            /\ u.next \in {"wait", "sweep"} => user[c].next \in {"wait", "sweep"}
  PROVE  /\ \A d \in Users : LockSound(d)'
         /\ writer' \in Users \cup {NoUser} /\ met' \subseteq Users \ {writer'}
  <1>1. /\ user'[c] = u /\ \A d \in Users \ {c} : user'[d] = f[d]
    BY Moved DEF Becomes
  <1>2. NoUser \notin Users
    BY ChannelsAssumption DEF NoUser
  <1>3. CASE u = Idle /\ writer = c
    BY <1>1, <1>2, <1>3, IdleIs DEF Becomes, LockSound, ChannelsInv
  <1>4. CASE u = Idle /\ writer # c
    BY <1>1, <1>2, <1>4, IdleIs DEF Becomes, LockSound, ChannelsInv, ChannelsTypeOK
  <1>5. CASE u # Idle
    BY <1>1, <1>2, <1>5, IdleIs DEF Becomes, LockSound, ChannelsInv, ChannelsTypeOK
  <1> QED BY <1>3, <1>4, <1>5

-----------------------------------------------------------------------------
(* A step of one user that takes it neither to the card nor to a lease.    *)
LEMMA QuietKeeps ==
  ASSUME ChannelsInv, NEW c \in Users,
         \A d \in Users \ {c} : user'[d] = user[d],
         user'[c].at \in {"rest", "lease"}, user'[c].lease # "held",
         HoldsChannel(user'[c]) => /\ HoldsChannel(user[c]) /\ user'[c].chan = user[c].chan
                            /\ user'[c].spoiled = user[c].spoiled,
         UNCHANGED <<mode, opener>>
  PROVE  LeasesApart' /\ MutexesApart' /\ OpenersSound'
  <1>1. LeasesApart'
    BY LeasesKept DEF ChannelsInv
  <1>2. MutexesApart'
    BY MutexesKept DEF ChannelsInv
  <1>3. OpenersSound'
    BY OpenersKept DEF ChannelsInv
  <1> QED BY <1>1, <1>2, <1>3

LEMMA StartScanKeeps ==
  ASSUME ChannelsInv, NEW c \in Users, StartScan(c)
  PROVE  ChannelsInv'
  <1> DEFINE u == Starting("scan", "wait", "rest")
  <1>0. "scan" \in Jobs /\ "wait" \in Nexts /\ "rest" \in Places
    BY DEF Jobs, Nexts, Places
  <1>1. /\ u \in UserType
        /\ u.job = "scan" /\ u.next = "wait" /\ u.at = "rest" /\ u.chan = 0
        /\ u.lease = "none" /\ ~u.spoiled
    BY <1>0, StartingIs
  <1> HIDE DEF u
  <1>2. /\ user' \in [Users -> UserType] /\ user'[c] = u
        /\ \A d \in Users \ {c} : user'[d] = user[d]
    BY <1>1, Moved DEF StartScan, ChannelsInv, ChannelsTypeOK, u
  <1>3. ChannelsTypeOK'
    BY <1>1, <1>2 DEF StartScan, ChannelsInv, ChannelsTypeOK, lineVars
  <1>4. \A d \in Users : UserShape(user[d])'
    BY <1>1, <1>2 DEF StartScan, ChannelsInv, UserShape, HoldsChannel, OverAT, lineVars
  <1>5. \A d \in Users : LockSound(d)'
    BY <1>1, <1>2, IdleIs, ChannelsAssumption DEF StartScan, ChannelsInv, ChannelsTypeOK,
       LockSound, NoUser, lineVars
  <1>6. LeasesApart' /\ MutexesApart' /\ OpenersSound'
    BY <1>1, <1>2, QuietKeeps DEF StartScan, HoldsChannel, lineVars
  <1>7. NothingLost'
    BY <1>1, <1>2, LostKept, IdleIs DEF StartScan, ChannelsInv, lineVars
  <1>8. up' # "up" => era' # 0
    BY DEF StartScan, ChannelsInv
  <1> QED BY <1>3, <1>4, <1>5, <1>6, <1>7, <1>8 DEF ChannelsInv

LEMMA StartBasicKeeps ==
  ASSUME ChannelsInv, NEW c \in Users, StartBasic(c)
  PROVE  ChannelsInv'
  <1> DEFINE u == Starting("basic", "basic", "lease")
  <1>0. "basic" \in Jobs /\ "basic" \in Nexts /\ "lease" \in Places
    BY DEF Jobs, Nexts, Places
  <1>1. /\ u \in UserType
        /\ u.job = "basic" /\ u.next = "basic" /\ u.at = "lease" /\ u.chan = 0
        /\ u.lease = "none" /\ ~u.spoiled
    BY <1>0, StartingIs
  <1> HIDE DEF u
  <1>2. /\ user' \in [Users -> UserType] /\ user'[c] = u
        /\ \A d \in Users \ {c} : user'[d] = user[d]
    BY <1>1, Moved DEF StartBasic, ChannelsInv, ChannelsTypeOK, u
  <1>3. ChannelsTypeOK'
    BY <1>1, <1>2 DEF StartBasic, ChannelsInv, ChannelsTypeOK, lineVars
  <1>4. \A d \in Users : UserShape(user[d])'
    BY <1>1, <1>2 DEF StartBasic, ChannelsInv, UserShape, HoldsChannel, OverAT, lineVars
  <1>5. \A d \in Users : LockSound(d)'
    BY <1>1, <1>2, IdleIs, ChannelsAssumption DEF StartBasic, ChannelsInv, ChannelsTypeOK,
       LockSound, NoUser, lineVars
  <1>6. LeasesApart' /\ MutexesApart' /\ OpenersSound'
    BY <1>1, <1>2, QuietKeeps DEF StartBasic, HoldsChannel, lineVars
  <1>7. NothingLost'
    BY <1>1, <1>2, LostKept, IdleIs DEF StartBasic, ChannelsInv, lineVars
  <1>8. up' # "up" => era' # 0
    BY DEF StartBasic, ChannelsInv
  <1> QED BY <1>3, <1>4, <1>5, <1>6, <1>7, <1>8 DEF ChannelsInv

LEMMA StartWriteKeeps ==
  ASSUME ChannelsInv, NEW c \in Users, StartWrite(c)
  PROVE  ChannelsInv'
  <1>1. PICK first \in {"wait", "open"} : user' = [user EXCEPT ![c] = Starting("write", first, "rest")]
    BY DEF StartWrite
  <1> DEFINE u == Starting("write", first, "rest")
  <1>2. "write" \in Jobs /\ first \in Nexts /\ "rest" \in Places
    BY DEF Jobs, Nexts, Places
  <1>3. /\ u \in UserType
        /\ u.job = "write" /\ u.next = first /\ u.at = "rest" /\ u.chan = 0
        /\ u.lease = "none" /\ ~u.spoiled
    BY <1>2, StartingIs
  <1> HIDE DEF u
  <1>4. /\ user' \in [Users -> UserType] /\ user'[c] = u
        /\ \A d \in Users \ {c} : user'[d] = user[d]
    BY <1>1, <1>3, Moved DEF ChannelsInv, ChannelsTypeOK, u
  <1>5. c \notin met' /\ met' \subseteq Users
    BY IdleIs DEF StartWrite
  <1>6. ChannelsTypeOK'
    BY <1>4, <1>5 DEF StartWrite, ChannelsInv, ChannelsTypeOK, lineVars
  <1>7. \A d \in Users : UserShape(user[d])'
    BY <1>3, <1>4 DEF StartWrite, ChannelsInv, UserShape, HoldsChannel, OverAT, lineVars
  <1>8. \A d \in Users : LockSound(d)'
    <2>1. LockSound(c)'
      BY <1>3, <1>4, ChannelsAssumption DEF StartWrite, LockSound
    <2>2. ASSUME NEW d \in Users \ {c} PROVE LockSound(d)'
      <3>1. user[d].job # "write"
        BY ChannelsAssumption DEF StartWrite, ChannelsInv, LockSound, NoUser
      <3>2. user[d].next \in {"wait", "sweep"} => d \in met'
        BY <3>1 DEF StartWrite, ChannelsInv, LockSound
      <3> QED BY <1>4, <3>1, <3>2 DEF StartWrite, ChannelsInv, LockSound
    <2> QED BY <2>1, <2>2
  <1>9. LeasesApart' /\ MutexesApart' /\ OpenersSound'
    BY <1>3, <1>4, QuietKeeps DEF StartWrite, HoldsChannel, lineVars
  <1>10. NothingLost'
    BY <1>3, <1>4, LostKept, IdleIs DEF StartWrite, ChannelsInv, lineVars
  <1>11. up' # "up" => era' # 0
    BY DEF StartWrite, ChannelsInv
  <1> QED BY <1>6, <1>7, <1>8, <1>9, <1>10, <1>11 DEF ChannelsInv

LEMMA BeginsScanKeeps ==
  ASSUME ChannelsInv, NEW c \in Users, BeginsScan(c)
  PROVE  ChannelsInv'
  <1> DEFINE u == PreCleans(user[c])
  <1>1. user[c] \in UserType /\ user[c].next = "wait" /\ user[c].at = "rest"
        /\ user[c].chan = 0 /\ user[c].lease # "held"
    BY DEF BeginsScan, ChannelsInv, ChannelsTypeOK, UserShape, HoldsChannel, Leased
  <1>2. /\ u \in UserType
        /\ u.job = user[c].job /\ u.at = "rest" /\ u.chan = 0
        /\ u.lease = user[c].lease /\ u.spoiled = user[c].spoiled
        /\ u.next = (IF OverAT THEN "sweep" ELSE "open") /\ (OverAT => u.n \in CardChannels)
    BY <1>1, PreCleansIs
  <1> HIDE DEF u
  <1>3. /\ user' \in [Users -> UserType] /\ user'[c] = u
        /\ \A d \in Users \ {c} : user'[d] = user[d]
    BY <1>2, Moved DEF BeginsScan, ChannelsInv, ChannelsTypeOK, u
  <1>4. ChannelsTypeOK'
    BY <1>3 DEF BeginsScan, ChannelsInv, ChannelsTypeOK, lineVars
  <1>5. \A d \in Users : UserShape(user[d])'
    BY <1>1, <1>2, <1>3 DEF BeginsScan, ChannelsInv, UserShape, HoldsChannel, OverAT, lineVars
  <1>6. \A d \in Users : LockSound(d)'
    BY <1>1, <1>2, <1>3 DEF BeginsScan, ChannelsInv, LockSound
  <1>7. LeasesApart' /\ MutexesApart' /\ OpenersSound'
    BY <1>1, <1>2, <1>3, QuietKeeps DEF BeginsScan, HoldsChannel, lineVars
  <1>8. NothingLost'
    BY <1>1, <1>2, <1>3, LostKept DEF BeginsScan, ChannelsInv, lineVars
  <1>9. up' # "up" => era' # 0
    BY DEF BeginsScan, ChannelsInv
  <1> QED BY <1>4, <1>5, <1>6, <1>7, <1>8, <1>9 DEF ChannelsInv

LEMMA GiveUpKeeps ==
  ASSUME ChannelsInv, NEW c \in Users, GiveUp(c)
  PROVE  ChannelsInv'
  <1>1. /\ user' \in [Users -> UserType] /\ user'[c] = Idle
        /\ \A d \in Users \ {c} : user'[d] = user[d]
    BY Moved, IdleIs DEF GiveUp, Becomes, ChannelsInv, ChannelsTypeOK
  <1>2. /\ \A d \in Users : LockSound(d)'
        /\ writer' \in Users \cup {NoUser} /\ met' \subseteq Users \ {writer'}
    BY LockKept, IdleIs DEF GiveUp, ChannelsInv, ChannelsTypeOK
  <1>3. ChannelsTypeOK'
    BY <1>1, <1>2 DEF GiveUp, ChannelsInv, ChannelsTypeOK, lineVars
  <1>4. \A d \in Users : UserShape(user[d])'
    BY <1>1, IdleIs DEF GiveUp, ChannelsInv, UserShape, HoldsChannel, OverAT, lineVars
  <1>5. LeasesApart' /\ MutexesApart' /\ OpenersSound'
    BY <1>1, IdleIs, QuietKeeps DEF GiveUp, HoldsChannel, lineVars
  <1>6. user[c].chan = 0
    BY DEF GiveUp, ChannelsInv, UserShape, HoldsChannel
  <1>7. NothingLost'
    BY <1>1, <1>6, LostKept, IdleIs DEF GiveUp, ChannelsInv, lineVars
  <1>8. up' # "up" => era' # 0
    BY DEF GiveUp, ChannelsInv
  <1> QED BY <1>2, <1>3, <1>4, <1>5, <1>7, <1>8 DEF ChannelsInv

LEMMA AcquireLeaseKeeps ==
  ASSUME ChannelsInv, NEW c \in Users, AcquireLease(c)
  PROVE  ChannelsInv'
  <1> DEFINE u == Leasing(user[c])
  <1>1. user[c] \in UserType /\ user[c].at = "lease" /\ user[c].lease # "held"
        /\ era \in 0 .. MaxStops /\ arbitrated \in BOOLEAN
    BY DEF AcquireLease, ChannelsInv, ChannelsTypeOK, UserShape
  <1>2. /\ u \in UserType /\ u.at = "mutex" /\ u.job = user[c].job /\ u.next = user[c].next
        /\ u.n = user[c].n /\ u.chan = user[c].chan /\ u.spoiled = user[c].spoiled
        /\ u.lease = (IF arbitrated THEN "held" ELSE "none")
    BY <1>1, LeasingIs
  <1> HIDE DEF u
  <1>3. /\ user' \in [Users -> UserType] /\ user'[c] = u
        /\ \A d \in Users \ {c} : user'[d] = user[d]
    BY <1>2, Moved DEF AcquireLease, ChannelsInv, ChannelsTypeOK, u
  <1>4. ChannelsTypeOK'
    BY <1>3 DEF AcquireLease, ChannelsInv, ChannelsTypeOK, lineVars
  <1>5. \A d \in Users : UserShape(user[d])'
    BY <1>1, <1>2, <1>3 DEF AcquireLease, ChannelsInv, UserShape, HoldsChannel, OverAT, lineVars
  <1>6. \A d \in Users : LockSound(d)'
    BY <1>2, <1>3 DEF AcquireLease, ChannelsInv, LockSound
  <1>7. LeasesApart'
    <2>1. arbitrated => \A d \in Leased \ {c} :
            ByChannel(user[d]) /\ ByChannel(user[c]) /\ user[d].chan # user[c].chan
      BY DEF AcquireLease, MayLease, About, ByChannel
    <2> QED BY <1>2, <1>3, <2>1 DEF AcquireLease, ChannelsInv, LeasesApart, Leased, ByChannel, lineVars
  <1>8. MutexesApart'
    BY <1>2, <1>3, MutexesKept DEF ChannelsInv
  <1>9. OpenersSound'
    BY <1>2, <1>3, OpenersKept DEF AcquireLease, ChannelsInv, HoldsChannel
  <1>10. NothingLost'
    BY <1>2, <1>3, LostKept DEF AcquireLease, ChannelsInv, lineVars
  <1>11. up' # "up" => era' # 0
    BY DEF AcquireLease, ChannelsInv
  <1> QED BY <1>4, <1>5, <1>6, <1>7, <1>8, <1>9, <1>10, <1>11 DEF ChannelsInv

LEMMA EvictKeeps ==
  ASSUME ChannelsInv, NEW c \in Users, Evict(c)
  PROVE  ChannelsInv'
  <1> DEFINE u == Evicted(user[c])
  <1>1. user[c] \in UserType
    BY DEF ChannelsInv, ChannelsTypeOK
  <1>2. /\ u \in UserType /\ u.at = user[c].at /\ u.job = user[c].job /\ u.next = user[c].next
        /\ u.n = user[c].n /\ u.chan = user[c].chan /\ u.spoiled = user[c].spoiled
        /\ u.era = user[c].era /\ u.lease = "evicted"
    BY <1>1, EvictedIs
  <1> HIDE DEF u
  <1>3. /\ user' \in [Users -> UserType] /\ user'[c] = u
        /\ \A d \in Users \ {c} : user'[d] = user[d]
    BY <1>2, Moved DEF Evict, ChannelsInv, ChannelsTypeOK, u
  <1>4. failures' \in 0 .. MaxChannelFaults /\ failures' # 0
    BY ChannelsAssumption DEF Evict, Failure, ChannelsInv, ChannelsTypeOK
  <1>5. ChannelsTypeOK'
    BY <1>3, <1>4 DEF Evict, ChannelsInv, ChannelsTypeOK, lineVars
  <1>6. \A d \in Users : UserShape(user[d])'
    BY <1>1, <1>2, <1>3 DEF Evict, ChannelsInv, UserShape, HoldsChannel, OverAT, lineVars
  <1>7. \A d \in Users : LockSound(d)'
    BY <1>2, <1>3 DEF Evict, ChannelsInv, LockSound
  <1>8. LeasesApart'
    BY <1>2, <1>3, LeasesKept DEF Evict, ChannelsInv, lineVars
  <1>9. MutexesApart'
    BY <1>2, <1>3, MutexesKept DEF ChannelsInv
  <1>10. OpenersSound'
    BY <1>2, <1>3, OpenersKept DEF Evict, ChannelsInv, HoldsChannel
  <1>11. NothingLost'
    BY <1>4 DEF NothingLost
  <1>12. up' # "up" => era' # 0
    BY DEF Evict, ChannelsInv
  <1> QED BY <1>5, <1>6, <1>7, <1>8, <1>9, <1>10, <1>11, <1>12 DEF ChannelsInv

LEMMA TakeMutexKeeps ==
  ASSUME ChannelsInv, NEW c \in Users, TakeMutex(c)
  PROVE  ChannelsInv'
  <1> DEFINE u == OnCard(user[c])
  <1>1. /\ user[c] \in UserType /\ user[c].at = "mutex"
        /\ user' = [user EXCEPT ![c] = u]
        /\ \A d \in Users : AtCard(d) =>
             ~OneLine /\ (user[d].era = user[c].era => MutexOf(user[d]) # MutexOf(user[c]))
        /\ UNCHANGED <<lineVars, up, era, sessions, opener, writer, met, failures>>
    BY DEF TakeMutex, TakesMutex, ChannelsInv, ChannelsTypeOK
  <1>2. /\ u \in UserType /\ u.at = "card" /\ u.job = user[c].job /\ u.next = user[c].next
        /\ u.n = user[c].n /\ u.chan = user[c].chan /\ u.spoiled = user[c].spoiled
        /\ u.era = user[c].era /\ u.lease = user[c].lease
    BY <1>1, OnCardIs
  <1> HIDE DEF u
  <1>3. /\ user' \in [Users -> UserType] /\ user'[c] = u
        /\ \A d \in Users \ {c} : user'[d] = user[d]
    BY <1>1, <1>2, Moved DEF ChannelsInv, ChannelsTypeOK
  <1>4. ChannelsTypeOK'
    BY <1>1, <1>3 DEF ChannelsInv, ChannelsTypeOK, lineVars
  <1>5. \A d \in Users : UserShape(user[d])'
    BY <1>1, <1>2, <1>3 DEF ChannelsInv, UserShape, HoldsChannel, OverAT, lineVars
  <1>6. \A d \in Users : LockSound(d)'
    BY <1>1, <1>2, <1>3 DEF ChannelsInv, LockSound
  <1>7. LeasesApart'
    BY <1>1, <1>2, <1>3, LeasesKept DEF ChannelsInv, lineVars
  <1>8. MutexesApart'
    BY <1>1, <1>2, <1>3 DEF ChannelsInv, MutexesApart, AtCard, MutexOf
  <1>9. OpenersSound'
    BY <1>1, <1>2, <1>3, OpenersKept DEF ChannelsInv, HoldsChannel
  <1>10. NothingLost'
    BY <1>1, <1>2, <1>3, LostKept DEF ChannelsInv, lineVars
  <1>11. up' # "up" => era' # 0
    BY <1>1 DEF ChannelsInv
  <1> QED BY <1>4, <1>5, <1>6, <1>7, <1>8, <1>9, <1>10, <1>11 DEF ChannelsInv

LEMMA RequestKeeps ==
  ASSUME ChannelsInv, NEW c \in Users, Request(c)
  PROVE  ChannelsInv'
  <1>1. PICK op \in (IF user[c].next = "have" THEN {"send", "close"} ELSE {user[c].next}) :
          /\ user' = [user EXCEPT ![c] = Asking(user[c], op)]
          /\ sessions' = IF op \in {"sweep", "close"} THEN sessions \ {About(user'[c])} ELSE sessions
    BY DEF Request
  <1> DEFINE u == Asking(user[c], op)
  <1>2. /\ user[c] \in UserType /\ user[c].at = "rest" /\ user[c].lease # "held"
        /\ user[c].next \in {"sweep", "open", "have"}
        /\ UNCHANGED <<lineVars, up, era, opener, writer, met, failures>>
    BY DEF Request, ChannelsInv, ChannelsTypeOK, UserShape
  <1>3. op \in Nexts /\ op \in {"sweep", "open", "send", "close"}
        /\ (op = "sweep" <=> user[c].next = "sweep") /\ (op = "open" <=> user[c].next = "open")
    BY <1>1, <1>2 DEF Nexts
  <1>4. /\ u \in UserType /\ u.at = "lease" /\ u.job = user[c].job /\ u.next = op
        /\ u.n = user[c].n /\ u.chan = user[c].chan /\ u.spoiled = user[c].spoiled
        /\ u.era = user[c].era /\ u.lease = user[c].lease
    BY <1>2, <1>3, AskingIs
  <1> HIDE DEF u
  <1>5. /\ user' \in [Users -> UserType] /\ user'[c] = u
        /\ \A d \in Users \ {c} : user'[d] = user[d]
    BY <1>1, <1>4, Moved DEF ChannelsInv, ChannelsTypeOK, u
  <1>6. ChannelsTypeOK'
    BY <1>1, <1>2, <1>5 DEF ChannelsInv, ChannelsTypeOK, lineVars
  <1>7. \A d \in Users : UserShape(user[d])'
    BY <1>2, <1>3, <1>4, <1>5 DEF ChannelsInv, UserShape, HoldsChannel, OverAT, lineVars
  <1>8. \A d \in Users : LockSound(d)'
    BY <1>2, <1>3, <1>4, <1>5 DEF ChannelsInv, LockSound
  <1>9. LeasesApart' /\ MutexesApart' /\ OpenersSound'
    BY <1>2, <1>3, <1>4, <1>5, QuietKeeps DEF HoldsChannel, lineVars
  <1>10. NothingLost'
    <2>1. CASE op # "close"
      <3>1. mode \in {"QMI", "MBIM"} => op # "sweep"
        BY <1>3 DEF ChannelsInv, UserShape, OverAT
      <3>2. InUse' = InUse
        BY <2>1, <1>2, <1>3, <1>4, <1>5 DEF InUse
      <3> QED BY <2>1, <3>1, <3>2, <1>1, <1>2, <1>4, <1>5 DEF ChannelsInv, ChannelsTypeOK, NothingLost, lineVars
    <2>2. CASE op = "close"
      <3>1. sessions' = sessions \ {user[c].chan}
        BY <2>2, <1>1, <1>4, <1>5 DEF About
      <3> SUFFICES ASSUME failures = 0, era = 0
                   PROVE  /\ \A k \in CardChannels : opener[k] # Unused => user'[opener[k]].chan = k
                          /\ mode \in {"QMI", "MBIM"} =>
                               (\A d \in Users : ~user'[d].spoiled) /\ sessions' = InUse'
        BY <1>2 DEF NothingLost, lineVars
      <3>2. \A k \in CardChannels : opener[k] # Unused => user'[opener[k]].chan = k
        BY <1>4, <1>5 DEF ChannelsInv, ChannelsTypeOK, NothingLost
      <3>3. ASSUME mode \in {"QMI", "MBIM"}
            PROVE  (\A d \in Users : ~user'[d].spoiled) /\ sessions' = InUse'
        <4>1. (\A d \in Users : ~user[d].spoiled) /\ sessions = InUse
          BY <3>3 DEF ChannelsInv, NothingLost
        <4>2. user[c].next = "have"
          BY <2>2, <1>2, <1>3
        <4>3. \A d \in Users \ {c} : user[d].next \in {"have", "send"} => user[d].chan # user[c].chan
          BY <4>1, <4>2 DEF ChannelsInv, OpenersSound, HoldsChannel
        <4>4. InUse' = InUse \ {user[c].chan}
          BY <2>2, <4>2, <4>3, <1>4, <1>5 DEF InUse
        <4> QED BY <3>1, <4>1, <4>4, <1>4, <1>5
      <3> QED BY <3>2, <3>3
    <2> QED BY <2>1, <2>2
  <1>11. up' # "up" => era' # 0
    BY <1>2 DEF ChannelsInv
  <1> QED BY <1>6, <1>7, <1>8, <1>9, <1>10, <1>11 DEF ChannelsInv

-----------------------------------------------------------------------------
(* A call has ended; meanwhile the others at most learnt that their channel *)
(* is lost.                                                                *)
EndsFor(c, opened, f) ==
  /\ f \in [Users -> UserType]
  /\ \A d \in Users :
       /\ f[d].job = user[d].job /\ f[d].next = user[d].next /\ f[d].at = user[d].at
       /\ f[d].n = user[d].n /\ f[d].chan = user[d].chan /\ f[d].era = user[d].era
       /\ f[d].lease = user[d].lease /\ (user[d].spoiled => f[d].spoiled)
  /\ opened \in CardChannels \cup {0} /\ user[c].at # "rest"
  /\ Becomes(c, After(user[c], opened), f)
  /\ UNCHANGED <<lineVars, up, era>> /\ failures' \in 0 .. MaxChannelFaults

LEMMA EndKeeps ==
  ASSUME ChannelsInv, NEW c \in Users, NEW opened, NEW f, EndsFor(c, opened, f)
  PROVE  /\ user' \in [Users -> UserType] /\ user'[c] = After(user[c], opened)
         /\ \A d \in Users \ {c} : user'[d] = f[d]
         /\ writer' \in Users \cup {NoUser} /\ met' \subseteq Users \ {writer'}
         /\ \A d \in Users : UserShape(user[d])' /\ LockSound(d)'
         /\ LeasesApart' /\ MutexesApart' /\ (up' # "up" => era' # 0)
  <1> DEFINE u == After(user[c], opened)
  <1>1. /\ user[c] \in UserType /\ (user[c].next = "sweep" => OverAT /\ user[c].n \in CardChannels)
        /\ user[c].at # "rest" /\ opened \in CardChannels \cup {0}
        /\ user[c].next \notin {"idle", "wait", "have"}
        /\ user[c].next = "send" => user[c].chan # 0
    BY DEF EndsFor, ChannelsInv, ChannelsTypeOK, UserShape, HoldsChannel
  <1>2. /\ u \in UserType /\ u.at = "rest" /\ u.lease = "none"
        /\ u = Idle \/ (u.next # "idle" /\ u.job = user[c].job /\ u.spoiled = user[c].spoiled)
        /\ user[c].next = "sweep" =>
             /\ u.chan = 0 /\ u.next \in {"sweep", "open"}
             /\ u.next = "sweep" => u.n \in CardChannels
        /\ user[c].next = "open" => u.chan = opened /\ u.next = (IF opened = 0 THEN "open" ELSE "have")
        /\ user[c].next = "send" => u.chan = user[c].chan /\ u.next = "have"
        /\ user[c].next \notin {"sweep", "open", "send"} => u = Idle
    BY <1>1, AfterIs
  <1>3. u # Idle => user[c].next \in {"sweep", "open", "send"}
    BY <1>2
  <1> HIDE DEF u
  <1>4. /\ user' \in [Users -> UserType] /\ user'[c] = u
        /\ \A d \in Users \ {c} : user'[d] = f[d]
    BY <1>2, Moved DEF EndsFor, Becomes, u
  <1>5. \A d \in Users : UserShape(user[d])'
    <2>1. UserShape(u)
      <3>1. CASE u = Idle
        BY <3>1, IdleIs DEF UserShape, HoldsChannel
      <3>2. CASE u # Idle
        BY <3>2, <1>1, <1>2, <1>3 DEF UserShape, HoldsChannel
      <3> QED BY <3>1, <3>2
    <2>2. \A d \in Users \ {c} : UserShape(user'[d])
      BY <1>4 DEF EndsFor, ChannelsInv, UserShape, HoldsChannel
    <2> QED BY <1>4, <2>1, <2>2 DEF EndsFor, UserShape, HoldsChannel, OverAT, lineVars
  <1>6. /\ \A d \in Users : LockSound(d)'
        /\ writer' \in Users \cup {NoUser} /\ met' \subseteq Users \ {writer'}
    BY <1>1, <1>2, LockKept DEF EndsFor, u
  <1>7. LeasesApart'
    BY <1>2, <1>4, LeasesKept DEF EndsFor, ChannelsInv, lineVars
  <1>8. MutexesApart'
    BY <1>2, <1>4, MutexesKept DEF EndsFor, ChannelsInv
  <1> QED BY <1>4, <1>5, <1>6, <1>7, <1>8 DEF EndsFor, ChannelsInv, u

(* A call that opens nothing: the channels are whose they were. *)
LEMMA EndKeepsOpeners ==
  ASSUME ChannelsInv, NEW c \in Users, NEW f, EndsFor(c, 0, f), UNCHANGED opener
  PROVE  OpenersSound'
  <1>1. /\ user[c] \in UserType /\ (user[c].next = "sweep" => user[c].n \in CardChannels)
        /\ 0 \in CardChannels \cup {0}
    BY DEF EndsFor, ChannelsInv, ChannelsTypeOK, UserShape
  <1>2. HoldsChannel(After(user[c], 0)) =>
          /\ user[c].next = "send" /\ After(user[c], 0).chan = user[c].chan
          /\ After(user[c], 0).spoiled = user[c].spoiled
    BY <1>1, AfterIs, IdleIs DEF HoldsChannel
  <1>3. user'[c] = After(user[c], 0) /\ \A d \in Users \ {c} : user'[d] = f[d]
    BY EndKeeps
  <1> QED BY <1>2, <1>3, OpenersKept DEF EndsFor, ChannelsInv, HoldsChannel

(* One that fails or sends, while nobody learns of it. *)
LEMMA QuietEnd ==
  ASSUME ChannelsInv, NEW c \in Users, Becomes(c, After(user[c], 0), user), user[c].at # "rest",
         UNCHANGED <<lineVars, up, era, sessions, opener>>,
         \/ failures' \in 1 .. MaxChannelFaults
         \/ UNCHANGED failures /\ (era # 0 \/ user[c].next \in {"send", "basic"})
         \/ UNCHANGED failures /\ user[c].next = "open"
  PROVE  ChannelsInv'
  <1>1. EndsFor(c, 0, user)
    BY ChannelsAssumption DEF EndsFor, ChannelsInv, ChannelsTypeOK
  <1>2. /\ user' \in [Users -> UserType] /\ user'[c] = After(user[c], 0)
        /\ \A d \in Users \ {c} : user'[d] = user[d]
        /\ writer' \in Users \cup {NoUser} /\ met' \subseteq Users \ {writer'}
        /\ \A d \in Users : UserShape(user[d])' /\ LockSound(d)'
        /\ LeasesApart' /\ MutexesApart' /\ (up' # "up" => era' # 0)
    BY <1>1, EndKeeps
  <1>3. ChannelsTypeOK'
    BY <1>1, <1>2 DEF EndsFor, ChannelsInv, ChannelsTypeOK, lineVars
  <1>4. OpenersSound'
    BY <1>1, EndKeepsOpeners
  <1>5. NothingLost'
    <2>1. CASE failures' # 0 \/ era # 0
      BY <2>1 DEF NothingLost
    <2>2. CASE failures' = 0 /\ era = 0
      <3>1. UNCHANGED failures /\ user[c].next \in {"send", "basic", "open"}
        BY <2>2
      <3>2. user[c] \in UserType /\ 0 \in CardChannels \cup {0} /\ UserShape(user[c])
        BY DEF ChannelsInv, ChannelsTypeOK
      <3>3. /\ After(user[c], 0).chan = user[c].chan
            /\ After(user[c], 0).spoiled => user[c].spoiled
            /\ After(user[c], 0).next \in {"have", "send"} <=> user[c].next \in {"have", "send"}
        BY <3>1, <3>2, AfterIs, IdleIs DEF UserShape, HoldsChannel
      <3> QED BY <1>2, <3>1, <3>3, LostKept DEF ChannelsInv, lineVars
    <2> QED BY <2>1, <2>2 DEF ChannelsInv, ChannelsTypeOK
  <1> QED BY <1>2, <1>3, <1>4, <1>5 DEF ChannelsInv

LEMMA SendAnswersKeeps ==
  ASSUME ChannelsInv, NEW c \in Users, SendAnswers(c)
  PROVE  ChannelsInv'
  BY QuietEnd DEF SendAnswers, Served, AtCard

LEMMA CallFailsKeeps ==
  ASSUME ChannelsInv, NEW c \in Users, CallFails(c)
  PROVE  ChannelsInv'
  <1>1. CASE user[c].at = "lease" /\ Failure
    <2>1. failures' \in 1 .. MaxChannelFaults
      BY <1>1, ChannelsAssumption DEF Failure, ChannelsInv, ChannelsTypeOK
    <2> QED BY <1>1, <2>1, QuietEnd DEF CallFails
  <1>2. CASE user[c].at \in {"mutex", "card"} /\ up = "down" /\ UNCHANGED failures
    <2>1. era # 0 /\ user[c].at # "rest"
      BY <1>2 DEF ChannelsInv
    <2> QED BY <1>2, <2>1, QuietEnd DEF CallFails
  <1> QED BY <1>1, <1>2 DEF CallFails


(* A call that may have opened a channel. *)
LEMMA OpenAnswersKeeps ==
  ASSUME ChannelsInv, NEW c \in Users, OpenAnswers(c)
  PROVE  ChannelsInv'
  <1>0. /\ user[c] \in UserType /\ user[c].next = "open" /\ user[c].at # "rest"
        /\ user[c].chan = 0 /\ 0 \in CardChannels \cup {0} /\ c \in Users
        /\ UNCHANGED <<lineVars, up, era>> /\ Unused \notin Users
        /\ \A k \in CardChannels : k # 0
    BY ChannelsAssumption DEF OpenAnswers, Served, AtCard, ChannelsInv, ChannelsTypeOK, UserShape,
       HoldsChannel, Unused, CardChannels
  <1>1. ASSUME UNCHANGED <<sessions, opener>>, Becomes(c, After(user[c], 0), user),
               Failure \/ UNCHANGED failures
        PROVE  ChannelsInv'
    <2>1. failures' \in 1 .. MaxChannelFaults \/ UNCHANGED failures
      BY <1>1, ChannelsAssumption DEF Failure, ChannelsInv, ChannelsTypeOK
    <2> QED BY <1>0, <1>1, <2>1, QuietEnd
  <1>2. ASSUME NEW k \in CardChannels, opener[k] = Unused, opener' = [opener EXCEPT ![k] = c],
               sessions' = (IF OverUSB THEN sessions ELSE sessions \cup {k}),
               Becomes(c, After(user[c], k), user), UNCHANGED failures
        PROVE  ChannelsInv'
    <2>1. EndsFor(c, k, user)
      BY <1>0, <1>2, ChannelsAssumption DEF EndsFor, ChannelsInv, ChannelsTypeOK
    <2>2. /\ user' \in [Users -> UserType] /\ user'[c] = After(user[c], k)
          /\ \A d \in Users \ {c} : user'[d] = user[d]
          /\ writer' \in Users \cup {NoUser} /\ met' \subseteq Users \ {writer'}
          /\ \A d \in Users : UserShape(user[d])' /\ LockSound(d)'
          /\ LeasesApart' /\ MutexesApart' /\ (up' # "up" => era' # 0)
      BY <2>1, EndKeeps
    <2>3. /\ user'[c].chan = k /\ user'[c].next = "have"
          /\ user'[c].spoiled = user[c].spoiled
      BY <1>0, <2>2, AfterIs, IdleIs
    <2>4. opener' \in [CardChannels -> Users \cup {Unused}] /\ opener'[k] = c
          /\ \A l \in CardChannels \ {k} : opener'[l] = opener[l]
      BY <1>2 DEF ChannelsInv, ChannelsTypeOK
    <2>5. ChannelsTypeOK'
      BY <1>0, <1>2, <2>2, <2>4 DEF ChannelsInv, ChannelsTypeOK, lineVars
    <2>6. OpenersSound'
      <3>1. ASSUME NEW d \in Users \ {c}, HoldsChannel(user[d]), ~user[d].spoiled
            PROVE  opener'[user[d].chan] = d
        <4>1. opener[user[d].chan] = d /\ user[d].chan \in CardChannels
          BY <3>1 DEF ChannelsInv, ChannelsTypeOK, OpenersSound, UserType, UserShape
        <4> QED BY <1>0, <1>2, <2>4, <4>1
      <3> QED BY <2>2, <2>3, <2>4, <3>1 DEF OpenersSound
    <2>7. NothingLost'
      <3> SUFFICES ASSUME failures = 0, era = 0
                   PROVE  /\ \A l \in CardChannels : opener'[l] # Unused => user'[opener'[l]].chan = l
                          /\ mode \in {"QMI", "MBIM"} =>
                               (\A d \in Users : ~user'[d].spoiled) /\ sessions' = InUse'
        BY <1>0, <1>2 DEF NothingLost, lineVars
      <3>1. ASSUME NEW l \in CardChannels, opener'[l] # Unused
            PROVE  user'[opener'[l]].chan = l
        <4>1. CASE l = k
          BY <4>1, <2>3, <2>4
        <4>2. CASE l # k
          <5>1. opener'[l] = opener[l] /\ opener[l] \in Users /\ user[opener[l]].chan = l
            BY <3>1, <4>2, <2>4 DEF ChannelsInv, ChannelsTypeOK, NothingLost
          <5>2. opener[l] # c
            BY <1>0, <5>1
          <5> QED BY <2>2, <5>1, <5>2
        <4> QED BY <4>1, <4>2
      <3>2. ASSUME mode \in {"QMI", "MBIM"}
            PROVE  (\A d \in Users : ~user'[d].spoiled) /\ sessions' = InUse'
        <4>1. (\A d \in Users : ~user[d].spoiled) /\ sessions = InUse
          BY <3>2 DEF ChannelsInv, NothingLost
        <4>2. sessions' = sessions \cup {k}
          BY <1>2, <3>2 DEF OverUSB
        <4>3. InUse' = InUse \cup {k}
          BY <1>0, <2>2, <2>3 DEF InUse
        <4> QED BY <2>2, <2>3, <4>1, <4>2, <4>3
      <3> QED BY <3>1, <3>2
    <2> QED BY <2>2, <2>5, <2>6, <2>7 DEF ChannelsInv
  <1>3. ASSUME NEW k \in CardChannels, opener[k] = Unused, opener' = [opener EXCEPT ![k] = c],
               Failure, Becomes(c, After(user[c], 0), user), UNCHANGED sessions
        PROVE  ChannelsInv'
    <2>0. failures' \in 0 .. MaxChannelFaults /\ failures' # 0
      BY <1>3, ChannelsAssumption DEF Failure, ChannelsInv, ChannelsTypeOK
    <2>1. EndsFor(c, 0, user)
      BY <1>0, <1>3, <2>0 DEF EndsFor, ChannelsInv, ChannelsTypeOK
    <2>2. /\ user' \in [Users -> UserType] /\ user'[c] = After(user[c], 0)
          /\ \A d \in Users \ {c} : user'[d] = user[d]
          /\ writer' \in Users \cup {NoUser} /\ met' \subseteq Users \ {writer'}
          /\ \A d \in Users : UserShape(user[d])' /\ LockSound(d)'
          /\ LeasesApart' /\ MutexesApart' /\ (up' # "up" => era' # 0)
      BY <2>1, EndKeeps
    <2>3. user'[c].next = "open"
      BY <1>0, <2>2, AfterIs, IdleIs
    <2>4. opener' \in [CardChannels -> Users \cup {Unused}]
          /\ \A l \in CardChannels \ {k} : opener'[l] = opener[l]
      BY <1>3 DEF ChannelsInv, ChannelsTypeOK
    <2>5. ChannelsTypeOK'
      BY <1>0, <1>3, <2>0, <2>2, <2>4 DEF ChannelsInv, ChannelsTypeOK, lineVars
    <2>6. OpenersSound'
      <3>1. ASSUME NEW d \in Users \ {c}, HoldsChannel(user[d]), ~user[d].spoiled
            PROVE  opener'[user[d].chan] = d
        <4>1. opener[user[d].chan] = d /\ user[d].chan \in CardChannels
          BY <3>1 DEF ChannelsInv, ChannelsTypeOK, OpenersSound, UserType, UserShape
        <4> QED BY <1>0, <1>3, <2>4, <4>1
      <3> QED BY <2>2, <2>3, <3>1 DEF OpenersSound, HoldsChannel
    <2>7. NothingLost'
      BY <2>0 DEF NothingLost
    <2> QED BY <2>2, <2>5, <2>6, <2>7 DEF ChannelsInv
  <1>4. \/ \E k \in CardChannels :
             /\ opener[k] = Unused /\ opener' = [opener EXCEPT ![k] = c]
             /\ \/ /\ sessions' = IF OverUSB THEN sessions ELSE sessions \cup {k}
                   /\ Becomes(c, After(user[c], k), user) /\ UNCHANGED failures
                \/ Failure /\ Becomes(c, After(user[c], 0), user) /\ UNCHANGED sessions
        \/ /\ UNCHANGED <<sessions, opener>> /\ Becomes(c, After(user[c], 0), user)
           /\ Failure \/ UNCHANGED failures
    BY DEF OpenAnswers
  <1> QED BY <1>1, <1>2, <1>3, <1>4

(* A channel that is closed takes the channel of whoever still counts on it. *)
LEMMA CloseAnswersKeeps ==
  ASSUME ChannelsInv, NEW c \in Users, CloseAnswers(c)
  PROVE  ChannelsInv'
  <1> DEFINE k == About(user[c])
             f == [d \in Users |-> Bereft(user[d], d # c /\ user[d].chan = k)]
  <1>0. /\ user[c] \in UserType /\ user[c].next \in {"close", "sweep"} /\ user[c].at # "rest"
        /\ 0 \in CardChannels \cup {0} /\ Unused \notin Users /\ k \in CardChannels
        /\ user[c].next = "close" => user[c].chan = k
        /\ user[c].next = "sweep" => user[c].chan = 0 /\ OverAT /\ user[c].n \in CardChannels
        /\ UNCHANGED <<lineVars, up, era, sessions>>
    BY ChannelsAssumption DEF CloseAnswers, Served, AtCard, ChannelsInv, ChannelsTypeOK,
       UserShape, HoldsChannel, Unused, About, UserType
  <1>1. /\ f \in [Users -> UserType]
        /\ \A d \in Users :
             /\ f[d].job = user[d].job /\ f[d].next = user[d].next /\ f[d].at = user[d].at
             /\ f[d].n = user[d].n /\ f[d].chan = user[d].chan /\ f[d].era = user[d].era
             /\ f[d].lease = user[d].lease
             /\ f[d].spoiled = (user[d].spoiled \/ (d # c /\ user[d].chan = k))
    <2>1. ASSUME NEW d \in Users
          PROVE  /\ user[d] \in UserType /\ (d # c /\ user[d].chan = k) \in BOOLEAN
                 /\ f[d] = Bereft(user[d], d # c /\ user[d].chan = k)
      BY DEF ChannelsInv, ChannelsTypeOK
    <2> HIDE DEF k
    <2>2. ASSUME NEW d \in Users
          PROVE  /\ Bereft(user[d], d # c /\ user[d].chan = k) \in UserType
                 /\ f[d].job = user[d].job /\ f[d].next = user[d].next /\ f[d].at = user[d].at
                 /\ f[d].n = user[d].n /\ f[d].chan = user[d].chan /\ f[d].era = user[d].era
                 /\ f[d].lease = user[d].lease
                 /\ f[d].spoiled = (user[d].spoiled \/ (d # c /\ user[d].chan = k))
      BY <2>1, BereftIs
    <2> QED BY <2>2
  <1>2. \/ /\ opener' = [opener EXCEPT ![k] = Unused] /\ Becomes(c, After(user[c], 0), f)
           /\ Failure \/ UNCHANGED failures
        \/ Failure /\ UNCHANGED opener /\ Becomes(c, After(user[c], 0), user)
    BY DEF CloseAnswers
  <1> HIDE DEF k, f
  <1>3. ASSUME Failure, UNCHANGED opener, Becomes(c, After(user[c], 0), user)
        PROVE  ChannelsInv'
    <2>1. failures' \in 1 .. MaxChannelFaults
      BY <1>3, ChannelsAssumption DEF Failure, ChannelsInv, ChannelsTypeOK
    <2> QED BY <1>0, <1>3, <2>1, QuietEnd
  <1>4. ASSUME opener' = [opener EXCEPT ![k] = Unused], Becomes(c, After(user[c], 0), f),
               Failure \/ UNCHANGED failures
        PROVE  ChannelsInv'
    <2>0. failures' \in 0 .. MaxChannelFaults /\ (failures' = 0 => failures = 0)
      BY <1>4, ChannelsAssumption DEF Failure, ChannelsInv, ChannelsTypeOK
    <2>1. EndsFor(c, 0, f)
      BY <1>0, <1>1, <1>4, <2>0 DEF EndsFor
    <2>2. /\ user' \in [Users -> UserType] /\ user'[c] = After(user[c], 0)
          /\ \A d \in Users \ {c} : user'[d] = f[d]
          /\ writer' \in Users \cup {NoUser} /\ met' \subseteq Users \ {writer'}
          /\ \A d \in Users : UserShape(user[d])' /\ LockSound(d)'
          /\ LeasesApart' /\ MutexesApart' /\ (up' # "up" => era' # 0)
      BY <2>1, EndKeeps
    <2>3. user'[c].next \in {"idle", "sweep", "open"}
      BY <1>0, <2>2, AfterIs, IdleIs
    <2>4. /\ opener' \in [CardChannels -> Users \cup {Unused}] /\ opener'[k] = Unused
          /\ \A l \in CardChannels \ {k} : opener'[l] = opener[l]
      BY <1>0, <1>4 DEF ChannelsInv, ChannelsTypeOK
    <2>5. ChannelsTypeOK'
      BY <1>0, <2>0, <2>2, <2>4 DEF ChannelsInv, ChannelsTypeOK, lineVars
    <2>6. OpenersSound'
      <3>1. ASSUME NEW d \in Users \ {c}, HoldsChannel(f[d]), ~f[d].spoiled
            PROVE  opener'[f[d].chan] = d
        <4>1. /\ HoldsChannel(user[d]) /\ ~user[d].spoiled /\ user[d].chan # k
              /\ f[d].chan = user[d].chan
          BY <1>1, <3>1 DEF HoldsChannel
        <4>2. opener[user[d].chan] = d /\ user[d].chan \in CardChannels
          BY <4>1 DEF ChannelsInv, ChannelsTypeOK, OpenersSound, UserType, UserShape
        <4> QED BY <2>4, <4>1, <4>2
      <3> QED BY <2>2, <2>3, <3>1 DEF OpenersSound, HoldsChannel
    <2>7. NothingLost'
      <3> SUFFICES ASSUME failures = 0, era = 0
                   PROVE  /\ \A l \in CardChannels : opener'[l] # Unused => user'[opener'[l]].chan = l
                          /\ mode \in {"QMI", "MBIM"} =>
                               (\A d \in Users : ~user'[d].spoiled) /\ sessions' = InUse'
        BY <1>0, <2>0 DEF NothingLost, lineVars
      <3>1. ASSUME NEW l \in CardChannels, opener'[l] # Unused
            PROVE  user'[opener'[l]].chan = l
        <4>1. l # k /\ opener'[l] = opener[l] /\ opener[l] \in Users /\ user[opener[l]].chan = l
          BY <2>4, <3>1 DEF ChannelsInv, ChannelsTypeOK, NothingLost
        <4>2. opener[l] # c
          BY <1>0, <4>1 DEF CardChannels
        <4> QED BY <1>1, <2>2, <4>1, <4>2
      <3>2. ASSUME mode \in {"QMI", "MBIM"}
            PROVE  (\A d \in Users : ~user'[d].spoiled) /\ sessions' = InUse'
        <4>1. (\A d \in Users : ~user[d].spoiled) /\ sessions = InUse
          BY <3>2 DEF ChannelsInv, NothingLost
        <4>2. user[c].next = "close" /\ user'[c] = Idle
          BY <1>0, <2>2, <3>2, AfterIs DEF OverAT
        <4>3. opener[k] = c
          BY <1>0, <4>1, <4>2 DEF ChannelsInv, OpenersSound, HoldsChannel
        <4>4. \A d \in Users \ {c} : user[d].chan # k
          BY <1>0, <4>1, <4>3 DEF ChannelsInv, OpenersSound, UserShape, CardChannels
        <4>5. InUse' = InUse
          BY <1>1, <2>2, <4>2, IdleIs DEF InUse
        <4> QED BY <1>0, <1>1, <2>2, <4>1, <4>2, <4>4, <4>5, IdleIs
      <3> QED BY <3>1, <3>2
    <2> QED BY <2>2, <2>5, <2>6, <2>7 DEF ChannelsInv
  <1> QED BY <1>2, <1>3, <1>4

-----------------------------------------------------------------------------
(* Every channel is lost at once. *)
LEMMA SpoiledKeeps ==
  ASSUME ChannelsInv, user' = Spoiled, UNCHANGED <<lineVars, writer, met>>
  PROVE  /\ user' \in [Users -> UserType]
         /\ \A d \in Users : UserShape(user[d])' /\ LockSound(d)'
         /\ LeasesApart' /\ MutexesApart' /\ OpenersSound'
  <1>1. ASSUME NEW d \in Users
        PROVE  /\ user'[d] \in UserType
               /\ user'[d].job = user[d].job /\ user'[d].next = user[d].next
               /\ user'[d].at = user[d].at /\ user'[d].n = user[d].n
               /\ user'[d].chan = user[d].chan /\ user'[d].era = user[d].era
               /\ user'[d].lease = user[d].lease
               /\ user'[d].spoiled = (user[d].spoiled \/ user[d].chan # 0)
    <2> DEFINE u == user[d]
               lost == user[d].chan # 0
    <2>1. u \in UserType /\ lost \in BOOLEAN /\ user'[d] = Bereft(u, lost)
      BY DEF Spoiled, ChannelsInv, ChannelsTypeOK
    <2> HIDE DEF u, lost
    <2>2. /\ Bereft(u, lost) \in UserType
          /\ Bereft(u, lost).job = u.job /\ Bereft(u, lost).next = u.next
          /\ Bereft(u, lost).at = u.at /\ Bereft(u, lost).n = u.n
          /\ Bereft(u, lost).chan = u.chan /\ Bereft(u, lost).era = u.era
          /\ Bereft(u, lost).lease = u.lease /\ Bereft(u, lost).spoiled = (u.spoiled \/ lost)
      BY <2>1, BereftIs
    <2> QED BY <2>1, <2>2 DEF u, lost
  <1>2. user' \in [Users -> UserType]
    BY <1>1 DEF Spoiled
  <1>3. \A d \in Users : UserShape(user[d])'
    BY <1>1 DEF ChannelsInv, UserShape, HoldsChannel, OverAT, lineVars
  <1>4. \A d \in Users : LockSound(d)'
    BY <1>1 DEF ChannelsInv, LockSound
  <1>5. LeasesApart'
    BY <1>1, LeasesKept DEF ChannelsInv, lineVars
  <1>6. MutexesApart'
    BY <1>1, MutexesKept DEF ChannelsInv
  <1>7. OpenersSound'
    BY <1>1 DEF ChannelsInv, OpenersSound, UserShape, HoldsChannel
  <1> QED BY <1>2, <1>3, <1>4, <1>5, <1>6, <1>7

LEMMA CardResetsKeeps ==
  ASSUME ChannelsInv, CardResets
  PROVE  ChannelsInv'
  <1>1. failures' \in 0 .. MaxChannelFaults /\ failures' # 0
    BY ChannelsAssumption DEF CardResets, Failure, ChannelsInv, ChannelsTypeOK
  <1>2. /\ user' \in [Users -> UserType]
        /\ \A d \in Users : UserShape(user[d])' /\ LockSound(d)'
        /\ LeasesApart' /\ MutexesApart' /\ OpenersSound'
    BY SpoiledKeeps DEF CardResets
  <1>3. ChannelsTypeOK'
    BY <1>1, <1>2 DEF CardResets, ChannelsInv, ChannelsTypeOK, lineVars
  <1> QED BY <1>1, <1>2, <1>3 DEF CardResets, ChannelsInv, NothingLost

LEMMA StopBeginsKeeps ==
  ASSUME ChannelsInv, StopBegins
  PROVE  ChannelsInv'
  <1>1. era' \in 0 .. MaxStops /\ era' # 0
    BY ChannelsAssumption DEF StopBegins, ChannelsInv, ChannelsTypeOK
  <1>2. /\ user' \in [Users -> UserType]
        /\ \A d \in Users : UserShape(user[d])' /\ LockSound(d)'
        /\ LeasesApart' /\ MutexesApart' /\ OpenersSound'
    BY SpoiledKeeps DEF StopBegins
  <1>3. ChannelsTypeOK'
    BY <1>1, <1>2 DEF StopBegins, ChannelsInv, ChannelsTypeOK, lineVars
  <1> QED BY <1>1, <1>2, <1>3 DEF ChannelsInv, NothingLost

LEMMA StopEndsKeeps ==
  ASSUME ChannelsInv, StopEnds
  PROVE  ChannelsInv'
  <1>1. era' = era /\ era # 0
    BY DEF StopEnds, ChannelsInv
  <1>2. /\ user' \in [Users -> UserType]
        /\ \A d \in Users : UserShape(user[d])' /\ LockSound(d)'
        /\ LeasesApart' /\ MutexesApart' /\ OpenersSound'
    BY SpoiledKeeps DEF StopEnds
  <1>3. ChannelsTypeOK'
    BY <1>2 DEF StopEnds, ChannelsInv, ChannelsTypeOK, lineVars
  <1> QED BY <1>1, <1>2, <1>3 DEF ChannelsInv, NothingLost

LEMMA StartKeeps ==
  ASSUME ChannelsInv, UNCHANGED <<lineVars, era, sessions, opener, user, writer, met, failures>>,
         UNCHANGED up \/ up' = "up"
  PROVE  ChannelsInv'
  <1>1. ChannelsTypeOK' /\ (up' # "up" => era' # 0)
    BY DEF ChannelsInv, ChannelsTypeOK, lineVars
  <1>2. \A d \in Users : UserShape(user[d])' /\ LockSound(d)'
    BY DEF ChannelsInv, UserShape, HoldsChannel, OverAT, LockSound, lineVars
  <1>3. LeasesApart' /\ MutexesApart' /\ OpenersSound'
    BY LeasesKept, MutexesKept DEF ChannelsInv, OpenersSound, lineVars
  <1>4. NothingLost'
    BY LostKept DEF ChannelsInv, lineVars
  <1> QED BY <1>1, <1>2, <1>3, <1>4 DEF ChannelsInv

-----------------------------------------------------------------------------
LEMMA ChannelsInitHolds == ChannelsInit => ChannelsInv
  <1> SUFFICES ASSUME ChannelsInit PROVE ChannelsInv
    OBVIOUS
  <1>1. /\ Idle \in UserType /\ NoUser \notin Users /\ Unused \notin Users
        /\ \A c \in Users : user[c] = Idle
    BY IdleIs, ChannelsAssumption DEF ChannelsInit, NoUser, Unused
  <1>2. ChannelsTypeOK
    BY <1>1, ChannelsAssumption DEF ChannelsInit, ChannelsTypeOK
  <1>3. \A c \in Users : UserShape(user[c]) /\ LockSound(c)
    BY <1>1, IdleIs DEF ChannelsInit, UserShape, HoldsChannel, LockSound
  <1>4. LeasesApart /\ MutexesApart /\ OpenersSound
    BY <1>1, IdleIs DEF LeasesApart, Leased, MutexesApart, AtCard, OpenersSound, HoldsChannel
  <1>5. NothingLost
    BY <1>1, IdleIs DEF ChannelsInit, NothingLost, InUse
  <1> QED BY <1>2, <1>3, <1>4, <1>5 DEF ChannelsInit, ChannelsInv

LEMMA ChannelsStepKeeps == ChannelsInv /\ [ChannelsNext]_channelVars => ChannelsInv'
  <1> SUFFICES ASSUME ChannelsInv, [ChannelsNext]_channelVars PROVE ChannelsInv'
    OBVIOUS
  <1>1. ASSUME NEW c \in Users,
               \/ StartScan(c) \/ BeginsScan(c) \/ StartWrite(c) \/ StartBasic(c) \/ GiveUp(c)
        PROVE  ChannelsInv'
    BY <1>1, StartScanKeeps, BeginsScanKeeps, StartWriteKeeps, StartBasicKeeps, GiveUpKeeps
  <1>2. ASSUME NEW c \in Users,
               Request(c) \/ AcquireLease(c) \/ Evict(c) \/ TakeMutex(c) \/ CallFails(c)
        PROVE  ChannelsInv'
    BY <1>2, RequestKeeps, AcquireLeaseKeeps, EvictKeeps, TakeMutexKeeps, CallFailsKeeps
  <1>3. ASSUME NEW c \in Users, OpenAnswers(c) \/ SendAnswers(c) \/ CloseAnswers(c)
        PROVE  ChannelsInv'
    BY <1>3, OpenAnswersKeeps, SendAnswersKeeps, CloseAnswersKeeps
  <1>4. CASE CardResets \/ StopBegins \/ StopEnds
    BY <1>4, CardResetsKeeps, StopBeginsKeeps, StopEndsKeeps
  <1>5. CASE Start \/ UNCHANGED channelVars
    BY <1>5, StartKeeps DEF Start, channelVars
  <1> QED BY <1>1, <1>2, <1>3, <1>4, <1>5 DEF ChannelsNext

(* What the invariant says of two calls, of one APDU, of one sweep.        *)
LEMMA ChannelsInvSuffices == ChannelsInv => ChannelsAreApart
  <1> SUFFICES ASSUME ChannelsInv PROVE ChannelsAreApart
    OBVIOUS
  <1>1. OneCallPerMutex
    <2> SUFFICES ASSUME NEW c \in Users, NEW d \in Users, c # d, AtCard(c), AtCard(d),
                        MutexOf(user[c]) = MutexOf(user[d])
                 PROVE  user[c].era # user[d].era /\ {c, d} \ Leased # {}
      BY DEF OneCallPerMutex
    <2>1. user[c].era # user[d].era
      BY DEF ChannelsInv, MutexesApart
    <2>2. ~(c \in Leased /\ d \in Leased)
      BY DEF ChannelsInv, LeasesApart, ByChannel, MutexOf
    <2> QED BY <2>1, <2>2
  <1>2. LeasesExclude
    BY DEF ChannelsInv, LeasesApart, LeasesExclude
  <1>3. ApdusReachTheirApplication
    BY DEF ChannelsInv, OpenersSound, HoldsChannel, ApdusReachTheirApplication
  <1>4. SweepsSpareEarlierWrites
    BY DEF ChannelsInv, LockSound, SweepsSpareEarlierWrites
  <1>5. NothingLeaks
    BY DEF ChannelsInv, NothingLost, InUse, NothingLeaks
  <1> QED BY <1>1, <1>2, <1>3, <1>4, <1>5 DEF ChannelsAreApart

(* Every state has the types of the channel manager's variables            *)
(* (sessions, chanMu, opMu).                                               *)
THEOREM ChannelsTypeCorrect == ChannelsSpec => []ChannelsTypeOK
  <1>1. ChannelsInv => ChannelsTypeOK
    BY DEF ChannelsInv
  <1> QED BY <1>1, ChannelsInitHolds, ChannelsStepKeeps, PTL DEF ChannelsSpec

(* Calls on the card are kept apart over every transport: by their         *)
(* mutexes and their leases, by the channel their application opened, and  *)
(* from the cleaning of scans; and nothing leaks while nothing fails       *)
(* (Transmit, OpenLogicalChannel, CloseLogicalChannel, preCleanChannels).  *)
THEOREM ChannelsStayApart == ChannelsSpec => []ChannelsAreApart
  BY ChannelsInitHolds, ChannelsStepKeeps, ChannelsInvSuffices, PTL DEF ChannelsSpec

-----------------------------------------------------------------------------
(* The switch.  It is alone on the card and told as it went, for any number *)
(* of callers, authentications, applications, retries and calls.  The      *)
(* invariant says who has the lock, whose token is whose, and what a call  *)
(* at each place knows about its command.                                  *)

FailureOf(t) == <<"failed", t>>

(* Whoever is between the lock and the unlock has it alone. *)
LockIsHeld ==
  \A w \in Switchers : at[w] \notin {"out", "tell"} => switching = {w}

(* A call has a token once its client is open, and no two have the same. *)
TokensAreOwn ==
  /\ \A w \in Switchers :
       /\ at[w] \in {"out", "find", "open"} => call[w].token = 0
       /\ at[w] \in {"barrier", "command", "settle", "decide", "tell"} => call[w].token # 0
       /\ at[w] \notin {"leave", "unlock"} => ~call[w].success
       /\ call[w].success => call[w].token # 0
  /\ \A v, w \in Switchers : v # w /\ call[v].token = call[w].token => call[v].token = 0

(* What a call at its place knows, unless it is unsure. *)
Knows(w) ==
  LET t == call[w].token
  IN  /\ at[w] \in {"barrier", "command"} => t \notin obeyed
      /\ at[w] \in {"settle", "decide"} =>
           (t \in obeyed <=> call[w].answer = "ok") /\ call[w].answer # "reset"
      /\ at[w] \in {"leave", "unlock", "tell"} => (t \in obeyed <=> call[w].success)

CallsKnow ==
  \A w \in Switchers : call[w].token # 0 =>
    /\ call[w].token \notin unsure => Knows(w)
    /\ at[w] \in {"barrier", "command", "settle", "decide"} => FailureOf(call[w].token) \notin ToSet(log)

SwitchInv ==
  SwitchTypeOK /\ LockIsHeld /\ TokensAreOwn /\ SwitchIsAlone /\ CallsKnow /\ ToldAsDone

-----------------------------------------------------------------------------
(* Types.                                                                  *)

(* What was told before is still told. *)
LEMMA ToldBefore ==
  ASSUME NEW S, NEW s \in Seq(S), NEW e \in Seq(S)
  PROVE  ToSet(s \o e) = ToSet(s) \cup ToSet(e)
<1>1. ToSet(s) \cup ToSet(e) \subseteq ToSet(s \o e)
  <2>1. ASSUME NEW i \in DOMAIN s PROVE i \in DOMAIN (s \o e) /\ (s \o e)[i] = s[i]
    OBVIOUS
  <2>2. ASSUME NEW i \in DOMAIN e
        PROVE  Len(s) + i \in DOMAIN (s \o e) /\ (s \o e)[Len(s) + i] = e[i]
    OBVIOUS
  <2> QED BY <2>1, <2>2 DEF ToSet
<1>2. ToSet(s \o e) \subseteq ToSet(s) \cup ToSet(e)
  <2>1. ASSUME NEW i \in DOMAIN (s \o e)
        PROVE  (s \o e)[i] \in ToSet(s) \cup ToSet(e)
    <3>1. CASE i \in DOMAIN s
      BY <3>1 DEF ToSet
    <3>2. CASE i \notin DOMAIN s
      <4>1. i - Len(s) \in DOMAIN e /\ (s \o e)[i] = e[i - Len(s)]
        BY <3>2
      <4> QED BY <4>1 DEF ToSet
    <3> QED BY <3>1, <3>2
  <2> QED BY <2>1 DEF ToSet
<1> QED BY <1>1, <1>2

(* A later token is a token still. *)
LEMMA NoCallIs == ASSUME tokens \in Nat PROVE NoCall \in CallType
  BY SwitchAssumption DEF NoCall, CallType, AIDs, Unknown, NoTarget

LEMMA CallTypeGrows ==
  ASSUME tokens \in Nat, tokens' \in Nat, tokens <= tokens'
  PROVE  CallType \subseteq CallType'
  BY DEF CallType

LEMMA LogGrows ==
  ASSUME tokens \in Nat, tokens' \in Nat, tokens <= tokens', log \in Seq(Events \X (0 .. tokens))
  PROVE  log \in Seq(Events \X (0 .. tokens'))
<1>1. Events \X (0 .. tokens) \subseteq Events \X (0 .. tokens')
  OBVIOUS
<1> QED BY <1>1

(* A call is a call still when one of its fields changes. *)
LEMMA CallsChange ==
  ASSUME tokens \in Nat, NEW c \in CallType
  PROVE  /\ \A n \in AIDs : [c EXCEPT !.next = n] \in CallType
         /\ \A n \in AIDs, m \in AIDs : [c EXCEPT !.aid = n, !.next = m] \in CallType
         /\ \A a \in {"none", "ok", "busy", "reset", "error"} :
              [c EXCEPT !.answer = a] \in CallType
         /\ [c EXCEPT !.success = TRUE, !.answer = "none"] \in CallType
         /\ \A a \in {"none", "ok", "busy", "reset", "error"} :
              [c EXCEPT !.answer = a, !.tries = 0] \in CallType
         /\ c.tries < CatBusyRetries => [c EXCEPT !.tries = @ + 1] \in CallType
<1>1. CatBusyRetries \in Nat /\ 0 \in 0 .. CatBusyRetries
  BY SwitchAssumption
<1>2. \A n \in AIDs : [c EXCEPT !.next = n] \in CallType
  BY DEF CallType
<1>3. \A n \in AIDs, m \in AIDs : [c EXCEPT !.aid = n, !.next = m] \in CallType
  BY DEF CallType
<1>4. \A a \in {"none", "ok", "busy", "reset", "error"} : [c EXCEPT !.answer = a] \in CallType
  BY DEF CallType
<1>5. [c EXCEPT !.success = TRUE, !.answer = "none"] \in CallType
  BY DEF CallType
<1>6. \A a \in {"none", "ok", "busy", "reset", "error"} :
        [c EXCEPT !.answer = a, !.tries = 0] \in CallType
  <2>1. ASSUME NEW a \in {"none", "ok", "busy", "reset", "error"}
        PROVE  [c EXCEPT !.answer = a, !.tries = 0] \in CallType
    <3>1. [c EXCEPT !.answer = a] \in CallType
      BY <1>4
    <3>2. \A d \in CallType : [d EXCEPT !.tries = 0] \in CallType
      BY <1>1 DEF CallType
    <3>3. [c EXCEPT !.answer = a, !.tries = 0] = [[c EXCEPT !.answer = a] EXCEPT !.tries = 0]
      BY DEF CallType
    <3> QED BY <3>1, <3>2, <3>3
  <2> QED BY <2>1
<1>7. c.tries < CatBusyRetries => [c EXCEPT !.tries = @ + 1] \in CallType
  BY <1>1 DEF CallType
<1> QED BY <1>2, <1>3, <1>4, <1>5, <1>6, <1>7

(* Every step keeps the types. *)
LEMMA TypeStep == SwitchTypeOK /\ SwitchNext => SwitchTypeOK'
<1> SUFFICES ASSUME SwitchTypeOK, SwitchNext PROVE SwitchTypeOK' OBVIOUS
<1> USE SwitchAssumption DEF SwitchTypeOK, GoTo, targetVars, ownerVars, answerVars
<1>1. ASSUME NEW w \in Switchers, StartSwitch(w) PROVE SwitchTypeOK'
  <2>1. PICK op \in {"enable", "disable"}, p \in Targets, aid \in AIDs \cup {Unknown} :
          /\ call' = [call EXCEPT ![w] = [NoCall EXCEPT !.op = op, !.target = p, !.aid = aid]]
          /\ at' = [at EXCEPT ![w] = IF aid = Unknown THEN "find" ELSE "open"]
    BY <1>1 DEF StartSwitch
  <2>2. [NoCall EXCEPT !.op = op, !.target = p, !.aid = aid] \in CallType
    BY NoCallIs DEF CallType
  <2>3. call' \in [Switchers -> CallType] /\ CallType' = CallType
    BY <1>1, <2>1, <2>2 DEF StartSwitch, CallType
  <2>4. at' \in [Switchers -> SwitchPlaces]
    BY <2>1 DEF SwitchPlaces
  <2> QED BY <1>1, <2>3, <2>4 DEF StartSwitch
<1>2. ASSUME NEW w \in Switchers, FindAID(w) PROVE SwitchTypeOK'
  <2>1. call[w].next \in AIDs /\ (call[w].next # AIDCount => call[w].next + 1 \in AIDs) /\ 1 \in AIDs
    BY DEF CallType, AIDs
  <2>2. CallType' = CallType
    BY <1>2 DEF FindAID, CallType
  <2>3. /\ [call[w] EXCEPT !.aid = call[w].next, !.next = 1] \in CallType
        /\ [call[w] EXCEPT !.next = 1] \in CallType
        /\ call[w].next # AIDCount => [call[w] EXCEPT !.next = call[w].next + 1] \in CallType
    BY <2>1, CallsChange
  <2>4. call' \in [Switchers -> CallType]
    BY <1>2, <2>3 DEF FindAID
  <2>5. at' \in [Switchers -> SwitchPlaces]
    BY <1>2 DEF FindAID, SwitchPlaces
  <2> QED BY <1>2, <2>2, <2>4, <2>5 DEF FindAID
<1>3. ASSUME NEW w \in Switchers, NotOpened(w) \/ BarrierFails(w) PROVE SwitchTypeOK'
  <2>1. at' \in [Switchers -> SwitchPlaces] /\ CallType' = CallType
    BY <1>3 DEF NotOpened, BarrierFails, SwitchPlaces, CallType
  <2> QED BY <1>3, <2>1 DEF NotOpened, BarrierFails
<1>4. ASSUME NEW w \in Switchers, BeforeSwitch(w) PROVE SwitchTypeOK'
  <2>1. tokens' = tokens + 1 /\ CallType \subseteq CallType'
    BY <1>4, CallTypeGrows DEF BeforeSwitch
  <2>2. call'[w] \in CallType'
    <3>1. call'[w] = [call[w] EXCEPT !.token = tokens'] /\ tokens' \in 0 .. tokens'
      BY <1>4, <2>1 DEF BeforeSwitch
    <3>2. call[w] \in CallType'
      BY <2>1
    <3> QED BY <3>1, <3>2 DEF CallType
  <2>3. call' \in [Switchers -> CallType']
    BY <1>4, <2>1, <2>2 DEF BeforeSwitch
  <2>4. log \in Seq(Events \X (0 .. tokens'))
    BY <2>1, LogGrows
  <2>5. <<<<"before", tokens'>>, <<"apdu_switching", tokens'>>>> \in Seq(Events \X (0 .. tokens'))
    BY <2>1 DEF Events, Phases
  <2>6. log' \in Seq(Events \X (0 .. tokens'))
    BY <1>4, <2>4, <2>5 DEF BeforeSwitch, Tell
  <2>7. at' \in [Switchers -> SwitchPlaces]
    BY <1>4 DEF BeforeSwitch, SwitchPlaces
  <2> QED BY <1>4, <2>1, <2>3, <2>6, <2>7 DEF BeforeSwitch
<1>5. ASSUME NEW w \in Switchers, BeginBarrier(w) PROVE SwitchTypeOK'
  <2>1. at' \in [Switchers -> SwitchPlaces] /\ CallType' = CallType
    BY <1>5 DEF BeginBarrier, SwitchPlaces, CallType
  <2> QED BY <1>5, <2>1 DEF BeginBarrier
<1>6. ASSUME NEW w \in Switchers, Command(w) PROVE SwitchTypeOK'
  <2>1. PICK said \in {"ok", "busy", "reset", "error"} :
          /\ CardAnswers(call[w], said)
          /\ IF MayRetry(call[w], said)
             THEN call' = [call EXCEPT ![w].tries = @ + 1] /\ UNCHANGED at
             ELSE call' = [call EXCEPT ![w].answer = said, ![w].tries = 0] /\ GoTo(w, "settle")
    BY <1>6 DEF Command
  <2>2. call[w] \in CallType /\ CallType' = CallType
    BY <1>6 DEF Command, CallType
  <2>3. call' \in [Switchers -> CallType]
    <3>1. CASE MayRetry(call[w], said)
      <4>1. [call[w] EXCEPT !.tries = @ + 1] \in CallType
        BY <2>2, <3>1, CallsChange DEF MayRetry
      <4> QED BY <2>1, <3>1, <4>1
    <3>2. CASE ~MayRetry(call[w], said)
      <4>1. [call[w] EXCEPT !.answer = said, !.tries = 0] \in CallType
        BY <2>2, CallsChange
      <4> QED BY <2>1, <3>2, <4>1
    <3> QED BY <3>1, <3>2
  <2>4. at' \in [Switchers -> SwitchPlaces]
    BY <2>1 DEF SwitchPlaces
  <2>5. active' \in [AIDs -> Targets \cup {NoTarget}] /\ obeyed' \cup unsure' \subseteq 0 .. tokens
    <3>1. call[w].token \in 0 .. tokens /\ call[w].target \in Targets \cup {NoTarget}
      BY <2>2 DEF CallType
    <3>2. CASE Obeys(call[w])
      <4>1. call[w].aid \in AIDs
        BY <2>2, <3>2 DEF Obeys, CanObey, CallType
      <4> QED BY <2>1, <3>1, <3>2, <4>1 DEF CardAnswers, Obeys
    <3>3. CASE ~Obeys(call[w])
      BY <2>1, <3>1, <3>3 DEF CardAnswers
    <3> QED BY <3>2, <3>3
  <2> QED BY <1>6, <2>2, <2>3, <2>4, <2>5 DEF Command
<1>7. ASSUME NEW w \in Switchers, ReleaseSwitchBarrier(w) \/ LeaveSwitch(w) PROVE SwitchTypeOK'
  <2>1. at' \in [Switchers -> SwitchPlaces] /\ CallType' = CallType
    BY <1>7 DEF ReleaseSwitchBarrier, LeaveSwitch, SwitchPlaces, CallType
  <2>2. call[w].token \in 0 .. tokens
    BY DEF CallType
  <2>3. /\ <<<<"card_reset_settling", call[w].token>>>> \in Seq(Events \X (0 .. tokens))
        /\ <<<<"failed", call[w].token>>>> \in Seq(Events \X (0 .. tokens))
    BY <2>2 DEF Events, Phases
  <2>4. log' \in Seq(Events \X (0 .. tokens))
    <3>1. CASE log' = log
      BY <3>1
    <3>2. CASE log' = log \o <<<<"card_reset_settling", call[w].token>>>>
      BY <3>2, <2>3
    <3>3. CASE log' = log \o <<<<"failed", call[w].token>>>>
      BY <3>3, <2>3
    <3> QED BY <1>7, <3>1, <3>2, <3>3 DEF ReleaseSwitchBarrier, LeaveSwitch, Tell
  <2> QED BY <1>7, <2>1, <2>4 DEF ReleaseSwitchBarrier, LeaveSwitch
<1>8. ASSUME NEW w \in Switchers, Decide(w) PROVE SwitchTypeOK'
  <2>1. call[w] \in CallType /\ call[w].token \in 0 .. tokens
    BY DEF CallType
  <2>2. /\ [call[w] EXCEPT !.success = TRUE, !.answer = "none"] \in CallType
        /\ [call[w] EXCEPT !.answer = "none"] \in CallType
    BY <2>1, CallsChange
  <2>3. call' \in [Switchers -> CallType] /\ CallType' = CallType
    <3>1. CallType' = CallType
      BY <1>8 DEF Decide, CallType
    <3>2. call' \in [Switchers -> CallType]
      BY <1>8, <2>2 DEF Decide
    <3> QED BY <3>1, <3>2
  <2>4. at' \in [Switchers -> SwitchPlaces]
    BY <1>8 DEF Decide, SwitchPlaces
  <2>5. hooks' \cup succeeded' \subseteq 0 .. tokens
    BY <1>8, <2>1 DEF Decide
  <2> QED BY <1>8, <2>3, <2>4, <2>5 DEF Decide
<1>9. ASSUME NEW w \in Switchers, UnlockSwitch(w) PROVE SwitchTypeOK'
  <2>1. call' \in [Switchers -> CallType] /\ CallType' = CallType
    BY <1>9, NoCallIs DEF UnlockSwitch, CallType
  <2>2. at' \in [Switchers -> SwitchPlaces]
    BY <1>9 DEF UnlockSwitch, SwitchPlaces
  <2> QED BY <1>9, <2>1, <2>2 DEF UnlockSwitch
<1>10. ASSUME NEW w \in Switchers, SwitchFailed(w) PROVE SwitchTypeOK'
  <2>1. call' \in [Switchers -> CallType] /\ CallType' = CallType
    BY <1>10, NoCallIs DEF SwitchFailed, CallType
  <2>2. at' \in [Switchers -> SwitchPlaces]
    BY <1>10 DEF SwitchFailed, SwitchPlaces
  <2>3. call[w].token \in 0 .. tokens
    BY DEF CallType
  <2>4. <<<<"switch_failed", call[w].token>>>> \in Seq(Events \X (0 .. tokens))
    BY <2>3 DEF Events
  <2>5. log' \in Seq(Events \X (0 .. tokens))
    BY <1>10, <2>4 DEF SwitchFailed, Tell
  <2> QED BY <1>10, <2>1, <2>2, <2>5 DEF SwitchFailed
<1>11. CASE AfterSwitch
  <2>1. PICK t \in hooks : /\ hooks' = hooks \ {t} /\ Tell(<<<<"after", t>>>>)
                           /\ UNCHANGED <<withArbiter, targetVars, leases, switching, at, call,
                                          barrier, tokens, answerVars, calls>>
    BY <1>11 DEF AfterSwitch
  <2>2. <<<<"after", t>>>> \in Seq(Events \X (0 .. tokens)) /\ CallType' = CallType
    BY <2>1 DEF Events, CallType
  <2>3. log' \in Seq(Events \X (0 .. tokens))
    BY <2>1, <2>2 DEF Tell
  <2> QED BY <2>1, <2>2, <2>3
<1>12. ASSUME NEW u \in Authentications, AuthenticationLeases(u) \/ AuthenticationReleases(u)
       PROVE  SwitchTypeOK'
  <2>1. CallType' = CallType
    BY <1>12 DEF AuthenticationLeases, AuthenticationReleases, CallType
  <2> QED BY <1>12, <2>1 DEF AuthenticationLeases, AuthenticationReleases
<1> QED BY <1>1, <1>2, <1>3, <1>4, <1>5, <1>6, <1>7, <1>8, <1>9, <1>10, <1>11, <1>12
        DEF SwitchNext, SwitchStep

-----------------------------------------------------------------------------
(* The lock and the barrier.                                               *)

LEMMA LockStep == SwitchTypeOK /\ LockIsHeld /\ SwitchNext => LockIsHeld'
<1> SUFFICES ASSUME SwitchTypeOK, LockIsHeld, SwitchNext PROVE LockIsHeld' OBVIOUS
<1> USE DEF LockIsHeld, GoTo, ownerVars, answerVars
<1>0. DOMAIN at = Switchers
  BY DEF SwitchTypeOK
<1>1. ASSUME NEW w \in Switchers, StartSwitch(w) PROVE LockIsHeld'
  <2>1. switching = {} /\ switching' = {w}
    BY <1>1 DEF StartSwitch
  <2>2. \A v \in Switchers : v # w => at'[v] = at[v]
    BY <1>0, <1>1 DEF StartSwitch
  <2> QED BY <2>1, <2>2
<1>2. ASSUME NEW w \in Switchers,
             FindAID(w) \/ NotOpened(w) \/ BeforeSwitch(w) \/ BeginBarrier(w) \/ BarrierFails(w)
               \/ Command(w) \/ ReleaseSwitchBarrier(w) \/ Decide(w) \/ LeaveSwitch(w)
      PROVE  LockIsHeld'
  <2>1. switching = {w} /\ switching' = switching
    BY <1>2 DEF FindAID, NotOpened, BeforeSwitch, BeginBarrier, BarrierFails, Command,
                ReleaseSwitchBarrier, Decide, LeaveSwitch
  <2>2. \A v \in Switchers : v # w => at'[v] = at[v]
    BY <1>0, <1>2 DEF FindAID, NotOpened, BeforeSwitch, BeginBarrier, BarrierFails, Command,
                      ReleaseSwitchBarrier, Decide, LeaveSwitch
  <2> QED BY <2>1, <2>2
<1>3. ASSUME NEW w \in Switchers, UnlockSwitch(w) PROVE LockIsHeld'
  <2>1. switching = {w} /\ switching' = {} /\ at'[w] \in {"out", "tell"}
    BY <1>0, <1>3 DEF UnlockSwitch
  <2>2. \A v \in Switchers : v # w => at'[v] = at[v]
    BY <1>0, <1>3 DEF UnlockSwitch
  <2> QED BY <2>1, <2>2
<1>4. ASSUME NEW w \in Switchers, SwitchFailed(w) PROVE LockIsHeld'
  <2>1. switching' = switching /\ at'[w] = "out"
    BY <1>0, <1>4 DEF SwitchFailed
  <2>2. \A v \in Switchers : v # w => at'[v] = at[v]
    BY <1>0, <1>4 DEF SwitchFailed
  <2> QED BY <2>1, <2>2
<1>5. CASE AfterSwitch
  BY <1>5 DEF AfterSwitch
<1>6. ASSUME NEW u \in Authentications, AuthenticationLeases(u) \/ AuthenticationReleases(u)
      PROVE  LockIsHeld'
  BY <1>6 DEF AuthenticationLeases, AuthenticationReleases
<1> QED BY <1>1, <1>2, <1>3, <1>4, <1>5, <1>6 DEF SwitchNext, SwitchStep

LEMMA AloneStep ==
  SwitchTypeOK /\ LockIsHeld /\ SwitchIsAlone /\ SwitchNext => SwitchIsAlone'
<1> SUFFICES ASSUME SwitchTypeOK, LockIsHeld, SwitchIsAlone, SwitchNext PROVE SwitchIsAlone'
  OBVIOUS
<1> USE DEF SwitchIsAlone, GoTo, ownerVars, answerVars
<1>0. DOMAIN at = Switchers /\ barrier \subseteq Switchers
  BY DEF SwitchTypeOK
<1>1. ASSUME NEW w \in Switchers,
             \/ StartSwitch(w) \/ FindAID(w) \/ NotOpened(w) \/ BeforeSwitch(w) \/ BarrierFails(w)
             \/ Command(w) \/ Decide(w) \/ LeaveSwitch(w) \/ UnlockSwitch(w) \/ SwitchFailed(w)
      PROVE  SwitchIsAlone'
  <2>1. /\ UNCHANGED <<withArbiter, barrier, leases>>
        /\ at[w] \in {"command", "settle"} <=> at'[w] \in {"command", "settle"}
    <3>1. CASE Command(w)
      BY <1>0, <3>1 DEF Command
    <3>2. CASE ~Command(w)
      BY <1>0, <1>1, <3>2 DEF StartSwitch, FindAID, NotOpened, BeforeSwitch, BarrierFails, Decide,
                              LeaveSwitch, UnlockSwitch, SwitchFailed
    <3> QED BY <3>1, <3>2
  <2>2. \A v \in Switchers : v # w => at'[v] = at[v]
    BY <1>0, <1>1 DEF StartSwitch, FindAID, NotOpened, BeforeSwitch, BarrierFails, Command, Decide,
                      LeaveSwitch, UnlockSwitch, SwitchFailed
  <2> QED BY <2>1, <2>2
<1>2. ASSUME NEW w \in Switchers, BeginBarrier(w) PROVE SwitchIsAlone'
  <2>1. /\ at[w] = "barrier" /\ at'[w] = "command" /\ UNCHANGED <<withArbiter, leases>>
        /\ withArbiter => leases = {} /\ barrier' = {w}
        /\ ~withArbiter => barrier' = {}
    BY <1>0, <1>2 DEF BeginBarrier
  <2>2. \A v \in Switchers : v # w => at'[v] = at[v] /\ at[v] \in {"out", "tell"}
    BY <1>0, <1>2 DEF BeginBarrier, LockIsHeld
  <2>3. withArbiter \in BOOLEAN
    BY DEF SwitchTypeOK
  <2> QED BY <2>1, <2>2, <2>3
<1>3. ASSUME NEW w \in Switchers, ReleaseSwitchBarrier(w) PROVE SwitchIsAlone'
  <2>1. at[w] = "settle" /\ at'[w] = "decide" /\ barrier' = {}
    BY <1>0, <1>3 DEF ReleaseSwitchBarrier
  <2>2. \A v \in Switchers : v # w => at'[v] = at[v] /\ at[v] \in {"out", "tell"}
    BY <1>0, <1>3 DEF ReleaseSwitchBarrier, LockIsHeld
  <2> QED BY <2>1, <2>2
<1>4. CASE AfterSwitch
  BY <1>4 DEF AfterSwitch
<1>5. ASSUME NEW u \in Authentications, AuthenticationLeases(u) PROVE SwitchIsAlone'
  <2>1. barrier = {}
    BY <1>0, <1>5 DEF AuthenticationLeases, BarrierAhead
  <2> QED BY <1>5, <2>1 DEF AuthenticationLeases
<1>6. ASSUME NEW u \in Authentications, AuthenticationReleases(u) PROVE SwitchIsAlone'
  BY <1>6 DEF AuthenticationReleases
<1> QED BY <1>1, <1>2, <1>3, <1>4, <1>5, <1>6 DEF SwitchNext, SwitchStep

-----------------------------------------------------------------------------
(* Whose token is whose.                                                   *)

LEMMA TokensStep == SwitchTypeOK /\ TokensAreOwn /\ SwitchNext => TokensAreOwn'
<1> SUFFICES ASSUME SwitchTypeOK, TokensAreOwn, SwitchNext PROVE TokensAreOwn' OBVIOUS
<1> USE DEF TokensAreOwn, GoTo, ownerVars, answerVars
<1>0. /\ DOMAIN at = Switchers /\ DOMAIN call = Switchers /\ tokens \in Nat
      /\ \A v \in Switchers : call[v] \in CallType /\ call[v].token \in 0 .. tokens
  BY DEF SwitchTypeOK, CallType
<1>1. ASSUME NEW w \in Switchers, StartSwitch(w) \/ UnlockSwitch(w) \/ SwitchFailed(w)
      PROVE  TokensAreOwn'
  <2>1. \A v \in Switchers : v # w => at'[v] = at[v] /\ call'[v] = call[v]
    BY <1>0, <1>1 DEF StartSwitch, UnlockSwitch, SwitchFailed
  <2>2. \/ call'[w].token = 0 /\ ~call'[w].success /\ at'[w] \in {"out", "find", "open"}
        \/ UnlockSwitch(w) /\ call'[w] = call[w] /\ at'[w] = "tell" /\ ~call[w].success
           /\ call[w].token # 0
    <3>1. CASE StartSwitch(w)
      <4>1. PICK op \in {"enable", "disable"}, p \in Targets, aid \in AIDs \cup {Unknown} :
              /\ call' = [call EXCEPT ![w] = [NoCall EXCEPT !.op = op, !.target = p, !.aid = aid]]
              /\ at' = [at EXCEPT ![w] = IF aid = Unknown THEN "find" ELSE "open"]
        BY <3>1 DEF StartSwitch
      <4>2. at'[w] \in {"find", "open"}
        BY <1>0, <4>1
      <4>3. call'[w].token = 0 /\ call'[w].success = FALSE
        BY <1>0, <4>1 DEF NoCall
      <4> QED BY <4>2, <4>3
    <3>2. CASE UnlockSwitch(w)
      BY <1>0, <3>2 DEF UnlockSwitch, NoCall, CallType
    <3>3. CASE SwitchFailed(w)
      BY <1>0, <3>3 DEF SwitchFailed, NoCall
    <3> QED BY <1>1, <3>1, <3>2, <3>3
  <2> QED BY <2>1, <2>2
<1>2. ASSUME NEW w \in Switchers, BeforeSwitch(w) PROVE TokensAreOwn'
  <2>1. \A v \in Switchers : v # w => /\ at'[v] = at[v] /\ call'[v] = call[v]
                                      /\ call[v].token # tokens + 1
    BY <1>0, <1>2 DEF BeforeSwitch
  <2>2. /\ at'[w] = "barrier" /\ call'[w].token = tokens + 1 /\ tokens + 1 # 0
        /\ call'[w].success = call[w].success /\ ~call[w].success
    BY <1>0, <1>2 DEF BeforeSwitch, CallType
  <2> QED BY <2>1, <2>2
<1>3. ASSUME NEW w \in Switchers,
             \/ FindAID(w) \/ NotOpened(w) \/ BeginBarrier(w) \/ BarrierFails(w) \/ Command(w)
             \/ ReleaseSwitchBarrier(w) \/ LeaveSwitch(w)
      PROVE  TokensAreOwn'
  <2>1. \A v \in Switchers : v # w => at'[v] = at[v] /\ call'[v] = call[v]
    BY <1>0, <1>3 DEF FindAID, NotOpened, BeginBarrier, BarrierFails, Command,
                      ReleaseSwitchBarrier, LeaveSwitch
  <2>2. call'[w].token = call[w].token /\ call'[w].success = call[w].success
    BY <1>0, <1>3 DEF FindAID, NotOpened, BeginBarrier, BarrierFails, Command,
                      ReleaseSwitchBarrier, LeaveSwitch, CallType
  <2>3. \/ at[w] \in {"find", "open"} /\ at'[w] \in {"find", "open", "leave"}
        \/ at[w] \in {"barrier", "command", "settle"}
           /\ at'[w] \in {"command", "settle", "decide", "leave"}
        \/ at[w] = "leave" /\ at'[w] = "unlock"
    <3>1. CASE Command(w)
      BY <1>0, <3>1 DEF Command
    <3>2. CASE ~Command(w)
      BY <1>0, <1>3, <3>2 DEF FindAID, NotOpened, BeginBarrier, BarrierFails,
                              ReleaseSwitchBarrier, LeaveSwitch
    <3> QED BY <3>1, <3>2
  <2> QED BY <2>1, <2>2, <2>3
<1>4. ASSUME NEW w \in Switchers, Decide(w) PROVE TokensAreOwn'
  <2>1. \A v \in Switchers : v # w => at'[v] = at[v] /\ call'[v] = call[v]
    BY <1>0, <1>4 DEF Decide
  <2>2. at[w] = "decide" /\ at'[w] = "leave" /\ call'[w].token = call[w].token
    BY <1>0, <1>4 DEF Decide, CallType
  <2> QED BY <2>1, <2>2
<1>5. CASE AfterSwitch
  BY <1>5 DEF AfterSwitch
<1>6. ASSUME NEW u \in Authentications, AuthenticationLeases(u) \/ AuthenticationReleases(u)
      PROVE  TokensAreOwn'
  BY <1>6 DEF AuthenticationLeases, AuthenticationReleases
<1> QED BY <1>1, <1>2, <1>3, <1>4, <1>5, <1>6 DEF SwitchNext, SwitchStep

-----------------------------------------------------------------------------
(* What a call knows.                                                      *)

(* What a step that leaves the card alone must do for the two to hold.     *)
LEMMA QuietSwitchStep ==
  ASSUME SwitchTypeOK, CallsKnow, ToldAsDone,
         UNCHANGED <<obeyed, unsure, succeeded, tokens>>,
         \A t \in 1 .. tokens : FailureOf(t) \in ToSet(log') => FailureOf(t) \in ToSet(log),
         \A w \in Switchers :
           \/ call'[w].token = 0
           \/ /\ call'[w].token = call[w].token /\ call'[w].token \in 1 .. tokens
              /\ at'[w] = at[w] /\ call'[w] = call[w]
           \/ /\ call'[w].token = call[w].token /\ call'[w].token \in 1 .. tokens
              /\ call'[w].success = call[w].success
              /\ \/ at[w] = "barrier" /\ at'[w] = "command"
                 \/ at[w] = "barrier" /\ at'[w] = "leave" /\ ~call[w].success
                 \/ at[w] = "settle" /\ at'[w] = "decide" /\ call'[w] = call[w]
                 \/ at[w] = "leave" /\ at'[w] = "unlock"
                 \/ at[w] = "unlock" /\ at'[w] = "tell"
  PROVE  CallsKnow' /\ ToldAsDone'
<1>1. ToldAsDone'
  BY DEF ToldAsDone, FailureOf
<1>2. ASSUME NEW w \in Switchers, call'[w].token # 0, call'[w].token \notin unsure' PROVE Knows(w)'
  <2>1. call'[w].token = call[w].token /\ Knows(w)
    BY <1>2 DEF CallsKnow
  <2> QED BY <1>2, <2>1 DEF Knows
<1>3. ASSUME NEW w \in Switchers, call'[w].token # 0,
             at'[w] \in {"barrier", "command", "settle", "decide"}
      PROVE  FailureOf(call'[w].token) \notin ToSet(log')
  <2>1. /\ call'[w].token = call[w].token /\ call'[w].token \in 1 .. tokens
        /\ at[w] \in {"barrier", "command", "settle", "decide"}
    BY <1>3
  <2>2. FailureOf(call[w].token) \notin ToSet(log)
    BY <1>3, <2>1 DEF CallsKnow
  <2> QED BY <2>1, <2>2
<1> QED BY <1>1, <1>2, <1>3 DEF CallsKnow

(* The event that is told is added to those told before. *)
LEMMA OneMore ==
  ASSUME NEW S, NEW s \in Seq(S), NEW e \in S
  PROVE  ToSet(s \o <<e>>) = ToSet(s) \cup {e}
<1>1. ToSet(<<e>>) = {e}
  BY DEF ToSet
<1>2. <<e>> \in Seq(S)
  OBVIOUS
<1>3. ToSet(s \o <<e>>) = ToSet(s) \cup ToSet(<<e>>)
  BY <1>2, ToldBefore
<1> QED BY <1>1, <1>3

LEMMA QuietSteps ==
  ASSUME SwitchTypeOK, TokensAreOwn, CallsKnow, ToldAsDone,
         NEW w \in Switchers,
         \/ StartSwitch(w) \/ FindAID(w) \/ NotOpened(w) \/ BeginBarrier(w) \/ BarrierFails(w)
         \/ ReleaseSwitchBarrier(w) \/ UnlockSwitch(w) \/ SwitchFailed(w)
         \/ (LeaveSwitch(w) /\ call[w].success)
  PROVE  CallsKnow' /\ ToldAsDone'
<1> USE DEF GoTo, ownerVars, answerVars
<1>0. /\ DOMAIN at = Switchers /\ DOMAIN call = Switchers /\ tokens \in Nat
      /\ log \in Seq(Events \X (0 .. tokens))
      /\ \A v \in Switchers : call[v] \in CallType /\ call[v].token \in 0 .. tokens
  BY DEF SwitchTypeOK, CallType
<1>1. UNCHANGED <<obeyed, unsure, succeeded, tokens>>
  BY DEF StartSwitch, FindAID, NotOpened, BeginBarrier, BarrierFails, ReleaseSwitchBarrier,
         UnlockSwitch, SwitchFailed, LeaveSwitch
<1>2. \A t \in 1 .. tokens : FailureOf(t) \in ToSet(log') => FailureOf(t) \in ToSet(log)
  <2>1. \/ log' = log
        \/ log' = log \o <<<<"card_reset_settling", call[w].token>>>>
        \/ log' = log \o <<<<"switch_failed", call[w].token>>>>
    BY DEF StartSwitch, FindAID, NotOpened, BeginBarrier, BarrierFails, ReleaseSwitchBarrier,
           UnlockSwitch, SwitchFailed, LeaveSwitch, Tell
  <2>2. /\ <<"card_reset_settling", call[w].token>> \in Events \X (0 .. tokens)
        /\ <<"switch_failed", call[w].token>> \in Events \X (0 .. tokens)
    BY <1>0 DEF Events, Phases
  <2>3. \/ ToSet(log') = ToSet(log)
        \/ ToSet(log') = ToSet(log) \cup {<<"card_reset_settling", call[w].token>>}
        \/ ToSet(log') = ToSet(log) \cup {<<"switch_failed", call[w].token>>}
    <3>0. ASSUME NEW e \in Events \X (0 .. tokens) PROVE ToSet(log \o <<e>>) = ToSet(log) \cup {e}
      <4> DEFINE S == Events \X (0 .. tokens)
      <4>1. log \in Seq(S) /\ e \in S
        BY <1>0
      <4> HIDE DEF S
      <4> QED BY <4>1, OneMore
    <3>1. ToSet(log \o <<<<"card_reset_settling", call[w].token>>>>)
            = ToSet(log) \cup {<<"card_reset_settling", call[w].token>>}
      BY <2>2, <3>0, Zenon
    <3>2. ToSet(log \o <<<<"switch_failed", call[w].token>>>>)
            = ToSet(log) \cup {<<"switch_failed", call[w].token>>}
      BY <2>2, <3>0, Zenon
    <3> QED BY <2>1, <3>1, <3>2
  <2>4. \A t, u : FailureOf(t) # <<"card_reset_settling", u>> /\ FailureOf(t) # <<"switch_failed", u>>
    BY DEF FailureOf
  <2> QED BY <2>3, <2>4
<1>3. ASSUME NEW v \in Switchers, v # w
      PROVE  call'[v] = call[v] /\ at'[v] = at[v]
  BY <1>0, <1>3 DEF StartSwitch, FindAID, NotOpened, BeginBarrier, BarrierFails,
                    ReleaseSwitchBarrier, UnlockSwitch, SwitchFailed, LeaveSwitch
<1>4. \/ call'[w].token = 0
      \/ /\ call'[w].token = call[w].token /\ call'[w].token \in 1 .. tokens
         /\ call'[w].success = call[w].success
         /\ \/ at[w] = "barrier" /\ at'[w] = "command"
            \/ at[w] = "barrier" /\ at'[w] = "leave" /\ ~call[w].success
            \/ at[w] = "settle" /\ at'[w] = "decide" /\ call'[w] = call[w]
            \/ at[w] = "leave" /\ at'[w] = "unlock"
            \/ at[w] = "unlock" /\ at'[w] = "tell"
  <2>1. CASE StartSwitch(w) \/ SwitchFailed(w) \/ FindAID(w) \/ NotOpened(w)
    <3>1. CASE StartSwitch(w)
      <4>1. PICK op \in {"enable", "disable"}, p \in Targets, aid \in AIDs \cup {Unknown} :
              call' = [call EXCEPT ![w] = [NoCall EXCEPT !.op = op, !.target = p, !.aid = aid]]
        BY <3>1 DEF StartSwitch
      <4>2. call'[w].token = 0
        BY <1>0, <4>1 DEF NoCall
      <4> QED BY <4>2
    <3>2. CASE SwitchFailed(w)
      BY <1>0, <3>2 DEF SwitchFailed, NoCall
    <3>3. CASE FindAID(w) \/ NotOpened(w)
      <4>1. call[w].token = 0
        BY <3>3 DEF FindAID, NotOpened, TokensAreOwn
      <4>2. call'[w].token = call[w].token
        BY <1>0, <3>3 DEF FindAID, NotOpened, CallType
      <4> QED BY <4>1, <4>2
    <3> QED BY <2>1, <3>1, <3>2, <3>3
  <2>2. CASE BeginBarrier(w) \/ BarrierFails(w) \/ ReleaseSwitchBarrier(w)
    <3>1. call[w].token # 0 /\ ~call[w].success
      BY <2>2 DEF BeginBarrier, BarrierFails, ReleaseSwitchBarrier, TokensAreOwn
    <3>2. call' = call /\ call[w].token \in 1 .. tokens
      BY <1>0, <2>2, <3>1 DEF BeginBarrier, BarrierFails, ReleaseSwitchBarrier
    <3> QED BY <1>0, <2>2, <3>1, <3>2 DEF BeginBarrier, BarrierFails, ReleaseSwitchBarrier
  <2>3. CASE UnlockSwitch(w)
    <3>1. CASE call[w].success \/ call[w].token = 0
      BY <1>0, <2>3, <3>1 DEF UnlockSwitch, NoCall
    <3>2. CASE ~(call[w].success \/ call[w].token = 0)
      BY <1>0, <2>3, <3>2 DEF UnlockSwitch
    <3> QED BY <3>1, <3>2
  <2>4. CASE LeaveSwitch(w) /\ call[w].success
    <3>1. call' = call /\ at[w] = "leave" /\ at'[w] = "unlock"
      BY <1>0, <2>4 DEF LeaveSwitch
    <3>2. call[w].token \in 1 .. tokens
      <4>1. call[w].token # 0
        BY <2>4 DEF TokensAreOwn
      <4> QED BY <1>0, <4>1
    <3> QED BY <3>1, <3>2
  <2> QED BY <2>1, <2>2, <2>3, <2>4
<1> QED BY <1>0, <1>1, <1>2, <1>3, <1>4, QuietSwitchStep

(* A new token is in nobody's story. *)
LEMMA BeforeStep ==
  ASSUME SwitchTypeOK, TokensAreOwn, CallsKnow, ToldAsDone, NEW w \in Switchers, BeforeSwitch(w)
  PROVE  CallsKnow' /\ ToldAsDone'
<1> USE DEF GoTo, ownerVars, answerVars
<1>0. /\ DOMAIN at = Switchers /\ DOMAIN call = Switchers /\ tokens \in Nat
      /\ log \in Seq(Events \X (0 .. tokens))
      /\ obeyed \cup unsure \cup succeeded \subseteq 0 .. tokens
      /\ \A v \in Switchers : call[v] \in CallType /\ call[v].token \in 0 .. tokens
  BY DEF SwitchTypeOK, CallType
<1>1. /\ UNCHANGED <<obeyed, unsure, succeeded>> /\ tokens' = tokens + 1
      /\ at'[w] = "barrier" /\ call'[w].token = tokens + 1
      /\ \A v \in Switchers : v # w => call'[v] = call[v] /\ at'[v] = at[v]
  BY <1>0 DEF BeforeSwitch, CallType
<1>2. ASSUME NEW t \in Nat PROVE FailureOf(t) \in ToSet(log') <=> FailureOf(t) \in ToSet(log)
  <2>1. /\ log \in Seq(Events \X Nat)
        /\ <<<<"before", tokens'>>, <<"apdu_switching", tokens'>>>> \in Seq(Events \X Nat)
    <3>1. Events \X (0 .. tokens) \subseteq Events \X Nat
      BY <1>0
    <3>2. log \in Seq(Events \X Nat)
      BY <1>0, <3>1
    <3>3. <<"before", tokens'>> \in Events \X Nat /\ <<"apdu_switching", tokens'>> \in Events \X Nat
      BY <1>0, <1>1 DEF Events, Phases
    <3> QED BY <3>2, <3>3
  <2>2. ToSet(log') = ToSet(log)
                        \cup ToSet(<<<<"before", tokens'>>, <<"apdu_switching", tokens'>>>>)
    <3>1. log' = log \o <<<<"before", tokens'>>, <<"apdu_switching", tokens'>>>>
      BY DEF BeforeSwitch, Tell
    <3>2. ToSet(log \o <<<<"before", tokens'>>, <<"apdu_switching", tokens'>>>>)
            = ToSet(log) \cup ToSet(<<<<"before", tokens'>>, <<"apdu_switching", tokens'>>>>)
      BY <2>1, ToldBefore
    <3> QED BY <3>1, <3>2
  <2>3. FailureOf(t) \notin ToSet(<<<<"before", tokens'>>, <<"apdu_switching", tokens'>>>>)
    BY DEF ToSet, FailureOf
  <2> QED BY <2>2, <2>3
<1>3. FailureOf(tokens + 1) \notin ToSet(log)
  <2>1. \A k \in DOMAIN log : log[k][2] \in 0 .. tokens
    BY <1>0
  <2> QED BY <1>0, <2>1 DEF ToSet, FailureOf
<1>4. ToldAsDone'
  <2>1. ASSUME NEW t \in 1 .. tokens', t \notin unsure'
        PROVE  /\ t \in succeeded' => t \in obeyed'
               /\ FailureOf(t) \in ToSet(log') => t \notin obeyed'
    <3>1. CASE t = tokens + 1
      BY <1>0, <1>1, <1>2, <1>3, <3>1
    <3>2. CASE t # tokens + 1
      <4>1. t \in 1 .. tokens
        BY <1>0, <1>1, <3>2
      <4> QED BY <1>1, <1>2, <2>1, <4>1 DEF ToldAsDone, FailureOf
    <3> QED BY <3>1, <3>2
  <2> QED BY <2>1 DEF ToldAsDone, FailureOf
<1>5. ASSUME NEW v \in Switchers, call'[v].token # 0
      PROVE  /\ call'[v].token \notin unsure' => Knows(v)'
             /\ at'[v] \in {"barrier", "command", "settle", "decide"} =>
                  FailureOf(call'[v].token) \notin ToSet(log')
  <2>1. CASE v = w
    BY <1>0, <1>1, <1>2, <1>3, <2>1 DEF Knows
  <2>2. CASE v # w
    <3>1. call'[v] = call[v] /\ at'[v] = at[v] /\ call[v].token \in Nat
      BY <1>0, <1>1, <2>2
    <3> QED BY <1>1, <1>2, <1>5, <3>1 DEF CallsKnow, Knows
  <2> QED BY <2>1, <2>2
<1> QED BY <1>4, <1>5 DEF CallsKnow

(* The card obeys for the call that sends the command and for no other. *)
LEMMA CommandStep ==
  ASSUME SwitchTypeOK, TokensAreOwn, CallsKnow, ToldAsDone, NEW w \in Switchers, Command(w)
  PROVE  CallsKnow' /\ ToldAsDone'
<1> USE DEF GoTo, ownerVars, answerVars
<1>0. /\ DOMAIN at = Switchers /\ DOMAIN call = Switchers /\ tokens \in Nat
      /\ log \in Seq(Events \X (0 .. tokens))
      /\ obeyed \cup unsure \cup succeeded \subseteq 0 .. tokens
      /\ \A v \in Switchers : call[v] \in CallType /\ call[v].token \in 0 .. tokens
  BY DEF SwitchTypeOK, CallType
<1>1. PICK said \in {"ok", "busy", "reset", "error"} :
        /\ CardAnswers(call[w], said)
        /\ IF MayRetry(call[w], said)
           THEN call' = [call EXCEPT ![w].tries = @ + 1] /\ UNCHANGED at
           ELSE call' = [call EXCEPT ![w].answer = said, ![w].tries = 0] /\ GoTo(w, "settle")
  BY DEF Command
<1>2. /\ at[w] = "command" /\ UNCHANGED <<log, succeeded, tokens>>
      /\ \A v \in Switchers : v # w => call'[v] = call[v] /\ at'[v] = at[v]
      /\ call'[w].token = call[w].token
  BY <1>0, <1>1 DEF Command, CallType
<1>3. call[w].token # 0 /\ FailureOf(call[w].token) \notin ToSet(log)
  BY <1>2 DEF TokensAreOwn, CallsKnow
<1>4. /\ unsure \subseteq unsure' /\ obeyed \subseteq obeyed'
      /\ obeyed' \subseteq obeyed \cup {call[w].token}
      /\ unsure' \subseteq unsure \cup {call[w].token}
  BY <1>1 DEF CardAnswers, Obeys
<1>5. \/ said = "busy" /\ at'[w] = "command"
      \/ call'[w].answer = said /\ at'[w] = "settle"
  <2>1. CASE MayRetry(call[w], said)
    BY <1>1, <1>2, <2>1 DEF MayRetry
  <2>2. CASE ~MayRetry(call[w], said)
    <3>1. call' = [call EXCEPT ![w].answer = said, ![w].tries = 0] /\ GoTo(w, "settle")
      BY <1>1, <2>2
    <3>2. call[w] \in CallType
      BY <1>0
    <3>3. call'[w] = [call[w] EXCEPT !.answer = said, !.tries = 0] /\ at'[w] = "settle"
      BY <1>0, <3>1
    <3>4. call'[w].answer = said
      BY <3>2, <3>3 DEF CallType
    <3> QED BY <3>3, <3>4
  <2> QED BY <2>1, <2>2
<1>6. call[w].token \notin unsure' =>
        said # "reset" /\ (call[w].token \in obeyed' <=> said = "ok")
  <2>1. call[w].token \notin unsure => call[w].token \notin obeyed
    BY <1>2, <1>3 DEF CallsKnow, Knows
  <2> QED BY <1>1, <1>4, <2>1 DEF CardAnswers, Obeys
<1>7. ToldAsDone'
  <2>1. ASSUME NEW t \in 1 .. tokens', t \notin unsure'
        PROVE  /\ t \in succeeded' => t \in obeyed'
               /\ FailureOf(t) \in ToSet(log') => t \notin obeyed'
    BY <1>2, <1>3, <1>4, <2>1 DEF ToldAsDone, FailureOf
  <2> QED BY <2>1 DEF ToldAsDone, FailureOf
<1>8. ASSUME NEW v \in Switchers, call'[v].token # 0
      PROVE  /\ call'[v].token \notin unsure' => Knows(v)'
             /\ at'[v] \in {"barrier", "command", "settle", "decide"} =>
                  FailureOf(call'[v].token) \notin ToSet(log')
  <2>1. CASE v = w
    <3>1. FailureOf(call'[w].token) \notin ToSet(log')
      BY <1>2, <1>3
    <3>2. call'[w].token \notin unsure' => Knows(w)'
      BY <1>2, <1>5, <1>6 DEF Knows
    <3> QED BY <2>1, <3>1, <3>2
  <2>2. CASE v # w
    <3>1. call'[v] = call[v] /\ at'[v] = at[v] /\ call[v].token # call[w].token
      BY <1>2, <1>8, <2>2 DEF TokensAreOwn
    <3>2. /\ call[v].token \in unsure' <=> call[v].token \in unsure
          /\ call[v].token \in obeyed' <=> call[v].token \in obeyed
      BY <1>4, <3>1
    <3> QED BY <1>2, <1>8, <3>1, <3>2 DEF CallsKnow, Knows
  <2> QED BY <2>1, <2>2
<1> QED BY <1>7, <1>8 DEF CallsKnow

(* Success is told for "ok" and "reset"; a call that is sure got an "ok". *)
LEMMA DecideStep ==
  ASSUME SwitchTypeOK, TokensAreOwn, CallsKnow, ToldAsDone, NEW w \in Switchers, Decide(w)
  PROVE  CallsKnow' /\ ToldAsDone'
<1> USE DEF GoTo, ownerVars, answerVars
<1>0. /\ DOMAIN at = Switchers /\ DOMAIN call = Switchers /\ tokens \in Nat
      /\ log \in Seq(Events \X (0 .. tokens))
      /\ obeyed \cup unsure \cup succeeded \subseteq 0 .. tokens
      /\ \A v \in Switchers : call[v] \in CallType /\ call[v].token \in 0 .. tokens
  BY DEF SwitchTypeOK, CallType
<1>1. /\ at[w] = "decide" /\ at'[w] = "leave" /\ UNCHANGED <<log, obeyed, unsure, tokens>>
      /\ \A v \in Switchers : v # w => call'[v] = call[v] /\ at'[v] = at[v]
      /\ call'[w].token = call[w].token
  BY <1>0 DEF Decide, CallType
<1>2. call[w].token # 0 /\ ~call[w].success
  BY <1>1 DEF TokensAreOwn
<1>3. call'[w].success <=> IsSuccess(call[w].answer)
  BY <1>0, <1>2 DEF Decide, CallType
<1>4. call[w].token \notin unsure => (IsSuccess(call[w].answer) <=> call[w].token \in obeyed)
  BY <1>1, <1>2 DEF CallsKnow, Knows, IsSuccess
<1>5. succeeded' = IF IsSuccess(call[w].answer) THEN succeeded \cup {call[w].token} ELSE succeeded
  BY DEF Decide
<1>6. ToldAsDone'
  <2>1. ASSUME NEW t \in 1 .. tokens', t \notin unsure'
        PROVE  /\ t \in succeeded' => t \in obeyed'
               /\ FailureOf(t) \in ToSet(log') => t \notin obeyed'
    BY <1>1, <1>4, <1>5, <2>1 DEF ToldAsDone, FailureOf
  <2> QED BY <2>1 DEF ToldAsDone, FailureOf
<1>7. ASSUME NEW v \in Switchers, call'[v].token # 0
      PROVE  /\ call'[v].token \notin unsure' => Knows(v)'
             /\ at'[v] \in {"barrier", "command", "settle", "decide"} =>
                  FailureOf(call'[v].token) \notin ToSet(log')
  <2>1. CASE v = w
    BY <1>1, <1>3, <1>4, <2>1 DEF Knows
  <2>2. CASE v # w
    BY <1>1, <1>7, <2>2 DEF CallsKnow, Knows
  <2> QED BY <2>1, <2>2
<1> QED BY <1>6, <1>7 DEF CallsKnow

(* A failure is told by a call that knows it, or does not know. *)
LEMMA LeaveStep ==
  ASSUME SwitchTypeOK, TokensAreOwn, CallsKnow, ToldAsDone, NEW w \in Switchers, LeaveSwitch(w), ~call[w].success
  PROVE  CallsKnow' /\ ToldAsDone'
<1> USE DEF GoTo, ownerVars, answerVars
<1>0. /\ DOMAIN at = Switchers /\ DOMAIN call = Switchers /\ tokens \in Nat
      /\ log \in Seq(Events \X (0 .. tokens))
      /\ obeyed \cup unsure \cup succeeded \subseteq 0 .. tokens
      /\ \A v \in Switchers : call[v] \in CallType /\ call[v].token \in 0 .. tokens
  BY DEF SwitchTypeOK, CallType
<1>1. /\ at[w] = "leave" /\ at'[w] = "unlock"
      /\ UNCHANGED <<call, obeyed, unsure, succeeded, tokens>>
      /\ \A v \in Switchers : v # w => at'[v] = at[v]
  BY <1>0 DEF LeaveSwitch
<1>2. ToSet(log') = ToSet(log) \cup {FailureOf(call[w].token)}
  <2>1. FailureOf(call[w].token) \in Events \X (0 .. tokens)
    BY <1>0 DEF Events, Phases, FailureOf
  <2>2. log' = log \o <<FailureOf(call[w].token)>>
    BY DEF LeaveSwitch, Tell, FailureOf
  <2> QED BY <1>0, <2>1, <2>2, OneMore
<1>3. call[w].token # 0 /\ call[w].token \notin unsure => call[w].token \notin obeyed
  BY <1>1 DEF CallsKnow, Knows
<1>4. ToldAsDone'
  <2>1. ASSUME NEW t \in 1 .. tokens', t \notin unsure'
        PROVE  /\ t \in succeeded' => t \in obeyed'
               /\ FailureOf(t) \in ToSet(log') => t \notin obeyed'
    <3>1. CASE t = call[w].token
      <4>1. t # 0 /\ t \in 1 .. tokens /\ t \notin unsure
        BY <1>0, <1>1, <2>1
      <4>2. t \notin obeyed /\ t \notin succeeded
        BY <1>3, <3>1, <4>1 DEF ToldAsDone
      <4> QED BY <1>1, <4>2
    <3>2. CASE t # call[w].token
      <4>1. FailureOf(t) \in ToSet(log') => FailureOf(t) \in ToSet(log)
        BY <1>2, <3>2 DEF FailureOf
      <4> QED BY <1>1, <2>1, <4>1 DEF ToldAsDone, FailureOf
    <3> QED BY <3>1, <3>2
  <2> QED BY <2>1 DEF ToldAsDone, FailureOf
<1>5. ASSUME NEW v \in Switchers, call'[v].token # 0
      PROVE  /\ call'[v].token \notin unsure' => Knows(v)'
             /\ at'[v] \in {"barrier", "command", "settle", "decide"} =>
                  FailureOf(call'[v].token) \notin ToSet(log')
  <2>1. CASE v = w
    BY <1>1, <1>5, <2>1 DEF CallsKnow, Knows
  <2>2. CASE v # w
    <3>1. call[v].token # call[w].token
      BY <1>1, <1>5, <2>2 DEF TokensAreOwn
    <3>2. FailureOf(call[v].token) \in ToSet(log') => FailureOf(call[v].token) \in ToSet(log)
      BY <1>2, <3>1 DEF FailureOf
    <3> QED BY <1>1, <1>5, <2>2, <3>2 DEF CallsKnow, Knows
  <2> QED BY <2>1, <2>2
<1> QED BY <1>4, <1>5 DEF CallsKnow

LEMMA KnowStep ==
  SwitchTypeOK /\ TokensAreOwn /\ CallsKnow /\ ToldAsDone /\ SwitchNext => CallsKnow' /\ ToldAsDone'
<1> SUFFICES ASSUME SwitchTypeOK, TokensAreOwn, CallsKnow, ToldAsDone, SwitchNext
             PROVE  CallsKnow' /\ ToldAsDone'
  OBVIOUS
<1>1. ASSUME NEW w \in Switchers, StartSwitch(w) \/ SwitchStep(w) PROVE CallsKnow' /\ ToldAsDone'
  <2>1. CASE LeaveSwitch(w) /\ ~call[w].success
    BY <2>1, LeaveStep
  <2>2. CASE BeforeSwitch(w)
    BY <2>2, BeforeStep
  <2>3. CASE Command(w)
    BY <2>3, CommandStep
  <2>4. CASE Decide(w)
    BY <2>4, DecideStep
  <2>5. CASE \/ StartSwitch(w) \/ FindAID(w) \/ NotOpened(w) \/ BeginBarrier(w) \/ BarrierFails(w)
             \/ ReleaseSwitchBarrier(w) \/ UnlockSwitch(w) \/ SwitchFailed(w)
             \/ (LeaveSwitch(w) /\ call[w].success)
    BY <2>5, QuietSteps
  <2> QED BY <1>1, <2>1, <2>2, <2>3, <2>4, <2>5 DEF SwitchStep
<1>2. ASSUME UNCHANGED <<at, call, obeyed, unsure, succeeded, tokens>>,
             \A t \in 1 .. tokens : FailureOf(t) \in ToSet(log') => FailureOf(t) \in ToSet(log)
      PROVE  CallsKnow' /\ ToldAsDone'
  <2>1. \A w \in Switchers : call[w].token = 0 \/ call[w].token \in 1 .. tokens
    BY DEF SwitchTypeOK, CallType
  <2> QED BY <1>2, <2>1, QuietSwitchStep
<1>3. CASE AfterSwitch
  <2>1. PICK t \in hooks : Tell(<<<<"after", t>>>>)
    BY <1>3 DEF AfterSwitch
  <2>2. log \in Seq(Events \X (0 .. tokens)) /\ <<"after", t>> \in Events \X (0 .. tokens)
    BY DEF SwitchTypeOK, Events
  <2>3. log' = log \o <<<<"after", t>>>>
    BY <2>1 DEF Tell
  <2>4. ToSet(log') = ToSet(log) \cup {<<"after", t>>}
    BY <2>2, <2>3, OneMore
  <2>5. \A u \in 1 .. tokens : FailureOf(u) \in ToSet(log') => FailureOf(u) \in ToSet(log)
    BY <2>4 DEF FailureOf
  <2>6. UNCHANGED <<at, call, obeyed, unsure, succeeded, tokens>>
    BY <1>3 DEF AfterSwitch, answerVars
  <2> QED BY <1>2, <2>5, <2>6
<1>4. ASSUME NEW u \in Authentications, AuthenticationLeases(u) \/ AuthenticationReleases(u)
      PROVE  CallsKnow' /\ ToldAsDone'
  BY <1>2, <1>4 DEF AuthenticationLeases, AuthenticationReleases, ownerVars, answerVars
<1> QED BY <1>1, <1>3, <1>4 DEF SwitchNext

-----------------------------------------------------------------------------
(* What the owner hears.                                                   *)

Begun == {"before", "apdu_switching"}
Reset == Begun \cup {"card_reset_settling"}

(* The story of a call's token at its place, and of one that is over. *)
OwnStory(w) ==
  LET t == call[w].token
  IN  /\ at[w] \in {"barrier", "command", "settle"} => Heard(t) = Begun
      /\ at[w] = "decide" => Heard(t) = Reset
      /\ at[w] = "leave" /\ ~call[w].success => Heard(t) \in {Begun, Reset}
      /\ at[w] \in {"unlock", "tell"} /\ ~call[w].success =>
           Heard(t) \in {Begun \cup {"failed"}, Reset \cup {"failed"}}
      /\ call[w].success => Heard(t) = IF t \in hooks THEN Reset ELSE Reset \cup {"after"}
      /\ ~call[w].success => t \notin hooks

StoryOver(t) ==
  IF t \in hooks THEN Heard(t) = Reset ELSE Heard(t) \in Endings

StoriesAreTold ==
  \A t \in 1 .. tokens :
    /\ \A w \in Switchers : call[w].token = t => OwnStory(w)
    /\ (\A w \in Switchers : call[w].token # t) => StoryOver(t)

InOrder ==
  \A i, k \in DOMAIN log :
    i < k /\ log[i][2] = log[k][2] /\ log[i][2] > 0 => Rank(log[i][1]) < Rank(log[k][1])

(* The phases of the switch with the lock are the last that were told. *)
TellsLast(t) ==
  \A i, k \in DOMAIN log : i < k /\ IsPhase(i) /\ IsPhase(k) /\ log[i][2] = t => log[k][2] = t

PhasesAreLast ==
  \A w \in Switchers :
    at[w] \in {"barrier", "command", "settle", "decide", "leave"} /\ call[w].token # 0 =>
      TellsLast(call[w].token)

StoryInv == StoriesAreTold /\ InOrder /\ PhasesStayTogether /\ PhasesAreLast

(* The same of any record s of what was told. *)
HeardIn(s, t) == {e \in Events : <<e, t>> \in ToSet(s)}
OrderIn(s) ==
  \A i, k \in DOMAIN s : i < k /\ s[i][2] = s[k][2] /\ s[i][2] > 0 => Rank(s[i][1]) < Rank(s[k][1])
LastIn(s, t) ==
  \A i, k \in DOMAIN s :
    i < k /\ s[i][1] \in Phases /\ s[k][1] \in Phases /\ s[i][2] = t => s[k][2] = t
TogetherIn(s) ==
  \A i, k \in DOMAIN s :
    i < k /\ s[i][1] \in Phases /\ s[k][1] \in Phases /\ s[i][2] = s[k][2] /\ s[i][2] > 0 =>
      \A j \in i .. k : s[j][1] \in Phases => s[j][2] = s[i][2]

LEMMA StoryIn ==
  /\ \A t : Heard(t) = HeardIn(log, t) /\ (TellsLast(t) <=> LastIn(log, t))
  /\ InOrder <=> OrderIn(log)
  /\ PhasesStayTogether <=> TogetherIn(log)
BY DEF Heard, HeardIn, TellsLast, LastIn, InOrder, OrderIn, PhasesStayTogether, TogetherIn, IsPhase

(* The record r is s with one more event. *)
OneLonger(r, s, e, t) ==
  /\ Len(s) \in Nat /\ DOMAIN s = 1 .. Len(s) /\ DOMAIN r = 1 .. (Len(s) + 1)
  /\ \A i \in 1 .. Len(s) : r[i] = s[i] /\ s[i] = <<s[i][1], s[i][2]>> /\ s[i][1] \in Events
  /\ r[Len(s) + 1] = <<e, t>> /\ e \in Events

(* One more event is told. *)
LEMMA TellOne ==
  ASSUME NEW r, NEW s, NEW e, NEW t, OneLonger(r, s, e, t)
  PROVE  /\ HeardIn(r, t) = HeardIn(s, t) \cup {e}
         /\ \A u : u # t => HeardIn(r, u) = HeardIn(s, u)
         /\ OrderIn(s) /\ (t > 0 => \A d \in HeardIn(s, t) : Rank(d) < Rank(e)) => OrderIn(r)
         /\ TogetherIn(s) /\ (e \in Phases /\ t > 0 => LastIn(s, t)) => TogetherIn(r)
         /\ \A u : LastIn(s, u) /\ (e \in Phases => u = t \/ HeardIn(s, u) = {}) => LastIn(r, u)
<1>2. /\ Len(s) \in Nat /\ DOMAIN s = 1 .. Len(s) /\ DOMAIN r = 1 .. (Len(s) + 1)
      /\ \A i \in 1 .. Len(s) : r[i] = s[i] /\ s[i] = <<s[i][1], s[i][2]>> /\ s[i][1] \in Events
      /\ r[Len(s) + 1] = <<e, t>> /\ e \in Events
  BY DEF OneLonger
<1>1. ToSet(r) = ToSet(s) \cup {<<e, t>>}
  <2>1. ASSUME NEW i \in DOMAIN r PROVE r[i] \in ToSet(s) \cup {<<e, t>>}
    <3>1. CASE i \in DOMAIN s
      BY <1>2, <3>1 DEF ToSet
    <3>2. CASE i \notin DOMAIN s
      <4>1. i = Len(s) + 1
        BY <1>2, <3>2
      <4> QED BY <1>2, <4>1
    <3> QED BY <3>1, <3>2
  <2>2. ASSUME NEW i \in DOMAIN s PROVE s[i] \in ToSet(r)
    <3>1. i \in DOMAIN r /\ r[i] = s[i]
      BY <1>2, <2>2
    <3> QED BY <3>1 DEF ToSet
  <2>3. <<e, t>> \in ToSet(r)
    <3>1. Len(s) + 1 \in DOMAIN r
      BY <1>2
    <3> QED BY <1>2, <3>1 DEF ToSet
  <2> QED BY <2>1, <2>2, <2>3 DEF ToSet
<1>3. \A i \in DOMAIN s : s[i][1] \in HeardIn(s, s[i][2])
  <2>2. ASSUME NEW i \in DOMAIN s PROVE s[i] \in ToSet(s)
    BY DEF ToSet
  <2> QED BY <1>2, <2>2 DEF HeardIn
<1>4. /\ HeardIn(r, t) = HeardIn(s, t) \cup {e}
      /\ \A u : u # t => HeardIn(r, u) = HeardIn(s, u)
  BY <1>1, <1>2 DEF HeardIn
<1>5. ASSUME OrderIn(s), t > 0 => \A d \in HeardIn(s, t) : Rank(d) < Rank(e)
      PROVE  OrderIn(r)
  <2>1. SUFFICES ASSUME NEW i \in DOMAIN r, NEW k \in DOMAIN r,
                        i < k, r[i][2] = r[k][2], r[i][2] > 0
                 PROVE  Rank(r[i][1]) < Rank(r[k][1])
    BY DEF OrderIn
  <2>2. i \in DOMAIN s /\ r[i] = s[i]
    BY <1>2, <2>1
  <2>3. CASE k \in DOMAIN s
    BY <1>2, <1>5, <2>1, <2>2, <2>3 DEF OrderIn
  <2>4. CASE k \notin DOMAIN s
    <3>1. r[k] = <<e, t>>
      BY <1>2, <2>4
    <3>2. s[i][1] \in HeardIn(s, t)
      BY <1>3, <2>1, <2>2, <3>1
    <3> QED BY <1>5, <2>1, <2>2, <3>1, <3>2
  <2> QED BY <2>3, <2>4
<1>6. ASSUME TogetherIn(s), e \in Phases /\ t > 0 => LastIn(s, t)
      PROVE  TogetherIn(r)
  <2>1. SUFFICES ASSUME NEW i \in DOMAIN r, NEW k \in DOMAIN r,
                        i < k, r[i][1] \in Phases, r[k][1] \in Phases, r[i][2] = r[k][2], r[i][2] > 0,
                        NEW j \in i .. k, r[j][1] \in Phases
                 PROVE  r[j][2] = r[i][2]
    BY DEF TogetherIn
  <2>2. i \in DOMAIN s /\ r[i] = s[i]
    BY <1>2, <2>1
  <2>3. CASE k \in DOMAIN s
    <3>1. j \in DOMAIN s /\ r[j] = s[j] /\ r[k] = s[k]
      BY <1>2, <2>1, <2>2, <2>3
    <3> QED BY <1>6, <2>1, <2>2, <2>3, <3>1 DEF TogetherIn
  <2>4. CASE k \notin DOMAIN s
    <3>1. r[k] = <<e, t>> /\ k = Len(s) + 1
      BY <1>2, <2>4
    <3>2. LastIn(s, t) /\ r[i][2] = t
      BY <1>6, <2>1, <3>1
    <3>3. CASE j \in {i, k}
      BY <2>1, <3>3
    <3>4. CASE j \notin {i, k}
      <4>1. j \in DOMAIN s /\ r[j] = s[j] /\ i < j
        BY <1>2, <2>1, <2>2, <3>1, <3>4
      <4> QED BY <2>1, <2>2, <3>2, <4>1 DEF LastIn
    <3> QED BY <3>3, <3>4
  <2> QED BY <2>3, <2>4
<1>7. ASSUME NEW u, LastIn(s, u), e \in Phases => u = t \/ HeardIn(s, u) = {}
      PROVE  LastIn(r, u)
  <2>1. SUFFICES ASSUME NEW i \in DOMAIN r, NEW k \in DOMAIN r,
                        i < k, r[i][1] \in Phases, r[k][1] \in Phases, r[i][2] = u
                 PROVE  r[k][2] = u
    BY DEF LastIn
  <2>2. i \in DOMAIN s /\ r[i] = s[i] /\ s[i][1] \in HeardIn(s, u)
    BY <1>2, <1>3, <2>1
  <2>3. CASE k \in DOMAIN s
    BY <1>2, <1>7, <2>1, <2>2, <2>3 DEF LastIn
  <2>4. CASE k \notin DOMAIN s
    BY <1>2, <1>7, <2>1, <2>2, <2>4
  <2> QED BY <2>3, <2>4
<1> QED BY <1>2, <1>4, <1>5, <1>6, <1>7

(* What telling does to the log. *)
LEMMA TellMore ==
  ASSUME NEW n \in Nat, NEW s \in Seq(Events \X (0 .. n)), NEW e \in Events, NEW t \in 0 .. n
  PROVE  OneLonger(s \o <<<<e, t>>>>, s, e, t) /\ s \o <<<<e, t>>>> \in Seq(Events \X (0 .. n))
<1>1. PICK p \in Events \X (0 .. n) : p = <<e, t>>
  OBVIOUS
<1>2. /\ s \o <<p>> \in Seq(Events \X (0 .. n)) /\ Len(s) \in Nat /\ DOMAIN s = 1 .. Len(s)
      /\ DOMAIN (s \o <<p>>) = 1 .. (Len(s) + 1) /\ (s \o <<p>>)[Len(s) + 1] = p
      /\ \A i \in 1 .. Len(s) : (s \o <<p>>)[i] = s[i] /\ s[i] \in Events \X (0 .. n)
  OBVIOUS
<1>3. \A i \in 1 .. Len(s) : s[i] = <<s[i][1], s[i][2]>> /\ s[i][1] \in Events
  BY <1>2
<1> QED BY <1>1, <1>2, <1>3 DEF OneLonger

(* Two events told at once are told one after the other. *)
LEMMA TellTwo ==
  ASSUME NEW n \in Nat, NEW s \in Seq(Events \X (0 .. n)),
         NEW d \in Events, NEW e \in Events, NEW t \in 0 .. n
  PROVE  OneLonger(s \o <<<<d, t>>, <<e, t>>>>, s \o <<<<d, t>>>>, e, t)
<1>1. PICK p \in Events \X (0 .. n) : p = <<d, t>>
  OBVIOUS
<1>2. PICK q \in Events \X (0 .. n) : q = <<e, t>>
  OBVIOUS
<1>3. /\ s \o <<p>> \in Seq(Events \X (0 .. n)) /\ Len(s) \in Nat
      /\ DOMAIN (s \o <<p>>) = 1 .. (Len(s) + 1) /\ Len(s \o <<p>>) = Len(s) + 1
      /\ (s \o <<p>>)[Len(s) + 1] = p /\ \A i \in 1 .. Len(s) : (s \o <<p>>)[i] = s[i]
  OBVIOUS
<1>4. /\ DOMAIN (s \o <<p, q>>) = 1 .. (Len(s) + 2)
      /\ (s \o <<p, q>>)[Len(s) + 1] = p /\ (s \o <<p, q>>)[Len(s) + 2] = q
      /\ \A i \in 1 .. Len(s) : (s \o <<p, q>>)[i] = s[i]
  OBVIOUS
<1>5. \A i \in 1 .. (Len(s) + 1) : (s \o <<p, q>>)[i] = (s \o <<p>>)[i]
  <2>1. \A i \in 1 .. (Len(s) + 1) : i \in 1 .. Len(s) \/ i = Len(s) + 1
    BY <1>3
  <2> QED BY <1>3, <1>4, <2>1
<1>6. \A i \in 1 .. (Len(s) + 1) :
        /\ (s \o <<p>>)[i] = <<(s \o <<p>>)[i][1], (s \o <<p>>)[i][2]>>
        /\ (s \o <<p>>)[i][1] \in Events
  <2>1. ASSUME NEW i \in 1 .. (Len(s) + 1) PROVE (s \o <<p>>)[i] \in Events \X (0 .. n)
    BY <1>3
  <2> QED BY <2>1
<1>7. OneLonger(s \o <<p, q>>, s \o <<p>>, e, t)
  <2>1. (Len(s) + 1) + 1 = Len(s) + 2
    BY <1>3
  <2> QED BY <1>2, <1>3, <1>4, <1>5, <1>6, <2>1 DEF OneLonger
<1> QED BY <1>1, <1>2, <1>7

LEMMA StoryStep ==
  ASSUME SwitchTypeOK, TokensAreOwn, StoriesAreTold, NEW w \in Switchers, tokens' = tokens,
         NEW own, own = call[w].token,
         \A v \in Switchers : v # w => at'[v] = at[v] /\ call'[v] = call[v],
         \A u \in 1 .. tokens : u # own => Heard(u)' = Heard(u) /\ (u \in hooks' <=> u \in hooks),
         \/ own = 0 /\ call'[w].token = 0
         \/ call'[w].token = own /\ OwnStory(w)'
         \/ call'[w].token = 0 /\ StoryOver(own)'
  PROVE  StoriesAreTold'
<1>1. ASSUME NEW t \in 1 .. tokens, t # own
      PROVE  /\ \A v \in Switchers : call'[v].token = t => OwnStory(v)'
             /\ (\A v \in Switchers : call'[v].token # t) => StoryOver(t)'
  <2>0. t # 0 /\ call'[w].token # t
    BY <1>1 DEF SwitchTypeOK
  <2>1. Heard(t)' = Heard(t) /\ (t \in hooks' <=> t \in hooks)
    BY <1>1
  <2>2. ASSUME NEW v \in Switchers, call'[v].token = t PROVE OwnStory(v)'
    <3>1. v # w /\ at'[v] = at[v] /\ call'[v] = call[v] /\ OwnStory(v)
      BY <1>1, <2>0, <2>2 DEF StoriesAreTold
    <3> QED BY <2>1, <2>2, <3>1 DEF OwnStory
  <2>3. ASSUME \A v \in Switchers : call'[v].token # t PROVE StoryOver(t)'
    <3>1. \A v \in Switchers : call[v].token # t
      BY <1>1, <2>3
    <3> QED BY <1>1, <2>1, <3>1 DEF StoriesAreTold, StoryOver
  <2> QED BY <2>2, <2>3
<1>2. ASSUME NEW t \in 1 .. tokens, t = own
      PROVE  /\ \A v \in Switchers : call'[v].token = t => OwnStory(v)'
             /\ (\A v \in Switchers : call'[v].token # t) => StoryOver(t)'
  <2>0. t # 0 /\ \A v \in Switchers : v # w => call'[v].token # t
    BY <1>2 DEF SwitchTypeOK, TokensAreOwn
  <2> QED BY <1>2, <2>0
<1> QED BY <1>1, <1>2 DEF StoriesAreTold

(* The steps that tell nothing. *)
LEMMA SilentSteps ==
  ASSUME SwitchTypeOK, TokensAreOwn, StoriesAreTold, NEW w \in Switchers,
         \/ StartSwitch(w) \/ FindAID(w) \/ NotOpened(w) \/ BeginBarrier(w) \/ BarrierFails(w)
         \/ Command(w) \/ UnlockSwitch(w) \/ (LeaveSwitch(w) /\ call[w].success)
  PROVE  StoriesAreTold' /\ UNCHANGED <<log, tokens, hooks>>
<1> USE DEF GoTo, ownerVars
<1>0. /\ DOMAIN at = Switchers /\ DOMAIN call = Switchers /\ tokens \in Nat
      /\ call[w] \in CallType /\ call[w].token \in 0 .. tokens
  BY DEF SwitchTypeOK, CallType
<1>1. /\ UNCHANGED <<log, tokens, hooks>>
      /\ \A v \in Switchers : v # w => at'[v] = at[v] /\ call'[v] = call[v]
  BY <1>0 DEF StartSwitch, FindAID, NotOpened, BeginBarrier, BarrierFails, Command, UnlockSwitch, LeaveSwitch
<1>2. \A u : Heard(u)' = Heard(u) /\ (u \in hooks' <=> u \in hooks)
  BY <1>1 DEF Heard
<1>3. CASE StartSwitch(w) \/ FindAID(w) \/ NotOpened(w)
  <2>1. call[w].token = 0
    BY <1>3 DEF StartSwitch, FindAID, NotOpened, TokensAreOwn
  <2>2. call'[w].token = 0
    <3>1. CASE StartSwitch(w)
      <4>1. PICK op \in {"enable", "disable"}, p \in Targets, aid \in AIDs \cup {Unknown} :
              call' = [call EXCEPT ![w] = [NoCall EXCEPT !.op = op, !.target = p, !.aid = aid]]
        BY <3>1 DEF StartSwitch
      <4> QED BY <1>0, <4>1 DEF NoCall
    <3>2. CASE FindAID(w) \/ NotOpened(w)
      BY <1>0, <2>1, <3>2 DEF FindAID, NotOpened, CallType
    <3> QED BY <1>3, <3>1, <3>2
  <2> QED BY <1>1, <1>2, <2>1, <2>2, StoryStep
<1>4. ASSUME call'[w].token = call[w].token, call'[w].success = call[w].success,
             \/ at[w] = "barrier" /\ at'[w] \in {"command", "leave"}
             \/ at[w] = "command" /\ at'[w] \in {"command", "settle"}
             \/ at[w] = "leave" /\ at'[w] = "unlock" /\ call[w].success
             \/ at[w] = "unlock" /\ at'[w] = "tell" /\ ~call[w].success
      PROVE  StoriesAreTold'
  <2>1. CASE call[w].token = 0
    BY <1>1, <1>2, <1>4, <2>1, StoryStep
  <2>2. CASE call[w].token # 0
    <3>1. OwnStory(w) /\ (at[w] \in {"barrier", "command"} => ~call[w].success)
      BY <1>0, <2>2 DEF StoriesAreTold, TokensAreOwn
    <3>2. OwnStory(w)'
      BY <1>2, <1>4, <3>1 DEF OwnStory
    <3> QED BY <1>1, <1>2, <1>4, <3>2, StoryStep
  <2> QED BY <2>1, <2>2
<1>5. CASE BeginBarrier(w) \/ BarrierFails(w) \/ (LeaveSwitch(w) /\ call[w].success)
  BY <1>0, <1>4, <1>5 DEF BeginBarrier, BarrierFails, LeaveSwitch
<1>6. CASE Command(w)
  <2>1. /\ at[w] = "command" /\ at'[w] \in {"command", "settle"}
        /\ call'[w].token = call[w].token /\ call'[w].success = call[w].success
    BY <1>0, <1>6 DEF Command, CallType
  <2> QED BY <1>1, <1>4, <2>1
<1>7. CASE UnlockSwitch(w)
  <2>1. CASE ~(call[w].success \/ call[w].token = 0)
    BY <1>0, <1>4, <1>7, <2>1 DEF UnlockSwitch
  <2>2. CASE call[w].success \/ call[w].token = 0
    <3>1. call'[w].token = 0
      BY <1>0, <1>7, <2>2 DEF UnlockSwitch, NoCall
    <3>2. CASE call[w].token # 0
      <4>1. OwnStory(w) /\ call[w].success
        BY <1>0, <2>2, <3>2 DEF StoriesAreTold
      <4>2. Reset \cup {"after"} \in Endings
        BY DEF Reset, Begun, Endings
      <4>3. PICK t : t = call[w].token
        OBVIOUS
      <4>4. StoryOver(t)
        BY <4>1, <4>2, <4>3 DEF OwnStory, StoryOver
      <4>5. StoryOver(t)'
        BY <1>2, <4>4 DEF StoryOver
      <4> QED BY <1>1, <1>2, <3>1, <4>3, <4>5, StoryStep
    <3> QED BY <1>1, <1>2, <3>1, <3>2, StoryStep
  <2> QED BY <2>1, <2>2
<1> QED BY <1>1, <1>3, <1>5, <1>6, <1>7

LEMMA OneTold ==
  ASSUME SwitchTypeOK, NEW e \in Events, NEW t \in 0 .. tokens, log' = log \o <<<<e, t>>>>
  PROVE  /\ Heard(t)' = Heard(t) \cup {e}
         /\ \A u : u # t => Heard(u)' = Heard(u)
         /\ InOrder /\ (t > 0 => \A d \in Heard(t) : Rank(d) < Rank(e)) => InOrder'
         /\ PhasesStayTogether /\ (e \in Phases /\ t > 0 => TellsLast(t)) => PhasesStayTogether'
         /\ \A u : TellsLast(u) /\ (e \in Phases => u = t \/ Heard(u) = {}) => TellsLast(u)'
<1>1. log \in Seq(Events \X (0 .. tokens)) /\ tokens \in Nat
  BY DEF SwitchTypeOK
<1>2. /\ \A u : Heard(u)' = HeardIn(log', u) /\ (TellsLast(u)' <=> LastIn(log', u))
      /\ InOrder' <=> OrderIn(log')
      /\ PhasesStayTogether' <=> TogetherIn(log')
  BY DEF Heard, HeardIn, TellsLast, LastIn, InOrder, OrderIn, PhasesStayTogether, TogetherIn, IsPhase
<1>0. OneLonger(log', log, e, t)
  BY <1>1, TellMore
<1>r. PICK r : r = log'
  OBVIOUS
<1>3. /\ HeardIn(r, t) = HeardIn(log, t) \cup {e}
      /\ \A u : u # t => HeardIn(r, u) = HeardIn(log, u)
      /\ OrderIn(log) /\ (t > 0 => \A d \in HeardIn(log, t) : Rank(d) < Rank(e)) => OrderIn(r)
      /\ TogetherIn(log) /\ (e \in Phases /\ t > 0 => LastIn(log, t)) => TogetherIn(r)
      /\ \A u : LastIn(log, u) /\ (e \in Phases => u = t \/ HeardIn(log, u) = {}) => LastIn(r, u)
  <2>1. OneLonger(r, log, e, t)
    BY <1>0, <1>r
  <2> QED BY <2>1, TellOne
<1>4. Heard(t) = HeardIn(log, t) /\ (TellsLast(t) <=> LastIn(log, t))
  BY StoryIn
<1>5. \A u : u # t => Heard(u)' = Heard(u)
  BY <1>2, <1>3, <1>r, StoryIn
<1>6. \A u : TellsLast(u) /\ (e \in Phases => u = t \/ Heard(u) = {}) => TellsLast(u)'
  BY <1>2, <1>3, <1>r, StoryIn
<1>7. InOrder /\ (t > 0 => \A d \in Heard(t) : Rank(d) < Rank(e)) => InOrder'
  BY <1>2, <1>3, <1>4, <1>r, StoryIn
<1>8. PhasesStayTogether /\ (e \in Phases /\ t > 0 => TellsLast(t)) => PhasesStayTogether'
  BY <1>2, <1>3, <1>4, <1>r, StoryIn
<1> QED BY <1>2, <1>3, <1>4, <1>5, <1>6, <1>7, <1>8, <1>r

(* One event of the switch that w is about. *)
LEMMA TellingSteps ==
  ASSUME SwitchTypeOK, TokensAreOwn, StoriesAreTold, InOrder, PhasesStayTogether, PhasesAreLast,
         NEW w \in Switchers,
         ReleaseSwitchBarrier(w) \/ (LeaveSwitch(w) /\ ~call[w].success) \/ SwitchFailed(w)
  PROVE  StoriesAreTold' /\ InOrder' /\ PhasesStayTogether'
<1> USE DEF GoTo, ownerVars
<1>0. /\ DOMAIN at = Switchers /\ DOMAIN call = Switchers /\ tokens \in Nat
      /\ call[w] \in CallType /\ call[w].token \in 0 .. tokens
  BY DEF SwitchTypeOK, CallType
<1>1. PICK t \in 0 .. tokens : t = call[w].token
  BY <1>0
<1>2. PICK e \in Events :
        /\ log' = log \o <<<<e, t>>>>
        /\ \/ e = "card_reset_settling" /\ at[w] = "settle" /\ at'[w] = "decide" /\ call' = call
           \/ e = "failed" /\ at[w] = "leave" /\ at'[w] = "unlock" /\ call' = call /\ ~call[w].success
           \/ e = "switch_failed" /\ at[w] = "tell" /\ at'[w] = "out" /\ call'[w].token = 0
  <2>1. {"card_reset_settling", "failed", "switch_failed"} \subseteq Events
    BY DEF Events, Phases
  <2>2. CASE ReleaseSwitchBarrier(w)
    BY <1>0, <1>1, <2>1, <2>2 DEF ReleaseSwitchBarrier, Tell
  <2>3. CASE LeaveSwitch(w) /\ ~call[w].success
    BY <1>0, <1>1, <2>1, <2>3 DEF LeaveSwitch, Tell
  <2>4. CASE SwitchFailed(w)
    BY <1>0, <1>1, <2>1, <2>4 DEF SwitchFailed, Tell, NoCall
  <2> QED BY <2>2, <2>3, <2>4
<1>3. /\ UNCHANGED <<tokens, hooks>>
      /\ \A v \in Switchers : v # w => at'[v] = at[v] /\ call'[v] = call[v]
      /\ \A u : (u \in hooks' <=> u \in hooks)
  BY <1>0 DEF ReleaseSwitchBarrier, LeaveSwitch, SwitchFailed
<1>4. at[w] \in {"settle", "tell"} => ~call[w].success
  BY DEF TokensAreOwn
<1>5. t > 0 => OwnStory(w) /\ t \notin hooks /\ Heard(t) \in
        IF e = "card_reset_settling" THEN {Begun}
        ELSE IF e = "failed" THEN {Begun, Reset} ELSE {Begun \cup {"failed"}, Reset \cup {"failed"}}
  <2>1. t > 0 => OwnStory(w)
    BY <1>0, <1>1 DEF StoriesAreTold
  <2> QED BY <1>1, <1>2, <1>4, <2>1 DEF OwnStory
<1>6. t > 0 => \A d \in Heard(t) : Rank(d) < Rank(e)
  BY <1>2, <1>5 DEF Rank, Begun, Reset
<1>7. e \in Phases /\ t > 0 => TellsLast(t)
  BY <1>0, <1>1, <1>2 DEF PhasesAreLast, Phases
<1>8. InOrder' /\ PhasesStayTogether'
  BY <1>2, <1>6, <1>7, OneTold
<1>9. Heard(t)' = Heard(t) \cup {e} /\ \A u : u # t => Heard(u)' = Heard(u)
  BY <1>2, OneTold
<1>10. StoriesAreTold'
  <2>1. CASE t = 0
    BY <1>1, <1>2, <1>3, <1>9, <2>1, StoryStep
  <2>2. CASE t > 0 /\ e = "switch_failed"
    <3>1. Heard(t)' \in Endings
      BY <1>5, <1>9, <2>2 DEF Endings, Begun, Reset
    <3>2. StoryOver(t)'
      BY <1>3, <1>5, <2>2, <3>1 DEF StoryOver
    <3> QED BY <1>1, <1>2, <1>3, <1>9, <2>2, <3>2, StoryStep
  <2>3. CASE t > 0 /\ e # "switch_failed"
    <3>1. call'[w] = call[w] /\ ~call[w].success
      BY <1>2, <1>4, <2>3
    <3>2. OwnStory(w)'
      BY <1>1, <1>2, <1>3, <1>5, <1>9, <2>3, <3>1 DEF OwnStory, Reset
    <3> QED BY <1>1, <1>3, <1>9, <3>1, <3>2, StoryStep
  <2> QED BY <1>1, <2>1, <2>2, <2>3
<1> QED BY <1>8, <1>10

(* A success leaves the rest of the story to the hook. *)
LEMMA DecideStory ==
  ASSUME SwitchTypeOK, TokensAreOwn, StoriesAreTold, NEW w \in Switchers, Decide(w)
  PROVE  StoriesAreTold' /\ UNCHANGED <<log, tokens>>
<1>0. /\ DOMAIN at = Switchers /\ DOMAIN call = Switchers
      /\ call[w] \in CallType /\ call[w].token \in 0 .. tokens
  BY DEF SwitchTypeOK, CallType
<1>1. /\ at[w] = "decide" /\ at'[w] = "leave" /\ UNCHANGED <<log, tokens>>
      /\ call'[w].token = call[w].token /\ call[w].token # 0 /\ ~call[w].success
      /\ \A v \in Switchers : v # w => at'[v] = at[v] /\ call'[v] = call[v]
      /\ \/ call'[w].success = TRUE /\ hooks' = hooks \cup {call[w].token}
         \/ call'[w].success = call[w].success /\ hooks' = hooks
  BY <1>0 DEF Decide, GoTo, CallType, TokensAreOwn
<1>2. PICK t : t = call[w].token
  OBVIOUS
<1>3. OwnStory(w) /\ \A u : Heard(u)' = Heard(u)
  BY <1>0, <1>1 DEF StoriesAreTold, Heard
<1>4. OwnStory(w)'
  BY <1>1, <1>2, <1>3 DEF OwnStory
<1> QED BY <1>1, <1>2, <1>3, <1>4, StoryStep

(* A token is heard of first when it is given out. *)
LEMMA Unheard ==
  ASSUME SwitchTypeOK
  PROVE  Heard(tokens + 1) = {}
<1>1. ToSet(log) \subseteq Events \X (0 .. tokens) /\ tokens \in Nat
  BY DEF SwitchTypeOK, ToSet
<1> QED BY <1>1 DEF Heard

LEMMA BeginStory ==
  ASSUME SwitchTypeOK, TokensAreOwn, StoriesAreTold, InOrder, PhasesStayTogether,
         NEW w \in Switchers, BeforeSwitch(w)
  PROVE  /\ StoriesAreTold' /\ InOrder' /\ PhasesStayTogether'
         /\ at'[w] = "barrier" /\ call'[w].token = tokens' /\ TellsLast(tokens)'
<1> USE DEF GoTo
<1>0. /\ DOMAIN at = Switchers /\ DOMAIN call = Switchers /\ tokens \in Nat
      /\ log \in Seq(Events \X (0 .. tokens)) /\ hooks \subseteq 0 .. tokens
      /\ \A v \in Switchers : call[v] \in CallType /\ call[v].token \in 0 .. tokens
  BY DEF SwitchTypeOK, CallType
<1>1. PICK t \in Nat : t = tokens + 1
  BY <1>0
<1>2. /\ tokens' = t /\ at[w] = "open" /\ at'[w] = "barrier" /\ hooks' = hooks
      /\ call'[w] = [call[w] EXCEPT !.token = t]
      /\ call'[w].token = t /\ call'[w].success = call[w].success
      /\ call[w].token = 0 /\ ~call[w].success
      /\ \A v \in Switchers : v # w => at'[v] = at[v] /\ call'[v] = call[v]
      /\ log' = log \o <<<<"before", t>>, <<"apdu_switching", t>>>>
  BY <1>0, <1>1 DEF BeforeSwitch, Tell, ownerVars, TokensAreOwn, CallType
<1>s. PICK s : s = log \o <<<<"before", t>>>>
  OBVIOUS
<1>r. PICK r : r = log \o <<<<"before", t>>, <<"apdu_switching", t>>>>
  OBVIOUS
<1>3. log \in Seq(Events \X (0 .. t)) /\ t \in 0 .. t /\ "before" \in Events /\ "apdu_switching" \in Events
  <2>1. Events \X (0 .. tokens) \subseteq Events \X (0 .. t)
    BY <1>0, <1>1
  <2> QED BY <1>0, <2>1 DEF Events, Phases
<1>4. log' = r /\ OneLonger(s, log, "before", t) /\ OneLonger(r, s, "apdu_switching", t)
  <2>1. OneLonger(s, log, "before", t)
    BY <1>s, <1>1, <1>3, TellMore
  <2>2. OneLonger(r, s, "apdu_switching", t)
    BY <1>r, <1>s, <1>1, <1>3, TellTwo
  <2> QED BY <1>r, <1>2, <2>1, <2>2
<1>5. /\ HeardIn(s, t) = HeardIn(log, t) \cup {"before"}
      /\ \A u : u # t => HeardIn(s, u) = HeardIn(log, u)
      /\ OrderIn(log) /\ (t > 0 => \A d \in HeardIn(log, t) : Rank(d) < Rank("before")) => OrderIn(s)
      /\ TogetherIn(log) => TogetherIn(s)
      /\ LastIn(log, t) => LastIn(s, t)
  <2>1. "before" \notin Phases
    BY DEF Phases
  <2> QED BY <1>4, <2>1, TellOne
<1>6. HeardIn(log, t) = {} /\ OrderIn(log) /\ TogetherIn(log)
  BY <1>1, StoryIn, Unheard
<1>7. LastIn(log, t)
  <2>1. ASSUME NEW i \in DOMAIN log, log[i][2] = t PROVE FALSE
    <3>1. log[i] \in Events \X (0 .. tokens)
      BY <1>0
    <3> QED BY <1>0, <1>1, <2>1, <3>1
  <2> QED BY <2>1 DEF LastIn
<1>8. OrderIn(s) /\ TogetherIn(s) /\ LastIn(s, t) /\ HeardIn(s, t) = {"before"}
  BY <1>5, <1>6, <1>7
<1>9. /\ HeardIn(r, t) = HeardIn(s, t) \cup {"apdu_switching"}
      /\ \A u : u # t => HeardIn(r, u) = HeardIn(s, u)
      /\ OrderIn(s) /\ (t > 0 => \A d \in HeardIn(s, t) : Rank(d) < Rank("apdu_switching")) => OrderIn(r)
      /\ TogetherIn(s) /\ ("apdu_switching" \in Phases /\ t > 0 => LastIn(s, t)) => TogetherIn(r)
      /\ LastIn(s, t) => LastIn(r, t)
  BY <1>4, TellOne
<1>10. Rank("before") < Rank("apdu_switching")
  BY DEF Rank
<1>11. OrderIn(r) /\ TogetherIn(r) /\ LastIn(r, t) /\ HeardIn(r, t) = Begun
  BY <1>8, <1>9, <1>10 DEF Begun
<1>12. InOrder' /\ PhasesStayTogether' /\ TellsLast(t)'
  <2>1. OrderIn(log') /\ TogetherIn(log') /\ LastIn(log', t)
    BY <1>4, <1>11
  <2>2. InOrder'
    BY <2>1 DEF InOrder, OrderIn
  <2>3. PhasesStayTogether'
    BY <2>1 DEF PhasesStayTogether, TogetherIn, IsPhase
  <2>4. TellsLast(t)'
    BY <2>1 DEF TellsLast, LastIn, IsPhase
  <2> QED BY <2>2, <2>3, <2>4
<1>13. Heard(t)' = Begun /\ \A u : u # t => Heard(u)' = Heard(u)
  BY <1>4, <1>5, <1>9, <1>11, StoryIn DEF Heard, HeardIn
<1>14. StoriesAreTold'
  <2>1. ASSUME NEW u \in 1 .. t, u # t
        PROVE  /\ \A v \in Switchers : call'[v].token = u => OwnStory(v)'
               /\ (\A v \in Switchers : call'[v].token # u) => StoryOver(u)'
    <3>1. u \in 1 .. tokens /\ Heard(u)' = Heard(u) /\ (u \in hooks' <=> u \in hooks)
      BY <1>0, <1>1, <1>2, <1>13, <2>1
    <3>2. ASSUME NEW v \in Switchers, call'[v].token = u PROVE OwnStory(v)'
      <4>1. v # w /\ at'[v] = at[v] /\ call'[v] = call[v] /\ OwnStory(v)
        BY <1>2, <2>1, <3>1, <3>2 DEF StoriesAreTold
      <4> QED BY <3>1, <3>2, <4>1 DEF OwnStory
    <3>3. ASSUME \A v \in Switchers : call'[v].token # u PROVE StoryOver(u)'
      <4>1. \A v \in Switchers : call[v].token # u
        BY <1>2, <2>1, <3>3
      <4> QED BY <3>1, <4>1 DEF StoriesAreTold, StoryOver
    <3> QED BY <3>2, <3>3
  <2>2. \A v \in Switchers : call'[v].token = t => v = w
    BY <1>0, <1>1, <1>2
  <2>3. OwnStory(w)'
    BY <1>0, <1>1, <1>2, <1>13 DEF OwnStory
  <2> QED BY <1>2, <2>1, <2>2, <2>3 DEF StoriesAreTold
<1>15. TellsLast(tokens)'
  BY <1>2, <1>12 DEF TellsLast
<1> QED BY <1>2, <1>12, <1>14, <1>15

LEMMA HookStory ==
  ASSUME SwitchTypeOK, TokensAreOwn, StoriesAreTold, InOrder, PhasesStayTogether, AfterSwitch
  PROVE  /\ StoriesAreTold' /\ InOrder' /\ PhasesStayTogether'
         /\ UNCHANGED <<at, call>> /\ \A u : TellsLast(u) => TellsLast(u)'
<1>1. PICK t \in hooks : /\ hooks' = hooks \ {t} /\ Tell(<<<<"after", t>>>>)
                         /\ UNCHANGED <<at, call, tokens>>
  BY DEF AfterSwitch
<1>2. t \in 0 .. tokens /\ tokens \in Nat /\ "after" \in Events /\ log' = log \o <<<<"after", t>>>>
  BY <1>1 DEF SwitchTypeOK, Events, Tell
<1>3. t > 0 => Heard(t) = Reset /\ \A v \in Switchers : call[v].token = t => OwnStory(v) /\ call[v].success
  <2>1. ASSUME t > 0, NEW v \in Switchers, call[v].token = t
        PROVE  OwnStory(v) /\ call[v].success /\ Heard(t) = Reset
    <3>1. t \in 1 .. tokens
      BY <1>2, <2>1
    <3>2. OwnStory(v)
      BY <2>1, <3>1 DEF StoriesAreTold
    <3> QED BY <1>1, <2>1, <3>2 DEF OwnStory
  <2>2. ASSUME t > 0, \A v \in Switchers : call[v].token # t PROVE Heard(t) = Reset
    <3>1. t \in 1 .. tokens
      BY <1>2, <2>2
    <3> QED BY <1>1, <2>2, <3>1 DEF StoriesAreTold, StoryOver
  <2> QED BY <2>1, <2>2
<1>4. "after" \notin Phases
  BY DEF Phases
<1>5. /\ Heard(t)' = Heard(t) \cup {"after"}
      /\ \A u : u # t => Heard(u)' = Heard(u)
      /\ InOrder /\ (t > 0 => \A d \in Heard(t) : Rank(d) < Rank("after")) => InOrder'
      /\ PhasesStayTogether'
      /\ \A u : TellsLast(u) => TellsLast(u)'
  BY <1>2, <1>4, OneTold
<1>6. InOrder'
  BY <1>3, <1>5 DEF Rank, Reset, Begun
<1>7. StoriesAreTold'
  <2>1. ASSUME NEW u \in 1 .. tokens, u # t
        PROVE  /\ \A v \in Switchers : call[v].token = u => OwnStory(v)'
               /\ (\A v \in Switchers : call[v].token # u) => StoryOver(u)'
    <3>1. Heard(u)' = Heard(u) /\ (u \in hooks' <=> u \in hooks)
      BY <1>1, <1>5, <2>1
    <3>2. ASSUME NEW v \in Switchers, call[v].token = u PROVE OwnStory(v)'
      BY <1>1, <2>1, <3>1, <3>2 DEF StoriesAreTold, OwnStory
    <3>3. ASSUME \A v \in Switchers : call[v].token # u PROVE StoryOver(u)'
      BY <2>1, <3>1, <3>3 DEF StoriesAreTold, StoryOver
    <3> QED BY <3>2, <3>3
  <2>2. ASSUME t > 0
        PROVE  /\ \A v \in Switchers : call[v].token = t => OwnStory(v)'
               /\ (\A v \in Switchers : call[v].token # t) => StoryOver(t)'
    <3>1. Heard(t)' = Reset \cup {"after"} /\ t \notin hooks'
      BY <1>1, <1>3, <1>5, <2>2
    <3>2. ASSUME NEW v \in Switchers, call[v].token = t PROVE OwnStory(v)'
      <4>1. OwnStory(v) /\ call[v].success /\ Heard(t) = Reset /\ t \in hooks
        BY <1>1, <1>3, <2>2, <3>2
      <4>2. at[v] \notin {"barrier", "command", "settle", "decide", "tell"}
        BY <3>2, <4>1 DEF TokensAreOwn
      <4> QED BY <1>1, <3>1, <3>2, <4>1, <4>2 DEF OwnStory
    <3>3. Reset \cup {"after"} \in Endings
      BY DEF Reset, Begun, Endings
    <3>4. StoryOver(t)'
      BY <3>1, <3>3 DEF StoryOver
    <3> QED BY <3>2, <3>4
  <2>3. ASSUME NEW u \in 1 .. tokens
        PROVE  /\ \A v \in Switchers : call[v].token = u => OwnStory(v)'
               /\ (\A v \in Switchers : call[v].token # u) => StoryOver(u)'
    <3>1. CASE u = t
      <4>1. t > 0
        BY <1>2, <3>1
      <4> QED BY <2>2, <3>1, <4>1
    <3>2. CASE u # t
      BY <2>1, <3>2
    <3> QED BY <3>1, <3>2
  <2>4. UNCHANGED <<call, tokens>>
    BY <1>1
  <2> QED BY <2>3, <2>4 DEF StoriesAreTold
<1> QED BY <1>1, <1>5, <1>6, <1>7

(* The lock keeps the phases of two switches apart. *)
LEMMA LastStep ==
  ASSUME SwitchTypeOK, LockIsHeld, TokensAreOwn, StoriesAreTold, InOrder, PhasesStayTogether, PhasesAreLast,
         NEW w \in Switchers, StartSwitch(w) \/ SwitchStep(w)
  PROVE  PhasesAreLast'
<1> USE DEF GoTo
<1> DEFINE Telling == {"barrier", "command", "settle", "decide", "leave"}
<1>0. /\ DOMAIN at = Switchers /\ DOMAIN call = Switchers /\ tokens \in Nat
      /\ call[w] \in CallType /\ call[w].token \in 0 .. tokens
  BY DEF SwitchTypeOK, CallType
<1>1. \A v \in Switchers : v # w => at'[v] = at[v] /\ call'[v] = call[v]
  BY <1>0 DEF StartSwitch, SwitchStep, FindAID, NotOpened, BeforeSwitch, BeginBarrier, BarrierFails, Command,
              ReleaseSwitchBarrier, Decide, LeaveSwitch, UnlockSwitch, SwitchFailed
<1>2. CASE SwitchFailed(w)
  <2>1. PICK t \in 0 .. tokens : t = call[w].token
    BY <1>0
  <2>2. /\ log' = log \o <<<<"switch_failed", t>>>> /\ "switch_failed" \in Events \ Phases
        /\ at'[w] = "out"
    BY <1>0, <1>2, <2>1 DEF SwitchFailed, Tell, Events, Phases
  <2>3. \A u : TellsLast(u) => TellsLast(u)'
    BY <2>2, OneTold
  <2>4. ASSUME NEW v \in Switchers, at'[v] \in Telling, call'[v].token # 0
        PROVE  TellsLast(call[v].token)' /\ call'[v] = call[v]
    <3>1. v # w /\ at[v] \in Telling /\ call'[v] = call[v] /\ TellsLast(call[v].token)
      BY <1>1, <2>2, <2>4 DEF PhasesAreLast
    <3> QED BY <2>3, <3>1 DEF TellsLast
  <2> QED BY <2>4 DEF PhasesAreLast
<1>3. CASE ~SwitchFailed(w)
  <2>1. \A v \in Switchers : v # w => at'[v] \notin Telling
    <3>1. ASSUME NEW v \in Switchers, v # w, at[v] \in Telling PROVE FALSE
      <4>1. switching = {v}
        BY <3>1 DEF LockIsHeld
      <4>2. \/ switching = {} \/ at[w] \notin {"out", "tell"}
        BY <1>3 DEF StartSwitch, SwitchStep, FindAID, NotOpened, BeforeSwitch, BeginBarrier, BarrierFails,
                    Command, ReleaseSwitchBarrier, Decide, LeaveSwitch, UnlockSwitch
      <4> QED BY <3>1, <4>1, <4>2 DEF LockIsHeld
    <3> QED BY <1>1, <3>1
  <2>2. SUFFICES ASSUME at'[w] \in Telling, call'[w].token # 0
                 PROVE  TellsLast(call[w].token)'
    BY <2>1 DEF PhasesAreLast
  <2>3. CASE BeforeSwitch(w)
    <3>1. call'[w].token = tokens' /\ TellsLast(tokens)'
      BY <2>3, BeginStory
    <3> QED BY <3>1 DEF TellsLast
  <2>4. CASE ~BeforeSwitch(w)
    <3>1. /\ at[w] \in Telling /\ call'[w].token = call[w].token
          /\ ReleaseSwitchBarrier(w) \/ log' = log
      <4>1. CASE StartSwitch(w)
        <5>1. at'[w] \in {"find", "open"}
          BY <1>0, <4>1 DEF StartSwitch
        <5> QED BY <2>2, <5>1
      <4>2. CASE FindAID(w) \/ NotOpened(w)
        BY <1>0, <2>2, <4>2 DEF FindAID, NotOpened, TokensAreOwn, CallType
      <4>3. CASE BeginBarrier(w) \/ BarrierFails(w) \/ Command(w) \/ ReleaseSwitchBarrier(w) \/ Decide(w)
        BY <1>0, <4>3 DEF BeginBarrier, BarrierFails, Command, ReleaseSwitchBarrier, Decide, ownerVars, CallType
      <4>4. CASE LeaveSwitch(w) \/ UnlockSwitch(w)
        BY <1>0, <2>2, <4>4 DEF LeaveSwitch, UnlockSwitch
      <4> QED BY <1>3, <2>4, <4>1, <4>2, <4>3, <4>4 DEF SwitchStep
    <3>2. PICK t : t = call[w].token /\ t = call'[w].token
      BY <3>1
    <3>3. TellsLast(t)
      BY <2>2, <3>1, <3>2 DEF PhasesAreLast
    <3>4. CASE log' = log
      BY <3>2, <3>3, <3>4 DEF TellsLast, IsPhase
    <3>5. CASE ReleaseSwitchBarrier(w)
      <4>1. log' = log \o <<<<"card_reset_settling", t>>>> /\ "card_reset_settling" \in Events /\ t \in 0 .. tokens
        BY <1>0, <3>2, <3>5 DEF ReleaseSwitchBarrier, Tell, Events, Phases
      <4>2. TellsLast(t)'
        BY <3>3, <4>1, OneTold
      <4> QED BY <3>2, <4>2 DEF TellsLast
    <3> QED BY <3>1, <3>4, <3>5
  <2> QED BY <2>3, <2>4
<1> QED BY <1>2, <1>3

-----------------------------------------------------------------------------
(* The theorems.                                                           *)

LEMMA SwitchInitially == SwitchInit => SwitchInv
<1> SUFFICES ASSUME SwitchInit PROVE SwitchInv OBVIOUS
<1>1. tokens = 0 /\ tokens \in Nat /\ NoCall \in CallType
  BY NoCallIs DEF SwitchInit
<1>2. SwitchTypeOK
  <2>1. log \in Seq(Events \X (0 .. tokens))
    BY DEF SwitchInit
  <2>2. call \in [Switchers -> CallType] /\ at \in [Switchers -> SwitchPlaces]
    BY <1>1 DEF SwitchInit, SwitchPlaces
  <2>3. calls \in 0 .. MaxSwitches
    BY SwitchAssumption DEF SwitchInit
  <2>4. active \in [AIDs -> Targets \cup {NoTarget}]
    BY DEF SwitchInit
  <2> QED BY <1>1, <2>1, <2>2, <2>3, <2>4 DEF SwitchInit, SwitchTypeOK
<1>3. LockIsHeld /\ SwitchIsAlone /\ ToldAsDone
  BY DEF SwitchInit, LockIsHeld, SwitchIsAlone, ToldAsDone
<1>4. \A w \in Switchers : at[w] = "out" /\ call[w].token = 0 /\ ~call[w].success
  BY DEF SwitchInit, NoCall
<1>5. TokensAreOwn /\ CallsKnow
  BY <1>4 DEF TokensAreOwn, CallsKnow
<1> QED BY <1>2, <1>3, <1>5 DEF SwitchInv

LEMMA SwitchStutters == SwitchInv /\ UNCHANGED switchVars => SwitchInv'
<1> SUFFICES ASSUME SwitchInv, UNCHANGED switchVars PROVE SwitchInv' OBVIOUS
<1>1. UNCHANGED <<withArbiter, home, active, leases, switching, at, call, barrier, hooks, log,
                  obeyed, unsure, succeeded, tokens, calls>>
  BY DEF switchVars, targetVars, ownerVars, answerVars
<1>2. SwitchTypeOK'
  BY <1>1 DEF SwitchInv, SwitchTypeOK, CallType
<1>3. LockIsHeld' /\ TokensAreOwn' /\ SwitchIsAlone'
  BY <1>1 DEF SwitchInv, LockIsHeld, TokensAreOwn, SwitchIsAlone
<1>4. CallsKnow' /\ ToldAsDone'
  BY <1>1 DEF SwitchInv, CallsKnow, Knows, ToldAsDone
<1> QED BY <1>2, <1>3, <1>4 DEF SwitchInv

(* The invariant of the switch holds in every state: its types, the lock,  *)
(* the tokens, the barrier, and what each call knows of its command.       *)
THEOREM SwitchKeepsInv == SwitchSpec => []SwitchInv
<1>1. SwitchInv /\ SwitchNext => SwitchInv'
  BY TypeStep, LockStep, AloneStep, TokensStep, KnowStep DEF SwitchInv
<1> QED BY <1>1, SwitchInitially, SwitchStutters, PTL DEF SwitchSpec

(* For any number of calls, authentications, applications and retries:     *)
(* with an arbiter no authentication holds the card while a profile is     *)
(* switched, and a call that is over has left no barrier behind            *)
(* (SwitchProfileWithResult, DisableProfile, beginSwitchBarrier).          *)
THEOREM SwitchStaysAlone == SwitchSpec => []SwitchIsAlone
<1>1. SwitchInv => SwitchIsAlone
  BY DEF SwitchInv
<1> QED BY <1>1, SwitchKeepsInv, PTL

(* A caller is told of success only for what the card has done, and the    *)
(* owner of failure only for what it has not, unless all that was heard of *)
(* the command was a reset or nothing (the deferred calls of               *)
(* SwitchProfileWithResult and DisableProfile).                            *)
THEOREM SwitchIsToldAsDone == SwitchSpec => []ToldAsDone
<1>1. SwitchInv => ToldAsDone
  BY DEF SwitchInv
<1> QED BY <1>1, SwitchKeepsInv, PTL

LEMMA StoryHolds ==
  SwitchInv /\ StoryInv /\ [SwitchNext]_switchVars => StoryInv'
<1> SUFFICES ASSUME SwitchInv, StoryInv, [SwitchNext]_switchVars PROVE StoryInv'
  OBVIOUS
<1>1. SwitchTypeOK /\ LockIsHeld /\ TokensAreOwn
  BY DEF SwitchInv
<1>2. StoriesAreTold /\ InOrder /\ PhasesStayTogether /\ PhasesAreLast
  BY DEF StoryInv
<1>3. SUFFICES StoriesAreTold' /\ InOrder' /\ PhasesStayTogether' /\ PhasesAreLast'
  BY DEF StoryInv
<1>4. ASSUME UNCHANGED <<log, tokens>>
      PROVE  InOrder' /\ PhasesStayTogether'
  BY <1>2, <1>4 DEF InOrder, PhasesStayTogether, IsPhase
<1>5. ASSUME NEW w \in Switchers, StartSwitch(w) \/ SwitchStep(w)
      PROVE  StoriesAreTold' /\ InOrder' /\ PhasesStayTogether' /\ PhasesAreLast'
  <2>1. PhasesAreLast'
    BY <1>1, <1>2, <1>5, LastStep
  <2>2. CASE BeforeSwitch(w)
    BY <1>1, <1>2, <2>1, <2>2, BeginStory
  <2>3. CASE Decide(w)
    BY <1>1, <1>2, <1>4, <2>1, <2>3, DecideStory
  <2>4. CASE ReleaseSwitchBarrier(w) \/ (LeaveSwitch(w) /\ ~call[w].success) \/ SwitchFailed(w)
    BY <1>1, <1>2, <2>1, <2>4, TellingSteps
  <2>5. CASE \/ StartSwitch(w) \/ FindAID(w) \/ NotOpened(w) \/ BeginBarrier(w) \/ BarrierFails(w)
             \/ Command(w) \/ UnlockSwitch(w) \/ (LeaveSwitch(w) /\ call[w].success)
    BY <1>1, <1>2, <1>4, <2>1, <2>5, SilentSteps
  <2> QED BY <1>5, <2>2, <2>3, <2>4, <2>5 DEF SwitchStep
<1>6. CASE AfterSwitch
  <2>1. /\ StoriesAreTold' /\ InOrder' /\ PhasesStayTogether'
        /\ UNCHANGED <<at, call>> /\ \A u : TellsLast(u) => TellsLast(u)'
    BY <1>1, <1>2, <1>6, HookStory
  <2>2. PhasesAreLast'
    BY <1>2, <2>1 DEF PhasesAreLast, TellsLast
  <2> QED BY <2>1, <2>2
<1>7. ASSUME UNCHANGED <<at, call, hooks, log, tokens>>
      PROVE  StoriesAreTold' /\ InOrder' /\ PhasesStayTogether' /\ PhasesAreLast'
  <2>1. \A t : Heard(t)' = Heard(t)
    BY <1>7 DEF Heard
  <2>2. StoriesAreTold'
    BY <1>2, <1>7, <2>1 DEF StoriesAreTold, OwnStory, StoryOver, Heard
  <2>3. PhasesAreLast'
    BY <1>2, <1>7 DEF PhasesAreLast, TellsLast, IsPhase
  <2> QED BY <1>4, <1>7, <2>2, <2>3
<1>8. ASSUME NEW u \in Authentications, AuthenticationLeases(u) \/ AuthenticationReleases(u)
      PROVE  StoriesAreTold' /\ InOrder' /\ PhasesStayTogether' /\ PhasesAreLast'
  BY <1>7, <1>8 DEF AuthenticationLeases, AuthenticationReleases, ownerVars
<1>9. CASE UNCHANGED switchVars
  BY <1>7, <1>9 DEF switchVars, ownerVars
<1> QED BY <1>5, <1>6, <1>8, <1>9 DEF SwitchNext

LEMMA StoryInitially == SwitchInit => StoryInv
<1> SUFFICES ASSUME SwitchInit PROVE StoryInv OBVIOUS
<1>1. tokens = 0 /\ log = <<>> /\ \A w \in Switchers : call[w].token = 0
  BY DEF SwitchInit, NoCall
<1> QED BY <1>1 DEF StoryInv, StoriesAreTold, InOrder, PhasesStayTogether, PhasesAreLast

(* What was told of a token is a beginning of one of the endings, and is   *)
(* one of them when nobody is left to go on.                               *)
LEMMA StoriesClose == SwitchInv /\ StoryInv => EverySwitchIsClosed
<1> SUFFICES ASSUME SwitchInv, StoryInv, NEW t \in 1 .. tokens
    PROVE  /\ \A i, k \in DOMAIN log :
                i < k /\ log[i][2] = t /\ log[k][2] = t => Rank(log[i][1]) < Rank(log[k][1])
           /\ \E s \in Endings : /\ Heard(t) \subseteq s
                                /\ \A e \in Heard(t), d \in s : Rank(d) < Rank(e) => d \in Heard(t)
           /\ \/ Heard(t) \in Endings
              \/ t \in hooks
              \/ \E w \in Switchers : at[w] # "out" /\ call[w].token = t
  BY DEF EverySwitchIsClosed
<1>1. t > 0 /\ InOrder /\ StoriesAreTold /\ TokensAreOwn /\ SwitchTypeOK
  BY DEF StoryInv, SwitchInv, SwitchTypeOK
<1>2. Heard(t) \in {Begun, Reset, Begun \cup {"failed"}, Reset \cup {"failed"}} \cup Endings
  <2>1. ASSUME NEW w \in Switchers, call[w].token = t
        PROVE  Heard(t) \in {Begun, Reset, Begun \cup {"failed"}, Reset \cup {"failed"}, Reset \cup {"after"}}
    <3>1. OwnStory(w) /\ at[w] \in SwitchPlaces \ {"out", "find", "open"} /\ call[w].success \in BOOLEAN
      BY <1>1, <2>1 DEF StoriesAreTold, TokensAreOwn, SwitchTypeOK, CallType
    <3> QED BY <2>1, <3>1 DEF OwnStory, SwitchPlaces
  <2>2. ASSUME \A w \in Switchers : call[w].token # t PROVE Heard(t) \in {Reset} \cup Endings
    BY <1>1, <2>2 DEF StoriesAreTold, StoryOver
  <2>3. Reset \cup {"after"} \in Endings
    BY DEF Reset, Begun, Endings
  <2> QED BY <2>1, <2>2, <2>3
<1>3. \E s \in Endings : /\ Heard(t) \subseteq s
                         /\ \A e \in Heard(t), d \in s : Rank(d) < Rank(e) => d \in Heard(t)
  <2>1. CASE Heard(t) \in Endings
    BY <2>1
  <2>2. CASE Heard(t) \in {Begun, Begun \cup {"failed"}}
    <3> DEFINE s == {"before", "apdu_switching", "failed", "switch_failed"}
    <3>1. s \in Endings
      BY DEF Endings
    <3>2. Heard(t) \subseteq s /\ \A e \in Heard(t), d \in s : Rank(d) < Rank(e) => d \in Heard(t)
      BY <2>2 DEF Begun, Rank
    <3> QED BY <3>1, <3>2
  <2>3. CASE Heard(t) \in {Reset, Reset \cup {"failed"}}
    <3> DEFINE s == {"before", "apdu_switching", "card_reset_settling", "failed", "switch_failed"}
    <3>1. s \in Endings
      BY DEF Endings
    <3>2. Heard(t) \subseteq s /\ \A e \in Heard(t), d \in s : Rank(d) < Rank(e) => d \in Heard(t)
      BY <2>3 DEF Reset, Begun, Rank
    <3> QED BY <3>1, <3>2
  <2> QED BY <1>2, <2>1, <2>2, <2>3
<1>4. \/ Heard(t) \in Endings
      \/ t \in hooks
      \/ \E w \in Switchers : at[w] # "out" /\ call[w].token = t
  <2>1. ASSUME NEW w \in Switchers, call[w].token = t PROVE at[w] # "out"
    BY <1>1, <2>1 DEF TokensAreOwn
  <2>2. (\A w \in Switchers : call[w].token # t) => t \in hooks \/ Heard(t) \in Endings
    BY <1>1 DEF StoriesAreTold, StoryOver
  <2> QED BY <2>1, <2>2
<1> QED BY <1>1, <1>3, <1>4 DEF InOrder

(* All that SwitchesAreTold says, for any number of calls, retries and     *)
(* applications: every token the owner of the manager hands out is told    *)
(* one of three stories, in order and to its end, the phases of two        *)
(* switches never mingle although failures and hooks come after the lock,  *)
(* the card is the switch's alone and the outcome told is the one that was *)
(* (SwitchProfileWithResult, DisableProfile, runPostSwitchRecovery).       *)
THEOREM SwitchIsTold == SwitchSpec => []SwitchesAreTold
<1>1. SwitchInv /\ StoryInv => SwitchesAreTold
  BY StoriesClose DEF SwitchesAreTold, SwitchInv, StoryInv
<1>2. SwitchSpec => []StoryInv
  <2>1. SwitchInv /\ StoryInv /\ [SwitchNext]_switchVars => StoryInv'
    BY StoryHolds
  <2> QED BY <2>1, StoryInitially, SwitchKeepsInv, PTL DEF SwitchSpec
<1> QED BY <1>1, <1>2, SwitchKeepsInv, PTL

-----------------------------------------------------------------------------
(* The notifications of the card.                                          *)

WorkRecords ==
  [op : {"none", "download", "delete", "list", "retry"},
   step : {"idle", "before", "card", "reopen", "look", "retrieve", "handle", "list", "load", "remove"},
   of : Packages \cup {"none"}, baseline : Nat, sure : BOOLEAN, target : Nat, tries : Nat,
   looks : Nat, found : BOOLEAN, mended : BOOLEAN, made : Nat,
   listed : SUBSET Nat, todo : SUBSET Nat, cleaned : SUBSET Nat]

NoticeTypes ==
  /\ number \in Nat /\ accepted \in SUBSET Nat
  /\ \A n \in held : n.number \in Nat /\ n.number <= number
IsJob(w) ==
  /\ w \in WorkRecords
  /\ w.step \in {"before", "card", "reopen", "look"} => w.op \in {"download", "delete"}
  /\ w.step \in {"list", "load", "remove"} => w.op = "list"
  /\ w.step # "idle" => w.op # "none"
  /\ w.step = "list" => w.cleaned = {}

(* What a list has seen and cleaned is what the card had and has not.      *)
ListIsTrue(w) ==
  w.op = "list" /\ w.step # "list" =>
    Numbers(held) \subseteq w.listed /\ w.cleaned \cap Numbers(held) = {}
RemovesAccepted(w) == w.step = "remove" => w.target \in accepted

(* An operation whose baseline is sure finds its own notification or none. *)
BaselineCovers(w) ==
  w.step = "card" /\ w.sure => \A n \in held : n.event = Event(w.op) => n.number <= w.baseline
OnlyOwnWanted(w) ==
  w.step \in {"reopen", "look"} /\ w.sure =>
    \A n \in held :
      n.event = Event(w.op) /\ n.number > w.baseline /\ (w.op = "delete" => n.of = w.of) =>
        n.number = w.made
TargetIsOwn(w) ==
  w.op \in {"download", "delete"} /\ w.step \in {"retrieve", "handle"} /\ w.sure => w.target = w.made

(* What the work in progress goes by.                                      *)
WorkKnows(w) ==
  IsJob(w) /\ ListIsTrue(w) /\ RemovesAccepted(w) /\ BaselineCovers(w) /\ OnlyOwnWanted(w)
  /\ TargetIsOwn(w)
NoticesInv == NoticeTypes /\ WorkKnows(work) /\ NotificationsAreSettled

LEMMA NoWorkKnows == WorkKnows(NoWork)
  BY DEF WorkKnows, IsJob, WorkRecords, NoWork, ListIsTrue, RemovesAccepted, BaselineCovers, OnlyOwnWanted, TargetIsOwn

LEMMA NoticesInitially == NotificationsInit => NoticesInv
  <1> SUFFICES ASSUME NotificationsInit PROVE NoticesInv
    OBVIOUS
  <1>1. NoticeTypes
    BY DEF NotificationsInit, NoticeTypes
  <1>2. WorkKnows(work)
    BY NoWorkKnows DEF NotificationsInit
  <1>3. NotificationsAreSettled
    BY DEF NotificationsInit, NotificationsAreSettled, NothingIsRemovedUnsent, NothingIsHidden,
       UnwarnedMeansSent
  <1> QED
    BY <1>1, <1>2, <1>3 DEF NoticesInv

(* An operation that ends leaves nothing to know but what it tells.        *)
LEMMA FinishStep ==
  ASSUME NoticeTypes', NothingIsRemovedUnsent', NEW w, NEW r, Finishes(w, r),
         r \in {"failed", "not observed", "not retrieved", "not handled", "not removed", "not found"}
           \/ (r = "sent" /\ (w.op # "retry" /\ w.sure => w.made \in accepted'))
  PROVE  NoticesInv'
  <1>1. WorkKnows(work)'
    BY DEF Finishes, WorkKnows, IsJob, WorkRecords, NoWork, ListIsTrue, RemovesAccepted, BaselineCovers,
       OnlyOwnWanted, TargetIsOwn
  <1>2. NothingIsHidden' /\ UnwarnedMeansSent'
    BY DEF Finishes, NothingIsHidden, UnwarnedMeansSent
  <1> QED
    BY <1>1, <1>2 DEF NoticesInv, NotificationsAreSettled

(* What was told stays true as long as nothing new is.                     *)
LEMMA ToldStays ==
  ASSUME NoticesInv, NoticeTypes', NothingIsRemovedUnsent', UNCHANGED answer,
         accepted \subseteq accepted', WorkKnows(work)'
  PROVE  NoticesInv'
  BY DEF NoticesInv, NotificationsAreSettled, NothingIsHidden, UnwarnedMeansSent

(* The card makes a notification with the next number.                     *)
LEMMA IssueStep ==
  ASSUME NoticesInv, NEW event, NEW of, Issue(event, of), accepted' = accepted
  PROVE  NoticeTypes' /\ NothingIsRemovedUnsent'
  <1>1. NoticeTypes'
    BY DEF Issue, NoticesInv, NoticeTypes
  <1>2. Numbers(held') = Numbers(held) \cup {number + 1}
    <2>1. PICK m : m.number = number + 1 /\ held' = held \cup {m}
      BY DEF Issue
    <2> QED
      BY <2>1 DEF Numbers
  <1>3. 1 .. number' = 1 .. number \cup {number + 1}
    BY DEF Issue, NoticesInv, NoticeTypes
  <1>4. NothingIsRemovedUnsent'
    BY <1>2, <1>3 DEF NoticesInv, NotificationsAreSettled, NothingIsRemovedUnsent
  <1> QED
    BY <1>1, <1>4

(* The newest of a set of notifications is none of the card's later ones.  *)
LEMMA NewestCovers ==
  ASSUME NoticeTypes, NEW notes \in SUBSET held
  PROVE  Newest(notes) \in Nat /\ \A n \in notes : n.number <= Newest(notes)
  <1> DEFINE T == Numbers(notes) \cup {0}
  <1>1. T \in SUBSET Nat /\ T # {} /\ \A y \in T : y <= number
    BY DEF NoticeTypes, Numbers
  <1>2. Max(T) \in T /\ \A y \in T : Max(T) >= y
    <2> HIDE DEF T
    <2>1. number \in Nat
      BY DEF NoticeTypes
    <2> QED
      BY <1>1, <2>1, MaxIsGreatest
  <1>3. Newest(notes) = Max(T)
    BY DEF Newest
  <1>4. \A n \in notes : n.number \in T
    BY DEF Numbers
  <1> HIDE DEF T
  <1>5. ASSUME NEW n \in notes PROVE n.number <= Newest(notes)
    BY <1>1, <1>2, <1>3, <1>4
  <1> QED
    BY <1>1, <1>2, <1>3, <1>5


(* The operation's own notification is the only one above its baseline.    *)
LEMMA OwnIsMade ==
  ASSUME NoticesInv, work.step = "card", NEW of, Issue(Event(work.op), of), accepted' = accepted,
         work' \in WorkRecords, work'.op = work.op, work'.step \in {"look", "reopen"},
         work'.made = number + 1,
         work'.sure => (work.sure /\ work'.baseline = work.baseline) \/ work'.baseline >= number
  PROVE  WorkKnows(work)'
  <1>1. PICK m : m.number = number + 1 /\ held' = held \cup {m}
    BY DEF Issue
  <1>2. number \in Nat /\ \A n \in held : n.number \in Nat /\ n.number <= number
    BY DEF NoticesInv, NoticeTypes
  <1>3. PICK w \in WorkRecords : w = work'
    OBVIOUS
  <1>4. w.baseline \in Nat /\ work.op \in {"download", "delete"}
    BY DEF WorkRecords, NoticesInv, WorkKnows, IsJob
  <1>5. ASSUME w.sure, NEW n \in held, n.event = Event(w.op) PROVE ~(n.number > w.baseline)
    <2>1. work.sure => n.number <= work.baseline
      BY <1>3, <1>5 DEF NoticesInv, WorkKnows, BaselineCovers
    <2> QED
      BY <1>2, <1>3, <1>4, <1>5, <2>1
  <1> QED
    BY <1>1, <1>3, <1>4, <1>5 DEF WorkKnows, IsJob, ListIsTrue, RemovesAccepted, BaselineCovers,
       OnlyOwnWanted, TargetIsOwn

LEMMA NothingIsMade ==
  ASSUME NoticesInv, work.step = "card", UNCHANGED <<held, accepted>>,
         work' \in WorkRecords, work'.op = work.op, work'.step \in {"look", "reopen"},
         work'.sure = work.sure, work'.baseline = work.baseline
  PROVE  WorkKnows(work)'
  <1>1. PICK w \in WorkRecords : w = work'
    OBVIOUS
  <1>2. w.baseline \in Nat /\ work.op \in {"download", "delete"}
    BY DEF WorkRecords, NoticesInv, WorkKnows, IsJob
  <1>3. w.sure => \A n \in held : n.event = Event(w.op) => ~(n.number > w.baseline)
    BY <1>1, <1>2 DEF NoticesInv, NoticeTypes, WorkKnows, BaselineCovers
  <1> QED
    BY <1>1, <1>2, <1>3 DEF WorkKnows, IsJob, ListIsTrue, RemovesAccepted, BaselineCovers,
       OnlyOwnWanted, TargetIsOwn

LEMMA NextNumber == ASSUME NEW t \in Nat PROVE \E m \in Nat : m = t + 1
  OBVIOUS

(* After a failing try the operation tries again, goes on or ends.         *)
LEMMA TryStep ==
  ASSUME NoticesInv, NoticeTypes', NothingIsRemovedUnsent', accepted \subseteq accepted',
         held' \subseteq held, work.step \in {"retrieve", "handle", "remove"},
         NEW r \in {"not retrieved", "not handled", "not removed"}, TryAgain(r)
  PROVE  NoticesInv'
  <1>0. work \in WorkRecords /\ WorkKnows(work) /\ Numbers(held') \subseteq Numbers(held)
    BY DEF NoticesInv, WorkKnows, IsJob, Numbers
  <1>1. CASE work' = [work EXCEPT !.tries = @ + 1] /\ UNCHANGED answer
    <2>1. PICK w : w = work'
      OBVIOUS
    <2>2. /\ w \in WorkRecords /\ w.op = work.op /\ w.step = work.step /\ w.sure = work.sure
          /\ w.target = work.target /\ w.made = work.made /\ w.listed = work.listed
          /\ w.cleaned = work.cleaned
      <3>1. PICK m \in Nat : m = work.tries + 1
        <4>1. work.tries \in Nat
          BY <1>0 DEF WorkRecords
        <4> QED
          BY <4>1, NextNumber
      <3>2. w = [work EXCEPT !.tries = m]
        BY <1>1, <2>1, <3>1
      <3> QED
        BY <1>0, <3>2 DEF WorkRecords
    <2>3. WorkKnows(work)'
      BY <1>0, <2>1, <2>2 DEF WorkKnows, IsJob, ListIsTrue, RemovesAccepted, BaselineCovers, OnlyOwnWanted,
         TargetIsOwn
    <2> QED
      BY <1>1, <2>3, ToldStays
  <1>2. CASE work.op = "list" /\ work' = NextLoaded(work) /\ UNCHANGED answer
    <2>1. PICK w : w = work'
      OBVIOUS
    <2>2. /\ w \in WorkRecords /\ w.op = "list" /\ w.step = "load" /\ w.listed = work.listed
          /\ w.cleaned = work.cleaned
      BY <1>0, <1>2, <2>1 DEF WorkRecords, NextLoaded
    <2>3. WorkKnows(work)'
      BY <1>0, <1>2, <2>1, <2>2 DEF WorkKnows, IsJob, ListIsTrue, RemovesAccepted, BaselineCovers,
         OnlyOwnWanted, TargetIsOwn
    <2> QED
      BY <1>2, <2>3, ToldStays
  <1>3. CASE Finishes(work, r)
    BY <1>3, FinishStep
  <1> QED
    BY <1>1, <1>2, <1>3 DEF TryAgain

LEMMA NoticesStep == NoticesInv /\ [NotificationsNext]_noticeVars => NoticesInv'
  <1> SUFFICES ASSUME NoticesInv, [NotificationsNext]_noticeVars PROVE NoticesInv'
    OBVIOUS
  <1>0. /\ NoticeTypes /\ NothingIsRemovedUnsent /\ WorkKnows(work) /\ IsJob(work) /\ work \in WorkRecords
    BY DEF NoticesInv, NotificationsAreSettled, WorkKnows, IsJob
  <1>a. ASSUME UNCHANGED <<held, number, accepted>> PROVE NoticeTypes' /\ NothingIsRemovedUnsent'
    BY <1>0, <1>a DEF NoticeTypes, NothingIsRemovedUnsent
  <1>b. ASSUME UNCHANGED <<held, number, accepted>>, WorkKnows(work)', UNCHANGED answer PROVE NoticesInv'
    BY <1>a, <1>b, ToldStays
  <1>c. ASSUME UNCHANGED <<held, number, accepted>>, Finishes(work, "failed") PROVE NoticesInv'
    BY <1>a, <1>c, FinishStep
  <1>1. ASSUME NEW p \in Packages, StartDownload(p) \/ StartDelete(p) PROVE NoticesInv'
    <2>1. /\ UNCHANGED <<held, number, accepted, answer>>
          /\ work' = Job("download", p, "before") \/ work' = Job("delete", p, "before")
      BY <1>1 DEF StartDownload, StartDelete, Begin, cardVars
    <2>2. PICK w : w = work'
      OBVIOUS
    <2>3. w \in WorkRecords /\ w.op \in {"download", "delete"} /\ w.step = "before"
      <3>1. \A op \in {"download", "delete"} :
              /\ Job(op, p, "before") \in WorkRecords /\ Job(op, p, "before").op = op
              /\ Job(op, p, "before").step = "before"
        BY NoWorkKnows DEF Job, WorkKnows, IsJob, WorkRecords
      <3> QED
        BY <2>1, <2>2, <3>1
    <2>4. WorkKnows(work)'
      BY <2>2, <2>3 DEF WorkKnows, IsJob, ListIsTrue, RemovesAccepted, BaselineCovers, OnlyOwnWanted,
         TargetIsOwn
    <2> QED
      BY <1>b, <2>1, <2>4
  <1>2. ASSUME StartList \/ \E k \in 1 .. MaxNumber : StartRetry(k) PROVE NoticesInv'
    <2>1. /\ UNCHANGED <<held, number, accepted, answer>>
          /\ \/ work' = Job("list", "none", "list")
             \/ \E k \in Nat : work' = [Job("retry", "none", "retrieve") EXCEPT !.target = k]
      BY <1>2, NotificationAssumption DEF StartList, StartRetry, Begin, cardVars
    <2>2. PICK w : w = work'
      OBVIOUS
    <2>3. /\ w \in WorkRecords
          /\ \/ w.op = "list" /\ w.step = "list" /\ w.cleaned = {}
             \/ w.op = "retry" /\ w.step = "retrieve"
      <3>1. /\ Job("list", "none", "list") \in WorkRecords /\ Job("list", "none", "list").op = "list"
            /\ Job("list", "none", "list").step = "list" /\ Job("list", "none", "list").cleaned = {}
        BY DEF Job, NoWork, WorkRecords
      <3>2. PICK j : j = Job("retry", "none", "retrieve")
        OBVIOUS
      <3>3. j \in WorkRecords /\ j.op = "retry" /\ j.step = "retrieve"
        BY <3>2 DEF Job, NoWork, WorkRecords
      <3>4. \A k \in Nat : /\ [j EXCEPT !.target = k] \in WorkRecords /\ [j EXCEPT !.target = k].op = "retry"
                           /\ [j EXCEPT !.target = k].step = "retrieve"
        BY <3>3 DEF WorkRecords
      <3>5. CASE w = Job("list", "none", "list")
        BY <3>1, <3>5
      <3>6. ASSUME NEW k \in Nat, w = [Job("retry", "none", "retrieve") EXCEPT !.target = k]
            PROVE  w \in WorkRecords /\ w.op = "retry" /\ w.step = "retrieve"
        BY <3>2, <3>4, <3>6
      <3> QED
        BY <2>1, <2>2, <3>5, <3>6
    <2>4. WorkKnows(work)'
      BY <2>2, <2>3 DEF WorkKnows, IsJob, ListIsTrue, RemovesAccepted, BaselineCovers, OnlyOwnWanted,
         TargetIsOwn
    <2> QED
      BY <1>b, <2>1, <2>4
  <1>3. CASE NoClient
    BY <1>c, <1>3 DEF NoClient, cardVars
  <1>4. CASE Switch
    <2>1. PICK event, of : Issue(event, of)
      BY <1>4 DEF Switch
    <2>2. work' = NoWork /\ accepted' = accepted /\ answer' = answer
      BY <1>4 DEF Switch
    <2>3. WorkKnows(work)'
      BY <2>2 DEF NoWork, WorkKnows, IsJob, WorkRecords, ListIsTrue, RemovesAccepted, BaselineCovers,
         OnlyOwnWanted, TargetIsOwn
    <2> QED
      BY <2>1, <2>2, <2>3, IssueStep, ToldStays
  <1>5. CASE ListBefore
    <2>0. /\ UNCHANGED <<held, number, accepted, answer>> /\ work.step = "before"
          /\ work.op \in {"download", "delete"}
      BY <1>0, <1>5 DEF ListBefore, cardVars, IsJob
    <2>1. PICK known : known = IF work.op = "delete" THEN held ELSE {n \in held : n.event = "install"}
      OBVIOUS
    <2>2. /\ Newest(known) \in Nat
          /\ \A n \in held : n.event = Event(work.op) => n.number <= Newest(known)
      <3>1. known \in SUBSET held /\ \A n \in held : n.event = Event(work.op) => n \in known
        BY <2>1 DEF Event
      <3> QED
        BY <1>0, <3>1, NewestCovers
    <2>3. PICK b \in Nat, u \in BOOLEAN :
            /\ work' = [work EXCEPT !.step = "card", !.baseline = b, !.sure = u]
            /\ u => b = Newest(known)
      <3>1. CASE work' = [work EXCEPT !.step = "card", !.baseline = Newest(known)]
        <4>1. PICK u \in BOOLEAN : u = work.sure
          BY <1>0 DEF WorkRecords
        <4>2. work' = [work EXCEPT !.step = "card", !.baseline = Newest(known), !.sure = u]
          BY <1>0, <3>1, <4>1 DEF WorkRecords
        <4> QED
          BY <2>2, <4>2
      <3>2. CASE work' = [work EXCEPT !.step = "card", !.sure = FALSE]
        <4>1. PICK b \in Nat : b = work.baseline
          BY <1>0 DEF WorkRecords
        <4>2. work' = [work EXCEPT !.step = "card", !.baseline = b, !.sure = FALSE]
          BY <1>0, <3>2, <4>1 DEF WorkRecords
        <4> QED
          BY <4>2
      <3> QED
        BY <1>5, <2>1, <3>1, <3>2 DEF ListBefore
    <2>4. PICK w : w = work'
      OBVIOUS
    <2>5. /\ w \in WorkRecords /\ w.step = "card" /\ w.op = work.op /\ (w.sure => w.baseline = Newest(known))
      BY <1>0, <2>3, <2>4 DEF WorkRecords
    <2>6. WorkKnows(work)'
      BY <2>0, <2>2, <2>4, <2>5 DEF WorkKnows, IsJob, ListIsTrue, RemovesAccepted, BaselineCovers,
         OnlyOwnWanted, TargetIsOwn
    <2> QED
      BY <1>b, <2>0, <2>6
  <1>6. CASE CardDeletes
    <2>0. /\ accepted' = accepted /\ work.op = "delete" /\ work.step = "card"
          /\ Event(work.op) = "delete"
      BY <1>6 DEF CardDeletes, Event
    <2>1. CASE Issue("delete", work.of) /\ work' = [work EXCEPT !.step = "look", !.made = number + 1]
               /\ UNCHANGED answer
      <3>1. /\ work' \in WorkRecords /\ work'.op = work.op /\ work'.step = "look" /\ work'.sure = work.sure
            /\ work'.made = number + 1 /\ work'.baseline = work.baseline
        <4>1. PICK m \in Nat : m = number + 1
          BY <1>0 DEF NoticeTypes
        <4>2. work' = [work EXCEPT !.step = "look", !.made = m]
          BY <2>1, <4>1
        <4> QED
          BY <1>0, <4>1, <4>2 DEF WorkRecords
      <3>2. WorkKnows(work)'
        BY <2>0, <2>1, <3>1, OwnIsMade
      <3> QED
        BY <2>0, <2>1, <3>2, IssueStep, ToldStays
    <2>2. CASE Issue("delete", work.of) /\ Finishes(work, "failed")
      BY <2>0, <2>2, IssueStep, FinishStep
    <2>3. CASE UNCHANGED cardVars /\ Finishes(work, "failed")
      BY <1>c, <2>0, <2>3 DEF cardVars
    <2> QED
      BY <1>6, <2>1, <2>2, <2>3 DEF CardDeletes
  <1>7. CASE Installs
    <2>0. /\ accepted' = accepted /\ answer' = answer /\ work.op = "download" /\ work.step = "card"
          /\ Event(work.op) = "install" /\ Issue("install", work.of)
      BY <1>7 DEF Installs, Event
    <2>1. /\ Max({work.baseline, number}) \in Nat /\ Max({work.baseline, number}) >= number
      <3>1. work.baseline \in Nat /\ number \in Nat
        BY <1>0 DEF WorkRecords, NoticeTypes
      <3>2. {work.baseline, number} \in SUBSET Nat /\ work.baseline + number \in Nat
            /\ \A y \in {work.baseline, number} : y <= work.baseline + number
        BY <3>1
      <3> QED
        BY <3>1, <3>2, MaxIsGreatest
    <2>2. /\ work' \in WorkRecords /\ work'.op = work.op /\ work'.step = "look"
          /\ work'.made = number + 1 /\ work'.baseline >= number
      <3>1. PICK m \in Nat : m = number + 1
        BY <1>0 DEF NoticeTypes
      <3>2. PICK b \in Nat : b = Max({work.baseline, number}) /\ b >= number
        BY <2>1
      <3>3. work' = [work EXCEPT !.step = "look", !.made = m, !.sure = TRUE, !.baseline = b]
        BY <1>7, <3>1, <3>2 DEF Installs
      <3> QED
        BY <1>0, <3>1, <3>2, <3>3 DEF WorkRecords
    <2>3. WorkKnows(work)'
      BY <2>0, <2>2, OwnIsMade
    <2> QED
      BY <2>0, <2>3, IssueStep, ToldStays
  <1>8. CASE DownloadFails
    <2>1. CASE UNCHANGED cardVars
      BY <1>c, <1>8, <2>1 DEF DownloadFails, cardVars
    <2>2. CASE Issue("install", work.of)
      BY <1>8, <2>2, IssueStep, FinishStep DEF DownloadFails
    <2> QED
      BY <1>8, <2>1, <2>2 DEF DownloadFails
  <1>9. CASE Cancelled
    <2>1. UNCHANGED <<held, number, accepted, answer>> /\ work.step = "card"
      BY <1>9 DEF Cancelled, cardVars
    <2>2. /\ work' \in WorkRecords /\ work'.op = work.op /\ work'.step = "look" /\ work'.sure = work.sure
          /\ work'.baseline = work.baseline
      BY <1>0, <1>9 DEF Cancelled, WorkRecords
    <2> QED
      BY <1>b, <2>1, <2>2, NothingIsMade
  <1>10. CASE AnswerIsLost
    <2>0. /\ accepted' = accepted /\ work.op = "download" /\ work.step = "card"
          /\ Event(work.op) = "install"
      BY <1>10 DEF AnswerIsLost, Event
    <2>1. PICK outcome \in {"installed", "refused", "cut"} :
            /\ IF outcome = "cut" THEN UNCHANGED <<held, number>> ELSE Issue("install", work.of)
            /\ IF work.sure
               THEN /\ UNCHANGED answer
                    /\ work' = [work EXCEPT !.step = "reopen",
                                            !.made = IF outcome = "cut" THEN 0 ELSE number + 1]
               ELSE Finishes(work, "failed")
      BY <1>10 DEF AnswerIsLost
    <2>2. CASE ~work.sure
      BY <1>a, <2>0, <2>1, <2>2, IssueStep, FinishStep
    <2>3. CASE work.sure
      <3>1. PICK m \in Nat : m = IF outcome = "cut" THEN 0 ELSE number + 1
        BY <1>0 DEF NoticeTypes
      <3>2. /\ work' \in WorkRecords /\ work'.op = work.op /\ work'.step = "reopen" /\ work'.sure = work.sure
            /\ work'.made = m /\ work'.baseline = work.baseline
        BY <1>0, <2>1, <2>3, <3>1 DEF WorkRecords
      <3>3. WorkKnows(work)'
        BY <2>0, <2>1, <2>3, <3>1, <3>2, OwnIsMade, NothingIsMade
      <3> QED
        BY <1>a, <2>0, <2>1, <2>3, <3>3, IssueStep, ToldStays
    <2> QED
      BY <2>2, <2>3
  <1>11. CASE Recover
    <2>0. UNCHANGED <<held, number, accepted>> /\ work.step = "reopen"
      BY <1>11 DEF Recover, cardVars
    <2>1. CASE work' = [work EXCEPT !.step = "look", !.mended = TRUE] /\ UNCHANGED answer
      <3>1. PICK w : w = work'
        OBVIOUS
      <3>2. /\ w \in WorkRecords /\ w.op = work.op /\ w.step = "look" /\ w.sure = work.sure /\ w.of = work.of
            /\ w.made = work.made /\ w.baseline = work.baseline
        BY <1>0, <2>1, <3>1 DEF WorkRecords
      <3>3. WorkKnows(work)'
        BY <1>0, <2>0, <3>1, <3>2 DEF WorkKnows, IsJob, ListIsTrue, RemovesAccepted, BaselineCovers,
           OnlyOwnWanted, TargetIsOwn
      <3> QED
        BY <1>b, <2>0, <2>1, <3>3
    <2> QED
      BY <1>c, <1>11, <2>0, <2>1 DEF Recover
  <1>12. CASE LookFor
    <2>0. UNCHANGED <<held, number, accepted>> /\ work.step = "look" /\ work.op \in {"download", "delete"}
      BY <1>0, <1>12 DEF LookFor, cardVars, IsJob
    <2>1. ASSUME NEW n \in Wanted, work' = [work EXCEPT !.step = "retrieve", !.target = n.number],
                 UNCHANGED answer
          PROVE  NoticesInv'
      <3>1. PICK w : w = work'
        OBVIOUS
      <3>2. /\ w \in WorkRecords /\ w.op = work.op /\ w.step = "retrieve" /\ w.sure = work.sure
            /\ w.target = n.number /\ w.made = work.made
        BY <1>0, <2>1, <3>1 DEF WorkRecords, Wanted, NoticeTypes
      <3>3. work.sure => n.number = work.made
        BY <1>0, <2>0 DEF Wanted, WorkKnows, OnlyOwnWanted
      <3>4. WorkKnows(work)'
        BY <2>0, <3>1, <3>2, <3>3 DEF WorkKnows, IsJob, ListIsTrue, RemovesAccepted, BaselineCovers,
           OnlyOwnWanted, TargetIsOwn
      <3> QED
        BY <1>b, <2>0, <2>1, <3>4
    <2>2. CASE work' = [work EXCEPT !.looks = @ + 1] /\ UNCHANGED answer
      <3>1. PICK w : w = work'
        OBVIOUS
      <3>2. /\ w \in WorkRecords /\ w.op = work.op /\ w.step = "look" /\ w.sure = work.sure /\ w.of = work.of
            /\ w.made = work.made /\ w.baseline = work.baseline
        BY <1>0, <2>0, <2>2, <3>1 DEF WorkRecords
      <3>3. WorkKnows(work)'
        BY <1>0, <2>0, <3>1, <3>2 DEF WorkKnows, IsJob, ListIsTrue, RemovesAccepted, BaselineCovers,
           OnlyOwnWanted, TargetIsOwn
      <3> QED
        BY <1>b, <2>0, <2>2, <3>3
    <2>3. CASE Finishes(work, "not observed")
      BY <1>a, <2>0, <2>3, FinishStep
    <2> QED
      BY <1>12, <2>1, <2>2, <2>3 DEF LookFor
  <1>13. CASE Retrieve
    <2>0. UNCHANGED <<held, number, accepted>> /\ work.step = "retrieve" /\ work.op # "none"
      BY <1>0, <1>13 DEF Retrieve, cardVars, IsJob
    <2>1. CASE work' = [work EXCEPT !.step = "handle", !.tries = 0] /\ UNCHANGED answer
      <3>1. PICK w : w = work'
        OBVIOUS
      <3>2. /\ w \in WorkRecords /\ w.op = work.op /\ w.step = "handle" /\ w.sure = work.sure
            /\ w.target = work.target /\ w.made = work.made /\ w.listed = work.listed
            /\ w.cleaned = work.cleaned
        BY <1>0, <2>1, <3>1 DEF WorkRecords
      <3>3. WorkKnows(work)'
        BY <1>0, <2>0, <3>1, <3>2 DEF WorkKnows, IsJob, ListIsTrue, RemovesAccepted, BaselineCovers,
           OnlyOwnWanted, TargetIsOwn
      <3> QED
        BY <1>b, <2>0, <2>1, <3>3
    <2>2. CASE work.op = "list" /\ work' = NextLoaded(work) /\ UNCHANGED answer
      <3>1. PICK w : w = work'
        OBVIOUS
      <3>2. /\ w \in WorkRecords /\ w.op = "list" /\ w.step = "load" /\ w.listed = work.listed
            /\ w.cleaned = work.cleaned
        BY <1>0, <2>2, <3>1 DEF WorkRecords, NextLoaded
      <3>3. WorkKnows(work)'
        BY <1>0, <2>0, <2>2, <3>1, <3>2 DEF WorkKnows, IsJob, ListIsTrue, RemovesAccepted, BaselineCovers,
           OnlyOwnWanted, TargetIsOwn
      <3> QED
        BY <1>b, <2>0, <2>2, <3>3
    <2>3. CASE Finishes(work, "not found")
      BY <1>a, <2>0, <2>3, FinishStep
    <2>4. CASE Finishes([work EXCEPT !.sure = FALSE], "sent")
      <3>1. PICK w : w = [work EXCEPT !.sure = FALSE]
        OBVIOUS
      <3>2. w.sure = FALSE
        BY <1>0, <3>1 DEF WorkRecords
      <3> QED
        BY <1>a, <2>0, <2>4, <3>1, <3>2, FinishStep
    <2>5. CASE TryAgain("not retrieved")
      BY <1>a, <2>0, <2>5, TryStep
    <2> QED
      BY <1>13, <2>1, <2>2, <2>3, <2>4, <2>5 DEF Retrieve
  <1>14. CASE Handle
    <2>0. UNCHANGED <<held, number>> /\ work.step = "handle" /\ work.op # "none"
          /\ accepted' \in {accepted, accepted \cup {work.target}} /\ work.target \in Nat
      BY <1>0, <1>14 DEF Handle, cardVars, IsJob, WorkRecords
    <2>1. NoticeTypes' /\ NothingIsRemovedUnsent' /\ accepted \subseteq accepted'
      BY <1>0, <2>0 DEF NoticeTypes, NothingIsRemovedUnsent
    <2>2. CASE /\ accepted' = accepted \cup {work.target} /\ work.op = "list" /\ UNCHANGED answer
               /\ work' = [work EXCEPT !.step = "remove", !.tries = 0]
      <3>1. PICK w : w = work'
        OBVIOUS
      <3>2. /\ w \in WorkRecords /\ w.op = "list" /\ w.step = "remove" /\ w.listed = work.listed
            /\ w.cleaned = work.cleaned /\ w.target = work.target
        BY <1>0, <2>2, <3>1 DEF WorkRecords
      <3>3. WorkKnows(work)'
        BY <1>0, <2>0, <2>2, <3>1, <3>2 DEF WorkKnows, IsJob, ListIsTrue, RemovesAccepted, BaselineCovers,
           OnlyOwnWanted, TargetIsOwn
      <3> QED
        BY <2>1, <2>2, <3>3, ToldStays
    <2>3. CASE /\ accepted' = accepted \cup {work.target} /\ work.op # "list" /\ Finishes(work, "sent")
      <3>1. work.op # "retry" /\ work.sure => work.made \in accepted'
        BY <1>0, <2>0, <2>3 DEF WorkKnows, TargetIsOwn, WorkRecords
      <3> QED
        BY <2>1, <2>3, <3>1, FinishStep
    <2>4. CASE TryAgain("not handled")
      BY <2>0, <2>1, <2>4, TryStep
    <2> QED
      BY <1>14, <2>2, <2>3, <2>4 DEF Handle
  <1>15. CASE ListAll
    <2>0. UNCHANGED <<held, number, accepted, answer>> /\ work.step = "list" /\ work.op = "list"
      BY <1>0, <1>15 DEF ListAll, cardVars, IsJob
    <2>1. PICK w : w = work'
      OBVIOUS
    <2>2. PICK heard \in SUBSET Nat : heard = Numbers(held)
      BY <1>0 DEF Numbers, NoticeTypes
    <2>3. PICK switched \in SUBSET Nat : switched = Numbers({n \in held : n.event \in {"enable", "disable"}})
      BY <1>0 DEF Numbers, NoticeTypes
    <2>4. /\ w \in WorkRecords /\ w.op = "list" /\ w.step = "load" /\ w.listed = heard
          /\ w.cleaned = work.cleaned
      <3>1. w = [work EXCEPT !.step = "load", !.listed = heard, !.todo = switched]
        BY <1>15, <2>1, <2>2, <2>3 DEF ListAll
      <3> QED
        BY <1>0, <2>0, <3>1 DEF WorkRecords
    <2>5. WorkKnows(work)'
      BY <1>0, <2>0, <2>1, <2>2, <2>4 DEF WorkKnows, IsJob, ListIsTrue, RemovesAccepted, BaselineCovers,
         OnlyOwnWanted, TargetIsOwn
    <2> QED
      BY <1>b, <2>0, <2>5
  <1>16. CASE Load
    <2>0. UNCHANGED <<held, number, accepted, answer>> /\ work.step = "load" /\ work.op = "list"
      BY <1>0, <1>16 DEF Load, cardVars, IsJob
    <2>1. PICK w : w = work'
      OBVIOUS
    <2>2. /\ w \in WorkRecords /\ w.op = "list" /\ w.step = "retrieve" /\ w.listed = work.listed
          /\ w.cleaned = work.cleaned
      <3>1. PICK k \in work.todo : work' = [work EXCEPT !.step = "retrieve", !.target = k, !.tries = 0]
        BY <1>16 DEF Load
      <3>2. k \in Nat
        BY <1>0, <3>1 DEF WorkRecords
      <3> QED
        BY <1>0, <2>0, <2>1, <3>1, <3>2 DEF WorkRecords
    <2>3. WorkKnows(work)'
      BY <1>0, <2>0, <2>1, <2>2 DEF WorkKnows, IsJob, ListIsTrue, RemovesAccepted, BaselineCovers,
         OnlyOwnWanted, TargetIsOwn
    <2> QED
      BY <1>b, <2>0, <2>3
  <1>17. CASE RemoveLoaded
    <2>0. /\ UNCHANGED <<number, accepted>> /\ work.step = "remove" /\ work.op = "list"
          /\ held' \in {held, {n \in held : n.number # work.target}}
          /\ work.target \in accepted /\ work.target \in Nat
      BY <1>0, <1>17 DEF RemoveLoaded, IsJob, WorkKnows, RemovesAccepted, WorkRecords
    <2>1. /\ held' \subseteq held
          /\ Numbers(held) \subseteq Numbers(held') \cup {work.target}
      BY <2>0 DEF Numbers
    <2>2. NoticeTypes' /\ NothingIsRemovedUnsent'
      BY <1>0, <2>0, <2>1 DEF NoticeTypes, NothingIsRemovedUnsent
    <2>3. CASE /\ held' = {n \in held : n.number # work.target}
               /\ work' = NextLoaded([work EXCEPT !.cleaned = @ \cup {work.target}])
               /\ UNCHANGED answer
      <3>1. PICK w : w = work'
        OBVIOUS
      <3>2. /\ w \in WorkRecords /\ w.op = "list" /\ w.step = "load" /\ w.listed = work.listed
            /\ w.cleaned = work.cleaned \cup {work.target}
        BY <1>0, <2>0, <2>3, <3>1 DEF WorkRecords, NextLoaded
      <3>3. Numbers(held') \subseteq Numbers(held) /\ work.target \notin Numbers(held')
        BY <2>3 DEF Numbers
      <3>4. WorkKnows(work)'
        BY <1>0, <2>0, <3>1, <3>2, <3>3 DEF WorkKnows, IsJob, ListIsTrue, RemovesAccepted, BaselineCovers,
           OnlyOwnWanted, TargetIsOwn
      <3> QED
        BY <2>0, <2>2, <2>3, <3>4, ToldStays
    <2>4. CASE TryAgain("not removed")
      BY <2>0, <2>1, <2>2, <2>4, TryStep
    <2> QED
      BY <1>17, <2>3, <2>4 DEF RemoveLoaded
  <1>18. CASE Show
    <2>0. UNCHANGED <<held, number, accepted>> /\ work.step = "load" /\ work.op = "list"
      BY <1>0, <1>18 DEF Show, cardVars, IsJob
    <2>1. ASSUME NEW known, Shows(known), Numbers(held) \subseteq known PROVE NoticesInv'
      <3>1. WorkKnows(work)'
        BY <2>0, <2>1 DEF Shows, NoWork, WorkKnows, IsJob, WorkRecords, ListIsTrue, RemovesAccepted, BaselineCovers,
           OnlyOwnWanted, TargetIsOwn
      <3>2. NothingIsHidden' /\ UnwarnedMeansSent'
        BY <2>0, <2>1 DEF Shows, NothingIsHidden, UnwarnedMeansSent
      <3> QED
        BY <1>a, <2>0, <3>1, <3>2 DEF NoticesInv, NotificationsAreSettled
    <2>2. Numbers(held) \subseteq work.listed \ work.cleaned
      BY <1>0, <2>0 DEF WorkKnows, ListIsTrue
    <2> QED
      BY <1>c, <1>18, <2>0, <2>1, <2>2 DEF Show
  <1>19. CASE UNCHANGED noticeVars
    BY <1>19 DEF noticeVars, cardVars, NoticesInv, NoticeTypes, WorkKnows, IsJob, ListIsTrue, RemovesAccepted,
       BaselineCovers, OnlyOwnWanted, TargetIsOwn, NotificationsAreSettled, NothingIsRemovedUnsent,
       NothingIsHidden, UnwarnedMeansSent
  <1> QED
    BY <1>1, <1>2, <1>3, <1>4, <1>5, <1>6, <1>7, <1>8, <1>9, <1>10, <1>11, <1>12, <1>13, <1>14, <1>15,
       <1>16, <1>17, <1>18, <1>19 DEF NotificationsNext

(* What is told of notifications is true of the card and of the server, for *)
(* any packages, retries and looks and any number of notifications and     *)
(* failing commands (autoCleanLoadedNotifications,                         *)
(* downloadNotificationBaseline, findMatchingDeleteNotification).          *)
THEOREM NoticesAreSettled == NotificationsSpec => []NotificationsAreSettled
  <1>1. NoticesInv => NotificationsAreSettled
    BY DEF NoticesInv
  <1> QED
    BY <1>1, NoticesInitially, NoticesStep, PTL DEF NotificationsSpec

(* What is sent or removed has been on the card, and what is downloaded or *)
(* deleted is a package.                                                   *)
WorkIsTyped ==
  /\ work.step \in {"handle", "remove"} => work.target \in 1 .. number
  /\ work.op \in {"download", "delete"} => work.of \in Packages
NoticesTyped == NotificationsTypeOK /\ WorkIsTyped

LEMMA NoticesTypedInitially == NotificationsInit => NoticesTyped
  BY NotificationAssumption
  DEF NotificationsInit, NoticesTyped, NotificationsTypeOK, WorkIsTyped, NoWork

LEMMA FinishesTyped ==
  ASSUME NEW w, NEW result, Finishes(w, result)
  PROVE  WorkIsTyped' /\ answer'.hidden = {}
  BY DEF Finishes, WorkIsTyped, NoWork

LEMMA TryAgainTyped ==
  ASSUME NEW result, TryAgain(result), work \in WorkRecords, WorkIsTyped, number' = number
  PROVE  WorkIsTyped' /\ (answer' = answer \/ answer'.hidden = {})
  <1>1. CASE work' = [work EXCEPT !.tries = @ + 1] /\ UNCHANGED answer
    <2>1. work'.step = work.step /\ work'.op = work.op /\ work'.target = work.target /\ work'.of = work.of
      BY <1>1 DEF WorkRecords
    <2> QED
      BY <1>1, <2>1 DEF WorkIsTyped
  <1>2. CASE work' = NextLoaded(work) /\ UNCHANGED answer
    <2>1. work'.step = "load" /\ work'.op = work.op /\ work'.of = work.of
      BY <1>2 DEF WorkRecords, NextLoaded
    <2> QED
      BY <1>2, <2>1 DEF WorkIsTyped
  <1>3. CASE Finishes(work, result)
    BY <1>3, FinishesTyped
  <1> QED
    BY <1>1, <1>2, <1>3 DEF TryAgain

LEMMA IssueTyped ==
  ASSUME NoticesTyped, NEW event \in {"install", "enable", "disable", "delete"}, NEW of \in Packages,
         Issue(event, of)
  PROVE  /\ number' \in 0 .. MaxNumber /\ number' = number + 1 /\ number \in Nat
         /\ held' \subseteq [number : 1 .. MaxNumber, event : {"install", "enable", "disable", "delete"},
                             of : Packages]
  BY NotificationAssumption DEF NoticesTyped, NotificationsTypeOK, Issue

LEMMA NumbersAreGiven ==
  ASSUME NoticeTypes, NotificationsTypeOK
  PROVE  Numbers(held) \subseteq 1 .. number
  BY NotificationAssumption DEF NoticeTypes, NotificationsTypeOK, Numbers

LEMMA NoticesTypedStep ==
  NoticesInv /\ NoticesTyped /\ [NotificationsNext]_noticeVars => NoticesTyped'
  <1> SUFFICES ASSUME NoticesInv, NoticesTyped, [NotificationsNext]_noticeVars PROVE NoticesTyped'
    OBVIOUS
  <1>0. /\ work \in WorkRecords /\ NoticeTypes /\ NotificationsTypeOK /\ WorkIsTyped
        /\ number \in Nat /\ noticeFaults \in Nat /\ Numbers(held) \subseteq 1 .. number
        /\ MaxNumber \in Nat /\ MaxCardFaults \in Nat
    BY NumbersAreGiven, NotificationAssumption
    DEF NoticesInv, WorkKnows, IsJob, NoticesTyped, NotificationsTypeOK
  <1>a. CardFault => noticeFaults' \in 0 .. MaxCardFaults
    BY <1>0 DEF CardFault, NotificationsTypeOK
  \* Steps that leave the card, the servers and the answer alone.
  <1>b. ASSUME UNCHANGED <<cardVars, accepted>>, WorkIsTyped', answer' = answer \/ answer'.hidden = {},
               CardFault \/ UNCHANGED noticeFaults
        PROVE  NoticesTyped'
    BY <1>0, <1>a, <1>b DEF NoticesTyped, NotificationsTypeOK, cardVars
  <1>1. ASSUME NEW p \in Packages, StartDownload(p) \/ StartDelete(p) PROVE NoticesTyped'
    <2>1. WorkIsTyped'
      BY <1>1 DEF StartDownload, StartDelete, Begin, Job, NoWork, WorkIsTyped
    <2> QED
      BY <1>1, <1>b, <2>1 DEF StartDownload, StartDelete, Begin
  <1>2. CASE StartList \/ \E k \in 1 .. MaxNumber : StartRetry(k)
    <2>1. WorkIsTyped'
      BY <1>2 DEF StartList, StartRetry, Begin, Job, NoWork, WorkIsTyped
    <2> QED
      BY <1>2, <1>b, <2>1 DEF StartList, StartRetry, Begin
  <1>3. CASE NoClient
    BY <1>3, <1>b, FinishesTyped DEF NoClient
  <1>4. CASE Switch
    <2>1. PICK p \in installed, event \in {"enable", "disable"} : Issue(event, p)
      BY <1>4 DEF Switch
    <2>2. p \in Packages
      BY <1>0 DEF NotificationsTypeOK
    <2>3. /\ number' \in 0 .. MaxNumber /\ number' = number + 1
          /\ held' \subseteq [number : 1 .. MaxNumber, event : {"install", "enable", "disable", "delete"},
                              of : Packages]
      BY <2>1, <2>2, IssueTyped
    <2> QED
      BY <1>0, <1>4, <2>3 DEF Switch, NoticesTyped, NotificationsTypeOK, WorkIsTyped
  <1>5. CASE ListBefore
    <2>1. work'.step = "card" /\ work'.op = work.op /\ work'.of = work.of
      BY <1>0, <1>5 DEF ListBefore, WorkRecords
    <2> QED
      BY <1>0, <1>5, <1>b, <2>1 DEF ListBefore, WorkIsTyped
  \* Steps in which the card makes a notification of the package at work.
  <1>c. ASSUME NEW event \in {"install", "delete"}, Issue(event, work.of), work.of \in Packages,
               installed' \subseteq Packages, accepted' = accepted, WorkIsTyped',
               answer' = answer \/ answer'.hidden = {}, CardFault \/ UNCHANGED noticeFaults
        PROVE  NoticesTyped'
    <2>1. /\ number' \in 0 .. MaxNumber /\ number' = number + 1
          /\ held' \subseteq [number : 1 .. MaxNumber, event : {"install", "enable", "disable", "delete"},
                              of : Packages]
      BY <1>c, IssueTyped
    <2>2. accepted' \subseteq 1 .. number' /\ answer'.hidden \subseteq 1 .. number'
      BY <1>0, <1>c, <2>1 DEF NotificationsTypeOK
    <2>3. noticeFaults' \in 0 .. MaxCardFaults
      BY <1>0, <1>a, <1>c DEF NotificationsTypeOK
    <2> QED
      BY <1>c, <2>1, <2>2, <2>3 DEF NoticesTyped, NotificationsTypeOK
  <1>6. CASE CardDeletes
    <2>1. work.of \in Packages /\ installed \subseteq Packages
      BY <1>0, <1>6 DEF CardDeletes, WorkIsTyped, NotificationsTypeOK
    <2>2. CASE UNCHANGED cardVars /\ CardFault /\ Finishes(work, "failed")
      BY <1>6, <1>b, <2>2, FinishesTyped DEF CardDeletes
    <2>3. CASE /\ installed' = installed \ {work.of} /\ Issue("delete", work.of)
               /\ CardFault /\ Finishes(work, "failed")
      BY <1>6, <1>c, <2>1, <2>3, FinishesTyped DEF CardDeletes
    <2>4. CASE /\ installed' = installed \ {work.of} /\ Issue("delete", work.of)
               /\ work' = [work EXCEPT !.step = "look", !.made = number + 1]
               /\ UNCHANGED <<answer, noticeFaults>>
      <3>1. work'.step = "look" /\ work'.op = work.op /\ work'.of = work.of
        BY <1>0, <2>4 DEF WorkRecords
      <3>2. WorkIsTyped'
        BY <1>0, <3>1 DEF WorkIsTyped
      <3> QED
        BY <1>6, <1>c, <2>1, <2>4, <3>2 DEF CardDeletes
    <2> QED
      BY <1>6, <2>2, <2>3, <2>4 DEF CardDeletes
  <1>7. CASE Installs
    <2>1. work.of \in Packages /\ installed' \subseteq Packages
      BY <1>0, <1>7 DEF Installs, WorkIsTyped, NotificationsTypeOK
    <2>2. work'.step = "look" /\ work'.op = work.op /\ work'.of = work.of
      BY <1>0, <1>7 DEF Installs, WorkRecords
    <2>3. WorkIsTyped'
      BY <1>0, <2>2 DEF WorkIsTyped
    <2> QED
      BY <1>7, <1>c, <2>1, <2>3 DEF Installs
  <1>8. CASE DownloadFails
    <2>1. work.of \in Packages /\ installed \subseteq Packages
      BY <1>0, <1>8 DEF DownloadFails, WorkIsTyped, NotificationsTypeOK
    <2>2. CASE UNCHANGED cardVars
      BY <1>8, <1>b, <2>2, FinishesTyped DEF DownloadFails
    <2>3. CASE Issue("install", work.of) /\ UNCHANGED installed
      BY <1>8, <1>c, <2>1, <2>3, FinishesTyped DEF DownloadFails
    <2> QED
      BY <1>8, <2>2, <2>3 DEF DownloadFails
  <1>9. CASE Cancelled
    <2>1. work'.step = "look" /\ work'.op = work.op /\ work'.of = work.of
      BY <1>0, <1>9 DEF Cancelled, WorkRecords
    <2> QED
      BY <1>0, <1>9, <1>b, <2>1 DEF Cancelled, WorkIsTyped
  <1>10. CASE AnswerIsLost
    <2>1. work.of \in Packages /\ installed' \subseteq Packages
      BY <1>0, <1>10 DEF AnswerIsLost, WorkIsTyped, NotificationsTypeOK
    <2>2. WorkIsTyped' /\ (answer' = answer \/ answer'.hidden = {})
      <3>1. CASE work.sure
        <4>1. work'.step = "reopen" /\ work'.op = work.op /\ work'.of = work.of /\ answer' = answer
          BY <1>0, <1>10, <3>1 DEF AnswerIsLost, WorkRecords
        <4> QED
          BY <1>0, <4>1 DEF WorkIsTyped
      <3>2. CASE ~work.sure
        BY <1>10, <3>2, FinishesTyped DEF AnswerIsLost
      <3> QED
        BY <3>1, <3>2
    <2>3. CASE Issue("install", work.of)
      BY <1>10, <1>c, <2>1, <2>2, <2>3 DEF AnswerIsLost
    <2>4. CASE UNCHANGED <<held, number>>
      BY <1>0, <1>10, <1>a, <2>1, <2>2, <2>4 DEF AnswerIsLost, NoticesTyped, NotificationsTypeOK
    <2> QED
      BY <1>10, <2>3, <2>4 DEF AnswerIsLost
  <1>11. CASE Recover
    <2>1. CASE work' = [work EXCEPT !.step = "look", !.mended = TRUE] /\ UNCHANGED answer
      <3>1. work'.step = "look" /\ work'.op = work.op /\ work'.of = work.of
        BY <1>0, <2>1 DEF WorkRecords
      <3> QED
        BY <1>0, <1>11, <1>b, <2>1, <3>1 DEF Recover, WorkIsTyped
    <2>2. CASE Finishes(work, "failed")
      BY <1>11, <1>b, <2>2, FinishesTyped DEF Recover
    <2> QED
      BY <1>11, <2>1, <2>2 DEF Recover
  <1>12. CASE LookFor
    <2>1. WorkIsTyped' /\ (answer' = answer \/ answer'.hidden = {})
      <3>1. ASSUME NEW n \in Wanted, work' = [work EXCEPT !.step = "retrieve", !.target = n.number]
            PROVE  WorkIsTyped'
        <4>1. work'.step = "retrieve" /\ work'.op = work.op /\ work'.of = work.of
          BY <1>0, <3>1 DEF WorkRecords
        <4> QED
          BY <1>0, <4>1 DEF WorkIsTyped
      <3>2. ASSUME work' = [work EXCEPT !.looks = @ + 1], work.step = "look" PROVE WorkIsTyped'
        <4>1. work'.step = work.step /\ work'.op = work.op /\ work'.of = work.of
          BY <1>0, <3>2 DEF WorkRecords
        <4> QED
          BY <1>0, <3>2, <4>1 DEF WorkIsTyped
      <3> QED
        BY <1>12, <3>1, <3>2, FinishesTyped DEF LookFor
    <2> QED
      BY <1>12, <1>b, <2>1 DEF LookFor
  <1>13. CASE Retrieve
    <2>1. CASE work.target \in Numbers(held) /\ work' = [work EXCEPT !.step = "handle", !.tries = 0]
               /\ UNCHANGED <<answer, noticeFaults>>
      <3>1. work'.target = work.target /\ work'.op = work.op /\ work'.of = work.of /\ number' = number
        BY <1>0, <1>13, <2>1 DEF Retrieve, cardVars, WorkRecords
      <3>2. WorkIsTyped'
        BY <1>0, <2>1, <3>1 DEF WorkIsTyped
      <3> QED
        BY <1>13, <1>b, <2>1, <3>2 DEF Retrieve
    <2>2. CASE work' = NextLoaded(work) /\ UNCHANGED answer
      <3>1. work'.step = "load" /\ work'.op = work.op /\ work'.of = work.of
        BY <1>0, <2>2 DEF WorkRecords, NextLoaded
      <3>2. WorkIsTyped'
        BY <1>0, <3>1 DEF WorkIsTyped
      <3> QED
        BY <1>13, <1>b, <2>1, <2>2, <3>2 DEF Retrieve
    <2>3. CASE \E w, result : Finishes(w, result)
      BY <1>13, <1>b, <2>1, <2>3, FinishesTyped DEF Retrieve
    <2>4. CASE CardFault /\ TryAgain("not retrieved")
      <3>1. number' = number
        BY <1>13 DEF Retrieve, cardVars
      <3> QED
        BY <1>0, <1>13, <1>b, <2>4, <3>1, TryAgainTyped DEF Retrieve
    <2> QED
      BY <1>13, <2>1, <2>2, <2>3, <2>4 DEF Retrieve
  <1>14. CASE Handle
    <2>1. /\ accepted' \subseteq 1 .. number /\ UNCHANGED cardVars /\ number' = number
          /\ CardFault \/ UNCHANGED noticeFaults
      BY <1>0, <1>14 DEF Handle, WorkIsTyped, NotificationsTypeOK, cardVars
    <2>2. WorkIsTyped' /\ (answer' = answer \/ answer'.hidden = {})
      <3>1. CASE work' = [work EXCEPT !.step = "remove", !.tries = 0] /\ UNCHANGED answer
        <4>1. work'.target = work.target /\ work'.op = work.op /\ work'.of = work.of /\ work.step = "handle"
          BY <1>0, <1>14, <3>1 DEF Handle, WorkRecords
        <4> QED
          BY <1>0, <2>1, <3>1, <4>1 DEF WorkIsTyped
      <3> QED
        BY <1>0, <1>14, <2>1, <3>1, FinishesTyped, TryAgainTyped DEF Handle
    <2> QED
      BY <1>0, <1>a, <2>1, <2>2 DEF NoticesTyped, NotificationsTypeOK, cardVars
  <1>15. CASE ListAll
    <2>1. work'.step = "load" /\ work'.op = work.op /\ work'.of = work.of
      BY <1>0, <1>15 DEF ListAll, WorkRecords
    <2> QED
      BY <1>0, <1>15, <1>b, <2>1 DEF ListAll, WorkIsTyped
  <1>16. CASE Load
    <2>1. work'.step = "retrieve" /\ work'.op = work.op /\ work'.of = work.of
      BY <1>0, <1>16 DEF Load, WorkRecords
    <2> QED
      BY <1>0, <1>16, <1>b, <2>1 DEF Load, WorkIsTyped
  <1>17. CASE RemoveLoaded
    <2>1. held' \subseteq held /\ UNCHANGED <<installed, number, accepted, answer>>
      BY <1>17 DEF RemoveLoaded
    <2>2. WorkIsTyped' /\ (answer' = answer \/ answer'.hidden = {}) /\ (CardFault \/ UNCHANGED noticeFaults)
      <3>1. CASE work' = NextLoaded([work EXCEPT !.cleaned = @ \cup {work.target}])
                 /\ UNCHANGED noticeFaults
        <4>1. work'.step = "load" /\ work'.op = work.op /\ work'.of = work.of
          BY <1>0, <3>1 DEF WorkRecords, NextLoaded
        <4> QED
          BY <1>0, <2>1, <3>1, <4>1 DEF WorkIsTyped
      <3> QED
        BY <1>0, <1>17, <2>1, <3>1, TryAgainTyped DEF RemoveLoaded
    <2> QED
      BY <1>0, <1>a, <2>1, <2>2 DEF NoticesTyped, NotificationsTypeOK
  <1>18. CASE Show
    <2>1. UNCHANGED <<cardVars, accepted>> /\ (CardFault \/ UNCHANGED noticeFaults)
      BY <1>18 DEF Show
    <2>2. WorkIsTyped' /\ answer'.hidden \subseteq 1 .. number
      <3>1. ASSUME NEW known, Shows(known) PROVE WorkIsTyped' /\ answer'.hidden \subseteq 1 .. number
        BY <1>0, <3>1 DEF Shows, WorkIsTyped, NoWork
      <3> QED
        BY <1>18, <3>1, FinishesTyped DEF Show
    <2> QED
      BY <1>0, <1>a, <2>1, <2>2 DEF NoticesTyped, NotificationsTypeOK, cardVars
  <1>19. CASE UNCHANGED noticeVars
    BY <1>0, <1>19 DEF noticeVars, cardVars, NoticesTyped, NotificationsTypeOK, WorkIsTyped
  <1> QED
    BY <1>1, <1>2, <1>3, <1>4, <1>5, <1>6, <1>7, <1>8, <1>9, <1>10, <1>11, <1>12, <1>13, <1>14, <1>15,
       <1>16, <1>17, <1>18, <1>19 DEF NotificationsNext

(* The card's list, the numbers a server has accepted and those a list     *)
(* hides are numbers that the card has given (HandleNotification,          *)
(* listNotificationItemsWithCleanup).                                      *)
THEOREM NoticesTypeCorrect == NotificationsSpec => []NotificationsTypeOK
  <1>1. NoticesTyped => NotificationsTypeOK
    BY DEF NoticesTyped
  <1> QED
    BY <1>1, NoticesInitially, NoticesStep, NoticesTypedInitially, NoticesTypedStep, PTL
    DEF NotificationsSpec

-----------------------------------------------------------------------------
(* The parts of the manager in one specification.  A behaviour of it is a  *)
(* behaviour of each part, the ones that rest included.                    *)

LEMMA PartsBehave ==
  ESIMSpec => Spec /\ NotificationsSpec /\ ChannelsSpec /\ SwitchSpec
  <1>1. ESIMInit => Init /\ NotificationsInit /\ ChannelsInit /\ SwitchInit
    BY DEF ESIMInit
  <1>2. [ESIMNext]_<<esimPart, vars, noticeVars, channelVars, switchVars>> =>
          /\ [Next]_vars /\ [NotificationsNext]_noticeVars
          /\ [ChannelsNext]_channelVars /\ [SwitchNext]_switchVars
    BY DEF ESIMNext, OverviewPart, NoticesPart, ChannelsPart, SwitchPart
  <1> QED
    BY <1>1, <1>2, PTL DEF ESIMSpec, Spec, NotificationsSpec, ChannelsSpec, SwitchSpec

(* Each part of the manager keeps its types, whichever runs.               *)
THEOREM ESIMTypeCorrect == ESIMSpec => []ESIMTypeOK
  <1>1. ESIMSpec => [](esimPart \in {"overview", "notices", "channels", "switch"})
    <2>1. ESIMInit => esimPart \in {"overview", "notices", "channels", "switch"}
      BY DEF ESIMInit
    <2>2. esimPart \in {"overview", "notices", "channels", "switch"}
          /\ [ESIMNext]_<<esimPart, vars, noticeVars, channelVars, switchVars>>
          => (esimPart \in {"overview", "notices", "channels", "switch"})'
      BY DEF ESIMNext, OverviewPart, NoticesPart, ChannelsPart, SwitchPart
    <2> QED
      BY <2>1, <2>2, PTL DEF ESIMSpec
  <1>2. SwitchInv => SwitchTypeOK
    BY DEF SwitchInv
  <1>3. /\ esimPart \in {"overview", "notices", "channels", "switch"}
        /\ TypeOK /\ NotificationsTypeOK /\ ChannelsTypeOK /\ SwitchTypeOK
        => ESIMTypeOK
    BY DEF ESIMTypeOK
  <1> QED
    BY <1>1, <1>2, <1>3, PartsBehave, OverviewTypeCorrect, NoticesTypeCorrect, ChannelsTypeCorrect,
       SwitchKeepsInv, PTL

(* All that the run checks of the manager holds of the specification that  *)
(* the run checks it for, for every value of the constants.                *)
THEOREM ESIMIsSafe ==
  ESIMSpec => [](/\ CachesAreCurrent /\ AnswersAreFresh /\ NotificationsAreSettled
                 /\ ChannelsAreApart /\ SwitchesAreTold)
  BY PartsBehave, CachesStayCurrent, AnswersStayFresh, NoticesAreSettled, ChannelsStayApart,
     SwitchIsTold, PTL
=============================================================================
