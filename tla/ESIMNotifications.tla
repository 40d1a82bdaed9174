-------------------------- MODULE ESIMNotifications --------------------------
(***************************************************************************)
(* Notifications of the eUICC (internal/esim/manager.go).  The card notes  *)
(* every install, enable, disable and delete under a growing sequence      *)
(* number; the manager owes each of them to the operator's SM-DP+.         *)
(* DownloadProfile and DeleteProfile look for the new notification and     *)
(* send it, ListNotifications sends and removes those of switches,         *)
(* RetryNotification sends one on demand.  The operations hold the same    *)
(* lock, so one at a time is in progress: the record work.                 *)
(***************************************************************************)
EXTENDS Naturals, FiniteSets, FiniteSetsExt

CONSTANTS
  Packages,      \* profiles that can be downloaded and deleted
  Tries,         \* maxRetries + 1 of retryWithBackoff
  Looks,         \* attempts of find...NotificationWithWait
  MaxNumber,     \* notifications the card makes (bound of the model)
  MaxCardFaults  \* failing commands of card and server (bound of the model)

ASSUME NotificationAssumption ==
  Packages # {} /\ Tries \in Nat \ {0} /\ Looks \in Nat \ {0} /\ MaxNumber \in Nat /\ MaxCardFaults \in Nat

VARIABLES
  installed,     \* profiles on the card
  held,          \* the card's list of notifications: [number, event, of]
  number,        \* the last number it gave
  accepted,      \* numbers an SM-DP+ has accepted
  work,          \* the operation in progress
  answer,        \* what the last operation told, and what its list hid
  noticeFaults         \* failing commands so far

cardVars == <<installed, held, number>>
noticeVars == <<cardVars, accepted, work, answer, noticeFaults>>

Event(op) == IF op = "delete" THEN "delete" ELSE "install"
Numbers(notes) == {n.number : n \in notes}
Newest(notes) == Max(Numbers(notes) \cup {0})

(* made is the number of the operation's own notification, or 0; sure says *)
(* that the numbers before it were known and no answer was empty.          *)
NoWork == [op |-> "none", step |-> "idle", of |-> "none", baseline |-> 0, sure |-> TRUE,
           target |-> 0, tries |-> 0, looks |-> 0, found |-> FALSE, mended |-> FALSE,
           made |-> 0, listed |-> {}, todo |-> {}, cleaned |-> {}]
Job(op, of, step) == [NoWork EXCEPT !.op = op, !.of = of, !.step = step]

NotificationsInit ==
  /\ installed \in {{}, {CHOOSE p \in Packages : TRUE}}
  /\ held = {} /\ number = 0 /\ accepted = {}
  /\ work = NoWork /\ noticeFaults = 0
  /\ answer = [op |-> "none", result |-> "none", made |-> 0, sure |-> TRUE,
               hidden |-> {}]

CardFault == noticeFaults < MaxCardFaults /\ noticeFaults' = noticeFaults + 1
Issue(event, of) ==
  /\ number < MaxNumber /\ number' = number + 1
  /\ held' = held \cup {[number |-> number + 1, event |-> event, of |-> of]}

(* The operation ends.  A recovery that could not be confirmed is the       *)
(* failure it set out to mend.                                             *)
Finishes(w, result) ==
  /\ work' = NoWork
  /\ answer' = [op |-> w.op, made |-> w.made, sure |-> w.sure, hidden |-> {},
                result |-> IF ~w.mended THEN result
                           ELSE IF result = "sent" THEN "recovered" ELSE "failed"]

-----------------------------------------------------------------------------
(* The operations begin.  A client that cannot be made, or a list that is  *)
(* to be told and cannot be read, ends them at once.                       *)

Begin(op, of, step) ==
  /\ work = NoWork /\ work' = Job(op, of, step)
  /\ UNCHANGED <<cardVars, accepted, answer, noticeFaults>>

StartDownload(p) == p \notin installed /\ number < MaxNumber /\ Begin("download", p, "before")
StartDelete(p) == p \in installed /\ number < MaxNumber /\ Begin("delete", p, "before")
StartList == Begin("list", "none", "list")
StartRetry(k) ==
  /\ k \in 1 .. number
  /\ work = NoWork /\ work' = [Job("retry", "none", "retrieve") EXCEPT !.target = k]
  /\ UNCHANGED <<cardVars, accepted, answer, noticeFaults>>

NoClient ==
  /\ \/ work.step \in {"before", "list"}
     \/ work.op = "retry" /\ work.step = "retrieve"
  /\ CardFault /\ Finishes(work, "failed")
  /\ UNCHANGED <<cardVars, accepted>>

(* Between operations of this module a profile is switched. *)
Switch ==
  /\ work = NoWork
  /\ \E p \in installed, event \in {"enable", "disable"} : Issue(event, p)
  /\ UNCHANGED <<installed, accepted, work, answer, noticeFaults>>

(* The numbers before the operation: of installs for a download, of all    *)
(* for a deletion.  If they cannot be read the operation goes on with 0.   *)
ListBefore ==
  /\ work.step = "before"
  /\ \/ LET seen == IF work.op = "delete" THEN held
                    ELSE {n \in held : n.event = "install"}
        IN  work' = [work EXCEPT !.step = "card", !.baseline = Newest(seen)]
        /\ UNCHANGED noticeFaults
     \/ work' = [work EXCEPT !.step = "card", !.sure = FALSE] /\ CardFault
  /\ UNCHANGED <<cardVars, accepted, answer>>

-----------------------------------------------------------------------------
(* The card deletes, or fails, or its answer is lost.                      *)
CardDeletes ==
  /\ work.op = "delete" /\ work.step = "card"
  /\ \/ /\ installed' = installed \ {work.of} /\ Issue("delete", work.of)
        /\ \/ /\ work' = [work EXCEPT !.step = "look", !.made = number + 1]
              /\ UNCHANGED <<answer, noticeFaults>>
           \/ CardFault /\ Finishes(work, "failed")
     \/ CardFault /\ Finishes(work, "failed") /\ UNCHANGED cardVars
  /\ UNCHANGED <<accepted>>

(* The package is installed and the result names its notification. *)
Installs ==
  /\ work.op = "download" /\ work.step = "card"
  /\ installed' = installed \cup {work.of} /\ Issue("install", work.of)
  /\ work' = [work EXCEPT !.step = "look", !.made = number + 1, !.sure = TRUE,
                          !.baseline = Max({work.baseline, number})]
  /\ UNCHANGED <<accepted, answer, noticeFaults>>

(* Too little space, no IMEI, a bad address, an error before the package   *)
(* is written, or a result that says the card refused the package.         *)
DownloadFails ==
  /\ work.op = "download" /\ work.step = "card"
  /\ CardFault /\ Finishes(work, "failed")
  /\ \/ UNCHANGED cardVars
     \/ Issue("install", work.of) /\ UNCHANGED installed
  /\ UNCHANGED <<accepted>>

(* The context ended in time: the session is cancelled without an error,   *)
(* and the manager goes on as after a download.                            *)
Cancelled ==
  /\ work.op = "download" /\ work.step = "card"
  /\ CardFault /\ work' = [work EXCEPT !.step = "look"]
  /\ UNCHANGED <<cardVars, accepted, answer>>

(* An error while the package is written, after which the card may have    *)
(* installed it, refused it, or seen too little of it for either.  It is   *)
(* looked into if the numbers before are known.                            *)
AnswerIsLost ==
  /\ work.op = "download" /\ work.step = "card" /\ CardFault
  /\ \E outcome \in {"installed", "refused", "cut"} :
       /\ IF outcome = "cut" THEN UNCHANGED <<held, number>> ELSE Issue("install", work.of)
       /\ installed' = IF outcome = "installed" THEN installed \cup {work.of} ELSE installed
       /\ IF work.sure
          THEN /\ UNCHANGED answer
               /\ work' = [work EXCEPT !.step = "reopen",
                                       !.made = IF outcome = "cut" THEN 0 ELSE number + 1]
          ELSE Finishes(work, "failed")
  /\ UNCHANGED <<accepted>>

(* recoverDownloadInstallFinalizeError: not of an error that nothing is    *)
(* known to mend, nor after the context, nor without a client.             *)
Recover ==
  /\ work.step = "reopen"
  /\ \/ work' = [work EXCEPT !.step = "look", !.mended = TRUE] /\ UNCHANGED answer
     \/ Finishes(work, "failed")
  /\ UNCHANGED <<cardVars, accepted, noticeFaults>>

-----------------------------------------------------------------------------
(* resolveDeleteNotificationResult, resolveDownloadNotificationResult.     *)

(* mutant: any notification of the profile will do *)
WantedOld ==
  {n \in held : n.event = Event(work.op) /\ (work.op = "delete" => n.of = work.of)}
Wanted ==
  {n \in held : /\ n.event = Event(work.op) /\ n.number > work.baseline
                /\ work.op = "delete" => n.of = work.of}

LookFor ==
  /\ work.step = "look"
  /\ \/ /\ UNCHANGED <<answer, noticeFaults>>
        /\ \E n \in Wanted : work' = [work EXCEPT !.step = "retrieve", !.target = n.number]
     \/ /\ IF Wanted = {} THEN UNCHANGED noticeFaults ELSE CardFault
        /\ IF work.looks + 1 < Looks
           THEN work' = [work EXCEPT !.looks = @ + 1] /\ UNCHANGED answer
           ELSE Finishes(work, "not observed")
  /\ UNCHANGED <<cardVars, accepted>>

(* One of todo is done with. *)
NextLoaded(w) == [w EXCEPT !.step = "load", !.todo = @ \ {w.target}, !.tries = 0]
Attempts == IF work.op = "retry" /\ work.step = "retrieve" THEN 1 ELSE Tries
(* After a failing try: another one, or the operation gives this up. *)
TryAgain(result) ==
  IF work.tries + 1 < Attempts
  THEN work' = [work EXCEPT !.tries = @ + 1] /\ UNCHANGED answer
  ELSE IF work.op = "list" THEN work' = NextLoaded(work) /\ UNCHANGED answer
  ELSE Finishes(work, result)

(* The card answers a number with its notification; an answer without one  *)
(* is no error, and after a download or a deletion nothing is sent.        *)
Retrieve ==
  /\ work.step = "retrieve"
  /\ \/ /\ work.target \in Numbers(held) /\ UNCHANGED <<answer, noticeFaults>>
        /\ work' = [work EXCEPT !.step = "handle", !.tries = 0]
     \/ /\ IF work.target \in Numbers(held) THEN CardFault ELSE UNCHANGED noticeFaults
        /\ CASE work.op = "list" -> work' = NextLoaded(work) /\ UNCHANGED answer
             [] work.op = "retry" -> Finishes(work, "not found")
             [] OTHER -> Finishes([work EXCEPT !.sure = FALSE], "sent")
     \/ CardFault /\ TryAgain("not retrieved")
  /\ UNCHANGED <<cardVars, accepted>>

(* HandleNotification: the server may have accepted what is told failed. *)
(* mutant: a notification that is not accepted is removed all the same *)
HandleAnyway ==
  /\ work.step = "handle"
  /\ \/ accepted' = accepted \cup {work.target} /\ UNCHANGED noticeFaults
     \/ accepted' = accepted /\ CardFault
  /\ IF work.op = "list"
     THEN work' = [work EXCEPT !.step = "remove", !.tries = 0] /\ UNCHANGED answer
     ELSE Finishes(work, "sent")
  /\ UNCHANGED cardVars
Handle ==
  /\ work.step = "handle"
  /\ \/ /\ accepted' = accepted \cup {work.target} /\ UNCHANGED noticeFaults
        /\ IF work.op = "list"
           THEN work' = [work EXCEPT !.step = "remove", !.tries = 0] /\ UNCHANGED answer
           ELSE Finishes(work, "sent")
     \/ /\ accepted' \in {accepted, accepted \cup {work.target}}
        /\ CardFault /\ TryAgain("not handled")
  /\ UNCHANGED cardVars

-----------------------------------------------------------------------------
(* listNotificationItemsWithCleanup, autoCleanLoadedNotifications.         *)

ListAll ==
  /\ work.step = "list" /\ UNCHANGED <<answer, noticeFaults>>
  /\ work' = [work EXCEPT !.step = "load", !.listed = Numbers(held),
                !.todo = Numbers({n \in held : n.event \in {"enable", "disable"}})]
  /\ UNCHANGED <<cardVars, accepted>>

Load ==
  /\ work.step = "load" /\ work.todo # {}
  /\ \E k \in work.todo : work' = [work EXCEPT !.step = "retrieve", !.target = k, !.tries = 0]
  /\ UNCHANGED <<cardVars, accepted, answer, noticeFaults>>

(* Nothing left to delete is as good as deleted. *)
RemoveLoaded ==
  /\ work.step = "remove"
  /\ \/ /\ held' = {n \in held : n.number # work.target} /\ UNCHANGED noticeFaults
        /\ work' = NextLoaded([work EXCEPT !.cleaned = @ \cup {work.target}])
     \/ /\ held' \in {held, {n \in held : n.number # work.target}}
        /\ CardFault /\ TryAgain("not removed")
  /\ UNCHANGED <<installed, number, accepted, answer>>

(* The list is read again if anything was cleaned; else, or if that fails, *)
(* it is the first one without what was cleaned.  A client that cannot be  *)
(* closed makes the list an error.                                         *)
Shows(numbers) ==
  /\ work' = NoWork
  /\ answer' = [op |-> "list", result |-> "shown", made |-> 0, sure |-> TRUE,
                hidden |-> Numbers(held) \ numbers]
Show ==
  /\ work.step = "load" /\ work.todo = {}
  /\ \/ work.cleaned # {} /\ Shows(Numbers(held)) /\ UNCHANGED noticeFaults
     \/ /\ Shows(work.listed \ work.cleaned)
        /\ IF work.cleaned = {} THEN UNCHANGED noticeFaults ELSE CardFault
     \/ Finishes(work, "failed") /\ CardFault
  /\ UNCHANGED <<cardVars, accepted>>

NotificationsNext ==
  \/ \E p \in Packages : StartDownload(p) \/ StartDelete(p)
  \/ StartList \/ \E k \in 1 .. MaxNumber : StartRetry(k)
  \/ NoClient \/ Switch \/ ListBefore \/ CardDeletes
  \/ Installs \/ DownloadFails \/ Cancelled \/ AnswerIsLost \/ Recover
  \/ LookFor \/ Retrieve \/ Handle \/ ListAll \/ Load \/ RemoveLoaded \/ Show

NotificationsSpec == NotificationsInit /\ [][NotificationsNext]_noticeVars

-----------------------------------------------------------------------------
NotificationsTypeOK ==
  /\ installed \subseteq Packages /\ number \in 0 .. MaxNumber
  /\ held \subseteq [number : 1 .. MaxNumber, event : {"install", "enable", "disable", "delete"},
                     of : Packages]
  /\ accepted \subseteq 1 .. number /\ answer.hidden \subseteq 1 .. number
  /\ noticeFaults \in 0 .. MaxCardFaults

(* A notification leaves the card only after a server has accepted it, and *)
(* the list told hides nothing the card still holds                        *)
(* (autoCleanLoadedNotifications, filterCleanedNotifications).             *)
NothingIsRemovedUnsent == (1 .. number) \ Numbers(held) \subseteq accepted
NothingIsHidden == answer.hidden = {}

(* A download or a deletion told without a warning, and a download told to *)
(* be recovered, has had its own notification accepted, unless the numbers *)
(* before it could not be read or the card answered without it             *)
(* (downloadNotificationBaseline, findMatchingDeleteNotification).         *)
UnwarnedMeansSent ==
  (answer.result \in {"sent", "recovered"} /\ answer.op # "retry" /\ answer.sure) =>
    answer.made \in accepted

(* What is told of notifications is true of the card and of the server. *)
NotificationsAreSettled == NothingIsRemovedUnsent /\ NothingIsHidden /\ UnwarnedMeansSent
==============================================================================
