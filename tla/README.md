# DJI-4G-Hub: a verification project in TLA+

TLA+ models of the Go program in this repository, the TLC configurations that
check them on small instances, and theorems that TLAPS proves for every value
of the constants. `PROJECT.json` maps each definition to the lines it models
and lists the hazards of the code with the properties that would notice them.

Run a check with `tlc -config X.cfg M` and a proof with `tlapm M_proofs.tla`.

## 1. The system

DJI-4G-Hub is a local web service (`cmd/djonehub-macos`) that drives a DJI 4G
USB module: it configures the module for ECM networking, shows its status,
sends and collects SMS, watches calls, controls the Mac's default route and
manages the eSIM profiles of the card. It talks AT commands to the module,
over USB bulk endpoints or over a serial port, and APDUs to the card through
AT commands. The packages under `internal/` and `pkg/` are a larger library
(QMI, MBIM and AT back ends, APDU arbitration) of which this program uses a part.

| Component | State | Operations | Interacts with |
|---|---|---|---|
| APDU arbiter `internal/apduarbiter/arbiter.go` | lease, ticket queue, barriers, `notifyC`, counters | AcquireTransport, Release, BeginBarrier, WaitIdle, watchdog | APDU coordinator, eSIM manager, modem manager |
| SIM readiness gate `simauth_ready.go` | ready, probing, generation, `waitC` | WaitSIMAuthReady, InvalidateSIMAuthReady | AKA callers, card probe |
| eSIM manager `internal/esim/manager.go` | operation lock and `opDone`, overview and chip caches, generation, reload window | overview, switch, disable, rename, delete, download, notifications | card through an APDU channel, main program |
| APDU coordinator and transports `apdu_coordinator.go`, `qmi_uim_transport.go`, `mbim_apdu_transport.go` | per-channel locks, logical sessions | open, transmit and close a logical channel, stop | arbiter, QMI or MBIM device |
| AT manager `internal/modem/manager.go`, `commands.go` | reader, response channel, running flag, SMS parts, USSD state | ExecuteAT, read loop, watchdog, SMS read and send, USSD, stop | serial port, callbacks of the program |
| USB AT bridge `main.go`, `usbat_darwin.go` | handle, back-off, port and discovery state | ensureUSBAT, Command, markUSBATDetached | all HTTP handlers and pollers, eSIM manager |
| ECM bootstrap `ecm_initializer.go` | status, in-progress flag, retry and reboot windows | poller, conversion, ECM switch, reboot | USB AT bridge, macOS network setup |
| SMS service `main.go` | inbox, poll status, segments being sent | poll, refresh, clear, send | USB AT bridge, reassembler |
| Call watcher `calls.go` | active call, history | poll, hang-up detection | USB AT bridge or AT manager |
| Profile notes `main.go` | notes on the Mac and in the module's phonebook | save, read, probe of the SIM phonebook | USB AT bridge, files |
| Cellular policy `main.go` | route block, default-route preference, settings file | block, restore, persist | macOS routes |
| SMS codec `pkg/smscodec` | fragments of long messages | decode, encode, reassemble, classify | SMS service, AT manager |
| MBIM `pkg/mbim` | transactions, fragments, subscriptions | open, command, close | MBIM back end |
| Back ends `internal/backend` | USSD session, operator scan | AT, QMI and MBIM implementations of DeviceBackend | AT manager, MBIM, QMI |
| Configuration `internal/config`, SIM files `internal/simaid`, logging `pkg/logger` | settings file; parsed card files; log sinks | load, save; decode; write | everything |
| Browser UI, Swift menu bar app and notifier, USB watcher, packaging | UI state | HTTP calls | web service |

What is hard in it:

- **Concurrency.** Every HTTP request, poller and callback is a goroutine.
  Locks are short, so what one of them has read is often used after the lock
  is gone: generations, channels to wait on, device handles, status snapshots.
- **The module goes away.** It is unplugged, it resets after a profile switch
  or a mode change, and it comes back as a new device; operations in flight
  lose their answers.
- **Ordering.** Answers come after their timeout, reloads end after what they
  loaded has been invalidated, the notification of a lock's release comes after
  the release.
- **Waiting.** APDU users wait for each other by priority, with ageing,
  barriers and deadlines; readers wait for writers, callers for one probe.
- **Half-done work.** A save, a switch, a download or a route change is several
  commands or file operations; each may fail, and the program may be killed
  between two of them.
- **Shared state of the module.** The selected SMS memory, the selected
  phonebook and the logical channels belong to the module or the card, not to
  the goroutine that has set them.

`hazards` in `PROJECT.json` lists these at their lines, with the properties
that would notice them going wrong.

## 2. Modules and runs

| Module | Models | Checked by | Proofs |
|---|---|---|---|
| `APDUArbiter` | `arbiter.go` | `arbiter_*` | `APDUArbiter_proofs` |
| `SingleFlightGate` | abstract: one probe, whose success opens the gate unless it was invalidated | as a property | |
| `SIMAuthReady` | `simauth_ready.go`, implements `SingleFlightGate` | `library_live` | `Services_proofs` |
| `ESIMOperationLock` | `opMu` and `opDone` of the eSIM manager, access by access | `services_safety`, `library_live`, `esimlock_doubleclose` | `Services_proofs` |
| `ESIMOverview` | overview and chip caches, loads, operations on the card, resets | `esim_program`, `overview_library`, `esim_unheard` | `ESIMOverview_proofs` |
| `ESIMNotifications` | notifications of the card, their sending, recovery of a download | `esim_program` | `ESIM_proofs` |
| `ESIMChannels` | logical channels over four transports: scans, operations, AKA | `esim_program` | `ESIM_proofs` |
| `ESIMSwitch` | enabling and disabling a profile as the owner sees it: callbacks, barrier, retries, hook | `esim_program` | `ESIM_proofs` |
| `ECMBootstrap`, `MCECMBootstrap` | the USB AT bridge and `ecm_initializer.go` on it | `ecm_*` | `ECMBootstrap_proofs` |
| `SMSService` | polls, reassembly, inbox, clearing | `services_safety`, `hub_live` | `Services_proofs` |
| `SMSOutbox` | interactive sending over the shared byte streams | `services_safety` | `Services_proofs` |
| `CellularPolicy` | "force 4G off", its guard and its file | `services_safety`, `hub_live` | `Services_proofs` |
| `CallWatcher` | poller, active call, announcements, history | `services_safety`, `hub_live` | `Services_proofs` |
| `ProfileNotes` | notes on the Mac and in the phonebook, on the shared bridge | `services_safety` | `Services_proofs` |
| `ATManager` | read loop, command loop, pool, watchdog, stop | `services_safety`, `library_live` | `Backends_proofs` |
| `ATMessages` | reading received SMS by `+CMTI` and by sweeps | `services_safety` | `Backends_proofs` |
| `USSDSession` | USSD over QMI, its channels and its late answers | `services_safety` | `Services_proofs` |
| `MBIMDevice` | transactions, fragments, open, close, indications, snapshot | `services_safety` | `Backends_proofs` |
| `ConfigFile` | the configuration file, its temporary file, its copy in memory | `services_safety` | `Backends_proofs` |
| `MCServices`, `MCESIM` | the services and libraries, and the parts of the eSIM manager, side by side | `services_safety`, `hub_live`, `library_live`; `esim_program` | `MCServices_proofs`, `ESIM_proofs` |

Each run asks one question of a part of the system:

| Run | Shows |
|---|---|
| `arbiter_safety` | card exclusion, barriers, the watchdog of each lease, one place for each ticket, counters; whoever sleeps has a reason to; nothing passes a waiting barrier |
| `arbiter_served` | every waiter is served and a stuck holder is evicted, if holders that do not hang release |
| `arbiter_ageing` | **finding**: a ticket that crosses the ageing threshold wakes nobody |
| `esimlock_doubleclose` | **finding**: two operations that end close together close one channel twice |
| `esim_program` | safety of the eSIM manager: caches and answers, notifications, channels, what is told of a switch |
| `overview_library` | every load and reload of the overview ends, also with what only the library offers |
| `esim_unheard` | **finding**: after a rename or delete whose answer came cut, the old list is served |
| `ecm_bootstrap` | one bootstrap at a time, and it writes only to a supported module in factory mode; a module that stays is converted and shown as ready, again and again |
| `ecm_restart` | **finding**: one lost answer after the write, and the module is shown as ready without having been restarted |
| `services_safety` | safety of the services that keep to themselves: SMS in and out, policy, calls, notes, AT commands, USSD, MBIM, configuration, eSIM lock |
| `hub_live` | messages are shown, an acknowledged policy is enforced again, ringing is announced |
| `library_live` | every call of the AT manager, the SIM gate and the eSIM lock returns; a lost port is noticed; the gate implements its abstract specification |

**How modules are put together.** `MCServices` and `MCESIM` hold components
that share no state in the code, or only by way of a promise that another
module checks (a lease, a lock, a command that ends). A behaviour of these
modules picks one component in its first state (`part`, `esimPart`) and is a
behaviour of that component; the others rest in one initial state. So a run
covers each component by itself, the number of states is the sum and not the
product, and a property speaks of every component without weakening. Nothing
is lost by it as long as no component reads what another writes, which is so
for each of these lists. Where components do interact, one module has both:
`ECMBootstrap` has the bridge with the bootstrap, the pollers and the
user on it; `ESIMChannels` has scans, operations and authentication on one
card; `SMSOutbox` has senders and other users on one stream of bytes;
`SMSService` has timer, requests and clears on one module. `ESIMOverview`
uses the operation lock as `ESIMOperationLock` shows it to be (held by at most
one goroutine, waits that end), `ESIMChannels` uses the arbiter as
`APDUArbiter_proofs` proves it (leases of a channel beside each other, all
others alone), `ESIMNotifications` and `ESIMSwitch` are under the operation
lock. The two models of a switch, `ESIMOverview` for the caches and
`ESIMSwitch` for the owner, share no variable: the caches read nothing of what
the owner is told.

Several properties are conjunctions of named parts that one run asks together:
`CachesAreCurrent`, `ChannelsAreApart`, `NotificationsAreSettled`,
`CallsAreTold`, `SwitchesAreTold`, `SentAsTold`, `OnlyWholeMessages`, `TicketsAccountedFor`,
`NobodySleepsInVain`, `EveryLibraryCallReturns`; `ServicesTypeOK` and
`ESIMTypeOK` are the type invariant of the component in question.

`CHECK_DEADLOCK FALSE` stands only in the configurations of `MCServices`: a
component whose goroutines have ended, or whose bounds are used up, stops. The
eSIM runs, the bridge and the arbiter are checked for deadlock.

`arbiter_safety` and `esim_program` use symmetry; runs with temporal
properties do not.

## 3. The models

### APDUArbiter

A request is a ticket in `queue`, a lease in `active` or a barrier in
`barriers`. The mutex of the arbiter makes each critical section one action.
What happens outside it is a step of its own: a waiter whose `notifyC` was
closed is in `awake` until it looks again (`WakeAndAcquire`, `WakeAndSleep`), a
context expires at any time (`GiveUp`), a lease timer fires before its callback
gets the lock (`fired`, `ReleaseExpired`), the clock makes a ticket old (`Age`).
Data is reduced to what the decisions read: class, scope and channel of a
ticket, whether it has aged, whether its deadline has passed. An id is taken
again only when nothing refers to it. `CounterModulus` stands for the 2^64 at
which the counters wrap; `ArrivalSkew` lets a ticket be stamped before and
queued after another long enough for their ages to differ.

Three tickets are one that holds, one that waits and one that may overtake,
which is as many as a decision of the queue looks at together; the transport
limits are set to 2 so that the third meets them. `arbiter_served` leaves AKA
callers out: a barrier never waits for an older ticket of a class it blocks, so
an endless stream of barriers can block them for ever. In the program switches
come one at a time, under the operation lock. A legacy one-shot of a blocked
class at the head of the queue would also stop every transport behind it; the
program no longer uses legacy leases.

### SIMAuthReady

`WaitSIMAuthReady` shares one probe of the card between its callers, and
`InvalidateSIMAuthReady` makes a running probe stale. The refinement of
`SingleFlightGate` drops the channel and the generation and keeps who probes,
whether the probe is still valid and whether the gate is open. Every call
returns when no new ones come in: new calls for ever could always get ahead of
a waiter with probes that fail. Two callers (one probes, one waits or comes
after an invalidation) and two invalidations are model-checked; the safety
results are proved for any number.

### ESIMOperationLock

`opDone` is a plain field, read, replaced and closed outside every lock, so each
access is an action. `services_safety` checks with an operation, a
`lockOperation` caller and a reader that the lock excludes whichever way it is
taken; `library_live` checks without the reader that every timed wait returns:
`SF` on the timeout stands for Go's `select`, which picks among ready cases at
random and cannot ignore a fired timer for ever. The plain accesses let a
waiter capture a channel made by the very notification it needed, and sleep to
its timeout beside a free lock; the wait ends, so no property speaks of it.
`DoneChannels` has two identities more than there are goroutines: one for
`opDone`, one that is always free; which of them is the first does not matter.

### ESIMOverview

The profile list of a card is a number, its edition, which every rename,
delete, download or change of card increases; properties only ask whether a
list is older than another. The enabled profile is kept beside it since a
switch patches it into the cached object in place. Time is reduced to the order
in which reload windows open and end. The library specification adds
`GetEUICCChipInfo`, `RefreshOverview`, `RefreshProfiles`, `WarmOverviewAsync`,
`NotifyModemResetDelayed` and indications of the card.

Weaknesses that are modelled and not asked about: a caller copies the cached
overview outside the lock while a switch patches it, so its copy may show two
enabled profiles or none (`Clone`, `Mixes`); the next answer is whole.
`GetEUICCChipInfo` and `RefreshProfiles`, which the program does not call,
store what they read without looking at the generation, and the latter may
leave an overview without chip information; the properties of the caches are
therefore checked with the operations this program offers. `ReloadWindowsHold`
says that nothing is reloaded inside the window of a switch: the window is
read once, before the delay and the lock, so the code breaks it and no run
asks it.

`EnabledIsCurrent` makes one exception, which the code needs: after a switch, a
load in flight may overwrite the patch, until the restart that `switchESIM`
asks for is noticed (`rebootOwed`). A refused restart leaves it owed.
The model is of the USB bridge. `Commit` has what it can make of an operation
that the card has obeyed: the answer arrives; or the device vanishes or keeps
silent, and `resetUSBATIfGone` reports the reset before the error is returned
(`lost`); or the answer comes late, cut or behind another one. Then the bridge
returns what it has without an error, the channel cannot parse it, and the
operation fails without a reset (`failed`). Only a failed download drops what
is cached; a rename, delete, switch or disable leaves the old list, and
`unheard` says so until the next invalidation. `CachedListIsCurrent` and
`EnabledIsCurrent` except that time, and `AnswersAreFresh` counts only what
somebody was told (`ToldEdition`). `RefreshShowsTheCard` makes no exception and
is refuted (`esim_unheard`).

Bounds: one caller and the background reload, one writer, two cards, one
profile that is switched on and off, and two changes (`MaxChanges`). Two loads
are enough for one to join, overtake or overwrite the other, and two changes for
one to fall inside a load begun after the first; the theorems are about any
number of profiles. `overview_library` has the calls of the library, one card
and disable as its operation.

### ESIMNotifications

The card numbers its notifications; each has a kind, a profile and whether it
is still on the card. A record `work` says where the one operation under way
is: `DownloadProfile` with its baseline, the loading, the search for the new
notification (`Looks` attempts), its sending (`Tries` attempts of
`retryWithBackoff`) and removal; `DeleteProfile`; `ListNotifications` with the
clean-up of switches; `RetryNotification`. Every command of card or server may
fail, and the answer to the last block of a package may be lost after the card
has obeyed or refused.

`NotificationsAreSettled`: no notification of an install or deletion leaves the
card before a server has accepted it; a listing hides none that is owed; an
operation told without a warning, or a download told to be recovered, has had
its own notification accepted, unless the baseline could not be read or the
card answered without it (`sure`). Bounds: one package that is downloaded,
deleted and downloaded again, three notifications (`MaxNumber`), two faults
(`MaxCardFaults`), two tries and two looks, which is a retry that succeeds and
one that gives up.

### ESIMChannels

A user of the card is a record: its job (scan, operation, basic-channel
authentication), the next call, how far the call has come (`rest`, `lease`,
`mutex`, `card`), its channel, the generation of the mutex map it took its
mutex from, its lease. The card knows who opened each channel. The transport
is fixed at the start: AT commands of the modem manager, the USB AT bridge
(`custom`, without leases and without cleaning), QMI or MBIM. What takes a
channel from its user without telling (a sweep over AT, a reset of the card, a
stop) marks the user `spoiled`.

`ChannelsAreApart` has five parts: two calls that take the same mutex meet on
the card only if the transport was stopped under one of them and their leases
do not keep them apart either; two leases that stand share the card only as
sends on different channels; an APDU reaches the application its sender
opened, unless spoiled; the sweep before a scan closes a channel of an
operation only if the operation began after the scan had seen none; while
nothing fails no channel leaks and the registry lists those in use. Bounds: two
users, two channels, one fault, one stop, all four transports, with and without
an arbiter. The proof is for any of them.

### ESIMSwitch

`SwitchProfileWithResult` and `DisableProfile` have the same frame and are one
set of actions; `call[w].op` tells them apart where they differ (only enabling
is tried again after CatBusy). A call takes the lock, looks for the application
of the profile unless it is given, opens its client, is given a token by
`OnBeforeSwitch`, waits for the barrier, sends the command, releases the
barrier, decides, and leaves by the deferred calls, of which one is under the
lock and one after it. The hook of a switch that succeeded is a goroutine of
its own. `log` is what the owner is told.

`SwitchesAreTold` has four parts: every token has one of three stories, each
with one end, and as long as it has none somebody is there to finish it; the
phases of two switches do not mingle; with an arbiter no authentication holds
the card during a switch, and no barrier outlives its call; success is told for
what the card has done and failure for what it has not, unless a reset or
silence was all that was heard. Bounds: two callers and two calls, so that the
deferred calls and the hook of one meet the other; one profile and two
applications, so that a search can miss; one authentication, one retry
(`CatBusyRetries`). Two profiles, and three calls with one profile, give the
same result and are left out for their time.

### ECMBootstrap

The module is its stored mode (`usbnet`), the mode it runs with since it was
enumerated, and whether it is on the bus; the bridge is one handle, whether
that handle is of the present enumeration, and the cool-down after a detach.
A command has three phases as in `runATCommand`: a handle is found or opened
and remembered, the module obeys or is gone or silent, and an error drops
whichever handle is open by then. Goroutines interleave at each phase: the
automatic bootstrap (`auto`), POST initialize (`init`), GET status (`status`),
pollers and the user's mode changes and restarts. An answer that is cut short by
the timeout is read as one without the sought field.

A behaviour of `ecm_bootstrap` is about one of two teams (`Teams` of
`MCECMBootstrap`): auto, init and user, or auto and status; all four at once
are too many. `ecm_restart` has auto alone. `MaxFaults` is 1: one restart without request,
unplugging, refused open, or lost, refused or cut answer, at any point;
requested restarts do not count. Two faults only repeat the path from a failed
run to the next. There is a handle more than there are goroutines, so that a
fresh one exists (`EnsureOpens`). Time is three states of the retry and reboot
windows and one bit of the cool-down. One assumption on time is made: the two
seconds of the cool-down are longer than a run needs from one command to the
next (`CoolDownEnds`). It fails only when the machine sleeps there, and then a
replaced module could be written unverified.

In `ecm_bootstrap` the user sets only the factory mode. Another mode, set after
a run has read `usbnet` and before it writes, is overwritten: nothing locks the
module over the two commands, and `WritesAreVerified` would say so. A status
request replaces `failed` by `checking`, so the next tick retries at once: the
30 s retry window does not hold while the page is open. A poller's
`ensureUSBAT` replaces `rebooting` by `disconnected`. Both are in the model;
`ReadyIsShown` says that the display recovers.

### SMSService and SMSOutbox

Receiving: a poll lists the SIM and the module's memory one after the other,
hands parts of long messages to the reassembler, merges what is complete into
the inbox and clears `ME`; POST clear does the last step alone. Each command is
an action, because nothing locks the module over two of them: `selected`, the
memory in use, belongs to the module. `ListedIsKept` says that a message once
listed is still on the module, in the inbox, in the reassembler or in the hands
of a poll, unless the reassembler's ten minutes or the inbox limit dropped it;
`MessagesAreWhole` that joined messages are whole and in order. Both assume that
no two long messages share sender and reference number while parts of them wait:
the reassembler knows a message by these two only, and would mix them. The merge
is stated as what the stable sort yields, a set of sequences with one element;
`ShownInTheEnd` that a short message is shown although polls fail. One long and
one undecodable short message, the timer and one clearing request, one failing
command, an inbox of 3 (500 in the code) and two clock readings let a poll meet
another's half-way state and each limit; `hub_live` takes the short message only.

Sending: a segment is one interactive command, in which the module prompts for
the text. An answer has no number; it belongs to whoever reads it, and may come
after its time-out. `SentAsTold` says that the segments of a message are
sent together and in order (`SegmentsStayTogether`) and that what is
acknowledged was sent (`AckMeansSent`). It holds because the
bridge throws away what has arrived before a command, only an answer that names
a sent message counts as accepted, and a sender holds `smsSendMu` over its
segments. Two senders, with two segments and one, two
plain commands (`MaxPlain`) and four faults (`MaxOutFaults`).

### CellularPolicy, CallWatcher, ProfileNotes

The policy's request and guard hold one mutex; the world interleaves:
`networksetup` fails, services come, go and are restored by hand, the file
cannot be written, the program is killed at any step and starts again from the
file. "Off", once acknowledged, is enforced again (`OffIsEnforcedAgain`); "on"
leaves nothing blocked that the program had recorded (`OnRestoresTracked`). Two
services, two or three requests, two changes, one or two faults.

The call watcher polls a module in which calls ring, are answered, end and
reuse an index. `CallsAreTold`: a call is announced once, a record has the
number of its call unless a call without number took over its index, and a
missed call of the history was itself announced and never seen answered. A call
that rings where another rang in the poll before continues that record and is
not announced (`took`): the properties except it, and `MissedWereAnnounced`,
which does not, the code breaks (section 6). Two calls, one without a number,
and a history of 1 (100 in the code), of none in `hub_live`.

Notes are written to the module's phonebook by a conversation of commands
under `moduleNotesMu`. The probe of the SIM phonebook and all other commands of
the program (`AskElse`) share the bridge without it. The bridge drains what has
come, sends, and gives the command the next complete answer; `Outcomes` has
every case of that: its own answer, a late one of a command before it (`late`),
an error of either, or none in time. A late "OK" is a status of nothing or a
phonebook without entries. `OthersAreKept`: no save changes a contact or
another profile's note, in either book, if the status and the listing it read
were answers to its own commands and no probe selected the SIM after the status
(`misled`); `BooksAreSafe` leaves the condition out, and the code breaks it (section
6), by a probe without a fault and by a late answer without a probe. `NotesSurvive`:
what the Mac was told to keep is in its file after failures and restarts. Two
profiles, two savers and a probe, three entries per book, one save on the
Mac beside what an older file holds (with one content of the phonebooks, which
the Mac's notes have nothing in common with),
and one fault, which is one late answer: the second of two late answers adds
another command that is misled, not another way to be. A command that takes
a late answer leaves its own to the next, so one can shift a whole conversation.

### ATManager, ATMessages, USSDSession

`ATManager` has two queues, one loop, one reader, pooled requests with their
channels, a stop and a port that may be lost. Lines on the wire know which
command they answer; the manager does not. `AnswersAreOwn` is about the pool:
no caller is given the answer of a command that another caller waits for,
although requests are reused after time-outs. `EveryATCallReturns` and
`LossIsNoticed` (in `library_live`) cover full queues, dead ports and the
watchdog. Queues have one place (10 and 5), the watchdog's threshold is 1 or 2,
one line and one command may be on their way.

`ATMessages` is the reading of received SMS over those commands: a goroutine
per `+CMTI` and a sweep. `SeparateReadsLoseNothing`: as long as two of them do
not overlap, nothing is deleted unread, whichever of two commands fails.
`USSDSession` has three requests over channels of one place, with indications
that name no session. A request that fails may have opened a session all the
same: its caller is gone or the connection closed after it was written, and
only a deadline makes the back end await the release or cancel. `left` are the
sessions that were let go like that before their end was heard, or because an
indication of another was taken for theirs. `TextsAreOwn` says that a text
handed out is the answer of one's own session or of one in `left`.
`NextWaitsForRelease`, that no request is made while the network still has the
session of one that timed out, the code breaks (section 6).

### MBIMDevice

Callers share one connection: transaction numbers, fragments in both
directions, collectors per transaction, one read loop, a queue of indications
of transaction 0 and a monitor with a snapshot. `OnlyWholeMessages`: a caller
gets the whole answer to its own command or an error, the module receives
commands without mixing, handing over an answer never blocks the loop, and the
snapshot shows one state of the module unless a fragment of an indication was
lost. Two callers with commands of two fragments (17 bytes of information are
one more than the first fragment takes under a limit of 64), answers of two
fragments, one fault, one slot for indications
(16 in the code), two units of work: commands and changes of the module.

### ConfigFile

Files are modelled down to the i-node: a writer keeps writing to the file it
has opened, whatever its name has become. `ChangesAreKept`: while no change of
settings overlaps another change, the file holds every change that was put in
place, through failing calls and crashes, and memory follows unless the reload
failed. Two writers of devices, one of settings, five changes, one failing
call, one crash.

## 4. Fairness

Fairness is stated for what the program or the operating system runs by
itself, never for the user, the network or the card.

- Go runs its goroutines: weak fairness on the steps of a goroutine between two
  waits (loads, writes, merges, clears, arbiter waiters, command loop).
- Timers fire: weak fairness on the ticks of pollers and of the bootstrap, on
  the ends of windows and cool-downs, on watchdogs; strong fairness where a
  timer competes with others in a `select` (`Timeout` of the eSIM lock,
  `TakeNormal` of the AT loop) or with requests for a mutex (`Guard` of the
  policy), which Go's mutex hands over in turn.
- Commands end: a bridge command ends by its time-out, so an operation on the
  card does; holders of the arbiter either release or are evicted.
- A module that was told to restart does so and comes back.

## 5. Proofs

Every theorem holds for all values of the constants: any number of goroutines,
requests, messages and faults, any size of queue and any retry limit.

| Module | Theorems | Invariant |
|---|---|---|
| `APDUArbiter_proofs` | `TypeCorrect`, `Exclusion`, `BarrierExclusion` | `ExclusionInv` |
| | `BarriersAreNotPassed`, `ExclusivesAreNotOvertaken` | about single steps, from the types |
| | `TicketsAccounted`, `NobodySleepsOn` | `TicketsInv`, `SleepersWaitRightly` |
| `ECMBootstrap_proofs` | `TypeCorrect`, `BootstrapsAreSingle`, `VerifiedWrites` | `WriteInv` |
| `ESIMOverview_proofs` | `OverviewInvariant`, `OverviewTypeCorrect`, `CachesStayCurrent`, `AnswersStayFresh` | `OverviewInv` |
| `ESIM_proofs` | `ChannelsTypeCorrect`, `ChannelsStayApart` | `ChannelsInv` |
| | `SwitchKeepsInv`, `SwitchStaysAlone`, `SwitchIsToldAsDone`, `SwitchIsTold` | `SwitchInv`, `StoryInv` |
| | `NoticesAreSettled`, `NoticesTypeCorrect` (notifications) | `NoticesInv`, `NoticesTyped` |
| | `ESIMTypeCorrect`, `ESIMIsSafe` (run `esim_program`) | from the parts |
| `Services_proofs` | `MutualExclusion` (eSIM lock) | `LockInv` |
| | `ProbesAreShared`, `WaitersAreNotStranded`, `Refinement` (readiness gate) | `GateInv` |
| | `OnRestores` (policy) | `PolicyInv` |
| | `NotesStay`, `SavesKeepOthers` (notes) | `NotesInv`, `SaveInv` |
| | `OwnTexts` (USSD) | `USSDInv` |
| | `CallsAreToldTrue` (calls) | `CallInv` |
| | `MessagesGoAsTold` (sending SMS) | `OutInv` |
| | `ListedStays`, `JoinedAreWhole` (receiving SMS) | `SMSInv` |
| `Backends_proofs` | `AnswersStayOwn` (AT manager) | `ATInv` |
| | `SeparateReaders` (received SMS) | `MessagesInv` |
| | `WholeMessages` (MBIM) | `MBIMInv` |
| | `ConfigTypeCorrect`, `KeepsChanges` (configuration) | `ConfigInv` |
| `MCServices_proofs` | `SMSTypeCorrect`, `PolicyTypeCorrect`, `CallTypeCorrect`, `OutTypeCorrect`, `NotesTypeCorrect`, `USSDTypeCorrect`, `MBIMTypeCorrect`, `LockTypeCorrect`, `AuthTypeCorrect`, `MessagesTypeCorrect` | the invariants above and a few types more |
| | `ATTypeCorrect` | `ATShape`, `ATLife` |
| | `ServicesTypeCorrect`, `ServicesAreSafe` (run `services_safety`) | from the parts |
| `LeastNumbers` | lemmas: a set of numbers that has an element has a least one, a finite one a greatest | |

**Arbiter.** `ExclusionInv` joins the exclusions with the finiteness of
`active`, without which its parts cannot be counted. Each admission keeps it
because of what `canAcquire` has looked at; every other step only shrinks
`active`. That a barrier is not passed, nor an exclusive transport overtaken, is
read off the scan: a ticket is chosen only if the scan from the head of the
queue reached it. `TicketsInv` says that a ticket is in the queue, active or a
barrier and nowhere twice, and that a lease has its timer or the callback of
it. The sum of the counters then needs one fact about wrapping: 1 added before
or after the remainder gives the same. `SleepersWaitRightly` says of every
single sleeper, and not only when nobody is awake as `NoLostWakeup` does, that
it could not be admitted; what shrinks the queue or `active` wakes everybody,
and what grows them admits nobody. `AgeingDecides` is the exception the first
finding is about.

**Bootstrap.** That a run holds its mark is not enough for `VerifiedWrites`:
pollers drop and reopen the handle between its commands. `WriteInv` follows the
handle: a run that has read its module either meets that module on the handle
that is open now, or meets the cool-down of a handle that was dropped, or has
its command on that dropped handle. The theorem assumes that the user sets no
mode but the factory one.

**Channels.** `ChannelsStayApart` is `ChannelsAreApart`, over every transport.
None of its five parts is inductive: each speaks of calls on the card, while
what makes it true is decided when a lease or mutex is taken or a channel
opened. `ChannelsInv` therefore speaks of leases from the moment they are had
(`LeasesApart`), of the openers of channels as long as somebody has one
(`OpenersSound`), of writers from the moment a scan has passed its check
(`LockSound`), and says of each user what its place in the work lets it hold
(`UserShape`). `NothingLost` needs `OpenersSound`: a close takes a channel from its
user alone because nobody else can have it.

**Overview.** A scan that began before an operation must not be stored after
it, but the operation raises the generation only some steps after the card has
changed. In between the card is `Dirty`, and `Current` asks nothing.
`LoadsAreSound` says that whoever would publish now, with the generation it
began with, holds what the card says; `NothingToPatch`, that a reset which
overtook a switch has left neither a cache nor a valid load for the patch to
fall upon; `Budget`, that what is still owed to the generation and the edition
fits under the bounds of the model. `FlightsAreFresh` is the same for callers
that joined a scan: the floor of all who wait for it is below what its leader
has.

**Switch.** `SwitchIsToldAsDone` is about what the caller and the owner are told
at the end of a switch, when its command is long over. `SwitchInv` therefore
carries along what a call knows (`WorkKnows`): that its command was not obeyed until
it is sent, that it was obeyed exactly when the answer was "ok" until the
outcome is decided, exactly when it is a success from then on, each unless a
reset or a silence made it unsure; and that no failure of it has been told
before it is over. `TokensAreOwn` makes the knowledge of one call immune to the
steps of the others. `SwitchStaysAlone` needs `LockIsHeld`: the one that
releases the barrier is the one that has it, because nobody else is past the
lock. `StoryInv` says which events of each token are in the log, that they stand
in the order of their ranks (`InOrder`), and that the phases of the call with
the lock are the last ones there (`PhasesAreLast`); a story is then what is left
of the log when a token's events are picked out.

**Configuration.** `ConfigInv` says whose turn it is (`Turns`, `SaverAlone`), that
the copy of a writer is what its change makes of the file, and that the
temporary file is empty while it is written and the copy when it is renamed
(`FileSound`); `MemorySound` excepts the writer that is about to reload.

**Gate and lock.** `GateInv` adds that an open gate has no probe in flight,
which keeps a late report from shutting a gate that another probe has opened;
with it every step of the code is a step of `SingleFlightGate` or none. Who
believes to hold `opMu` is recorded as its holder.

**Notifications.** An operation finds its own notification by comparing numbers
with a baseline it read before. `BaselineCovers` says that the baseline is above
all that were there, `OnlyOwnWanted` that only its own is above it from the
moment the card has made one, and `TargetIsOwn` that this is what it sends.
`ListIsTrue` bounds what a list may hide by what it has cleaned.

**Policy and notes.** `PolicyInv` says that a blocked route is known by name to
the memory, or before the first load to the file, and that what "on" has still
to restore is among the services it has still to visit. `NotesInv` says that
what was promised stands in the file and, once it was loaded, in the map that
the next save writes as a whole; `SaveInv`, of a saver that is not misled, that
from the status command on the selected phonebook is the module's and the entry
to be written is free or the profile's own. That a listing heard as one's own
is what the phonebook holds needs only that it was sent last; what waits in
`late` is typed (`NotesTypeOK`) and otherwise arbitrary.

**USSD.** An indication names no session. What keeps them apart is their order:
`USSDInv` says that an end of a session is on its way only if its asker waits,
its release is awaited or it was let go (`EndsAreExpected`), at most one of each
(`EndsAreFew`) and the release last (`ReleasesAreLast`).

**Calls and sending.** `RingsInv` says that a ringing call that was announced as
often as faults allow is the one the record shows. That a free index exists is
the pigeonhole principle. In `OutInv` a prompt is the last thing the module has
to say (`PromptIsLast`), so what is read after it can only be the answer to the
text (`TextIsAnswered`), and the last segment sent is always the sender's own
(`SentInOrder`).

**AT.** `ChannelsInv` of the pool says that a response channel is in the hands
of one caller, and in one request until that is answered; `WireInv`, that lines
on the wire are about the current command or one nobody waits for any more.
With both an answer can only reach the caller whose command it is. A stop ends
the invariant, since callers then leave with whatever is there. `MessagesInv`
asks for something only as long as readers have not overlapped: then one of them
is under way, and what the selected memory has at its index is what it has read.

**MBIM.** `MBIMInv` has three threads. Numbers are used once and answered once
(`NumbersInv`, `AnswersInv`): before a command is written nothing about its
number is on the line, so the fragments there are all of one answer, and a
collector that takes only the next fragment can only complete that answer
(`AnswerCollected`). Who writes holds the mutex and the module is at its
fragment (`WritersInv`); only `Open` writes without, while nobody else may call.
For the snapshot, `Stream` says that the indications on the line are in order
and without a gap, but for what the collector has and repetitions of what it has
completed; every step keeps that until a fragment is lost, and it makes the next
fragment one of the indication the collector is at (`FirstIsOwn`). All indications share
transaction 0, and nothing but the order keeps them apart.

The proofs assume what each module's `ASSUME` says of its constants, and
nothing else but the user's mode in `VerifiedWrites`. The assumptions say that
sets of goroutines with different roles are disjoint, that limits are natural
numbers (the threshold of the watchdog at least 1), that there is a package to
download, that sets that are counted or enumerated are finite, and that
`Components` names components.
`HandlesAssumption` says that a handle nobody refers to always exists; that is
how the finite set stands for fresh handles. Minimum and maximum come from the
community modules as `CHOOSE`; `HasLeast` shows, with the pigeonhole principle,
that a set of numbers has a least one.

**Receiving.** `ListedStays` proves more than `ListedIsKept` says: what has been
listed is in hand whether or not the module still has it (`ListedIsHeld`), which
is why deleting a memory loses nothing. The list of a poll is overwritten by the
next one, so `OnlyReadersHave` says that it is empty by then. `PartsWait` says
that the reassembler holds one part at most of each message, for with the second
it puts them together. This is where `SMSAssumption`, that no two long messages
share sender and reference number, is used: a part that is dropped as a
repetition is then the part that is there already.

**Types.** The type invariants say more than what kind of value a variable has:
who holds a mutex is who is in the middle of the work, a queue keeps to its
limit, a number is one that was given out. Most follow from the invariant that
safety rests on and one or two facts beside it, for instance that before the
first `Open` the opener has no command (`OpenerRests`), that a reference which
grows old has parts (`AgedTyped`), or that the index of a call is at most the
number of calls (`IndicesInv`). For the AT manager they need an induction of their
own, because `ATInv` ends with a stop and the types do not: `ATShape` holds of
callers, queues and channels whatever has happened, and `ATLife` says that the
watchdog's counter is at its threshold only once the manager is stopped and the
loop is not busy, so that no time-out can raise it further.

**Parts side by side.** A step of `ServicesNext` is a step of one part, and the
others rest (`OnePartMoves`), so a behaviour of `ServicesSpec` is a behaviour of
every part's own specification (`BehavesAsParts`; `PartsBehave` for `ESIMSpec`).
What is proved of a part therefore holds of the specification that the run
checks, and `ServicesAreSafe` and `ESIMIsSafe` list all of it. This is the
argument of section 2 for putting the parts together, made a theorem.

With these, every invariant and every action property that a passing run checks
is a theorem, and so is the refinement of the gate. Only model-checked is every
liveness property, because the prover has no rule for `ENABLED`. What a recursive definition
computes for every input is out of the prover's reach as well, because induction
over data is. No module that is proved about uses `RECURSIVE` operators.

## 6. Findings

Runs that TLC refutes:

| Run | Where | What |
|---|---|---|
| `arbiter_ageing` | `arbiter.go`, `selectedTransportLocked` | ageing changes the choice without a signal: two waiters can sleep beside a free transport |
| `esimlock_doubleclose` | `manager.go`, `notifyWriteDone` | the channel of waiters is closed twice: panic |
| `esim_unheard` | `manager.go`, `RenameProfile`, `DeleteProfile` | an operation that the card obeyed and whose answer came cut returns without invalidating: the old list stays cached |
| `ecm_restart` | `ecm_initializer.go`, `autoInitializeECMOnce` | a module that was written but not restarted is reported ready |

Stated in a module, broken by the code, and asked by no run (most are
the property of a passing run without the exception it names):

- `ESIMOverview.ReloadWindowsHold`: a reload that has passed the window check
  scans inside the window of a switch.
- `SMSService.ClearTouchesOnlyME`: a poll that selects the SIM between the
  select and the delete of a clear makes it delete the SIM's messages, although
  the user guide says it only clears `ME`; a message that arrives between
  listing and clearing is deleted unread.
- `ATMessages.NothingIsDeletedUnread`: two readers that overlap select each
  other's memories, against the comment at `switchSMSStorageForRead`.
- `ATManager.LossIsReported`: a command swallows the reader's report of a lost
  port; the manager then only stops by its watchdog (`LossIsNoticed`).
- `CellularPolicy.OnRestoresAll`: a route blocked just before a crash or a
  failing save is not restored, since nothing remembers it.
- `ProfileNotes.BooksAreSafe`: a probe between the reading and the writing of a
  save (`AT+CPBS="SM"` in `probeESIMPhonebook`, which takes no mutex) makes the
  save write over a contact of the SIM, although the comment at `main.go:2298`
  calls the probe safe because it writes nothing. And a late "OK" of another
  command, read by `AT+CPBR=1,total`, is an empty phonebook, so the contact at
  index 1 is replaced, without any probe.
- `CallWatcher.MissedWereAnnounced`: a second call that rings at the next poll
  under the index of the first takes over its record, is not announced, and may
  stand in the history as missed.
- `USSDSession.NextWaitsForRelease`: a late release of an earlier session,
  drained after a time-out of the next, clears `ussdAwaitRelease`, so a request
  is sent while the session that timed out is not released, although
  `TestQMIBackendExecuteUSSDRejectsNextSessionUntilTimedOutSessionReleases` and
  the error at `qmi_backend_ussd.go:63` say that it is rejected until then.

Met in modelling, and part of the models:

- *Downloads.* The LPA library returns no error when a download is cancelled
  and the cancellation succeeds, and the manager then tells of a download with
  a warning. Recovery may tell success for a package the card has refused. If
  listing the notifications before a download fails, the baseline is 0 and an
  older notification may be sent in place of the new one. A failing close of
  the client turns a complete list of notifications into an error.
- *Switches.* The comment at `manager.go:2186` says that the post-switch
  callback waits for "Ready + Delay", so that it meets neither the eSIM re-read
  nor SIM authentication; `runPostSwitchRecovery` waits only for the delay, and
  a test (`TestRunPostSwitchHookStillCallsAfterSwitchWhenAPDUStaysBusy`) wants
  the call while APDUs are busy. `OnAfterSwitch` and `OnSwitchFailed` of one
  switch may fall into the next one, so the owner must tell them apart by their
  token. A call that fails before its client is open tells the phase "failed"
  with the token 0. A read that fails in `findAIDForICCID` is reported as a
  profile that does not exist.
- *Channels.* Over AT without an arbiter the cleaning before a scan closes
  channels of other users, whose next APDU may reach another application. The
  bridge's transport has no such cleaning, so channels that failed to close
  leak. A client that outlives a stop or a reset may use a channel that is
  another's by now.
- *MBIM.* A lost fragment of an indication leaves a started collector, so
  fragments of two indications are mixed or the next one is refused. A command
  after the end of the read loop waits for its context. A full queue drops
  changes, and the snapshot stays stale.
- *Configuration.* Changes of settings and credentials take no mutex, share the
  temporary file with changes of devices and do not reload: changes get lost,
  and an empty file may be renamed into place. `Update` may give a device the
  id of another, and an empty IMEI erases the one that was found.
- *Notes.* A save that reads a late answer may also take the note of a profile
  for absent and write a second one.
- *USSD.* A request that fails by its caller's cancellation or a closed
  connection leaves a session that the network may have opened, neither
  cancelled nor remembered; its text may reach the next asker.
- *Overview.* The same cut answer makes a switch fail that the card has obeyed;
  the page then goes on showing the old profile as enabled until the next
  invalidation.

## 7. Not modelled, and what could come next

- eSIM: the loop over several applications of a card when listing
  notifications, the codes of download errors, the cache of discovered
  applications (`discoveredEUICCs`), and replacing the arbiter at run time.
- AT manager: the set-up of the module, the device information it collects and
  reconnecting, which its owner does; they are sequences of commands whose
  failures are logged.
- MBIM services (`connect`, `radio`, `sms`, `uicc`), and the AT, QMI and MBIM
  back ends apart from USSD: one command each and the conversion of its answer;
  the macOS program uses none of the QMI and MBIM ones.
- AT answer parsing, PDU and OMA decoding, TLV parsing of SIM files: conversions
  without state. As modules they would be reference definitions over strings of
  bytes; the present models take what they return as one of the kinds of answer
  that the control flow tells apart.
- Logging, the browser UI, the Swift programs, packaging: no state that the
  service shares except by HTTP. `third_party/` is not this project's code and
  is modelled by how it is used.

The next steps would be a composition of `ESIMOverview` with `ESIMChannels` in
which a switch resets the card under a scan, and one of `ATManager` with
`ATMessages` in which a command of a reader is lost with the port.
