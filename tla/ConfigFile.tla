----------------------------- MODULE ConfigFile -----------------------------
(***************************************************************************)
(* The configuration file and its copy in memory (internal/config:         *)
(* persist_devices.go, persist.go, manager.go).  A change of the devices   *)
(* reads the file, changes what it read, writes <path>.tmp, renames it to  *)
(* <path> and loads the file into memory, all under deviceFileMu.  A       *)
(* change of the notification settings or of the web credentials does the  *)
(* same with the same temporary file, but without the mutex and without    *)
(* the last step.  Files are modelled down to the i-node: a writer keeps   *)
(* writing to the file it opened, whatever its name has become.            *)
(***************************************************************************)
EXTENDS Naturals, FiniteSets, SequencesExt

CONSTANTS
  DeviceWriters, SettingWriters,   \* goroutines that change the file
  NoFileHolder,
  DeviceChanges,            \* the changes of devices they may be asked for
  MaxConfigFaults,    \* bounds of the model
  MaxCrashes

ASSUME ConfigAssumption ==
  /\ IsFiniteSet(DeviceWriters \cup SettingWriters)
  /\ DeviceWriters \cap SettingWriters = {}
  /\ NoFileHolder \notin DeviceWriters \cup SettingWriters

VARIABLES
  deviceFileMu,       \* the writer that holds it
  saver,              \* each writer: [step, change, copy, inode]
  contentsOf,               \* the contents of each i-node
  path, tmp,          \* the i-nodes of the two names, 0 if there is none
  globalConfig,       \* the devices and settings in memory
  committed,          \* history: what all changes that were put in place amount to
  mixedSaves,         \* history: a change of settings ran together with another change
  stale,              \* history: loading the last change into memory failed
  configFaults, crashes

fileVars == <<contentsOf, path, tmp>>
configHistory == <<committed, mixedSaves, stale>>
configVars == <<deviceFileMu, saver, fileVars, globalConfig, configHistory, configFaults, crashes>>

FileWriters == DeviceWriters \cup SettingWriters
Inodes == 1 .. (Cardinality(FileWriters) + 1)
NoIMEI == "none"

(* The contents of a file: the text is whole, cut off, or not there yet. *)
Contents(devices, settings) == [text |-> "whole", devices |-> devices, settings |-> settings]
NotWritten == [text |-> "empty", devices |-> <<>>, settings |-> "none"]
Cut == [text |-> "cut", devices |-> <<>>, settings |-> "none"]
FirstContents == Contents(<<[id |-> "d1", imei |-> NoIMEI]>>, "old")
Saving(step, change, copy, inode) == [step |-> step, change |-> change, copy |-> copy, inode |-> inode]
Idle(step) == Saving(step, [op |-> "none"], NotWritten, 0)

ConfigInit ==
  /\ deviceFileMu = NoFileHolder
  /\ saver = [w \in FileWriters |-> Idle("idle")]
  /\ contentsOf = [i \in Inodes |-> IF i = 1 THEN FirstContents ELSE NotWritten]
  /\ path = 1 /\ tmp = 0
  /\ globalConfig = FirstContents /\ committed = FirstContents
  /\ mixedSaves = FALSE /\ stale = FALSE /\ configFaults = 0 /\ crashes = 0

ConfigFault == configFaults < MaxConfigFaults /\ configFaults' = configFaults + 1
SaverMoves(w, record) == saver' = [saver EXCEPT ![w] = record]
SaverAt(w, step) == saver[w].step = step
Goes(w, step, copy, inode) == SaverMoves(w, Saving(step, saver[w].change, copy, inode))
Busy == {w \in FileWriters : saver[w].step \notin {"idle", "done", "failed"}}
Gives(w, result) ==
  /\ SaverMoves(w, Idle(result))
  /\ deviceFileMu' = IF deviceFileMu = w THEN NoFileHolder ELSE deviceFileMu

-----------------------------------------------------------------------------
(* The changes of the list of devices; the first entry of an id counts.    *)

With(devices, id) == {i \in DOMAIN devices : devices[i].id = id}
First(devices, id) == CHOOSE i \in With(devices, id) : \A j \in With(devices, id) : i <= j

(* Does the change find what it needs? *)
Possible(devices, change) ==
  CASE change.op = "add" -> With(devices, change.id) = {}
    [] change.op \in {"update", "delete"} -> With(devices, change.id) # {}
    [] change.op = "imei" ->
         \A id \in DOMAIN change.imeis : change.imeis[id] # NoIMEI => With(devices, id) # {}
    [] OTHER -> TRUE

(* UpdateDeviceIMEIInFile: an empty IMEI erases nothing. *)
Filled(devices, imeis) ==
  [i \in DOMAIN devices |->
     IF /\ devices[i].id \in DOMAIN imeis /\ imeis[devices[i].id] # NoIMEI
        /\ i = First(devices, devices[i].id)
       THEN [devices[i] EXCEPT !.imei = imeis[devices[i].id]] ELSE devices[i]]

Devices(devices, change) ==
  CASE change.op = "add" -> Append(devices, [id |-> change.id, imei |-> change.imei])
    [] change.op = "update" ->
         [devices EXCEPT ![First(devices, change.id)] = [id |-> change.new, imei |-> change.imei]]
    [] change.op = "delete" -> RemoveAt(devices, First(devices, change.id))
    [] change.op = "imei" -> Filled(devices, change.imeis)
    [] OTHER -> devices

(* What a change makes of the contents it has read. *)
Edited(contents, change) ==
  IF change.op = "settings" THEN Contents(contents.devices, change.value)
                            ELSE Contents(Devices(contents.devices, change), contents.settings)

(* What it should make of all that was saved before. *)
Applied(change) ==
  IF Possible(committed.devices, change) THEN Edited(committed, change) ELSE committed

-----------------------------------------------------------------------------
(* updateDevicesInFile, UpdateNotificationInFile, UpdateWebCredentialsInFile *)

(* A change of the devices waits for the mutex, one of the settings does not. *)
Runs(w, change) ==
  /\ SaverAt(w, "idle")
  /\ change.op = "settings" <=> w \in SettingWriters
  /\ SaverMoves(w, Saving("read", change, NotWritten, 0))
  /\ mixedSaves' = (mixedSaves \/ (Busy # {} /\ (Busy \cup {w}) \cap SettingWriters # {}))
  /\ UNCHANGED <<fileVars, globalConfig, committed, stale, configFaults, crashes>>
BeginUnlocked(w, change) ==      \* mutant: the mutex is left out
  Runs(w, change) /\ UNCHANGED deviceFileMu
Save(w, change) ==
  /\ Runs(w, change)
  /\ IF w \in DeviceWriters THEN deviceFileMu = NoFileHolder /\ deviceFileMu' = w
                            ELSE UNCHANGED deviceFileMu

(* One of the calls to the file system fails. *)
SavingFails(w) ==
  /\ saver[w].step \in {"read", "open", "rename"} /\ ConfigFault /\ Gives(w, "failed")
  /\ UNCHANGED <<fileVars, globalConfig, configHistory, crashes>>

(* An empty file is an error for the devices, and no error for settings.   *)
Readable(w) ==
  LET contents == contentsOf[path]
  IN  /\ contents.text = "whole" \/ (contents.text = "empty" /\ w \in SettingWriters)
      /\ Possible(contents.devices, saver[w].change)
ReadFile(w) ==
  /\ SaverAt(w, "read")
  /\ IF Readable(w)
       THEN /\ Goes(w, "open", Edited(contentsOf[path], saver[w].change), 0)
            /\ UNCHANGED deviceFileMu
       ELSE Gives(w, "failed")
  /\ UNCHANGED <<fileVars, globalConfig, configHistory, configFaults, crashes>>

(* os.WriteFile: the file is created or emptied, then written.             *)
OpenTmp(w) ==
  LET free == Inodes \ ({path} \cup {saver[v].inode : v \in FileWriters})
  IN  /\ SaverAt(w, "open")
      /\ IF tmp # 0 THEN UNCHANGED tmp
                    ELSE tmp' \in free /\ \A i \in free : tmp' <= i
      /\ contentsOf' = [contentsOf EXCEPT ![tmp'] = NotWritten]
      /\ Goes(w, "write", saver[w].copy, tmp')
      /\ UNCHANGED <<deviceFileMu, path, globalConfig, configHistory, configFaults, crashes>>

Writes(inode, contents) == contentsOf' = [contentsOf EXCEPT ![inode] = contents]
(* Over the text of another writer the rest of a longer one remains. *)
WriteTmp(w) ==
  /\ SaverAt(w, "write")
  /\ \/ /\ Writes(saver[w].inode, saver[w].copy)
        /\ Goes(w, "rename", saver[w].copy, saver[w].inode)
        /\ UNCHANGED <<deviceFileMu, configFaults>>
     \/ /\ contentsOf[saver[w].inode] # NotWritten /\ Writes(saver[w].inode, Cut)
        /\ Goes(w, "rename", saver[w].copy, saver[w].inode)
        /\ UNCHANGED <<deviceFileMu, configFaults>>
     \/ Writes(saver[w].inode, Cut) /\ ConfigFault /\ Gives(w, "failed")
  /\ UNCHANGED <<path, tmp, globalConfig, configHistory, crashes>>

(* Another writer may have taken the temporary file away. *)
RenameTmp(w) ==
  /\ SaverAt(w, "rename")
  /\ IF tmp = 0
       THEN Gives(w, "failed") /\ UNCHANGED <<path, tmp, committed>>
       ELSE /\ path' = tmp /\ tmp' = 0
            /\ committed' = Applied(saver[w].change)
            /\ IF w \in DeviceWriters
                 THEN Goes(w, "reload", NotWritten, 0) /\ UNCHANGED deviceFileMu
                 ELSE Gives(w, "done")
  /\ UNCHANGED <<contentsOf, globalConfig, mixedSaves, stale, configFaults, crashes>>

(* ReloadFromFile; its error is not told. *)
Reload(w) ==
  /\ SaverAt(w, "reload") /\ Gives(w, "done")
  /\ \/ /\ contentsOf[path].text # "cut" /\ globalConfig' = contentsOf[path] /\ stale' = FALSE
        /\ UNCHANGED configFaults
     \/ /\ contentsOf[path].text = "cut" /\ stale' = TRUE
        /\ UNCHANGED <<globalConfig, configFaults>>
     \/ ConfigFault /\ stale' = TRUE /\ UNCHANGED globalConfig
  /\ UNCHANGED <<fileVars, committed, mixedSaves, crashes>>

(* The program dies and starts again (InitGlobalManager). *)
ConfigCrash ==
  /\ Busy # {} /\ crashes < MaxCrashes /\ crashes' = crashes + 1
  /\ saver' = [w \in FileWriters |-> IF w \in Busy THEN Idle("failed") ELSE saver[w]]
  /\ deviceFileMu' = NoFileHolder
  /\ globalConfig' = IF contentsOf[path].text = "cut" THEN NotWritten ELSE contentsOf[path]
  /\ stale' = FALSE
  /\ UNCHANGED <<fileVars, committed, mixedSaves, configFaults>>

SaveGoesOn(w) ==
  SavingFails(w) \/ ReadFile(w) \/ OpenTmp(w) \/ WriteTmp(w) \/ RenameTmp(w) \/ Reload(w)

ConfigNext ==
  \/ \E w \in FileWriters : SaveGoesOn(w) \/ \E change \in DeviceChanges : Save(w, change)
  \/ ConfigCrash

ConfigSpec == ConfigInit /\ [][ConfigNext]_configVars

-----------------------------------------------------------------------------
ConfigTypeOK ==
  /\ deviceFileMu \in DeviceWriters \cup {NoFileHolder}
  /\ path \in Inodes /\ tmp \in Inodes \cup {0} /\ tmp # path
  /\ \A w \in FileWriters :
       /\ saver[w].step \in {"idle", "read", "open", "write", "rename", "reload", "done", "failed"}
       /\ deviceFileMu = w => w \in Busy

(* While no change of settings runs together with another change, every    *)
(* change whose new file was put in place is in the file, whatever other   *)
(* call fails and wherever the program dies, and the devices in memory are *)
(* those of the file unless loading failed (updateDevicesInFile,           *)
(* UpdateNotificationInFile, ReloadFromFile).                              *)
ChangesAreKept ==
  mixedSaves \/
    /\ contentsOf[path] = committed
    /\ stale \/ deviceFileMu # NoFileHolder \/ globalConfig.devices = committed.devices
=============================================================================
