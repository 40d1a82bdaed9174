SPECIFICATION ServicesSpec
CONSTANTS
  Components = {"sms", "policy", "calls", "outbox", "notes", "at", "received", "ussd", "mbim", "config", "lock"}
  Pollers = {p1}
  Clearers = {c1}
  Messages = {"s", "l"}
  Long = {"l"}
  Broken = {"s"}
  Reference <- MCReference
  InitialSM <- MCInitialSM
  MaxRequests = 1
  MaxFaults = 1
  MaxInbox = 3
  MaxNow = 1
  Services = {s1, s2}
  MaxChanges = 2
  MaxPolicyFaults = 2
  MaxSets = 3
  Calls = {c1, c2}
  Incoming = {c1, c2}
  Withheld = {c2}
  MaxHistory = 1
  MaxCallFaults = 1
  Senders = {s1, s2}
  Segments <- MCSegments
  Users = {u1}
  MaxOutFaults = 4
  MaxPlain = 2
  Savers = {y1, y2}
  Probers = {b1}
  ICCIDs = {"i1", "i2"}
  Texts = {"t1"}
  Books <- MCBooks
  MaxNoteFaults = 1
  MaxSaves = 1
  Normal = {n1}
  Urgent = {u1}
  Texters = {s1}
  Channels = {k1}
  NoChannel = NoChannel
  Lost = Lost
  Threshold = 1
  QueueSize = 1
  Losses = {}
  MaxLines = 1
  MaxPending = 1
  Storages = {"SM", "ME"}
  Arriving <- MCArriving
  Whole <- MCWhole
  Sweepers = {"w"}
  NoMessage = "none"
  NoStorage = "nowhere"
  MaxATFaults = 2
  Askers = {a1, a2, a3}
  NoAsker = NoAsker
  MaxIndications = 2
  MBIMCallers = {m1, m2}
  Opener = Opener
  NoWriter = NoWriter
  InfoLength <- MCInfoLength
  MaxControlTransfer = 64
  AnswerPieces = 2
  IndicationSlots = 1
  MaxMBIMFaults = 1
  MaxWork = 2
  DeviceWriters = {d1, d2}
  SettingWriters = {v1}
  NoFileHolder = NoFileHolder
  DeviceChanges <- MCDeviceChanges
  MaxConfigFaults = 1
  MaxCrashes = 1
  AuthCallers = {c1, c2, c3}
  NoCaller = NoCaller
  MaxInvalidations = 2
  Writers = {w1}
  Lockers = {k1}
  Readers = {r1}
  DoneChannels = {h1, h2, h3, h4, h5}
  NoHolder = NoHolder
  NoDone = NoDone
CHECK_DEADLOCK FALSE
INVARIANTS
  ServicesTypeOK
  ListedIsKept
  MessagesAreWhole
  OnRestoresTracked
  CallsAreTold
  SentAsTold
  AnswersAreOwn
  SeparateReadsLoseNothing
  TextsAreOwn
  OnlyWholeMessages
  ChangesAreKept
  OperationsExclude
  NotesSurvive
PROPERTIES
  OthersAreKept
