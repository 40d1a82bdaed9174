SPECIFICATION ESIMSpec
CONSTANTS
  Loaders = {l1}
  Reloader = Reloader
  Writers = {w1}
  ChipReaders = {}
  Operations = {"switch", "disable", "edit", "download"}
  Cards = {c1, c2}
  Profiles = {p1}
  MaxChanges = 2
  Nobody = Nobody
  Nothing = Nothing
  Packages = {x1}
  Tries = 2
  Looks = 2
  MaxNumber = 3
  MaxCardFaults = 2
  Users = {u1, u2}
  Modes = {"AT", "custom", "QMI", "MBIM"}
  ChannelCount = 2
  MaxChannelFaults = 1
  MaxStops = 1
  Switchers = {s1, s2}
  Authentications = {a1}
  Targets = {t1}
  AIDCount = 2
  CatBusyRetries = 1
  MaxSwitches = 2
SYMMETRY ESIMSymmetry
INVARIANTS
  ESIMTypeOK
  CachesAreCurrent
  AnswersAreFresh
  NotificationsAreSettled
  ChannelsAreApart
  SwitchesAreTold
