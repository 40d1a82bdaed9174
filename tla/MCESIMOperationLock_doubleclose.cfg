SPECIFICATION LockSpec
CONSTANTS
  Writers = {w1, w2}
  Lockers = {}
  Readers = {}
  DoneChannels = {h1, h2, h3}
  NoHolder = NoHolder
  NoDone = NoDone
INVARIANTS
  NoDoubleClose
