SPECIFICATION FairLibrarySpec
CONSTANTS
  Loaders = {l1}
  Reloader = Reloader
  Writers = {w1}
  ChipReaders = {g1}
  Operations = {"disable"}
  Cards = {c1}
  Profiles = {p1}
  MaxChanges = 2
  Nobody = Nobody
  Nothing = Nothing
PROPERTIES
  EveryLoadEnds
