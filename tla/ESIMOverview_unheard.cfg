SPECIFICATION Spec
CONSTANTS
  Loaders = {l1}
  Reloader = Reloader
  Writers = {w1}
  ChipReaders = {}
  Operations = {"edit"}
  Cards = {c1}
  Profiles = {p1}
  MaxChanges = 1
  Nobody = Nobody
  Nothing = Nothing
INVARIANTS
  RefreshShowsTheCard
