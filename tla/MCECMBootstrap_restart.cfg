SPECIFICATION TeamSpec
CONSTANTS
  Actors = {"auto"}
  Teams <- OneTeam
  Handles = {h1, h2}
  NoHandle = NoHandle
  UserModes = {}
  Modules <- FactoryOnly
  MaxFaults = 1
INVARIANTS
  ReadyMeansECM
