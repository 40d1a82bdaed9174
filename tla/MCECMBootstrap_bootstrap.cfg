SPECIFICATION TeamSpec
CONSTANTS
  Actors = {"auto", "init", "user", "status"}
  Teams <- TwoTeams
  Handles = {h1, h2, h3, h4, h5}
  NoHandle = NoHandle
  UserModes = {"0"}
  Modules <- FactoryOrForeign
  MaxFaults = 1
INVARIANTS
  TypeOK
  OneBootstrap
  WritesAreVerified
PROPERTIES
  ModuleIsConverted
  ReadyIsShown
