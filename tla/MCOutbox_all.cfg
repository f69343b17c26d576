SPECIFICATION FairSpec
CONSTANTS
  scheme = scheme
  index = index
  seed = seed
  line1 = line1
  line2 = line2
  purge = purge
  Doc <- MCDoc
  Edit <- MCEdit
  DocOf <- MCDocOf
  Prior <- MCPrior
  Unbinds <- MCUnbinds
  Starter <- MCStarter
  Remote <- MCRemote
  MaxDocs = 1
  MaxUpdates = 1
  MaxFaults = 2
INVARIANTS
  TypeOK
  NoLostEdit
  ProjectionLaw
  ServerCausal
  CapturedIsComplete
PROPERTIES
  KeepsVisible
  DeliversSafely
  Delivers
  QueueDrains
