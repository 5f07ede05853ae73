SPECIFICATION FairSpec
CONSTANTS
  Owners = {1}
  Sources = {1}
  SourceOf <- OneSource
  LastSlot = 1
  Bodies = {1}
  Provider = "outlook"
  Unpushable = {}
  TargetedReadLimit = 1
  ChunkSize = 1
  MaxEdits = 0
  MaxFaults = 1
PROPERTY NoDuplicateLeft
