SPECIFICATION SettingsSpec
CONSTANTS
  Owners = {1, 2}
  Sources = {1, 2}
  SourceOf <- MCSourceOf
  LastSlot = 1
  Bodies = {1, 2}
  Provider = "outlook"
  Unpushable = {}
  TargetedReadLimit = 1
  ChunkSize = 1
  MaxEdits = 2
  MaxFaults = 1
INVARIANT SettingsTypeOK
INVARIANT EveryCopyRecorded
INVARIANT UpdatesNeverCollide
PROPERTY DeletesOnlyWhatItMay
