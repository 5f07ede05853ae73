SPECIFICATION ConvergeSpec
CONSTANTS
  Owners = {1}
  Sources = {1}
  SourceOf <- MCSourceOf
  LastSlot = 2
  Bodies = {1, 2}
  Provider = "caldav"
  Unpushable = {}
  TargetedReadLimit = 0
  ChunkSize = 1
  MaxEdits = 1
  MaxFaults = 1
PROPERTIES Converges Quiesces
