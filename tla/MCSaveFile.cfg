CONSTANTS
  Name = {"x", ",x", ",,x"}
  Document = {"x", ",x"}
  Backup <- MCBackup
  None = None
  MaxVersion = 2
SPECIFICATION Spec
INVARIANTS TypeOK CopyKept
PROPERTY CompleteRemains
