CONSTANTS
  Versions = {v1, v2}
  MaxArchive = 2
  MaxFaults = 2
  Seeded = {"ini", "previous", "tmp"}
  Absent = Absent

SPECIFICATION Spec
SYMMETRY Settings

INVARIANTS
  SettingsKept
  EditIsAllOrRecoverable
  SaveAcknowledged
  FirstRunOnlyWhenEmpty
PROPERTY
  EvidenceKept
