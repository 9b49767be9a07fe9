CONSTANTS
  Versions = {v1}
  MaxArchive = 2
  MaxFaults = 2
  Seeded = {"ini", "previous", "probe", "probe.previous"}
  Absent = Absent

SPECIFICATION FairSpec

INVARIANTS
  ReportKept
PROPERTIES
  NoDeadEnd
