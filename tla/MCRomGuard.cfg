CONSTANTS
  Cells = 2
  MaxCopy = 3
  Device = 1
  Roms <- MCRoms
  NoImage = NoImage
  NoRom = NoRom
  OddRom = OddRom
  NoList = NoList
  NoConfig = NoConfig
  Blocks = 4
  Ids = {"gpu", "disk", "net"}
  Active = "gpu"
  Storage = {"disk"}
  NoId = "none"
  Plain = Plain
  Copied = Copied
  Shadows <- MCShadows
  Intrusions <- MCIntrusions
  Unreadables <- MCUnreadables
  Handlers = {1, 4}
  NoSnapshot = NoSnapshot
  MaxIntrusions = 1
SPECIFICATION Spec
INVARIANTS RomSelectionExact CopySparesOthers PlacementKnown
