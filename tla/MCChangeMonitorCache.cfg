SPECIFICATION Spec
CONSTANTS
  Paths = {f, g}
  Present = {}
  Settings <- TwoWaySettings
  MaxWrites = 2
PROPERTY OnlyRemovesWhatIsGone
