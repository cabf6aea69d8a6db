SPECIFICATION Spec
CONSTANTS
  Paths = {f, g}
  Present = {f}
  Settings <- MCSettings
  MaxWrites = 2
INVARIANTS SavesKept
PROPERTIES NoLostUpdate OnlySavesGoUp ChangesSettle
