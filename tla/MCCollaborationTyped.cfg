SPECIFICATION CollabSpec
CONSTANTS
  Writers = {1}
  Letters = {1, 2, 3}
  Source <- TwoLetters
  MaxOperations = 8
  MaxEdits = 2
  FilesMayFail = {}
PROPERTY MergeKeepsOwnText
