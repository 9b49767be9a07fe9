SPECIFICATION TextSpec
CONSTANTS
  Keys <- MCKeys
  Values <- MCValues
  Addresses = {"a", "b"}
  Texts <- MCTexts
  EditTexts <- MCEditTexts
  MaxText = 3
  MaxLines = 9
  MaxOdd = 1
INVARIANTS
  EditExact
  EditAccepts
