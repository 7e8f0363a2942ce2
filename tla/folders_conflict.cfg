SPECIFICATION Spec
CONSTANTS
  Letters = {"D"}
  Names = {"f"}
  MaxEdits = 1
  MaxWrites = 2
  Patient = TRUE
INVARIANT ConflictsAreIndependent
