SPECIFICATION Spec
CONSTANTS
  Letters = {"D"}
  Names = {"f"}
  MaxEdits = 1
  MaxWrites = 2
  Patient = TRUE
INVARIANTS CleanMeansSaved
PROPERTY UserEditsKept
