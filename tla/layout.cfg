SPECIFICATION Spec
CONSTANTS
  Cols <- MCCols
  Unsplit = {"price"}
  Titles <- MCTitles
  PageWidth = 12
  Texts <- MCTexts
  Numbers <- MCNumbers
  MaxRows = 2
INVARIANTS CellsFit NothingIsLost ListIsUniform BrokenLinesFit NumbersAreGrouped
CHECK_DEADLOCK FALSE
