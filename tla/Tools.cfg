CONSTANTS
  Catalog <- MCCatalog
  SafeFunctions <- MCSafeFunctions
  SystemTables <- MCSystemTables
  LowerCase <- MCLowerCase
  Calls <- MCCalls
  Tables <- MCTables
  Servings <- MCServings
  MaxRows = 4
  SearchDefault = 2
  ListDefault = 3
  NumFields <- MCNumFields
  TextFields <- MCTextFields
  Null = Null
SPECIFICATION Spec
INVARIANTS AnswersAreWhatWasAsked TruncationIsTold QueriesAreVetted
CHECK_DEADLOCK FALSE
