CONSTANTS
  Catalog <- MCCatalog
  SafeFunctions <- MCSafeFunctions
  SystemTables <- MCSystemTables
  LowerCase <- MCLowerCase
  Calls <- MCCalls
  Tables <- MCTables
  Servings <- MCServings
  MaxRows = 4
  SearchDefault = 2
  ListDefault = 3
  NumFields <- MCNumFields
  TextFields <- MCTextFields
  Null = Null
SPECIFICATION Spec
INVARIANT OnlyCatalogIsRead
CHECK_DEADLOCK FALSE
