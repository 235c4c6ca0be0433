SPECIFICATION Spec
CONSTANTS
  Letters = {65, 83}
  MaxLetters = 1
  Sent = {77, 83, 113}
  Shorts = {1, 2}
  Longs = {70000}
  MaxColumns = 2
  MaxItems = 3
  Radix = 2
  Opaque = {opaque}
  Rounded = rounded
INVARIANTS
  ErrorsAreRead
  RowsAreRead
  ResultsCountRows
  MessagesAreFramed
  RequestsAreUnderstood
  EchoesAreExact
  ColumnsAreRead
  UpdatedBindingsFit
CHECK_DEADLOCK FALSE
