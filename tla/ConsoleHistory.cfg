SPECIFICATION Spec
CONSTANTS
  one = one
  two = two
  Keys = {one, two}
  Pages <- ConsolePages
  Nothing = Nothing
  MaxCalls = 2
  MaxCommands = 2
INVARIANT HistoryIsOfTheRange
CHECK_DEADLOCK FALSE
