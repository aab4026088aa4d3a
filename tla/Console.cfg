SPECIFICATION Spec
CONSTANTS
  one = one
  two = two
  Keys = {one, two}
  Pages <- ConsolePages
  Nothing = Nothing
  MaxCalls = 2
  MaxCommands = 2
INVARIANTS
  SettledShowsOwn
  SettledShowsSelection
  FlagsAreTrue
  OfferedIsPermitted
PROPERTY FlagsEnd
CHECK_DEADLOCK FALSE
