SPECIFICATION FairSpec
CONSTANTS
  MaxAsked = 2
  MaxFaults = 1
INVARIANTS
  NothingSkipped
  TerminalIsTrue
PROPERTIES
  EndIsShown
  EventsArrive
