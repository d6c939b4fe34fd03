\* Three processes one after the other, four events.
CONSTANTS
  None = None
  Absent = Absent
  Partial = Partial
  MaxRuns = 3
  MaxEvents = 4
SPECIFICATION FairSpec
INVARIANTS TypeOK KeysStay TerminalRestored
PROPERTIES HeardStops ReadyComesTrue
CHECK_DEADLOCK FALSE
