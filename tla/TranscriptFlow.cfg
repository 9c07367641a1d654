\* Every task, channels that hold one message and up to three segments.
CONSTANTS
    Teams = {{"ui"}, {"summary"}, {"rhai", "debounce"}}
    Capacity = 1
    MaxSegments = 3
    MaxUpdates = 4
    RowChoices = {TRUE, FALSE}
SPECIFICATION FairSpec
INVARIANTS
  Inv
  SessionEndsOnce
PROPERTIES
  FinalStays
  TasksEnd
