\* Two patterns under both conditions, captures of two lines, two faults.
SPECIFICATION SramSpec
CONSTANTS
    Patterns <- MCPatterns
    Conditions <- MCConditions
    Repetitions = 1
    DataLines = 2
    MaxFaults = 2
INVARIANTS RowsAreTrue OnlyPowerRacesAbort SummaryAddsUp
PROPERTY ExperimentEnds
CHECK_DEADLOCK FALSE
