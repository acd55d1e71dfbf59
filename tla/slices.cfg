\* Two slices of two bytes, two faults of any kind; no dump begins with a
\* newline byte.
SPECIFICATION SlicesFairSpec
CONSTANTS
    Runs = 2
    DumpBytes = 2
    TargetBytes = 2
    MaxLead = 0
    MaxFaults = 2
    NoFile = NoFile
INVARIANTS FileIsAfterItsReset FaultSpoilsOneCollection
PROPERTIES ImplementsDataset CollectionEnds
CHECK_DEADLOCK FALSE
