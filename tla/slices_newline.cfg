\* One slice, no fault; the dump may begin with a newline byte.
SPECIFICATION SlicesSpec
CONSTANTS
    Runs = 1
    DumpBytes = 2
    TargetBytes = 2
    MaxLead = 1
    MaxFaults = 0
    NoFile = NoFile
INVARIANT SlicesAreDumps
CHECK_DEADLOCK FALSE
