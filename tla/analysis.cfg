\* Every dataset of three slices of three bytes over three values; a chunk and
\* a window end inside a slice.
SPECIFICATION AnalysisSpec
CONSTANTS
    Runs = 3
    RunBytes = 3
    Values = {0, 1, 3}
    ChunkBytes = 2
    WindowBytes = 2
    PrefixBytes = 2
INVARIANTS ChunksDoNotMatter WindowsPartitionTheRun PairsAreAligned WeaknessShows
CHECK_DEADLOCK FALSE
