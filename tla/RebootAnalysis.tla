---------------------------- MODULE RebootAnalysis ----------------------------
(***************************************************************************)
(* scripts/analyze_reboot_slices.py on a collected dataset: one pass over  *)
(* the aggregate and over each slice, a chunk at a time with running sums; *)
(* the windows of each slice; then neighbouring slices are compared, again *)
(* a chunk at a time, and trends and repetitions are looked for.           *)
(*                                                                         *)
(* Ratios, logarithms and p-values are left out: a metric stands as the    *)
(* integers it is computed from.                                           *)
(***************************************************************************)
EXTENDS Integers, Sequences, SequencesExt, FiniteSetsExt

CONSTANTS
    Runs,         \* slices in the manifest
    RunBytes,     \* bytes_per_run
    Values,       \* the byte values that occur
    ChunkBytes,   \* how much is read at once
    WindowBytes,  \* --window-bytes
    PrefixBytes   \* --prefix-bytes

ASSUME AnalysisAssumption ==
    /\ Runs \in Nat \ {0}
    /\ RunBytes \in Nat \ {0}
    /\ Values \subseteq 0..255
    /\ ChunkBytes \in Nat \ {0}
    /\ WindowBytes \in Nat \ {0}
    /\ PrefixBytes \in Nat

VARIABLES
    slices,     \* the files of the dataset, as the manifest names them
    phase,      \* "aggregate", "run", "window", "compare", "done"
    run,        \* run_index; in "compare" the number of the pair
    offset,     \* bytes of the current file read
    state,      \* the running sums
    aggregate,  \* aggregate_metrics
    runRows,    \* run_rows
    windowRows, \* window_rows
    pair,       \* compared_bytes, equal_bytes and differing_bits of the pair
    adjacent,   \* the pairs compared so far: the neighbours, then first and last
    summary     \* what summary.json says of the runs

analysisVars == <<slices, phase, run, offset, state, aggregate, runRows, windowRows, pair,
                  adjacent, summary>>

\* concatenate of the collector wrote the aggregate.
AggregateFile == FlattenSeq(slices)

BitWeights == {1, 2, 4, 8, 16, 32, 64, 128}

\* BIT_COUNTS.
BitCount(v) == Cardinality({w \in BitWeights : (v \div w) % 2 = 1})

\* BIT_COUNTS of the exclusive or of two bytes.
DifferingBits(x, y) == Cardinality({w \in BitWeights : (x \div w) % 2 # (y \div w) % 2})

------------------------------------------------------------------------------
\* The running sums.

NoValue == -1

EmptyState ==
    [n |-> 0, counts |-> [v \in Values |-> 0], prev |-> NoValue, pairs |-> 0,
     x |-> 0, y |-> 0, x2 |-> 0, y2 |-> 0, xy |-> 0]

\* Mutant: the last byte of a chunk is not carried over to the next.
ChunkPairsApart(data, prev) ==
    [i \in 1..(Len(data) - 1) |-> <<data[i], data[i + 1]>>]

\* The pairs of neighbouring bytes a chunk contributes, the one with the last
\* byte of the chunk before included.
ChunkPairs(data, prev) ==
    LET s == IF prev = NoValue THEN data ELSE <<prev>> \o data
    IN  [i \in 1..(Len(s) - 1) |-> <<s[i], s[i + 1]>>]

\* update_stats_from_bytes on a chunk that is not empty.
Update(data, st) ==
    LET p == ChunkPairs(data, st.prev)
        I == 1..Len(p)
    IN  [n |-> st.n + Len(data),
         counts |-> [v \in Values |-> st.counts[v] + Cardinality({i \in 1..Len(data) : data[i] = v})],
         prev |-> data[Len(data)],
         pairs |-> st.pairs + Len(p),
         x |-> st.x + SumFunction([i \in I |-> p[i][1]]),
         y |-> st.y + SumFunction([i \in I |-> p[i][2]]),
         x2 |-> st.x2 + SumFunction([i \in I |-> p[i][1] * p[i][1]]),
         y2 |-> st.y2 + SumFunction([i \in I |-> p[i][2] * p[i][2]]),
         xy |-> st.xy + SumFunction([i \in I |-> p[i][1] * p[i][2]])]

\* finalize_state, metrics_from_counts: the integers behind the metrics.  The
\* serial correlation is a quotient only if there are two pairs and variance.
Finalize(st) ==
    LET denomX == st.pairs * st.x2 - st.x * st.x
        denomY == st.pairs * st.y2 - st.y * st.y
        defined == st.pairs > 1 /\ denomX > 0 /\ denomY > 0
    IN  [bytes |-> st.n,
         counts |-> st.counts,
         maxCount |-> Max({st.counts[v] : v \in Values}),
         byteSum |-> SumFunction([v \in Values |-> v * st.counts[v]]),
         ones |-> SumFunction([v \in Values |-> BitCount(v) * st.counts[v]]),
         serial |-> IF defined
                    THEN <<st.pairs * st.xy - st.x * st.y, denomX * denomY>>
                    ELSE <<0, 1>>]

Chunk(file, from, size) == SubSeq(file, from + 1, from + size)

------------------------------------------------------------------------------
\* The run of main.

AnalysisInit ==
    /\ slices \in [1..Runs -> [1..RunBytes -> Values]]
    /\ phase = "aggregate"
    /\ run = 1
    /\ offset = 0
    /\ state = EmptyState
    /\ aggregate = <<>>
    /\ runRows = <<>>
    /\ windowRows = <<>>
    /\ pair = [compared |-> 0, equal |-> 0, differing |-> 0]
    /\ adjacent = <<>>
    /\ summary = <<>>

CurrentFile == IF phase = "aggregate" THEN AggregateFile ELSE slices[run]

\* metrics_for_file: one chunk.
ReadChunk ==
    /\ phase \in {"aggregate", "run"}
    /\ offset < Len(CurrentFile)
    /\ LET data == Chunk(CurrentFile, offset, Min({ChunkBytes, Len(CurrentFile) - offset}))
       IN  /\ state' = Update(data, state)
           /\ offset' = offset + Len(data)
    /\ UNCHANGED <<slices, phase, run, aggregate, runRows, windowRows, pair, adjacent, summary>>

\* metrics_for_file returns: aggregate_metrics, or the row of a run, whose
\* windows are next.
FileRead ==
    /\ phase \in {"aggregate", "run"}
    /\ offset = Len(CurrentFile)
    /\ IF phase = "aggregate"
       THEN aggregate' = Finalize(state) /\ phase' = "run" /\ UNCHANGED runRows
       ELSE runRows' = Append(runRows, Finalize(state)) /\ phase' = "window" /\ UNCHANGED aggregate
    /\ offset' = 0
    /\ state' = EmptyState
    /\ UNCHANGED <<slices, run, windowRows, pair, adjacent, summary>>

\* Mutant: the sums of the window before are kept.
WindowStateKept == state

\* A window starts with new sums.
WindowState == EmptyState

\* iter_windows: one window, the last one shorter.
ReadWindow ==
    /\ phase = "window"
    /\ offset < RunBytes
    /\ LET data == Chunk(slices[run], offset, Min({WindowBytes, RunBytes - offset}))
           st == Update(data, WindowState)
           index == Cardinality({k \in 1..Len(windowRows) : windowRows[k].run = run})
       IN  /\ state' = st
           /\ windowRows' = Append(windowRows, [run |-> run, window |-> index, offset |-> offset,
                                                metrics |-> Finalize(st)])
           /\ offset' = offset + Len(data)
    /\ UNCHANGED <<slices, phase, run, aggregate, runRows, pair, adjacent, summary>>

\* The windows of a run are done: the next run, or the comparisons.
WindowsRead ==
    /\ phase = "window"
    /\ offset = RunBytes
    /\ offset' = 0
    /\ state' = EmptyState
    /\ IF run < Runs
       THEN run' = run + 1 /\ phase' = "run"
       ELSE run' = 1 /\ phase' = "compare"
    /\ UNCHANGED <<slices, aggregate, runRows, windowRows, pair, adjacent, summary>>

\* Mutant: the second file is read from its beginning again.
SecondChunkRewound(file, from, size) == Chunk(file, 0, size)

\* Both files are read at the same pace.
SecondChunk(file, from, size) == Chunk(file, from, size)

\* cross_reboot_similarity: each slice with the next, then the first with the
\* last one.
Left == IF run < Runs THEN run ELSE 1
Right == IF run < Runs THEN run + 1 ELSE Runs

Pairs == IF Runs > 1 THEN Runs ELSE 0

\* compare_aligned_files on a pair: one chunk of each file.
CompareChunk ==
    /\ phase = "compare"
    /\ run <= Pairs
    /\ offset < RunBytes
    /\ LET size == Min({ChunkBytes, RunBytes - offset})
           a == Chunk(slices[Left], offset, size)
           b == SecondChunk(slices[Right], offset, size)
       IN  /\ pair' = [compared |-> pair.compared + size,
                       equal |-> pair.equal + Cardinality({i \in 1..size : a[i] = b[i]}),
                       differing |-> pair.differing
                                       + SumFunction([i \in 1..size |-> DifferingBits(a[i], b[i])])]
           /\ offset' = offset + size
    /\ UNCHANGED <<slices, phase, run, state, aggregate, runRows, windowRows, adjacent, summary>>

\* compare_aligned_files returns.
PairCompared ==
    /\ phase = "compare"
    /\ run <= Pairs
    /\ offset = RunBytes
    /\ adjacent' = Append(adjacent, [left |-> Left, right |-> Right, compared |-> pair.compared,
                                     equal |-> pair.equal, differing |-> pair.differing])
    /\ pair' = [compared |-> 0, equal |-> 0, differing |-> 0]
    /\ offset' = 0
    /\ run' = run + 1
    /\ UNCHANGED <<slices, phase, state, aggregate, runRows, windowRows, summary>>

\* Mutant: only neighbouring runs are put into one group.
DuplicateNeighbours(values) ==
    {g \in SUBSET (1..Len(values)) :
        /\ Cardinality(g) = 2
        /\ \A i, j \in g : values[i] = values[j] /\ i - j \in {-1, 0, 1}}

\* duplicate_run_groups: the runs with a value, for each value of several.
DuplicateRunGroups(values) ==
    {g \in {{i \in 1..Len(values) : values[i] = values[j]} : j \in 1..Len(values)} :
        Cardinality(g) > 1}

\* Mutant: the run numbers are not centred on their mean.
SlopeUncentred(values) ==
    LET n == Len(values)
    IN  IF n < 2 THEN 0
        ELSE n * SumFunction([i \in 1..n |-> i * values[i]]) - SumFunction([i \in 1..n |-> values[i]])

\* linear_slope against the run number, times a positive denominator.
Slope(values) ==
    LET n == Len(values)
    IN  IF n < 2 THEN 0
        ELSE n * SumFunction([i \in 1..n |-> i * values[i]])
             - SumFunction([i \in 1..n |-> i]) * SumFunction([i \in 1..n |-> values[i]])

\* first_last_quartile, times the quartile's size.
FirstLast(values) ==
    LET q == Max({1, Len(values) \div 4})
    IN  SumFunction([i \in 1..q |-> values[Len(values) - q + i]])
        - SumFunction([i \in 1..q |-> values[i]])

\* stat_range; the mean times the number of values.
StatRange(values) ==
    [n |-> Len(values), min |-> Min(Range(values)), max |-> Max(Range(values)),
     sum |-> SumFunction([i \in 1..Len(values) |-> values[i]])]

\* first_rows.
FirstWindows(rows) == {row \in Range(rows) : row.window = 0}

\* last_rows, by max_window_by_run.
LastWindows(rows) ==
    LET maxWindow(r) == Max({row.window : row \in {w \in Range(rows) : w.run = r}})
    IN  {row \in Range(rows) : row.window = maxWindow(row.run)}

\* prefix_sha256: the bytes the digest is of.
Prefix(file) == SubSeq(file, 1, Min({PrefixBytes, Len(file)}))

\* What main puts into summary.json once all files are read.  A slice stands
\* for its digest.
Summarize ==
    /\ phase = "compare"
    /\ run > Pairs
    /\ LET ones == [r \in 1..Runs |-> runRows[r].ones]
           prefix == [r \in 1..Runs |-> Prefix(slices[r])]
       IN  summary' = [unique |-> Cardinality({slices[r] : r \in 1..Runs}),
                       duplicates |-> DuplicateRunGroups(slices),
                       uniquePrefix |-> Cardinality({prefix[r] : r \in 1..Runs}),
                       duplicatePrefix |-> DuplicateRunGroups(prefix),
                       perRun |-> StatRange(ones),
                       firstWindows |-> FirstWindows(windowRows),
                       lastWindows |-> LastWindows(windowRows),
                       slope |-> Slope(ones),
                       firstLast |-> FirstLast(ones)]
    /\ phase' = "done"
    /\ UNCHANGED <<slices, run, offset, state, aggregate, runRows, windowRows, pair, adjacent>>

AnalysisNext ==
    \/ ReadChunk \/ FileRead
    \/ ReadWindow \/ WindowsRead
    \/ CompareChunk \/ PairCompared
    \/ Summarize

AnalysisSpec == AnalysisInit /\ [][AnalysisNext]_analysisVars

------------------------------------------------------------------------------
\* What a metric is of a whole file, without chunks: every pair of neighbours
\* is counted once.
WholeFile(file) == Finalize(
    LET n == Len(file)
        I == 1..(n - 1)
    IN  [n |-> n, counts |-> [v \in Values |-> Cardinality({i \in 1..n : file[i] = v})],
         prev |-> NoValue, pairs |-> n - 1,
         x |-> SumFunction([i \in I |-> file[i]]),
         y |-> SumFunction([i \in I |-> file[i + 1]]),
         x2 |-> SumFunction([i \in I |-> file[i] * file[i]]),
         y2 |-> SumFunction([i \in I |-> file[i + 1] * file[i + 1]]),
         xy |-> SumFunction([i \in I |-> file[i] * file[i + 1]])])

\* The metrics of the aggregate and of every run do not depend on where the
\* chunk boundaries fall: update_stats_from_bytes carries the last byte over.
ChunksDoNotMatter ==
    /\ phase # "aggregate" => aggregate = WholeFile(AggregateFile)
    /\ \A r \in 1..Len(runRows) : runRows[r] = WholeFile(slices[r])

\* The windows of a run partition it: each one has the metrics of its own bytes
\* alone, the next one starts where it ends, and the last one ends the file; the
\* first and the last of each run are the ones that are compared.
WindowsPartitionTheRun ==
    \A k \in 1..Len(windowRows) :
        LET w == windowRows[k]
            end == w.offset + w.metrics.bytes
            final == k = Len(windowRows) \/ windowRows[k + 1].run # w.run
        IN  /\ end <= RunBytes
            /\ w.metrics = WholeFile(Chunk(slices[w.run], w.offset, w.metrics.bytes))
            /\ ~final => windowRows[k + 1].offset = end
            /\ final /\ (phase # "window" \/ run # w.run) => end = RunBytes
            /\ phase = "done" =>
                  /\ (w \in summary.firstWindows) <=> w.offset = 0
                  /\ (w \in summary.lastWindows) <=> final

\* Two slices with the same content are reported together and no others are;
\* the number of distinct slices agrees with the groups (write_markdown: "exact
\* slice/prefix repeats").
RepeatsAreReported ==
    phase = "done" =>
        /\ \A i, j \in 1..Runs : i # j =>
              ((slices[i] = slices[j]) <=> \E g \in summary.duplicates : {i, j} \subseteq g)
        /\ summary.unique + SumFunction([g \in summary.duplicates |-> Cardinality(g) - 1]) = Runs
        /\ \A g \in summary.duplicates : \E h \in summary.duplicatePrefix : g \subseteq h

\* Two slices are compared over their whole length: the differences are those
\* of the whole files, and the equal bytes agree with the repeats; the first and
\* the last slice have changed only if some neighbours have.
PairsAreAligned ==
    /\ \A k \in 1..Len(adjacent) :
          LET p == adjacent[k]
          IN  /\ p.compared = RunBytes
              /\ (p.equal = RunBytes) <=> (slices[p.left] = slices[p.right])
              /\ (p.differing = 0) <=> (slices[p.left] = slices[p.right])
    /\ phase = "done" /\ Runs > 1 =>
          /\ Len(adjacent) = Runs
          /\ adjacent[Runs].differing
             <= SumFunction([r \in 1..(Runs - 1) |-> adjacent[r].differing])

\* A trend that grows from run to run shows, in the slope and between the first
\* and the last quartile, and in the range; runs that are all alike show none.
TrendShows ==
    phase = "done" /\ Runs > 1 =>
        /\ (\A r \in 1..(Runs - 1) : runRows[r + 1].ones > runRows[r].ones) =>
               /\ summary.slope > 0
               /\ summary.firstLast > 0
               /\ summary.perRun.max - summary.perRun.min >= Runs - 1
        /\ (\A r \in 1..(Runs - 1) : runRows[r + 1].ones = runRows[r].ones) =>
               /\ summary.slope = 0
               /\ summary.firstLast = 0
               /\ summary.perRun.max = summary.perRun.min

\* write_markdown: "A reboot-state weakness should show up as exact slice/prefix
\* repeats, ... a visible per-reboot trend, a first-versus-last reboot shift".
WeaknessShows == RepeatsAreReported /\ TrendShows
==============================================================================
