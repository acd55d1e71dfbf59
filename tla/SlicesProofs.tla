----------------------------- MODULE SlicesProofs -----------------------------
(***************************************************************************)
(* Proofs about RebootSlices: from which boot the bytes of a slice come,   *)
(* what one fault can spoil, and that the collection keeps the promise of  *)
(* SliceDataset.                                                           *)
(***************************************************************************)
EXTENDS RebootSlices, SequenceFacts

------------------------------------------------------------------------------
(* What the processes do with sequences of tokens. *)

\* What the board writes comes behind what has not been read.
LEMMA Written ==
    ASSUME NEW s \in Seq(Tokens), NEW e \in Seq(Tokens)
    PROVE  /\ s \o e \in Seq(Tokens)
           /\ Len(s) \in Nat /\ Len(e) \in Nat /\ Len(s \o e) = Len(s) + Len(e)
           /\ \A j \in 1..Len(s) : (s \o e)[j] = s[j]
           /\ \A j \in (Len(s) + 1)..(Len(s) + Len(e)) : (s \o e)[j] = e[j - Len(s)]
OBVIOUS

\* What is in a line after the board has written one more token.
LEMMA WroteOne ==
    ASSUME NEW s \in Seq(Tokens), NEW x \in Tokens
    PROVE  /\ Len(s \o <<x>>) = Len(s) + 1
           /\ \A j \in 1..Len(s) : (s \o <<x>>)[j] = s[j]
           /\ (s \o <<x>>)[Len(s) + 1] = x
OBVIOUS

\* The same for two tokens at once.
LEMMA WroteTwo ==
    ASSUME NEW s \in Seq(Tokens), NEW x \in Tokens, NEW y \in Tokens
    PROVE  /\ Len(s \o <<x, y>>) = Len(s) + 2
           /\ \A j \in 1..Len(s) : (s \o <<x, y>>)[j] = s[j]
           /\ (s \o <<x, y>>)[Len(s) + 1] = x
           /\ (s \o <<x, y>>)[Len(s) + 2] = y
OBVIOUS

\* A piece of a sequence.
LEMMA Piece ==
    ASSUME NEW s \in Seq(Tokens), NEW a \in Nat, NEW b \in Nat, a <= b, b <= Len(s)
    PROVE  /\ SubSeq(s, a + 1, b) \in Seq(Tokens) /\ Len(SubSeq(s, a + 1, b)) = b - a
           /\ \A j \in 1..(b - a) : a + j \in 1..Len(s) /\ SubSeq(s, a + 1, b)[j] = s[a + j]
OBVIOUS

\* A read takes n tokens from the front.
LEMMA WasRead ==
    ASSUME NEW n \in 1..Len(line), line \in Seq(Tokens), Read(n)
    PROVE  /\ line' \in Seq(Tokens) /\ Len(line) \in Nat /\ Len(line') = Len(line) - n
           /\ \A j \in 1..Len(line') : n + j \in 1..Len(line) /\ line'[j] = line[n + j]
           /\ SubSeq(line, 1, n) \in Seq(Tokens) /\ Len(SubSeq(line, 1, n)) = n
           /\ \A j \in 1..n : j \in 1..Len(line) /\ SubSeq(line, 1, n)[j] = line[j]
<1>1. Len(line) \in Nat /\ n \in Nat /\ n <= Len(line) /\ line' = SubSeq(line, n + 1, Len(line))
  BY DEF Read
<1>2. /\ line' \in Seq(Tokens) /\ Len(line') = Len(line) - n
      /\ \A j \in 1..(Len(line) - n) : n + j \in 1..Len(line) /\ line'[j] = line[n + j]
  BY <1>1, Piece
<1>3. /\ SubSeq(line, 0 + 1, n) \in Seq(Tokens) /\ Len(SubSeq(line, 0 + 1, n)) = n - 0
      /\ \A j \in 1..(n - 0) : 0 + j \in 1..Len(line) /\ SubSeq(line, 0 + 1, n)[j] = line[0 + j]
  BY <1>1, Piece
<1>. QED
  BY <1>1, <1>2, <1>3

\* SkipNewlines drops newlines only.
LEMMA Skipped ==
    ASSUME NEW s \in Seq(Tokens)
    PROVE  \E m \in 0..Len(s) :
              /\ SkipNewlines(s) \in Seq(Tokens) /\ Len(SkipNewlines(s)) = Len(s) - m
              /\ \A j \in 1..m : s[j].nl
              /\ \A j \in 1..(Len(s) - m) : SkipNewlines(s)[j] = s[m + j]
<1>. DEFINE K == {k \in 0..Len(s) : \A j \in 1..k : s[j].nl}
            m == Max(K)
<1>1. Len(s) \in Nat /\ K \in SUBSET Nat /\ 0 \in K /\ \A k \in K : k <= Len(s)
  OBVIOUS
<1>2. m \in K
  <2>. HIDE DEF K
  <2>. QED
    BY <1>1, MaxOfBounded
<1>3. m \in 0..Len(s) /\ \A j \in 1..m : s[j].nl
  BY <1>2
<1>4. SkipNewlines(s) = SubSeq(s, 1 + m, Len(s))
  BY DEF SkipNewlines
<1>. HIDE DEF m, K
<1>5. 1 + m = m + 1 /\ m \in Nat /\ m <= Len(s)
  BY <1>1, <1>3
<1>6. /\ SkipNewlines(s) \in Seq(Tokens) /\ Len(SkipNewlines(s)) = Len(s) - m
      /\ \A j \in 1..(Len(s) - m) : SkipNewlines(s)[j] = s[m + j]
  BY <1>1, <1>4, <1>5, Piece
<1>. QED
  BY <1>3, <1>6

\* The first start marker of a sequence that has one.
LEMMA FirstStartFound ==
    ASSUME NEW s \in Seq(Tokens), HasKind(s, "start")
    PROVE  /\ FirstStart(s) \in 1..Len(s) /\ s[FirstStart(s)].kind = "start"
           /\ \A k \in 1..(FirstStart(s) - 1) : s[k].kind # "start"
<1>. DEFINE J == {j \in 1..Len(s) : s[j].kind = "start"}
<1>1. J \in SUBSET Nat /\ J # {}
  BY DEF HasKind
<1>2. PICK j \in J : \A k \in J : j <= k
  BY <1>1, LeastNat
<1>3. j \in 1..Len(s) /\ s[j].kind = "start" /\ \A k \in 1..(j - 1) : s[k].kind # "start"
  BY <1>2
<1>. QED
  BY <1>3 DEF FirstStart

\* What is in the file after the read that finds the start marker: the tokens
\* behind the first marker and behind m newlines that follow it.
LEMMA FileBegins ==
    ASSUME TypeOK, NEW n \in 1..Len(line), Read(n), HasKind(SubSeq(line, 1, n), "start"),
           NEW file, file = Take(SkipNewlines(SubSeq(SubSeq(line, 1, n),
                                   FirstStart(SubSeq(line, 1, n)) + 1, n)), TargetBytes)
    PROVE  \E j \in 1..n : \E m \in 0..(n - j) :
              /\ line[j].kind = "start"
              /\ \A k \in 1..m : line[j + k].nl
              /\ file \in Seq(Tokens)
              /\ Len(file) = IF n - j - m < TargetBytes THEN n - j - m ELSE TargetBytes
              /\ \A i \in 1..Len(file) : j + m + i \in 1..Len(line) /\ file[i] = line[j + m + i]
<1>. DEFINE data == SubSeq(line, 1, n)
            j == FirstStart(data)
            rest == SubSeq(data, j + 1, n)
            kept == SkipNewlines(rest)
<1>0. TargetBytes \in Nat \ {0} /\ n \in Nat /\ Len(line) \in Nat /\ n <= Len(line)
  BY CaptureAssumption DEF TypeOK
<1>1. /\ data \in Seq(Tokens) /\ Len(data) = n
      /\ \A k \in 1..n : k \in 1..Len(line) /\ data[k] = line[k]
  BY WasRead DEF TypeOK
<1>2. HasKind(data, "start") /\ file = Take(kept, TargetBytes)
  OBVIOUS
<1>. HIDE DEF data
<1>3. j \in 1..n /\ data[j].kind = "start"
  BY <1>1, <1>2, FirstStartFound
<1>. HIDE DEF j
<1>4. /\ rest \in Seq(Tokens) /\ Len(rest) = n - j
      /\ \A k \in 1..(n - j) : j + k \in 1..n /\ rest[k] = data[j + k]
  BY <1>0, <1>1, <1>3, Piece
<1>. HIDE DEF rest
<1>5. PICK m \in 0..Len(rest) :
         /\ kept \in Seq(Tokens) /\ Len(kept) = Len(rest) - m
         /\ \A k \in 1..m : rest[k].nl
         /\ \A k \in 1..(Len(rest) - m) : kept[k] = rest[m + k]
  BY <1>4, Skipped
<1>. HIDE DEF kept
<1>. DEFINE len == IF n - j - m < TargetBytes THEN n - j - m ELSE TargetBytes
<1>6. len \in Nat /\ len <= Len(kept) /\ Len(kept) = n - j - m
  BY <1>0, <1>3, <1>4, <1>5
<1>7. file = SubSeq(kept, 0 + 1, len)
  <2>1. file = SubSeq(kept, 1, IF Len(kept) < TargetBytes THEN Len(kept) ELSE TargetBytes)
    BY <1>2 DEF Take
  <2>2. (IF Len(kept) < TargetBytes THEN Len(kept) ELSE TargetBytes) = len
    BY <1>6
  <2>3. 0 + 1 = 1
    OBVIOUS
  <2>. HIDE DEF len
  <2>. QED
    BY <2>1, <2>2, <2>3
<1>. HIDE DEF len
<1>8. /\ file \in Seq(Tokens) /\ Len(file) = len
      /\ \A i \in 1..len : i \in 1..Len(kept) /\ file[i] = kept[i]
  <2>1. 0 \in Nat /\ 0 <= len /\ len - 0 = len /\ \A i \in 1..len : 0 + i = i
    BY <1>6
  <2>2. /\ SubSeq(kept, 0 + 1, len) \in Seq(Tokens) /\ Len(SubSeq(kept, 0 + 1, len)) = len - 0
        /\ \A i \in 1..(len - 0) : 0 + i \in 1..Len(kept) /\ SubSeq(kept, 0 + 1, len)[i] = kept[0 + i]
    BY <1>5, <1>6, <2>1, Piece
  <2>. QED
    BY <1>7, <2>1, <2>2
<1>9. line[j].kind = "start" /\ \A k \in 1..m : line[j + k].nl
  <2>1. line[j].kind = "start"
    BY <1>1, <1>3
  <2>2. ASSUME NEW k \in 1..m
        PROVE  line[j + k].nl
    <3>1. rest[k].nl /\ k \in 1..(n - j)
      BY <1>3, <1>4, <1>5
    <3>2. rest[k] = data[j + k] /\ j + k \in 1..n
      BY <1>4, <3>1
    <3>. QED
      BY <1>1, <3>1, <3>2
  <2>. QED
    BY <2>1, <2>2
<1>10. ASSUME NEW i \in 1..Len(file)
       PROVE  j + m + i \in 1..Len(line) /\ file[i] = line[j + m + i]
  <2>1. i \in 1..(n - j - m) /\ i \in 1..len
    BY <1>6, <1>8
  <2>5. m + i \in 1..(n - j)
    BY <1>3, <1>4, <1>5, <2>1
  <2>6. i \in 1..(Len(rest) - m)
    BY <1>3, <1>4, <1>5, <2>1
  <2>7. file[i] = kept[i] /\ kept[i] = rest[m + i]
    BY <1>5, <1>8, <2>1, <2>6
  <2>2. file[i] = rest[m + i] /\ m + i \in 1..(n - j)
    BY <2>5, <2>7
  <2>3. rest[m + i] = data[j + (m + i)] /\ j + (m + i) \in 1..n
    BY <1>4, <2>2
  <2>4. j + (m + i) = j + m + i
    BY <1>3, <1>5, <2>1
  <2>. QED
    BY <1>1, <2>2, <2>3, <2>4
<1>. QED
  BY <1>3, <1>4, <1>5, <1>8, <1>9, <1>10 DEF len

\* What the board writes has the type of tokens.
LEMMA TokenTypes ==
    ASSUME TypeOK
    PROVE  /\ \A k \in {"armed", "start", "eol", "text", "end"} : Text(k) \in Tokens
           /\ \A i \in Nat : RawByte(i) \in Tokens
           /\ \A e \in Seq(Tokens) : Emit(e) => line' \in Seq(Tokens)
<1>1. boot \in Nat /\ lead \in Nat
  BY CaptureAssumption DEF TypeOK
<1>2. \A k \in {"armed", "start", "eol", "text", "end"} : Text(k) \in Tokens
  BY <1>1 DEF Text, Tokens
<1>3. \A i \in Nat : RawByte(i) \in Tokens
  BY <1>1 DEF RawByte, Tokens
<1>4. \A e \in Seq(Tokens) : Emit(e) => line' \in Seq(Tokens)
  BY Written DEF Emit, TypeOK
<1>. QED
  BY <1>2, <1>3, <1>4

------------------------------------------------------------------------------
(* The collector's loop.                                                   *)

\* A capture process runs only for the slice whose turn it is, and the entries
\* so far are those of the slices before it, as they are on the disk.
PhaseInv ==
    /\ coll # "loop" => host = "none"
    /\ coll = "loop" => index <= Runs
    /\ coll = "loop" /\ host # "none" => slot = index
    /\ coll \in {"concat", "manifest"} => index = Runs + 1
    /\ coll \in {"loop", "concat", "manifest"} =>
          /\ Len(runs) = index - 1
          /\ \A r \in 1..(index - 1) : runs[r] = [run |-> r, sha256 |-> disk[r]] /\ SizeOk(disk[r])
    /\ coll = "manifest" => concat = FlattenSeq([r \in 1..Runs |-> disk[r]])

\* Nothing is collected at first.
LEMMA SlicesTypeInit == CollectInit => TypeOK /\ PhaseInv
<1>. SUFFICES ASSUME CollectInit
              PROVE  TypeOK /\ PhaseInv
  OBVIOUS
<1>. USE DEF CollectInit, CaptureInit
<1>0. /\ Runs \in Nat \ {0} /\ DumpBytes \in Nat \ {0} /\ MaxLead \in Nat /\ MaxFaults \in Nat
  BY CaptureAssumption
<1>1. <<>> \in Seq(Tokens) /\ <<>> \in Seq(Entries) /\ Len(<<>>) = 0
  OBVIOUS
<1>b. rx \in BOOLEAN /\ triggered \in BOOLEAN /\ resume \in BOOLEAN
  BY Zenon
<1>2. /\ boot \in Nat \ {0} /\ at \in {"boot", "armed", "dump", "over"}
      /\ sent \in 0..DumpBytes /\ lead \in 0..MaxLead
  BY <1>0
<1>3. /\ line \in Seq(Tokens) /\ concat \in Seq(Tokens) /\ runs \in Seq(Entries) /\ Len(runs) <= Runs
  BY <1>0, <1>1
<1>4. manifest \in [runs : Seq(Entries), aggregate : Seq(Tokens)]
  BY <1>1
<1>5. /\ disk \in [1..Runs -> Seq(Tokens) \union {NoFile}]
      /\ \A r \in 1..Runs : disk[r] = NoFile
  OBVIOUS
<1>6. /\ slot \in 1..Runs /\ index \in 1..(Runs + 1) /\ since \in 0..boot /\ faults \in 0..MaxFaults
      /\ failures \in Nat /\ host = "none" /\ coll = "off"
  BY <1>0
<1>. QED
  BY <1>b, <1>2, <1>3, <1>4, <1>5, <1>6 DEF TypeOK, PhaseInv

\* A step of the board keeps the types.
LEMMA BoardTypes ==
    ASSUME TypeOK, BoardNext, UNCHANGED <<hostVars, collectVars>>
    PROVE  TypeOK'
<1>. USE DEF hostVars, collectVars
<1>c. Runs \in Nat \ {0} /\ DumpBytes \in Nat \ {0} /\ MaxLead \in Nat /\ MaxFaults \in Nat
  BY CaptureAssumption
<1>z. 0 \in 0..DumpBytes /\ 0 \in 0..MaxLead
  BY <1>c
<1>f. Fault \/ faults' = faults => faults' \in 0..MaxFaults
  BY <1>c DEF Fault, TypeOK
<1>b. boot' = boot \/ boot' = boot + 1 => boot' \in Nat \ {0} /\ since' \in 0..boot'
  BY DEF TypeOK
<1>0. ASSUME boot' = boot \/ boot' = boot + 1, at' \in {"boot", "armed", "dump", "over"},
             sent' \in 0..DumpBytes, lead' \in 0..MaxLead, rx' \in BOOLEAN, line' \in Seq(Tokens),
             Fault \/ faults' = faults
      PROVE  TypeOK'
  BY <1>0, <1>f, <1>b DEF TypeOK
<1>n. Coincidence => Fault \/ faults' = faults
  BY DEF Coincidence
<1>1. CASE \E kept \in BOOLEAN : Arm(kept)
  <2>1. <<Text("armed")>> \in Seq(Tokens)
    BY TokenTypes
  <2>2. rx' \in BOOLEAN
    BY <1>1 DEF Arm, TypeOK
  <2>. QED
    BY <1>0, <1>n, <1>1, <2>1, <2>2, TokenTypes DEF Arm, TypeOK
<1>2. CASE BootFails
  BY <1>0, <1>2 DEF BootFails, TypeOK
<1>3. CASE \E n \in 0..MaxLead : StartDump(n)
  <2>1. <<Text("start"), Text("eol")>> \in Seq(Tokens)
    BY TokenTypes
  <2>. QED
    BY <1>0, <1>n, <1>3, <2>1, TokenTypes DEF StartDump, TypeOK
<1>4. CASE DumpByte
  <2>1. sent + 1 \in Nat
    BY <1>c DEF TypeOK
  <2>2. <<RawByte(sent + 1)>> \in Seq(Tokens)
    BY <2>1, TokenTypes
  <2>3. sent' \in 0..DumpBytes
    BY <1>4, <1>c DEF DumpByte, TypeOK
  <2>4. line' \in Seq(Tokens)
    BY <1>4, <2>2, TokenTypes DEF DumpByte
  <2>. QED
    BY <1>0, <1>4, <2>3, <2>4 DEF DumpByte, TypeOK
<1>5. CASE EndDump
  <2>1. <<Text("eol"), Text("end")>> \in Seq(Tokens)
    BY TokenTypes
  <2>. QED
    BY <1>0, <1>5, <2>1, <1>z, TokenTypes DEF EndDump, TypeOK
<1>6. CASE DumpError
  <2>1. <<Text("text"), Text("eol"), Text("end")>> \in Seq(Tokens)
    BY TokenTypes
  <2>. QED
    BY <1>0, <1>6, <2>1, <1>z, TokenTypes DEF DumpError, TypeOK
<1>7. CASE \E kept \in BOOLEAN : Crash(kept)
  BY <1>0, <1>7, <1>c DEF Crash, Restart, TypeOK
<1>. QED
  BY <1>1, <1>2, <1>3, <1>4, <1>5, <1>6, <1>7 DEF BoardNext

\* A step of the capture process keeps the types.
LEMMA CaptureTypes ==
    ASSUME TypeOK, CaptureNext, UNCHANGED collectVars
    PROVE  TypeOK'
<1>. USE DEF boardVars, collectVars
<1>c. /\ Runs \in Nat \ {0} /\ DumpBytes \in Nat \ {0} /\ MaxLead \in Nat /\ MaxFaults \in Nat
      /\ TargetBytes \in Nat \ {0}
  BY CaptureAssumption
<1>f. Fault \/ faults' = faults => faults' \in 0..MaxFaults
  BY <1>c DEF Fault, TypeOK
<1>1. CASE PulseEn
  <2>1. boot' \in Nat \ {0} /\ since' \in 0..boot'
    BY <1>1 DEF PulseEn, Restart, TypeOK
  <2>2. sent' \in 0..DumpBytes /\ lead' \in 0..MaxLead /\ rx' \in BOOLEAN
    BY <1>1, <1>c DEF PulseEn, Restart, TypeOK
  <2>. QED
    BY <1>1, <2>1, <2>2 DEF PulseEn, Restart, TypeOK
<1>2. ASSUME NEW n \in 1..Len(line), ScanFindsStart(n)
      PROVE  TypeOK'
  <2>. DEFINE file == Take(SkipNewlines(SubSeq(SubSeq(line, 1, n),
                             FirstStart(SubSeq(line, 1, n)) + 1, n)), TargetBytes)
  <2>1. Read(n) /\ HasKind(SubSeq(line, 1, n), "start") /\ disk' = [disk EXCEPT ![slot] = file]
    BY <1>2 DEF ScanFindsStart
  <2>. HIDE DEF file
  <2>2. file \in Seq(Tokens) /\ Len(file) <= TargetBytes
    <3>1. PICK j \in 1..n : \E m \in 0..(n - j) :
            /\ file \in Seq(Tokens)
            /\ Len(file) = IF n - j - m < TargetBytes THEN n - j - m ELSE TargetBytes
      BY <2>1, FileBegins DEF file
    <3>2. PICK m \in 0..(n - j) :
            /\ file \in Seq(Tokens)
            /\ Len(file) = IF n - j - m < TargetBytes THEN n - j - m ELSE TargetBytes
      BY <3>1
    <3>. QED
      BY <3>2, <1>c
  <2>3. /\ disk' \in [1..Runs -> Seq(Tokens) \union {NoFile}] /\ disk'[slot] # NoFile
        /\ \A r \in 1..Runs : disk'[r] = NoFile \/ Len(disk'[r]) <= TargetBytes
    BY <2>1, <2>2, CaptureAssumption DEF TypeOK
  <2>4. line' \in Seq(Tokens)
    BY <2>1, WasRead DEF TypeOK
  <2>. QED
    BY <1>2, <2>3, <2>4 DEF ScanFindsStart, TypeOK
<1>3. ASSUME NEW n \in 1..Len(line), NEW lost \in BOOLEAN, ScanReadsOn(n, lost)
      PROVE  TypeOK'
  <2>1. line' \in Seq(Tokens)
    BY <1>3, WasRead DEF ScanReadsOn, TypeOK
  <2>2. triggered' \in BOOLEAN /\ rx' \in BOOLEAN
    BY <1>3 DEF ScanReadsOn, TypeOK
  <2>3. faults' \in 0..MaxFaults
    BY <1>3, <1>f DEF ScanReadsOn
  <2>. QED
    BY <1>3, <2>1, <2>2, <2>3 DEF ScanReadsOn, TypeOK
<1>4. ASSUME NEW n \in 1..Len(line), CollectRead(n)
      PROVE  TypeOK'
  <2>1. /\ line' \in Seq(Tokens) /\ SubSeq(line, 1, n) \in Seq(Tokens) /\ Len(SubSeq(line, 1, n)) = n
        /\ n \in Nat
    BY <1>4, WasRead DEF CollectRead, TypeOK
  <2>2. disk[slot] \in Seq(Tokens) /\ slot \in 1..Runs
    BY <1>4 DEF CollectRead, TypeOK
  <2>. DEFINE file == disk[slot] \o SubSeq(line, 1, n)
  <2>3. file \in Seq(Tokens) /\ Len(file) <= TargetBytes
    BY <1>4, <2>1, <2>2, Written, <1>c DEF CollectRead
  <2>4. disk' = [disk EXCEPT ![slot] = file]
    BY <1>4 DEF CollectRead
  <2>. HIDE DEF file
  <2>5. /\ disk' \in [1..Runs -> Seq(Tokens) \union {NoFile}] /\ disk'[slot] # NoFile
        /\ \A r \in 1..Runs : disk'[r] = NoFile \/ Len(disk'[r]) <= TargetBytes
    BY <2>2, <2>3, <2>4, CaptureAssumption DEF TypeOK
  <2>. QED
    BY <1>4, <2>1, <2>5 DEF CollectRead, TypeOK
<1>5. CASE ScanTimeout \/ CollectTimeout
  BY <1>5 DEF ScanTimeout, CollectTimeout, TypeOK
<1>6. CASE CollectDone
  BY <1>6 DEF CollectDone, TypeOK
<1>7. CASE SerialFails
  BY <1>7, <1>f DEF SerialFails, TypeOK
<1>. QED
  BY <1>1, <1>2, <1>3, <1>4, <1>5, <1>6, <1>7 DEF CaptureNext

\* A step of the board or of the capture process does not touch the slices the
\* collector has recorded.
LEMMA CapturePhase ==
    ASSUME TypeOK, PhaseInv, UNCHANGED collectVars,
           \/ BoardNext
           \/ CaptureNext
    PROVE  PhaseInv'
<1>. USE DEF collectVars, hostVars, boardVars
<1>1. CASE BoardNext
  <2>1. UNCHANGED hostVars
    BY <1>1 DEF BoardNext, Arm, BootFails, StartDump, DumpByte, EndDump, DumpError, Crash
  <2>. QED
    BY <2>1 DEF PhaseInv, SizeOk
<1>2. CASE CaptureNext
  <2>1. /\ host # "none" /\ slot' = slot
        /\ disk' = disk \/ (\E file : disk' = [disk EXCEPT ![slot] = file])
    BY <1>2 DEF CaptureNext, PulseEn, ScanFindsStart, ScanReadsOn, ScanTimeout, CollectRead,
                CollectDone, CollectTimeout, SerialFails
  <2>2. coll = "loop" /\ slot = index
    BY <2>1 DEF PhaseInv
  <2>3. index \in Nat /\ index <= Runs /\ Runs \in Nat
    BY <2>2, CaptureAssumption DEF PhaseInv, TypeOK
  <2>4. \A r \in 1..(index - 1) : disk'[r] = disk[r]
    BY <2>1, <2>2, <2>3 DEF TypeOK
  <2>. QED
    BY <2>1, <2>2, <2>3, <2>4 DEF PhaseInv, SizeOk
<1>. QED
  BY <1>1, <1>2

\* An entry is recorded.
LEMMA RecordStep ==
    ASSUME TypeOK, PhaseInv, coll = "loop", SizeOk(disk[index]), Record, UNCHANGED <<disk, concat>>
    PROVE  /\ coll' \in {"loop", "concat"} /\ index' \in 1..(Runs + 1)
           /\ runs' \in Seq(Entries) /\ Len(runs') <= Runs
           /\ coll' = "loop" => index' <= Runs
           /\ coll' = "concat" => index' = Runs + 1
           /\ Len(runs') = index' - 1
           /\ \A r \in 1..(index' - 1) : runs'[r] = [run |-> r, sha256 |-> disk'[r]] /\ SizeOk(disk'[r])
<1>. DEFINE e == [run |-> index, sha256 |-> disk[index]]
<1>c. Runs \in Nat \ {0}
  BY CaptureAssumption
<1>1. index \in 1..Runs /\ Len(runs) = index - 1 /\ runs \in Seq(Entries)
  BY <1>c DEF PhaseInv, TypeOK
<1>2. disk[index] \in Seq(Tokens)
  BY <1>1 DEF SizeOk, TypeOK
<1>3. e \in Entries
  BY <1>1, <1>2 DEF Entries
<1>4. /\ runs' = Append(runs, e) /\ index' = index + 1
      /\ coll' = IF index = Runs THEN "concat" ELSE "loop"
  BY DEF Record
<1>5. e = [run |-> index, sha256 |-> disk[index]]
  OBVIOUS
<1>. HIDE DEF e
<1>6. /\ runs' \in Seq(Entries) /\ Len(runs') = Len(runs) + 1
      /\ \A r \in 1..Len(runs) : runs'[r] = runs[r]
      /\ runs'[Len(runs) + 1] = e
  BY <1>1, <1>3, <1>4
<1>7. ASSUME NEW r \in 1..(index' - 1)
      PROVE  runs'[r] = [run |-> r, sha256 |-> disk'[r]] /\ SizeOk(disk'[r])
  <2>1. CASE r = index
    BY <1>1, <1>5, <1>6, <2>1
  <2>2. CASE r # index
    <3>1. r \in 1..(index - 1) /\ r \in 1..Len(runs)
      BY <1>1, <1>4, <2>2
    <3>. QED
      BY <1>6, <3>1 DEF PhaseInv
  <2>. QED
    BY <2>1, <2>2
<1>. QED
  BY <1>c, <1>1, <1>4, <1>6, <1>7

\* A step of the collector keeps the types and the phases.
LEMMA CollectorStep ==
    ASSUME TypeOK, PhaseInv,
           \/ \E again, flash \in BOOLEAN : Invoke(again, flash)
           \/ CollectStep
           \/ Interrupt
    PROVE  TypeOK' /\ PhaseInv'
<1>. USE DEF captureVars, boardVars, hostVars, collectVars
<1>c. /\ Runs \in Nat \ {0} /\ DumpBytes \in Nat \ {0} /\ MaxLead \in Nat /\ MaxFaults \in Nat
      /\ TargetBytes \in Nat \ {0} /\ NoFile \notin Seq(Tokens)
  BY CaptureAssumption
<1>f. Fault \/ faults' = faults => faults' \in 0..MaxFaults
  BY <1>c DEF Fault, TypeOK
<1>e. <<>> \in Seq(Entries) /\ <<>> \in Seq(Tokens) /\ Len(<<>>) = 0
  OBVIOUS
<1>1. ASSUME NEW again \in BOOLEAN, NEW flash \in BOOLEAN, Invoke(again, flash)
      PROVE  TypeOK' /\ PhaseInv'
  <2>1. /\ coll' = "loop" /\ index' = 1 /\ runs' = <<>> /\ host' = "none" /\ resume' = again
        /\ Restart(FALSE) \/ UNCHANGED boardVars
        /\ Fault \/ faults' = faults
        /\ UNCHANGED <<line, disk, slot, triggered, since, concat, manifest, failures>>
    BY <1>1 DEF Invoke
  <2>2. boot' \in Nat \ {0} /\ since' \in 0..boot'
    BY <2>1 DEF Restart, TypeOK
  <2>3. sent' \in 0..DumpBytes /\ lead' \in 0..MaxLead /\ at' \in {"boot", "armed", "dump", "over"}
    BY <2>1, <1>c DEF Restart, TypeOK
  <2>4. rx' \in BOOLEAN /\ resume' \in BOOLEAN
    BY <2>1 DEF Restart, TypeOK
  <2>5. faults' \in 0..MaxFaults
    BY <1>f, <2>1
  <2>6. index' \in 1..(Runs + 1) /\ index' <= Runs /\ Len(runs') = index' - 1 /\ Len(runs') <= Runs
        /\ runs' \in Seq(Entries) /\ 1..(index' - 1) = {}
    BY <2>1, <1>c, <1>e
  <2>7. TypeOK'
    BY <2>1, <2>2, <2>3, <2>4, <2>5, <2>6 DEF TypeOK
  <2>8. PhaseInv'
    BY <2>1, <2>6 DEF PhaseInv
  <2>. QED
    BY <2>7, <2>8
<1>2. ASSUME coll = "loop", SizeOk(disk[index]), Record, host' = "none", UNCHANGED failures,
             UNCHANGED <<boardVars, line, disk, slot, triggered, since, faults, resume, concat,
                         manifest>>
      PROVE  TypeOK' /\ PhaseInv'
  <2>1. /\ coll' \in {"loop", "concat"} /\ index' \in 1..(Runs + 1)
        /\ runs' \in Seq(Entries) /\ Len(runs') <= Runs
        /\ coll' = "loop" => index' <= Runs
        /\ coll' = "concat" => index' = Runs + 1
        /\ Len(runs') = index' - 1
        /\ \A r \in 1..(index' - 1) : runs'[r] = [run |-> r, sha256 |-> disk'[r]] /\ SizeOk(disk'[r])
    BY <1>2, RecordStep
  <2>2. TypeOK'
    BY <1>2, <2>1 DEF TypeOK
  <2>3. PhaseInv'
    BY <1>2, <2>1 DEF PhaseInv
  <2>. QED
    BY <2>2, <2>3
<1>3. ASSUME coll' = "failed", failures' = failures + 1, host' = "none", Fault \/ faults' = faults,
             UNCHANGED <<boardVars, line, disk, slot, triggered, since, resume, index, runs, concat,
                         manifest>>
      PROVE  TypeOK' /\ PhaseInv'
  <2>0. failures' \in Nat /\ faults' \in 0..MaxFaults /\ host' # "collect" /\ host' # "exit0"
    BY <1>3, <1>f DEF TypeOK
  <2>1. TypeOK'
    BY <1>3, <2>0 DEF TypeOK
  <2>2. PhaseInv'
    BY <1>3 DEF PhaseInv
  <2>. QED
    BY <2>1, <2>2
<1>4. CASE Reuse
  <2>1. SizeOk(disk[index]) /\ Record /\ UNCHANGED failures
    BY <1>4 DEF Reuse, CanReuse
  <2>. QED
    BY <1>2, <1>4, <2>1 DEF Reuse
<1>5. CASE CaptureOne
  <2>1. /\ coll = "loop" /\ host = "none" /\ host' = "open" /\ slot' = index /\ line' = <<>>
        /\ UNCHANGED <<boardVars, disk, triggered, faults, since, collectVars>>
    BY <1>5 DEF CaptureOne, OpenPort
  <2>2. index \in 1..Runs
    BY <2>1, <1>c DEF PhaseInv, TypeOK
  <2>3. TypeOK'
    BY <2>1, <2>2, <1>e DEF TypeOK
  <2>4. PhaseInv'
    BY <2>1 DEF PhaseInv, SizeOk
  <2>. QED
    BY <2>3, <2>4
<1>6. CASE CaptureEnds
  <2>1. CASE SizeCheck
    <3>1. SizeOk(disk[index]) /\ Record /\ UNCHANGED failures
      BY <1>6, <2>1 DEF CaptureEnds, SizeCheck
    <3>. QED
      BY <1>2, <1>6, <3>1 DEF CaptureEnds
  <2>2. CASE ~SizeCheck
    BY <1>3, <1>6, <2>2 DEF CaptureEnds
  <2>. QED
    BY <2>1, <2>2
<1>7. CASE CaptureFails
  BY <1>3, <1>7 DEF CaptureFails
<1>8. CASE Concatenate
  <2>. DEFINE files == [r \in 1..Runs |-> disk[r]]
  <2>1. \A r \in 1..Runs : SizeOk(disk[r])
    BY <1>8, <1>c DEF Concatenate, PhaseInv
  <2>2. files \in [1..Runs -> Seq(Tokens)] /\ \A r \in 1..Runs : Len(files[r]) = TargetBytes
    BY <2>1 DEF SizeOk, TypeOK
  <2>. HIDE DEF files
  <2>3. FlattenSeq(files) \in Seq(Tokens)
    BY <2>2, <1>c, FlattenBlocks
  <2>4. concat' = FlattenSeq(files) /\ coll' = "manifest" /\ coll = "concat"
        /\ UNCHANGED <<captureVars, resume, index, runs, manifest, failures>>
    BY <1>8 DEF Concatenate, files
  <2>5. TypeOK'
    BY <2>3, <2>4 DEF TypeOK
  <2>6. PhaseInv'
    BY <2>4 DEF PhaseInv, SizeOk, files
  <2>. QED
    BY <2>5, <2>6
<1>9. CASE WriteManifest
  <2>1. TypeOK'
    BY <1>9 DEF WriteManifest, TypeOK
  <2>2. PhaseInv'
    BY <1>9 DEF WriteManifest, PhaseInv
  <2>. QED
    BY <2>1, <2>2
<1>10. CASE Interrupt
  BY <1>3, <1>10 DEF Interrupt
<1>. QED
  BY <1>1, <1>4, <1>5, <1>6, <1>7, <1>8, <1>9, <1>10 DEF CollectStep

\* Every step keeps them.
LEMMA SlicesTypeStep == TypeOK /\ PhaseInv /\ [SlicesNext]_sliceVars => TypeOK' /\ PhaseInv'
<1>. SUFFICES ASSUME TypeOK, PhaseInv, [SlicesNext]_sliceVars
              PROVE  TypeOK' /\ PhaseInv'
  OBVIOUS
<1>1. CASE (\E again, flash \in BOOLEAN : Invoke(again, flash)) \/ CollectStep \/ Interrupt
  BY <1>1, CollectorStep
<1>2. CASE BoardNext /\ UNCHANGED collectVars
  <2>1. UNCHANGED hostVars
    BY <1>2 DEF BoardNext, Arm, BootFails, StartDump, DumpByte, EndDump, DumpError, Crash, hostVars
  <2>. QED
    BY <1>2, <2>1, BoardTypes, CapturePhase
<1>3. CASE CaptureNext /\ UNCHANGED collectVars
  BY <1>3, CaptureTypes, CapturePhase
<1>4. CASE UNCHANGED sliceVars
  <2>. USE <1>4 DEF sliceVars, captureVars, boardVars, hostVars, collectVars
  <2>1. TypeOK'
    BY DEF TypeOK
  <2>2. PhaseInv'
    BY DEF PhaseInv, SizeOk
  <2>. QED
    BY <2>1, <2>2
<1>. QED
  BY <1>1, <1>2, <1>3, <1>4 DEF SlicesNext

\* The variables keep their types, and no file gets longer than --bytes
\* (capture_binary.py reads at most what is missing; collect_reboot_slices.py
\* starts one capture at a time).
THEOREM SlicesTypeCorrect == SlicesSpec => []TypeOK
<1>1. SlicesSpec => [](TypeOK /\ PhaseInv)
  BY SlicesTypeInit, SlicesTypeStep, PTL DEF SlicesSpec
<1>. QED
  BY <1>1, PTL

------------------------------------------------------------------------------
(* From which boot the bytes of a slice come.                              *)

\* All of these tokens were sent before boot b.
SentBefore(s, b) == \A j \in 1..Len(s) : s[j].boot < b

\* No file has anything of boot b or a later one.
FilesBefore(files, b) == \A r \in 1..Runs : files[r] # NoFile => SentBefore(files[r], b)

\* The same for the files of all runs but q.
OthersBefore(files, q, b) ==
    \A r \in (1..Runs) \ {q} : files[r] # NoFile => SentBefore(files[r], b)

\* What is on the line or on the disk was sent by a boot there has been.
BootsKnown ==
    /\ \A j \in 1..Len(line) : line[j].boot \in 1..boot
    /\ \A r \in 1..Runs : disk[r] # NoFile =>
          \A j \in 1..Len(disk[r]) : disk[r][j].boot \in 1..boot

\* A start marker a process has still to read, at place j: its trigger byte is
\* spent, the process will not send one before it has read it, no file is as
\* young as what follows it, and no byte of an earlier dump does.
MarkerInv(j) ==
    /\ ~rx
    /\ (host = "scan" /\ triggered) \/ \A k \in 1..j : line[k].kind # "armed"
    /\ \A k \in j..Len(line) :
          /\ FilesBefore(disk, line[k].boot)
          /\ IsRaw(line[k]) => host = "scan" /\ line[k].boot >= since

\* A trigger byte is spent when its dump is collected; one that an aborted
\* process leaves on the way can only start a dump younger than every file.
TriggersSpent ==
    /\ host \in {"collect", "exit0"} => ~rx
    /\ rx => FilesBefore(disk, boot)
    /\ host = "scan" /\ rx => triggered
    /\ host \in {"open", "scan"} =>
          \A j \in 1..Len(line) : line[j].kind = "start" => MarkerInv(j)

\* A token for the file of run q: a random byte is from boot b, that of its
\* process's reset, or a later one, and nothing in another file is as young.
Young(t, files, q, b) == (IsRaw(t) => t.boot >= b) /\ OthersBefore(files, q, t.boot)

\* The file being written is younger than all others.
FilesInOrder ==
    /\ host \in {"scan", "collect", "exit0"} => since > 0
    /\ host = "scan" => FilesBefore(disk, since)
    /\ host = "collect" => \A j \in 1..Len(line) : Young(line[j], disk, slot, since)
    /\ host \in {"collect", "exit0"} =>
          /\ OthersBefore(disk, slot, since)
          /\ \A j \in 1..Len(disk[slot]) : Young(disk[slot][j], disk, slot, since)

\* The inductive invariant of what a file's slices were drawn after.
AgeInv == BootsKnown /\ TriggersSpent /\ FilesInOrder

\* What the board may send in a step: tokens of this boot, a start marker only
\* when it has read the trigger byte, and to a process that has not yet reset it
\* none behind an armed marker, and no byte behind a start marker.
MaySend(e) ==
    /\ line' = line \o e
    /\ \A i \in 1..Len(e) : e[i].boot = boot
    /\ \A i \in 1..Len(e) : e[i].kind = "start" =>
          /\ rx /\ ~rx'
          /\ host = "open" => ~HasKind(line, "armed")
          /\ \A k \in 1..Len(e) : e[k].kind \notin {"armed", "raw"}
    /\ \A i \in 1..Len(e) : IsRaw(e[i]) => ~Sleeps("start")

\* Every step of the board sends what it may.
LEMMA BoardSends ==
    ASSUME TypeOK, BoardNext
    PROVE  /\ UNCHANGED hostVars
           /\ boot' \in {boot, boot + 1}
           /\ rx' => rx
           /\ \E e \in Seq(Tokens) : MaySend(e)
<1>1. UNCHANGED hostVars
  BY DEF BoardNext, Arm, BootFails, StartDump, DumpByte, EndDump, DumpError, Crash
<1>2. boot' \in {boot, boot + 1} /\ (rx' => rx)
  <2>1. CASE \E kept \in BOOLEAN : Crash(kept)
    BY <2>1 DEF Crash, Restart
  <2>0. CASE \E kept \in BOOLEAN : Arm(kept)
    <3>1. boot' = boot
      BY <2>0 DEF Arm
    <3>2. rx' => rx
      BY <2>0, Zenon DEF Arm
    <3>. QED
      BY <3>1, <3>2
  <2>2. CASE BootFails \/ DumpByte \/ EndDump \/ DumpError
    BY <2>2 DEF BootFails, DumpByte, EndDump, DumpError
  <2>3. CASE \E n \in 0..MaxLead : StartDump(n)
    BY <2>3 DEF StartDump
  <2>. QED
    BY <2>0, <2>1, <2>2, <2>3 DEF BoardNext
<1>3. \E e \in Seq(Tokens) : MaySend(e)
  <2>1. CASE UNCHANGED line
    <3>1. <<>> \in Seq(Tokens) /\ Len(<<>>) = 0
      OBVIOUS
    <3>2. line \o <<>> = line
      BY DEF TypeOK
    <3>3. MaySend(<<>>)
      BY <2>1, <3>1, <3>2 DEF MaySend
    <3>. QED
      BY <3>1, <3>3
  <2>2. CASE \E kept \in BOOLEAN : Arm(kept)
    <3>1. <<Text("armed")>> \in Seq(Tokens)
      BY TokenTypes
    <3>2. MaySend(<<Text("armed")>>)
      BY <2>2 DEF Arm, Emit, Text, MaySend, IsRaw
    <3>. QED
      BY <3>1, <3>2
  <2>3. CASE \E n \in 0..MaxLead : StartDump(n)
    <3>1. <<Text("start"), Text("eol")>> \in Seq(Tokens)
      BY TokenTypes
    <3>2. rx /\ ~rx' /\ (host = "open" => ~HasKind(line, "armed"))
      BY <2>3 DEF StartDump, Sleeps
    <3>3. MaySend(<<Text("start"), Text("eol")>>)
      BY <2>3, <3>2 DEF StartDump, Emit, Text, MaySend, IsRaw
    <3>. QED
      BY <3>1, <3>3
  <2>4. CASE DumpByte
    <3>1. sent + 1 \in Nat
      BY CaptureAssumption DEF TypeOK
    <3>2. <<RawByte(sent + 1)>> \in Seq(Tokens)
      BY <3>1, TokenTypes
    <3>3. MaySend(<<RawByte(sent + 1)>>)
      BY <2>4 DEF DumpByte, Emit, RawByte, MaySend, IsRaw
    <3>. QED
      BY <3>2, <3>3
  <2>5. CASE EndDump
    <3>1. <<Text("eol"), Text("end")>> \in Seq(Tokens)
      BY TokenTypes
    <3>2. MaySend(<<Text("eol"), Text("end")>>)
      BY <2>5 DEF EndDump, Emit, Text, MaySend, IsRaw
    <3>. QED
      BY <3>1, <3>2
  <2>6. CASE DumpError
    <3>1. <<Text("text"), Text("eol"), Text("end")>> \in Seq(Tokens)
      BY TokenTypes
    <3>2. MaySend(<<Text("text"), Text("eol"), Text("end")>>)
      BY <2>6 DEF DumpError, Emit, Text, MaySend, IsRaw
    <3>. QED
      BY <3>1, <3>2
  <2>7. CASE BootFails \/ \E kept \in BOOLEAN : Crash(kept)
    BY <2>1, <2>7 DEF BootFails, Crash
  <2>. QED
    BY <2>2, <2>3, <2>4, <2>5, <2>6, <2>7 DEF BoardNext
<1>. QED
  BY <1>1, <1>2, <1>3

\* The invariant holds at first.
LEMMA AgeInit == CollectInit => AgeInv
<1>. SUFFICES ASSUME CollectInit
              PROVE  AgeInv
  OBVIOUS
<1>1. line = <<>> /\ Len(<<>>) = 0 /\ host = "none" /\ rx = FALSE /\ disk = [r \in 1..Runs |-> NoFile]
  BY DEF CollectInit, CaptureInit
<1>2. \A b : FilesBefore(disk, b)
  BY <1>1 DEF FilesBefore
<1>. QED
  BY <1>1, <1>2 DEF AgeInv, BootsKnown, TriggersSpent, FilesInOrder

\* What is older than one boot is older than a later one.
LEMMA OlderStill ==
    ASSUME BootsKnown, boot \in Nat, NEW b \in Nat, NEW c \in Nat, b <= c
    PROVE  /\ FilesBefore(disk, b) => FilesBefore(disk, c)
           /\ OthersBefore(disk, slot, b) => OthersBefore(disk, slot, c)
<1>1. ASSUME NEW r \in 1..Runs, disk[r] # NoFile, SentBefore(disk[r], b)
      PROVE  SentBefore(disk[r], c)
  <2>1. \A j \in 1..Len(disk[r]) : disk[r][j].boot \in Nat /\ disk[r][j].boot < b
    BY <1>1 DEF BootsKnown, SentBefore
  <2>. QED
    BY <2>1 DEF SentBefore
<1>. QED
  BY <1>1 DEF FilesBefore, OthersBefore

\* The board keeps it.
LEMMA AgeBoard ==
    ASSUME TypeOK, PhaseInv, AgeInv, BoardNext, UNCHANGED collectVars
    PROVE  AgeInv'
<1>. USE DEF hostVars, collectVars
<1>1. UNCHANGED hostVars /\ boot' \in {boot, boot + 1} /\ (rx' => rx)
  BY BoardSends
<1>2. PICK e \in Seq(Tokens) : MaySend(e)
  BY BoardSends
<1>3. line \in Seq(Tokens) /\ boot \in Nat \ {0} /\ since \in 0..boot /\ boot' \in Nat /\ boot <= boot'
  BY <1>1 DEF TypeOK
<1>4. /\ Len(line) \in Nat /\ Len(e) \in Nat /\ Len(line') = Len(line) + Len(e)
      /\ \A j \in 1..Len(line) : line'[j] = line[j]
      /\ \A j \in (Len(line) + 1)..(Len(line) + Len(e)) : line'[j] = e[j - Len(line)]
  BY <1>2, <1>3, Written DEF MaySend
<1>5. ASSUME NEW j \in 1..Len(line'), j \notin 1..Len(line)
      PROVE  /\ line'[j].boot = boot
             /\ IsRaw(line'[j]) => ~Sleeps("start")
             /\ line'[j].kind = "start" =>
                   /\ rx /\ ~rx'
                   /\ host = "open" => ~HasKind(line, "armed")
                   /\ \A k \in 1..Len(line') : k \notin 1..Len(line) =>
                         line'[k].kind \notin {"armed", "raw"}
  <2>1. \A k \in 1..Len(line') : k \notin 1..Len(line) => \E i \in 1..Len(e) : line'[k] = e[i]
    <3>. TAKE k \in 1..Len(line')
    <3>1. ASSUME k \notin 1..Len(line)
          PROVE  k - Len(line) \in 1..Len(e) /\ line'[k] = e[k - Len(line)]
      BY <1>4, <3>1
    <3>. QED
      BY <3>1
  <2>2. PICK i \in 1..Len(e) : line'[j] = e[i]
    BY <1>5, <2>1
  <2>3. /\ e[i].boot = boot
        /\ IsRaw(e[i]) => ~Sleeps("start")
        /\ e[i].kind = "start" =>
              /\ rx /\ ~rx'
              /\ host = "open" => ~HasKind(line, "armed")
              /\ \A k \in 1..Len(e) : e[k].kind \notin {"armed", "raw"}
    BY <1>2 DEF MaySend
  <2>. QED
    BY <2>1, <2>2, <2>3
<1>6. BootsKnown'
  <2>1. \A b \in 1..boot : b \in 1..boot'
    BY <1>1, <1>3
  <2>2. \A j \in 1..Len(line') : line'[j].boot \in 1..boot'
    BY <1>1, <1>3, <1>4, <1>5, <2>1 DEF AgeInv, BootsKnown
  <2>. QED
    BY <1>1, <2>1, <2>2 DEF AgeInv, BootsKnown
<1>7. TriggersSpent'
  <2>1. host \in {"collect", "exit0"} => ~rx'
    BY <1>1 DEF AgeInv, TriggersSpent
  <2>2. rx' => FilesBefore(disk, boot')
    BY <1>1, <1>3, OlderStill DEF AgeInv, TriggersSpent
  <2>3. host = "scan" /\ rx' => triggered
    BY <1>1 DEF AgeInv, TriggersSpent
  <2>4. ASSUME host \in {"open", "scan"}, NEW j \in 1..Len(line'), line'[j].kind = "start"
        PROVE  /\ ~rx'
               /\ (host = "scan" /\ triggered) \/ \A k \in 1..j : line'[k].kind # "armed"
               /\ \A k \in j..Len(line') :
                     /\ FilesBefore(disk, line'[k].boot)
                     /\ IsRaw(line'[k]) => host = "scan" /\ line'[k].boot >= since
    <3>1. CASE j \in 1..Len(line)
      <4>1. line[j].kind = "start" /\ line'[j] = line[j] /\ HasKind(line, "start")
        BY <1>4, <2>4, <3>1 DEF HasKind
      <4>2. MarkerInv(j)
        BY <2>4, <3>1, <4>1 DEF AgeInv, TriggersSpent
      <4>3. \A k \in 1..j : k \in 1..Len(line) /\ line'[k] = line[k]
        BY <1>4, <3>1
      <4>4. (host = "scan" /\ triggered) \/ \A k \in 1..j : line'[k].kind # "armed"
        BY <4>2, <4>3 DEF MarkerInv
      <4>5. FilesBefore(disk, boot)
        <5>1. FilesBefore(disk, line[j].boot)
          <6>1. j \in j..Len(line)
            BY <1>4, <3>1
          <6>. QED
            BY <4>2, <6>1 DEF MarkerInv
        <5>2. line[j].boot \in Nat /\ line[j].boot <= boot
          BY <1>3, <3>1 DEF AgeInv, BootsKnown
        <5>. QED
          BY <1>3, <5>1, <5>2, OlderStill DEF AgeInv
      <4>6. ASSUME NEW k \in j..Len(line')
            PROVE  /\ FilesBefore(disk, line'[k].boot)
                   /\ IsRaw(line'[k]) => host = "scan" /\ line'[k].boot >= since
        <5>0. k \in 1..Len(line')
          BY <1>4, <3>1
        <5>1. CASE k \in 1..Len(line)
          <6>1. line'[k] = line[k] /\ k \in j..Len(line)
            BY <1>4, <5>1
          <6>. QED
            BY <4>2, <6>1 DEF MarkerInv
        <5>2. CASE k \notin 1..Len(line)
          <6>1. line'[k].boot = boot /\ (IsRaw(line'[k]) => ~Sleeps("start"))
            BY <1>5, <5>0, <5>2
          <6>2. IsRaw(line'[k]) => host = "scan"
            BY <2>4, <4>1, <6>1 DEF Sleeps
          <6>. QED
            BY <1>3, <4>5, <6>1, <6>2
        <5>. QED
          BY <5>1, <5>2
      <4>. QED
        BY <1>1, <4>2, <4>4, <4>6 DEF MarkerInv
    <3>2. CASE j \notin 1..Len(line)
      <4>1. /\ rx /\ ~rx'
            /\ host = "open" => ~HasKind(line, "armed")
            /\ \A k \in 1..Len(line') : k \notin 1..Len(line) => line'[k].kind \notin {"armed", "raw"}
        BY <1>5, <2>4, <3>2
      <4>2. (host = "scan" /\ triggered) \/ \A k \in 1..j : line'[k].kind # "armed"
        <5>1. host = "scan" => triggered
          BY <4>1 DEF AgeInv, TriggersSpent
        <5>2. ASSUME host = "open", NEW k \in 1..j
              PROVE  line'[k].kind # "armed"
          <6>1. k \in 1..Len(line')
            BY <1>4
          <6>2. k \in 1..Len(line) => line'[k].kind # "armed"
            BY <1>4, <4>1, <5>2 DEF HasKind
          <6>. QED
            BY <4>1, <6>1, <6>2
        <5>. QED
          BY <2>4, <5>1, <5>2
      <4>3. ASSUME NEW k \in j..Len(line')
            PROVE  FilesBefore(disk, line'[k].boot) /\ ~IsRaw(line'[k])
        <5>1. k \in 1..Len(line') /\ k \notin 1..Len(line)
          BY <1>4, <3>2
        <5>2. line'[k].boot = boot /\ ~IsRaw(line'[k])
          BY <1>5, <4>1, <5>1 DEF IsRaw
        <5>. QED
          BY <4>1, <5>2 DEF AgeInv, TriggersSpent
      <4>. QED
        BY <4>1, <4>2, <4>3
    <3>. QED
      BY <3>1, <3>2
  <2>5. \A j \in 1..Len(line') : host \in {"open", "scan"} /\ line'[j].kind = "start" => MarkerInv(j)'
    BY <1>1, <2>4 DEF MarkerInv
  <2>. QED
    BY <1>1, <2>1, <2>2, <2>3, <2>5 DEF TriggersSpent
<1>8. FilesInOrder'
  <2>1. ASSUME host = "collect", NEW j \in 1..Len(line')
        PROVE  Young(line'[j], disk, slot, since)
    <3>1. CASE j \in 1..Len(line)
      BY <1>4, <2>1, <3>1 DEF AgeInv, FilesInOrder
    <3>2. CASE j \notin 1..Len(line)
      <4>1. line'[j].boot = boot
        BY <1>5, <3>2
      <4>2. OthersBefore(disk, slot, boot)
        BY <1>3, <2>1, OlderStill DEF AgeInv, FilesInOrder
      <4>. QED
        BY <1>3, <4>1, <4>2 DEF Young
    <3>. QED
      BY <3>1, <3>2
  <2>. QED
    BY <1>1, <2>1 DEF AgeInv, FilesInOrder
<1>. QED
  BY <1>6, <1>7, <1>8 DEF AgeInv

\* The capture process keeps it.
LEMMA AgeCapture ==
    ASSUME TypeOK, PhaseInv, AgeInv, CaptureNext, UNCHANGED collectVars
    PROVE  AgeInv'
<1>. USE DEF boardVars, collectVars
<1>t. /\ line \in Seq(Tokens) /\ boot \in Nat \ {0} /\ since \in 0..boot /\ slot \in 1..Runs
      /\ \A r \in 1..Runs : disk[r] # NoFile => disk[r] \in Seq(Tokens)
      /\ DOMAIN disk = 1..Runs
  BY DEF TypeOK
<1>1. CASE PulseEn
  <2>1. /\ host = "open" /\ host' = "scan" /\ rx' = FALSE /\ boot' = boot + 1 /\ since' = boot'
        /\ UNCHANGED <<line, disk, slot>>
    BY <1>1 DEF PulseEn, Restart
  <2>2. \A b \in 1..boot : b \in 1..boot' /\ b < boot'
    BY <1>t, <2>1
  <2>3. BootsKnown'
    BY <2>1, <2>2 DEF AgeInv, BootsKnown
  <2>4. ASSUME NEW j \in 1..Len(line), line[j].kind = "start"
        PROVE  MarkerInv(j)'
    <3>1. MarkerInv(j)
      BY <2>1, <2>4 DEF AgeInv, TriggersSpent
    <3>2. \A k \in 1..j : line[k].kind # "armed"
      BY <2>1, <3>1 DEF MarkerInv
    <3>3. \A k \in j..Len(line) : FilesBefore(disk, line[k].boot) /\ ~IsRaw(line[k])
      BY <2>1, <3>1 DEF MarkerInv
    <3>. QED
      BY <2>1, <3>2, <3>3 DEF MarkerInv
  <2>5. TriggersSpent'
    BY <2>1, <2>4 DEF TriggersSpent
  <2>6. FilesBefore(disk, since')
    BY <2>1, <2>2 DEF AgeInv, BootsKnown, FilesBefore, SentBefore
  <2>7. since' > 0
    BY <1>t, <2>1
  <2>8. FilesInOrder'
    BY <2>1, <2>6, <2>7 DEF FilesInOrder
  <2>. QED
    BY <2>3, <2>5, <2>8 DEF AgeInv
<1>2. ASSUME NEW n \in 1..Len(line), ScanFindsStart(n)
      PROVE  AgeInv'
  <2>. DEFINE file == Take(SkipNewlines(SubSeq(SubSeq(line, 1, n),
                             FirstStart(SubSeq(line, 1, n)) + 1, n)), TargetBytes)
  <2>1. /\ host = "scan" /\ Read(n) /\ HasKind(SubSeq(line, 1, n), "start") /\ host' = "collect"
        /\ disk' = [disk EXCEPT ![slot] = file]
        /\ UNCHANGED <<boardVars, slot, triggered, faults, since>>
    BY <1>2 DEF ScanFindsStart
  <2>. HIDE DEF file
  <2>2. PICK j \in 1..n : \E m \in 0..(n - j) :
           /\ line[j].kind = "start" /\ file \in Seq(Tokens)
           /\ \A i \in 1..Len(file) : j + m + i \in 1..Len(line) /\ file[i] = line[j + m + i]
    BY <2>1, FileBegins DEF file
  <2>3. PICK m \in 0..(n - j) :
           /\ line[j].kind = "start" /\ file \in Seq(Tokens)
           /\ \A i \in 1..Len(file) : j + m + i \in 1..Len(line) /\ file[i] = line[j + m + i]
    BY <2>2
  <2>4. /\ Len(line) \in Nat /\ Len(line') = Len(line) - n
        /\ \A k \in 1..Len(line') : n + k \in 1..Len(line) /\ line'[k] = line[n + k]
    BY <1>t, <2>1, WasRead
  <2>5. j \in 1..Len(line) /\ MarkerInv(j)
    BY <2>1, <2>3, <2>4 DEF AgeInv, TriggersSpent
  <2>6. disk'[slot] = file /\ \A r \in (1..Runs) \ {slot} : disk'[r] = disk[r]
    BY <1>t, <2>1
  <2>7. \A b : FilesBefore(disk, b) => OthersBefore(disk', slot, b)
    BY <2>6 DEF FilesBefore, OthersBefore
  <2>8. \A k \in j..Len(line) : line[k].boot \in 1..boot /\ Young(line[k], disk', slot, since)
    <3>. TAKE k \in j..Len(line)
    <3>1. FilesBefore(disk, line[k].boot) /\ (IsRaw(line[k]) => line[k].boot >= since)
      BY <2>5 DEF MarkerInv
    <3>2. k \in 1..Len(line)
      BY <2>4, <2>5
    <3>. QED
      BY <2>7, <3>1, <3>2 DEF AgeInv, BootsKnown, Young
  <2>9. \A i \in 1..Len(file) : file[i].boot \in 1..boot /\ Young(file[i], disk', slot, since)
    <3>1. \A i \in 1..Len(file) : j + m + i \in j..Len(line)
      BY <2>3, <2>4
    <3>. QED
      BY <2>3, <2>8, <3>1
  <2>10. \A k \in 1..Len(line') : line'[k].boot \in 1..boot /\ Young(line'[k], disk', slot, since)
    <3>1. \A k \in 1..Len(line') : n + k \in j..Len(line)
      BY <2>3, <2>4
    <3>. QED
      BY <2>4, <2>8, <3>1
  <2>11. BootsKnown'
    <3>1. \A r \in 1..Runs : disk'[r] # NoFile =>
             \A k \in 1..Len(disk'[r]) : disk'[r][k].boot \in 1..boot
      BY <2>6, <2>9 DEF AgeInv, BootsKnown
    <3>. QED
      BY <2>1, <2>10, <3>1 DEF BootsKnown
  <2>12. TriggersSpent'
    BY <2>1, <2>5 DEF MarkerInv, TriggersSpent
  <2>13. since > 0 /\ OthersBefore(disk', slot, since)
    BY <2>1, <2>7 DEF AgeInv, FilesInOrder
  <2>14. FilesInOrder'
    BY <2>1, <2>6, <2>9, <2>10, <2>13 DEF FilesInOrder
  <2>. QED
    BY <2>11, <2>12, <2>14 DEF AgeInv
<1>3. ASSUME NEW n \in 1..Len(line), NEW lost \in BOOLEAN, ScanReadsOn(n, lost)
      PROVE  AgeInv'
  <2>. DEFINE data == SubSeq(line, 1, n)
  <2>1. /\ host = "scan" /\ Read(n) /\ ~HasKind(data, "start")
        /\ triggered' <=> (triggered \/ (HasKind(data, "armed") /\ ~triggered))
        /\ rx' <=> (rx \/ ((HasKind(data, "armed") /\ ~triggered) /\ ~lost))
        /\ UNCHANGED <<boot, at, sent, lead, disk, slot, host, since>>
    BY <1>3 DEF ScanReadsOn
  <2>2. /\ Len(line) \in Nat /\ Len(line') = Len(line) - n
        /\ \A k \in 1..Len(line') : n + k \in 1..Len(line) /\ line'[k] = line[n + k]
        /\ Len(data) = n /\ \A k \in 1..n : k \in 1..Len(line) /\ data[k] = line[k]
    BY <1>t, <2>1, WasRead
  <2>. HIDE DEF data
  <2>3. BootsKnown'
    BY <2>1, <2>2 DEF AgeInv, BootsKnown
  <2>4. ASSUME NEW j \in 1..Len(line'), line'[j].kind = "start"
        PROVE  MarkerInv(j)'
    <3>1. n + j \in 1..Len(line) /\ line[n + j].kind = "start"
      BY <2>2, <2>4
    <3>2. MarkerInv(n + j)
      BY <2>1, <3>1 DEF AgeInv, TriggersSpent
    <3>3. triggered \/ \A k \in 1..(n + j) : line[k].kind # "armed"
      BY <3>2 DEF MarkerInv
    <3>4. triggered \/ ~HasKind(data, "armed")
      <4>1. \A k \in 1..n : k \in 1..(n + j)
        BY <2>2
      <4>. QED
        BY <2>2, <3>3, <4>1 DEF HasKind
    <3>5. ~rx' /\ (triggered' <=> triggered)
      BY <2>1, <3>2, <3>4 DEF MarkerInv
    <3>6. triggered' \/ \A k \in 1..j : line'[k].kind # "armed"
      <4>1. \A k \in 1..j : n + k \in 1..(n + j) /\ line'[k] = line[n + k]
        BY <2>2
      <4>. QED
        BY <3>3, <3>5, <4>1
    <3>7. \A k \in j..Len(line') : n + k \in (n + j)..Len(line) /\ line'[k] = line[n + k]
      BY <2>2
    <3>8. \A k \in j..Len(line') :
             /\ FilesBefore(disk, line'[k].boot)
             /\ IsRaw(line'[k]) => line'[k].boot >= since
      BY <3>2, <3>7 DEF MarkerInv
    <3>. QED
      BY <2>1, <3>5, <3>6, <3>8 DEF MarkerInv
  <2>5. rx' => triggered'
    BY <2>1 DEF AgeInv, TriggersSpent
  <2>6. rx' => FilesBefore(disk, boot)
    <3>1. FilesBefore(disk, since)
      BY <2>1 DEF AgeInv, FilesInOrder
    <3>. QED
      BY <1>t, <3>1, OlderStill DEF AgeInv
  <2>7. TriggersSpent'
    BY <2>1, <2>4, <2>5, <2>6 DEF TriggersSpent
  <2>8. FilesInOrder'
    BY <2>1 DEF AgeInv, FilesInOrder
  <2>. QED
    BY <2>3, <2>7, <2>8 DEF AgeInv
<1>4. ASSUME NEW n \in 1..Len(line), CollectRead(n)
      PROVE  AgeInv'
  <2>. DEFINE data == SubSeq(line, 1, n)
              file == disk[slot] \o data
  <2>1. /\ host = "collect" /\ Read(n) /\ disk' = [disk EXCEPT ![slot] = file]
        /\ UNCHANGED <<boardVars, slot, host, triggered, faults, since>>
    BY <1>4 DEF CollectRead
  <2>2. /\ Len(line) \in Nat /\ Len(line') = Len(line) - n
        /\ \A k \in 1..Len(line') : n + k \in 1..Len(line) /\ line'[k] = line[n + k]
        /\ data \in Seq(Tokens) /\ Len(data) = n
        /\ \A k \in 1..n : k \in 1..Len(line) /\ data[k] = line[k]
    BY <1>t, <2>1, WasRead
  <2>3. disk[slot] # NoFile /\ disk[slot] \in Seq(Tokens)
    BY <1>t, <2>1 DEF TypeOK
  <2>. HIDE DEF data
  <2>4. /\ Len(disk[slot]) \in Nat /\ Len(file) = Len(disk[slot]) + n
        /\ \A k \in 1..Len(disk[slot]) : file[k] = disk[slot][k]
        /\ \A k \in (Len(disk[slot]) + 1)..(Len(disk[slot]) + n) : file[k] = data[k - Len(disk[slot])]
    BY <2>2, <2>3, Written
  <2>. HIDE DEF file
  <2>5. disk'[slot] = file /\ \A r \in (1..Runs) \ {slot} : disk'[r] = disk[r]
    BY <1>t, <2>1
  <2>6. \A b : OthersBefore(disk, slot, b) => OthersBefore(disk', slot, b)
    BY <2>5 DEF OthersBefore
  <2>7. \A t : Young(t, disk, slot, since) => Young(t, disk', slot, since)
    BY <2>6 DEF Young
  <2>8. \A k \in 1..Len(line) : line[k].boot \in 1..boot /\ Young(line[k], disk', slot, since)
    BY <2>1, <2>7 DEF AgeInv, BootsKnown, FilesInOrder
  <2>9. \A k \in 1..Len(file) : file[k].boot \in 1..boot /\ Young(file[k], disk', slot, since)
    <3>. TAKE k \in 1..Len(file)
    <3>1. CASE k \in 1..Len(disk[slot])
      <4>1. file[k] = disk[slot][k]
        BY <2>4, <3>1
      <4>2. disk[slot][k].boot \in 1..boot
        BY <1>t, <2>3, <3>1 DEF AgeInv, BootsKnown
      <4>3. Young(disk[slot][k], disk', slot, since)
        BY <2>1, <2>7, <3>1 DEF AgeInv, FilesInOrder
      <4>. QED
        BY <4>1, <4>2, <4>3
    <3>2. CASE k \notin 1..Len(disk[slot])
      <4>1. k - Len(disk[slot]) \in 1..n /\ file[k] = data[k - Len(disk[slot])]
        BY <2>4, <3>2
      <4>2. k - Len(disk[slot]) \in 1..Len(line) /\ file[k] = line[k - Len(disk[slot])]
        BY <2>2, <4>1
      <4>. QED
        BY <2>8, <4>2
    <3>. QED
      BY <3>1, <3>2
  <2>10. BootsKnown'
    <3>1. \A r \in 1..Runs : disk'[r] # NoFile =>
             \A k \in 1..Len(disk'[r]) : disk'[r][k].boot \in 1..boot
      BY <2>5, <2>9 DEF AgeInv, BootsKnown
    <3>. QED
      BY <2>1, <2>2, <3>1 DEF AgeInv, BootsKnown
  <2>11. TriggersSpent'
    BY <2>1 DEF AgeInv, TriggersSpent
  <2>12. since > 0 /\ OthersBefore(disk', slot, since)
    BY <2>1, <2>6 DEF AgeInv, FilesInOrder
  <2>13. \A k \in 1..Len(line') : Young(line'[k], disk', slot, since)
    BY <2>2, <2>8
  <2>14. FilesInOrder'
    BY <2>1, <2>5, <2>9, <2>12, <2>13 DEF FilesInOrder
  <2>. QED
    BY <2>10, <2>11, <2>14 DEF AgeInv
<1>5. ASSUME host \in {"open", "scan", "collect"}, host' \in {"exit0", "exit1"},
             host' = "exit0" => host = "collect",
             line' = line \/ line' = <<>>, UNCHANGED <<boardVars, disk, slot, triggered, since>>
      PROVE  AgeInv'
  <2>1. \A j \in 1..Len(line') : line' = line
    <3>1. Len(<<>>) = 0
      OBVIOUS
    <3>. QED
      BY <1>5, <3>1
  <2>2. BootsKnown'
    BY <1>5, <2>1 DEF AgeInv, BootsKnown
  <2>3. TriggersSpent'
    BY <1>5 DEF AgeInv, TriggersSpent
  <2>4. FilesInOrder'
    BY <1>5 DEF AgeInv, FilesInOrder
  <2>. QED
    BY <2>2, <2>3, <2>4 DEF AgeInv
<1>6. CASE ScanTimeout \/ CollectTimeout \/ CollectDone \/ SerialFails
  BY <1>5, <1>6 DEF ScanTimeout, CollectTimeout, CollectDone, SerialFails
<1>. QED
  BY <1>1, <1>2, <1>3, <1>4, <1>6 DEF CaptureNext

\* The collector keeps it.
LEMMA AgeCollector ==
    ASSUME TypeOK, PhaseInv, AgeInv,
           \/ \E again, flash \in BOOLEAN : Invoke(again, flash)
           \/ CollectStep
           \/ Interrupt
    PROVE  AgeInv'
<1>. USE DEF captureVars, boardVars, hostVars, collectVars
<1>1. CASE \E again, flash \in BOOLEAN : Invoke(again, flash)
  <2>1. /\ host' = "none" /\ (rx' => rx) /\ boot' \in {boot, boot + 1}
        /\ UNCHANGED <<line, disk, slot, triggered, since>>
    BY <1>1 DEF Invoke, Restart
  <2>2. boot \in Nat /\ boot' \in Nat /\ boot <= boot' /\ \A b \in 1..boot : b \in 1..boot'
    BY <2>1 DEF TypeOK
  <2>3. rx' => FilesBefore(disk, boot')
    BY <2>1, <2>2, OlderStill DEF AgeInv, TriggersSpent
  <2>4. BootsKnown'
    BY <2>1, <2>2 DEF AgeInv, BootsKnown
  <2>. QED
    BY <2>1, <2>3, <2>4 DEF AgeInv, TriggersSpent, FilesInOrder
<1>2. CASE CaptureOne
  <2>1. /\ coll = "loop" /\ host = "none" /\ host' = "open" /\ line' = <<>> /\ Len(<<>>) = 0
        /\ UNCHANGED <<boardVars, disk, collectVars>>
    BY <1>2 DEF CaptureOne, OpenPort
  <2>. QED
    BY <2>1 DEF AgeInv, BootsKnown, TriggersSpent, FilesInOrder
<1>3. CASE Reuse \/ CaptureEnds
  <2>1. /\ coll = "loop" /\ host \in {"none", "exit0"} /\ host' = "none"
        /\ UNCHANGED <<boardVars, line, disk>>
    BY <1>3 DEF Reuse, CaptureEnds
  <2>. QED
    BY <2>1 DEF AgeInv, BootsKnown, TriggersSpent, FilesInOrder
<1>4. CASE CaptureFails \/ Interrupt
  <2>1. coll' = "failed" /\ host' = "none" /\ UNCHANGED <<boardVars, line, disk>>
    BY <1>4 DEF CaptureFails, Interrupt
  <2>. QED
    BY <2>1 DEF AgeInv, BootsKnown, TriggersSpent, FilesInOrder
<1>5. CASE Concatenate \/ WriteManifest
  <2>1. coll' \in {"manifest", "done"} /\ host = "none" /\ UNCHANGED captureVars
    BY <1>5 DEF Concatenate, WriteManifest, PhaseInv
  <2>. QED
    BY <2>1 DEF AgeInv, BootsKnown, TriggersSpent, FilesInOrder
<1>. QED
  BY <1>1, <1>2, <1>3, <1>4, <1>5 DEF CollectStep

\* All that is known of the collection, with or without faults.
SlicesInv == TypeOK /\ PhaseInv /\ AgeInv

\* Every step keeps it.
LEMMA SlicesStep == SlicesInv /\ [SlicesNext]_sliceVars => SlicesInv'
<1>. SUFFICES ASSUME SlicesInv, [SlicesNext]_sliceVars
              PROVE  AgeInv'
  BY SlicesTypeStep DEF SlicesInv
<1>. USE DEF SlicesInv
<1>1. CASE (\E again, flash \in BOOLEAN : Invoke(again, flash)) \/ CollectStep \/ Interrupt
  BY <1>1, AgeCollector
<1>2. CASE BoardNext /\ UNCHANGED collectVars
  BY <1>2, AgeBoard
<1>3. CASE CaptureNext /\ UNCHANGED collectVars
  BY <1>3, AgeCapture
<1>4. CASE UNCHANGED sliceVars
  BY <1>4 DEF sliceVars, captureVars, boardVars, hostVars, collectVars, AgeInv, BootsKnown,
              TriggersSpent, MarkerInv, FilesInOrder
<1>. QED
  BY <1>1, <1>2, <1>3, <1>4 DEF SlicesNext

\* The invariant holds always.
LEMMA SlicesInvariant == SlicesSpec => []SlicesInv
<1>1. CollectInit => SlicesInv
  BY SlicesTypeInit, AgeInit DEF SlicesInv
<1>. QED
  BY <1>1, SlicesStep, PTL DEF SlicesSpec

\* The random bytes of a slice were drawn after its own process reset the board:
\* what an earlier boot had sent was thrown away by reset_input_buffer, and of a
\* dump that it begins between that and the EN pulse no byte is sent in time.
THEOREM SlicesAreFresh == SlicesSpec => []FileIsAfterItsReset
<1>1. SlicesInv => FileIsAfterItsReset
  BY DEF SlicesInv, AgeInv, FilesInOrder, Young, FileIsAfterItsReset
<1>. QED
  BY <1>1, SlicesInvariant, PTL

------------------------------------------------------------------------------
(* What one fault can spoil.                                               *)

\* How many tokens this boot has sent since its start marker.
Emitted == IF at = "over" THEN DumpBytes + 3 ELSE 1 + sent

\* Nothing has gone wrong since this process has reset the board: the dump it is
\* waiting for will come, or is on the line, whole.
DumpComes ==
    /\ boot = since
    /\ at # "dump" => sent = 0
    /\ at \in {"boot", "armed"} => ~HasKind(line, "start")
    /\ at = "boot" => ~triggered /\ ~HasKind(line, "armed")
    /\ at = "armed" => rx \/ (~triggered /\ HasKind(line, "armed"))
    /\ at \in {"dump", "over"} => HasKind(line, "start")
    /\ \A j \in 1..Len(line) : line[j].kind = "start" =>
          /\ Len(line) - j = Emitted
          /\ j + MaxLead + 2 <= Len(line) => ~line[j + MaxLead + 2].nl

\* The rest of the dump will be enough for the file.
RestSuffices ==
    /\ at \in {"dump", "over"}
    /\ at # "dump" => sent = 0
    /\ Len(disk[slot]) < TargetBytes =>
          Len(disk[slot]) + Len(line) + 1 + MaxLead >= Emitted

\* Every failure has a fault of its own, and a collection in which none has
\* happened that an earlier one did not pay for is on its way to success.
CleanInv ==
    /\ failures <= faults
    /\ faults = failures /\ coll = "loop" =>
          /\ host = "open" => ~HasKind(line, "armed") /\ ~HasKind(line, "start")
          /\ host = "scan" => DumpComes
          /\ host = "collect" => RestSuffices
          /\ host = "exit0" => SizeOk(disk[slot])
          /\ host # "exit1"

\* A dump is long enough for a file behind the newlines it may begin with (the
\* two tokens of the end marker are read into the file as well).
LEMMA LongDump == MaxLead < DumpBytes /\ MaxLead + TargetBytes <= DumpBytes + 2
BY CaptureAssumption, SlicesAssumption

\* A fault pays for the failure it causes.
LEMMA FaultPays ==
    ASSUME TypeOK, CleanInv, Fault,
           \/ failures' = failures
           \/ failures' = failures + 1 /\ coll' = "failed"
    PROVE  CleanInv'
<1>1. faults \in Nat /\ failures \in Nat /\ failures <= faults /\ faults' = faults + 1
  BY CaptureAssumption DEF TypeOK, CleanInv, Fault
<1>2. failures' <= faults' /\ (faults' = failures' => coll' # "loop")
  BY <1>1
<1>. QED
  BY <1>2 DEF CleanInv

\* What the board sends without a fault is what the process waits for.
LEMMA BoardDelivers ==
    ASSUME TypeOK, DumpComes,
           (\E kept \in BOOLEAN : Arm(kept)) \/ (\E n \in 0..MaxLead : StartDump(n)) \/ DumpByte \/ EndDump
    PROVE  DumpComes'
<1>. USE DEF hostVars
<1>c. /\ DumpBytes \in Nat \ {0} /\ MaxLead \in Nat /\ MaxLead < DumpBytes
      /\ line \in Seq(Tokens) /\ Len(line) \in Nat /\ sent \in Nat /\ lead \in Nat /\ lead <= MaxLead
      /\ sent <= DumpBytes
  BY CaptureAssumption, LongDump DEF TypeOK
<1>d. /\ boot = since
      /\ at # "dump" => sent = 0
      /\ at \in {"boot", "armed"} => ~HasKind(line, "start")
      /\ at \in {"dump", "over"} => HasKind(line, "start")
      /\ \A j \in 1..Len(line) : line[j].kind = "start" =>
            /\ Len(line) - j = Emitted
            /\ j + MaxLead + 2 <= Len(line) => ~line[j + MaxLead + 2].nl
  BY DEF DumpComes
<1>1. CASE \E kept \in BOOLEAN : Arm(kept)
  <2>1. /\ at = "boot" /\ at' = "armed" /\ line' = line \o <<Text("armed")>>
        /\ UNCHANGED <<boot, sent, lead, triggered, since>>
    BY <1>1 DEF Arm, Emit
  <2>2. Text("armed") \in Tokens
    BY TokenTypes
  <2>3. /\ Len(line') = Len(line) + 1 /\ \A j \in 1..Len(line) : line'[j] = line[j]
        /\ line'[Len(line) + 1].kind = "armed"
    BY <1>c, <2>1, <2>2, WroteOne DEF Text
  <2>4. \A j \in 1..Len(line') : line'[j].kind # "start"
    BY <1>c, <1>d, <2>1, <2>3 DEF HasKind
  <2>5. HasKind(line', "armed")
    <3>1. Len(line) + 1 \in 1..Len(line')
      BY <1>c, <2>3
    <3>. QED
      BY <2>3, <3>1 DEF HasKind
  <2>6. rx' \/ (~triggered' /\ HasKind(line', "armed"))
    BY <2>1, <2>5 DEF DumpComes
  <2>. QED
    BY <1>d, <2>1, <2>4, <2>6 DEF DumpComes, HasKind
<1>2. CASE \E n \in 0..MaxLead : StartDump(n)
  <2>1. /\ at = "armed" /\ at' = "dump" /\ line' = line \o <<Text("start"), Text("eol")>>
        /\ UNCHANGED <<boot, sent, triggered, since>>
    BY <1>2 DEF StartDump, Emit
  <2>2. Text("start") \in Tokens /\ Text("eol") \in Tokens
    BY TokenTypes
  <2>3. /\ Len(line') = Len(line) + 2 /\ \A j \in 1..Len(line) : line'[j] = line[j]
        /\ line'[Len(line) + 1].kind = "start" /\ line'[Len(line) + 2].kind = "eol"
    BY <1>c, <2>1, <2>2, WroteTwo DEF Text
  <2>4. sent' = 0 /\ \A j \in 1..Len(line) : line'[j].kind # "start"
    BY <1>d, <2>1, <2>3 DEF HasKind
  <2>5. \A j \in 1..Len(line') : line'[j].kind = "start" => j = Len(line) + 1
    BY <1>c, <2>3, <2>4
  <2>6. Emitted' = 1
    BY <2>1, <2>4 DEF Emitted
  <2>7. HasKind(line', "start")
    <3>1. Len(line) + 1 \in 1..Len(line')
      BY <1>c, <2>3
    <3>. QED
      BY <2>3, <3>1 DEF HasKind
  <2>8. \A j \in 1..Len(line') : line'[j].kind = "start" =>
           /\ Len(line') - j = Emitted'
           /\ ~ (j + MaxLead + 2 <= Len(line'))
    BY <1>c, <2>3, <2>5, <2>6
  <2>. QED
    BY <1>d, <2>1, <2>7, <2>8 DEF DumpComes, HasKind
<1>3. CASE DumpByte
  <2>1. /\ at = "dump" /\ at' = "dump" /\ sent' = sent + 1 /\ line' = line \o <<RawByte(sent + 1)>>
        /\ UNCHANGED <<boot, triggered, since>>
    BY <1>3 DEF DumpByte, Emit
  <2>2. RawByte(sent + 1) \in Tokens
    <3>1. sent + 1 \in Nat
      BY <1>c
    <3>. QED
      BY <3>1, TokenTypes
  <2>3. /\ Len(line') = Len(line) + 1 /\ \A j \in 1..Len(line) : line'[j] = line[j]
        /\ line'[Len(line) + 1].kind = "raw" /\ (line'[Len(line) + 1].nl <=> sent + 1 <= lead)
    <3>1. /\ Len(line') = Len(line) + 1 /\ \A j \in 1..Len(line) : line'[j] = line[j]
          /\ line'[Len(line) + 1] = RawByte(sent + 1)
      BY <1>c, <2>1, <2>2, WroteOne
    <3>2. RawByte(sent + 1).kind = "raw" /\ (RawByte(sent + 1).nl <=> sent + 1 <= lead)
      BY DEF RawByte
    <3>. QED
      BY <3>1, <3>2
  <2>4. Emitted = 1 + sent /\ Emitted' = 2 + sent
    BY <1>c, <2>1 DEF Emitted
  <2>5. ASSUME NEW j \in 1..Len(line'), line'[j].kind = "start"
        PROVE  /\ Len(line') - j = Emitted'
               /\ j + MaxLead + 2 <= Len(line') => ~line'[j + MaxLead + 2].nl
    <3>1. j \in 1..Len(line) /\ line[j].kind = "start"
      BY <1>c, <2>3, <2>5
    <3>2. Len(line) - j = 1 + sent /\ (j + MaxLead + 2 <= Len(line) => ~line[j + MaxLead + 2].nl)
      BY <1>d, <2>4, <3>1
    <3>3. Len(line') - j = Emitted'
      BY <1>c, <2>3, <2>4, <3>1, <3>2
    <3>4. ASSUME j + MaxLead + 2 <= Len(line')
          PROVE  ~line'[j + MaxLead + 2].nl
      <4>1. CASE j + MaxLead + 2 <= Len(line)
        <5>1. j + MaxLead + 2 \in 1..Len(line)
          BY <1>c, <3>1, <4>1
        <5>. QED
          BY <2>3, <3>2, <4>1, <5>1
      <4>2. CASE ~ (j + MaxLead + 2 <= Len(line))
        <5>1. j + MaxLead + 2 = Len(line) + 1 /\ ~ (sent + 1 <= lead)
          BY <1>c, <2>3, <3>1, <3>2, <3>4, <4>2
        <5>. QED
          BY <2>3, <5>1
      <4>. QED
        BY <4>1, <4>2
    <3>. QED
      BY <3>3, <3>4
  <2>6. HasKind(line', "start")
    <3>1. PICK j \in 1..Len(line) : line[j].kind = "start"
      BY <1>d, <2>1 DEF HasKind
    <3>2. j \in 1..Len(line') /\ line'[j].kind = "start"
      BY <1>c, <2>3, <3>1
    <3>. QED
      BY <3>2 DEF HasKind
  <2>. QED
    BY <1>d, <2>1, <2>5, <2>6 DEF DumpComes, HasKind
<1>4. CASE EndDump
  <2>1. /\ at = "dump" /\ at' = "over" /\ sent = DumpBytes /\ sent' = 0 /\ line' = line \o <<Text("eol"), Text("end")>>
        /\ UNCHANGED <<boot, triggered, since>>
    BY <1>4 DEF EndDump, Emit
  <2>2. Text("eol") \in Tokens /\ Text("end") \in Tokens
    BY TokenTypes
  <2>3. /\ Len(line') = Len(line) + 2 /\ \A j \in 1..Len(line) : line'[j] = line[j]
        /\ line'[Len(line) + 1].kind = "eol" /\ line'[Len(line) + 2].kind = "end"
    BY <1>c, <2>1, <2>2, WroteTwo DEF Text
  <2>4. Emitted = 1 + DumpBytes /\ Emitted' = DumpBytes + 3
    BY <1>c, <2>1 DEF Emitted
  <2>5. ASSUME NEW j \in 1..Len(line'), line'[j].kind = "start"
        PROVE  /\ Len(line') - j = Emitted'
               /\ ~line'[j + MaxLead + 2].nl
    <3>1. j \in 1..Len(line) /\ line[j].kind = "start"
      BY <1>c, <2>3, <2>5
    <3>2. Len(line) - j = 1 + DumpBytes /\ (j + MaxLead + 2 <= Len(line) => ~line[j + MaxLead + 2].nl)
      BY <1>d, <2>4, <3>1
    <3>3. j + MaxLead + 2 <= Len(line) /\ j + MaxLead + 2 \in 1..Len(line)
      BY <1>c, <3>1, <3>2
    <3>. QED
      BY <1>c, <2>3, <2>4, <3>1, <3>2, <3>3
  <2>6. HasKind(line', "start")
    <3>1. PICK j \in 1..Len(line) : line[j].kind = "start"
      BY <1>d, <2>1 DEF HasKind
    <3>2. j \in 1..Len(line') /\ line'[j].kind = "start"
      BY <1>c, <2>3, <3>1
    <3>. QED
      BY <3>2 DEF HasKind
  <2>. QED
    BY <1>d, <2>1, <2>5, <2>6 DEF DumpComes, HasKind
<1>. QED
  BY <1>1, <1>2, <1>3, <1>4

\* The rest of a dump comes without a fault.
LEMMA BoardGoesOn ==
    ASSUME TypeOK, host = "collect", RestSuffices,
           (\E kept \in BOOLEAN : Arm(kept)) \/ (\E n \in 0..MaxLead : StartDump(n)) \/ DumpByte
           \/ EndDump
    PROVE  RestSuffices'
<1>. USE DEF hostVars
<1>c. /\ DumpBytes \in Nat \ {0} /\ MaxLead \in Nat /\ TargetBytes \in Nat
      /\ line \in Seq(Tokens) /\ Len(line) \in Nat /\ sent \in Nat
  BY CaptureAssumption DEF TypeOK
<1>r. UNCHANGED hostVars
  BY DEF Arm, StartDump, DumpByte, EndDump
<1>d. Len(disk[slot]) \in Nat
  BY DEF TypeOK
<1>e. disk'[slot'] = disk[slot]
  BY <1>r
<1>0. ASSUME NEW n \in Nat, at = "dump", at' \in {"dump", "over"}, at' # "dump" => sent' = 0,
             Len(line') = Len(line) + n, Emitted \in Nat, Emitted' = Emitted + n
      PROVE  RestSuffices'
  <2>1. Len(disk[slot]) < TargetBytes => Len(disk[slot]) + Len(line) + 1 + MaxLead >= Emitted
    BY DEF RestSuffices
  <2>2. PICK f : f = disk[slot]
    OBVIOUS
  <2>a. \A x, y, z, w \in Nat : x + y + 1 + z >= w => x + (y + n) + 1 + z >= w + n
    OBVIOUS
  <2>3. Len(f) < TargetBytes => Len(f) + Len(line') + 1 + MaxLead >= Emitted'
    BY <1>0, <1>c, <1>d, <2>1, <2>2, <2>a
  <2>4. Len(disk'[slot']) < TargetBytes => Len(disk'[slot']) + Len(line') + 1 + MaxLead >= Emitted'
    BY <1>e, <2>2, <2>3
  <2>. QED
    BY <1>0, <2>4 DEF RestSuffices
<1>1. CASE DumpByte
  <2>1. at = "dump" /\ at' = "dump" /\ sent' = sent + 1 /\ Emitted = 1 + sent /\ Emitted' = 2 + sent
    BY <1>1, <1>c DEF DumpByte, Emitted
  <2>2. Len(line') = Len(line) + 1
    BY <1>1, <1>c DEF DumpByte, Emit
  <2>. QED
    BY <1>c, <1>0, <2>1, <2>2
<1>2. CASE EndDump
  <2>1. /\ at = "dump" /\ at' = "over" /\ sent = DumpBytes /\ sent' = 0
        /\ Emitted = 1 + DumpBytes /\ Emitted' = DumpBytes + 3
    BY <1>2 DEF EndDump, Emitted
  <2>2. Len(line') = Len(line) + 2
    BY <1>2, <1>c DEF EndDump, Emit
  <2>. QED
    BY <1>c, <1>0, <2>1, <2>2
<1>. QED
  BY <1>1, <1>2 DEF RestSuffices, Arm, StartDump

\* A read that finds no start marker leaves the dump on its way.
LEMMA ReadOnStillComes ==
    ASSUME TypeOK, DumpComes, NEW n \in 1..Len(line), ScanReadsOn(n, FALSE)
    PROVE  DumpComes'
<1>. DEFINE data == SubSeq(line, 1, n)
<1>1. /\ Read(n) /\ ~HasKind(data, "start")
      /\ triggered' <=> (triggered \/ HasKind(data, "armed"))
      /\ rx' <=> (rx \/ (HasKind(data, "armed") /\ ~triggered))
      /\ UNCHANGED <<boot, at, sent, lead, disk, slot, host, since>>
  BY DEF ScanReadsOn
<1>c. line \in Seq(Tokens) /\ Len(line) \in Nat /\ n \in Nat /\ MaxLead \in Nat
  BY CaptureAssumption DEF TypeOK
<1>2. /\ Len(line') = Len(line) - n
      /\ \A k \in 1..Len(line') : n + k \in 1..Len(line) /\ line'[k] = line[n + k]
      /\ Len(data) = n /\ \A k \in 1..n : k \in 1..Len(line) /\ data[k] = line[k]
  BY <1>c, <1>1, WasRead
<1>. HIDE DEF data
<1>3. \A kind : HasKind(line, kind) /\ ~HasKind(data, kind) => HasKind(line', kind)
  <2>. SUFFICES ASSUME NEW kind, NEW j \in 1..Len(line), line[j].kind = kind, ~HasKind(data, kind)
                PROVE  HasKind(line', kind)
    BY DEF HasKind
  <2>1. j \notin 1..n
    BY <1>2 DEF HasKind
  <2>2. j - n \in 1..Len(line') /\ n + (j - n) = j
    BY <1>c, <1>2, <2>1
  <2>. QED
    BY <1>2, <2>2 DEF HasKind
<1>4. \A kind : HasKind(line', kind) => HasKind(line, kind)
  BY <1>2 DEF HasKind
<1>5. ASSUME NEW j \in 1..Len(line'), line'[j].kind = "start"
      PROVE  /\ Len(line') - j = Emitted
             /\ j + MaxLead + 2 <= Len(line') => ~line'[j + MaxLead + 2].nl
  <2>1. n + j \in 1..Len(line) /\ line[n + j].kind = "start"
    BY <1>2, <1>5
  <2>2. /\ Len(line) - (n + j) = Emitted
        /\ (n + j) + MaxLead + 2 <= Len(line) => ~line[(n + j) + MaxLead + 2].nl
    BY <2>1 DEF DumpComes
  <2>3. Len(line') - j = Emitted
    BY <1>c, <1>2, <2>2
  <2>4. ASSUME j + MaxLead + 2 <= Len(line')
        PROVE  ~line'[j + MaxLead + 2].nl
    <3>1. j + MaxLead + 2 \in 1..Len(line') /\ n + (j + MaxLead + 2) = (n + j) + MaxLead + 2
      BY <1>c, <1>2, <2>4
    <3>2. (n + j) + MaxLead + 2 <= Len(line)
      BY <1>c, <1>2, <2>4
    <3>. QED
      BY <1>2, <2>2, <3>1, <3>2
  <2>. QED
    BY <2>3, <2>4
<1>6. /\ boot' = since' /\ (at' # "dump" => sent' = 0)
      /\ (at' \in {"boot", "armed"} => ~HasKind(line', "start"))
      /\ (at' \in {"dump", "over"} => HasKind(line', "start"))
  BY <1>1, <1>3, <1>4 DEF DumpComes
<1>7. at' = "boot" => ~triggered' /\ ~HasKind(line', "armed")
  <2>1. at = "boot" => ~triggered /\ ~HasKind(line, "armed")
    BY DEF DumpComes
  <2>2. HasKind(data, "armed") => HasKind(line, "armed")
    BY <1>2 DEF HasKind
  <2>. QED
    BY <1>1, <1>4, <2>1, <2>2
<1>8. at' = "armed" => rx' \/ (~triggered' /\ HasKind(line', "armed"))
  <2>1. at = "armed" => rx \/ (~triggered /\ HasKind(line, "armed"))
    BY DEF DumpComes
  <2>. QED
    BY <1>1, <1>3, <2>1
<1>9. Emitted' = Emitted
  BY <1>1 DEF Emitted
<1>. QED
  BY <1>5, <1>6, <1>7, <1>8, <1>9 DEF DumpComes

\* When the start marker is found, the rest of the dump is enough.
LEMMA FoundSuffices ==
    ASSUME TypeOK, DumpComes, NEW n \in 1..Len(line), ScanFindsStart(n)
    PROVE  RestSuffices'
<1>. DEFINE file == Take(SkipNewlines(SubSeq(SubSeq(line, 1, n),
                           FirstStart(SubSeq(line, 1, n)) + 1, n)), TargetBytes)
<1>1. /\ Read(n) /\ HasKind(SubSeq(line, 1, n), "start") /\ disk' = [disk EXCEPT ![slot] = file]
      /\ UNCHANGED <<boardVars, slot>>
  BY DEF ScanFindsStart
<1>. HIDE DEF file
<1>c. /\ line \in Seq(Tokens) /\ Len(line) \in Nat /\ n \in Nat /\ n <= Len(line)
      /\ MaxLead \in Nat /\ TargetBytes \in Nat /\ slot \in DOMAIN disk
  BY CaptureAssumption DEF TypeOK
<1>2. PICK j \in 1..n : \E m \in 0..(n - j) :
         /\ line[j].kind = "start"
         /\ \A k \in 1..m : line[j + k].nl
         /\ Len(file) = IF n - j - m < TargetBytes THEN n - j - m ELSE TargetBytes
  BY <1>1, FileBegins DEF file
<1>3. PICK m \in 0..(n - j) :
         /\ line[j].kind = "start"
         /\ \A k \in 1..m : line[j + k].nl
         /\ Len(file) = IF n - j - m < TargetBytes THEN n - j - m ELSE TargetBytes
  BY <1>2
<1>4. j \in 1..Len(line) /\ j \in Nat /\ m \in Nat /\ j + m <= n
  BY <1>c, <1>3
<1>5. at \in {"dump", "over"} /\ (at # "dump" => sent = 0)
  <2>1. HasKind(line, "start")
    BY <1>3, <1>4 DEF HasKind
  <2>. QED
    BY <2>1 DEF DumpComes, TypeOK
<1>6. /\ Len(line) - j = Emitted
      /\ j + MaxLead + 2 <= Len(line) => ~line[j + MaxLead + 2].nl
  BY <1>3, <1>4 DEF DumpComes
<1>7. m <= MaxLead + 1
  <2>. SUFFICES ASSUME ~ (m <= MaxLead + 1)
                PROVE  FALSE
    OBVIOUS
  <2>1. MaxLead + 2 \in 1..m /\ j + (MaxLead + 2) = j + MaxLead + 2 /\ j + MaxLead + 2 <= Len(line)
    BY <1>c, <1>4
  <2>2. line[j + (MaxLead + 2)].nl
    BY <1>3, <2>1
  <2>. QED
    BY <1>6, <2>1, <2>2
<1>8. Len(line') = Len(line) - n
  BY <1>c, <1>1, WasRead
<1>9. Len(file) < TargetBytes => Len(file) + Len(line') + 1 + MaxLead >= Emitted
  BY <1>c, <1>3, <1>4, <1>6, <1>7, <1>8
<1>10. disk'[slot'] = file /\ Emitted' = Emitted
  BY <1>1, <1>c DEF Emitted, boardVars
<1>. QED
  BY <1>1, <1>5, <1>9, <1>10 DEF RestSuffices, boardVars

\* A read of the file's bytes leaves as much as there was.
LEMMA CollectStillSuffices ==
    ASSUME TypeOK, RestSuffices, NEW n \in 1..Len(line), CollectRead(n)
    PROVE  RestSuffices'
<1>. DEFINE data == SubSeq(line, 1, n)
<1>1. /\ host = "collect" /\ Len(disk[slot]) < TargetBytes /\ Read(n)
      /\ disk' = [disk EXCEPT ![slot] = disk[slot] \o data]
      /\ UNCHANGED <<boardVars, slot>>
  BY DEF CollectRead
<1>c. line \in Seq(Tokens) /\ disk[slot] \in Seq(Tokens) /\ slot \in DOMAIN disk /\ MaxLead \in Nat
  BY <1>1, CaptureAssumption DEF TypeOK
<1>2. /\ Len(line) \in Nat /\ n \in Nat /\ n <= Len(line) /\ Len(line') = Len(line) - n
      /\ data \in Seq(Tokens) /\ Len(data) = n
  BY <1>c, <1>1, WasRead
<1>. HIDE DEF data
<1>3. Len(disk[slot]) \in Nat /\ Len(disk[slot] \o data) = Len(disk[slot]) + n
  BY <1>c, <1>2, Written
<1>4. disk'[slot'] = disk[slot] \o data /\ Emitted' = Emitted
  BY <1>1, <1>c DEF Emitted, boardVars
<1>5. Len(disk[slot]) + Len(line) + 1 + MaxLead >= Emitted
  BY <1>1 DEF RestSuffices
<1>6. Len(disk'[slot']) + Len(line') = Len(disk[slot]) + Len(line)
  BY <1>2, <1>3, <1>4
<1>7. Len(disk'[slot']) + Len(line') + 1 + MaxLead >= Emitted'
  BY <1>4, <1>5, <1>6
<1>. QED
  BY <1>1, <1>7 DEF RestSuffices, boardVars

\* A process that nothing has happened to does not give up.
LEMMA NoTimeout ==
    ASSUME TypeOK, Quiet,
           \/ host = "scan" /\ DumpComes
           \/ host = "collect" /\ RestSuffices /\ Len(disk[slot]) < TargetBytes
    PROVE  FALSE
<1>1. line = <<>> /\ Len(line) = 0 /\ (at = "over" \/ (at = "armed" /\ ~rx))
  BY DEF Quiet
<1>2. \A kind : ~HasKind(line, kind)
  BY <1>1 DEF HasKind
<1>3. CASE host = "scan" /\ DumpComes
  BY <1>1, <1>2, <1>3 DEF DumpComes
<1>4. CASE host = "collect" /\ RestSuffices /\ Len(disk[slot]) < TargetBytes
  <2>1. at = "over" /\ Emitted = DumpBytes + 3
    BY <1>1, <1>4 DEF RestSuffices, Emitted
  <2>2. Len(disk[slot]) + Len(line) + 1 + MaxLead >= Emitted
    BY <1>4 DEF RestSuffices
  <2>3. Len(disk[slot]) \in Nat /\ DumpBytes \in Nat /\ TargetBytes \in Nat /\ MaxLead \in Nat
    BY <1>4, CaptureAssumption DEF TypeOK
  <2>. QED
    BY <1>1, <1>4, <2>1, <2>2, <2>3, LongDump
<1>. QED
  BY <1>3, <1>4

\* The dump itself holds no marker that a process waits for.
LEMMA NoMarker ==
    ASSUME TypeOK, DumpByte \/ EndDump, NEW kind \in {"armed", "start"}, ~HasKind(line, kind)
    PROVE  ~HasKind(line', kind)
<1>1. line \in Seq(Tokens) /\ Len(line) \in Nat /\ sent + 1 \in Nat
  BY CaptureAssumption DEF TypeOK
<1>2. ASSUME NEW e \in Seq(Tokens), line' = line \o e, \A i \in 1..Len(e) : e[i].kind # kind
      PROVE  ~HasKind(line', kind)
  <2>1. /\ Len(e) \in Nat /\ Len(line') = Len(line) + Len(e)
        /\ \A j \in 1..Len(line) : line'[j] = line[j]
        /\ \A j \in (Len(line) + 1)..(Len(line) + Len(e)) : line'[j] = e[j - Len(line)]
    BY <1>1, <1>2, Written
  <2>2. ASSUME NEW j \in 1..Len(line'), j \notin 1..Len(line)
        PROVE  line'[j].kind # kind
    <3>1. j - Len(line) \in 1..Len(e) /\ line'[j] = e[j - Len(line)]
      BY <1>1, <2>1, <2>2
    <3>. QED
      BY <1>2, <3>1
  <2>. QED
    BY <2>1, <2>2 DEF HasKind
<1>3. CASE DumpByte
  <2>1. <<RawByte(sent + 1)>> \in Seq(Tokens)
    BY <1>1, TokenTypes
  <2>2. line' = line \o <<RawByte(sent + 1)>>
    BY <1>3 DEF DumpByte, Emit
  <2>3. \A i \in 1..Len(<<RawByte(sent + 1)>>) : <<RawByte(sent + 1)>>[i].kind # kind
    BY DEF RawByte
  <2>. QED
    BY <1>2, <2>1, <2>2, <2>3
<1>4. CASE EndDump
  <2>1. <<Text("eol"), Text("end")>> \in Seq(Tokens)
    BY TokenTypes
  <2>2. line' = line \o <<Text("eol"), Text("end")>>
    BY <1>4 DEF EndDump, Emit
  <2>3. \A i \in 1..Len(<<Text("eol"), Text("end")>>) : <<Text("eol"), Text("end")>>[i].kind # kind
    BY DEF Text
  <2>. QED
    BY <1>2, <2>1, <2>2, <2>3
<1>. QED
  BY <1>3, <1>4

\* Every step keeps the account of faults and failures.
LEMMA CleanStep == SlicesInv /\ CleanInv /\ [SlicesNext]_sliceVars => CleanInv'
<1>. SUFFICES ASSUME TypeOK, PhaseInv, AgeInv, CleanInv, [SlicesNext]_sliceVars
              PROVE  CleanInv'
  BY DEF SlicesInv
<1>. USE DEF captureVars, boardVars, hostVars, collectVars
<1>c. /\ faults \in Nat /\ failures \in Nat /\ failures <= faults
      /\ TargetBytes \in Nat
  BY CaptureAssumption DEF TypeOK, CleanInv
<1>0. ASSUME UNCHANGED <<failures, faults>>, coll' # "loop" \/ host' = "none"
      PROVE  CleanInv'
  BY <1>0, <1>c DEF CleanInv
<1>1. ASSUME Fault, failures' = failures \/ (failures' = failures + 1 /\ coll' = "failed")
      PROVE  CleanInv'
  BY <1>1, FaultPays
<1>2. ASSUME UNCHANGED <<faults, failures, coll>>,
             coll = "loop" /\ faults = failures =>
                /\ host' = "open" => ~HasKind(line', "armed") /\ ~HasKind(line', "start")
                /\ host' = "scan" => DumpComes'
                /\ host' = "collect" => RestSuffices'
                /\ host' = "exit0" => SizeOk(disk'[slot'])
                /\ host' # "exit1"
      PROVE  CleanInv'
  BY <1>2, <1>c DEF CleanInv, SizeOk, HasKind
<1>3. ASSUME coll = "loop", failures' = failures + 1, coll' = "failed", UNCHANGED faults,
             host = "exit1" \/ (host = "exit0" /\ ~SizeOk(disk[slot]))
      PROVE  CleanInv'
  <2>1. faults # failures
    BY <1>3 DEF CleanInv
  <2>. QED
    BY <1>3, <1>c, <2>1 DEF CleanInv
<1>4. CASE \E again, flash \in BOOLEAN : Invoke(again, flash)
  <2>1. failures' = failures /\ host' = "none" /\ (Fault \/ UNCHANGED faults)
    BY <1>4 DEF Invoke
  <2>. QED
    BY <1>0, <1>1, <2>1
<1>5. CASE CollectStep
  <2>1. CASE Reuse
    <3>1. UNCHANGED <<failures, faults>> /\ host' = "none"
      BY <2>1 DEF Reuse, CanReuse
    <3>. QED
      BY <1>0, <3>1
  <2>2. CASE CaptureOne
    <3>1. /\ UNCHANGED <<faults, failures, coll>> /\ host' = "open" /\ line' = <<>>
          /\ Len(<<>>) = 0
      BY <2>2 DEF CaptureOne, OpenPort
    <3>2. ~HasKind(line', "armed") /\ ~HasKind(line', "start")
      BY <3>1 DEF HasKind
    <3>. QED
      BY <1>2, <3>1, <3>2
  <2>3. CASE CaptureEnds
    <3>1. CASE SizeCheck
      BY <1>0, <2>3, <3>1 DEF CaptureEnds
    <3>2. CASE ~SizeCheck
      <4>1. slot = index /\ ~SizeOk(disk[slot])
        BY <2>3, <3>2 DEF CaptureEnds, SizeCheck, PhaseInv
      <4>. QED
        BY <1>3, <2>3, <3>2, <4>1 DEF CaptureEnds
    <3>. QED
      BY <3>1, <3>2
  <2>4. CASE CaptureFails
    BY <1>3, <2>4 DEF CaptureFails
  <2>5. CASE Concatenate \/ WriteManifest
    BY <1>0, <2>5 DEF Concatenate, WriteManifest
  <2>. QED
    BY <1>5, <2>1, <2>2, <2>3, <2>4, <2>5 DEF CollectStep
<1>6. CASE Interrupt
  BY <1>1, <1>6 DEF Interrupt
<1>7. CASE BoardNext /\ UNCHANGED collectVars
  <2>1. CASE BootFails \/ DumpError \/ (\E kept \in BOOLEAN : Crash(kept))
    BY <1>1, <1>7, <2>1 DEF BootFails, DumpError, Crash
  <2>2. CASE host = "open" /\ ((\E kept \in BOOLEAN : Arm(kept)) \/ \E n \in 0..MaxLead : StartDump(n))
    BY <1>1, <1>7, <2>2 DEF Arm, StartDump, Coincidence
  <2>3. CASE /\ host # "open" \/ DumpByte \/ EndDump
             /\ \/ (\E kept \in BOOLEAN : Arm(kept)) \/ (\E n \in 0..MaxLead : StartDump(n))
                \/ DumpByte \/ EndDump
    <3>1. UNCHANGED <<hostVars, faults>>
      BY <2>3 DEF Arm, StartDump, DumpByte, EndDump, Coincidence
    <3>2. host = "scan" /\ DumpComes => DumpComes'
      BY <2>3, BoardDelivers
    <3>3. host = "collect" /\ RestSuffices => RestSuffices'
      BY <2>3, BoardGoesOn
    <3>4. ASSUME host = "open", ~HasKind(line, "armed"), ~HasKind(line, "start")
          PROVE  ~HasKind(line', "armed") /\ ~HasKind(line', "start")
      BY <1>7, <2>3, <3>4, NoMarker
    <3>. QED
      BY <1>2, <1>7, <3>1, <3>2, <3>3, <3>4 DEF CleanInv
  <2>. QED
    BY <1>7, <2>1, <2>2, <2>3 DEF BoardNext
<1>8. CASE CaptureNext /\ UNCHANGED collectVars
  <2>1. CASE PulseEn
    <3>1. /\ host = "open" /\ host' = "scan" /\ ~triggered' /\ at' = "boot" /\ sent' = 0
          /\ boot' = since' /\ UNCHANGED <<line, faults>>
      BY <2>1 DEF PulseEn, Restart
    <3>2. coll = "loop" /\ faults = failures => ~HasKind(line', "armed") /\ ~HasKind(line', "start")
      BY <3>1 DEF CleanInv, HasKind
    <3>3. coll = "loop" /\ faults = failures => DumpComes'
      BY <3>1, <3>2 DEF DumpComes, HasKind
    <3>. QED
      BY <1>2, <1>8, <3>1, <3>3
  <2>2. ASSUME NEW n \in 1..Len(line), ScanFindsStart(n)
        PROVE  CleanInv'
    <3>1. host = "scan" /\ host' = "collect" /\ UNCHANGED faults
      BY <2>2 DEF ScanFindsStart
    <3>2. DumpComes => RestSuffices'
      BY <2>2, FoundSuffices
    <3>. QED
      BY <1>2, <1>8, <3>1, <3>2 DEF CleanInv
  <2>3. ASSUME NEW n \in 1..Len(line), NEW lost \in BOOLEAN, ScanReadsOn(n, lost)
        PROVE  CleanInv'
    <3>1. CASE lost
      BY <1>1, <1>8, <2>3, <3>1 DEF ScanReadsOn
    <3>2. CASE ~lost
      <4>1. host = "scan" /\ host' = "scan" /\ UNCHANGED faults
        BY <2>3, <3>2 DEF ScanReadsOn
      <4>2. lost = FALSE
        BY <3>2
      <4>3. DumpComes => DumpComes'
        BY <2>3, <4>2, ReadOnStillComes
      <4>. QED
        BY <1>2, <1>8, <4>1, <4>3 DEF CleanInv
    <3>. QED
      BY <3>1, <3>2
  <2>4. ASSUME NEW n \in 1..Len(line), CollectRead(n)
        PROVE  CleanInv'
    <3>1. host = "collect" /\ host' = "collect" /\ UNCHANGED faults
      BY <2>4 DEF CollectRead
    <3>2. RestSuffices => RestSuffices'
      BY <2>4, CollectStillSuffices
    <3>. QED
      BY <1>2, <1>8, <3>1, <3>2 DEF CleanInv
  <2>5. CASE ScanTimeout \/ CollectTimeout
    <3>1. /\ UNCHANGED faults /\ Quiet
          /\ host = "scan" \/ (host = "collect" /\ Len(disk[slot]) < TargetBytes)
      BY <2>5 DEF ScanTimeout, CollectTimeout
    <3>2. ~ (coll = "loop" /\ faults = failures)
      BY <3>1, NoTimeout DEF CleanInv
    <3>. QED
      BY <1>2, <1>8, <3>1, <3>2
  <2>6. CASE CollectDone
    <3>1. host' = "exit0" /\ UNCHANGED <<faults, disk, slot>> /\ SizeOk(disk[slot])
      BY <2>6 DEF CollectDone, SizeOk, TypeOK
    <3>. QED
      BY <1>2, <1>8, <3>1
  <2>7. CASE SerialFails
    BY <1>1, <1>8, <2>7 DEF SerialFails
  <2>. QED
    BY <1>8, <2>1, <2>2, <2>3, <2>4, <2>5, <2>6, <2>7 DEF CaptureNext
<1>9. CASE UNCHANGED sliceVars
  <2>1. CleanInv' <=> CleanInv
    BY <1>9 DEF sliceVars, CleanInv, DumpComes, RestSuffices, Emitted, HasKind, SizeOk
  <2>. QED
    BY <2>1
<1>. QED
  BY <1>4, <1>5, <1>6, <1>7, <1>8, <1>9 DEF SlicesNext

\* One fault (a lost trigger byte, a brown-out, Control-C, a device that
\* disappears, a late marker in the 50 ms before the reset) makes at most one
\* collection fail, flashed or not: what it leaves behind is thrown away by the
\* next reset_input_buffer and EN pulse.
THEOREM FaultsPayForFailures == SlicesSpec => []FaultSpoilsOneCollection
<1>1. CollectInit => CleanInv
  BY CaptureAssumption DEF CollectInit, CaptureInit, CleanInv
<1>2. SlicesInv /\ CleanInv /\ [SlicesNext]_sliceVars => CleanInv'
  BY CleanStep
<1>3. CleanInv => FaultSpoilsOneCollection
  BY DEF CleanInv, FaultSpoilsOneCollection
<1>. QED
  BY <1>1, <1>2, <1>3, SlicesInvariant, PTL DEF SlicesSpec

------------------------------------------------------------------------------
(* The collection implements SliceDataset.                                 *)

\* Two sequences of one length with the same elements are the same.
LEMMA SameSequence ==
    ASSUME NEW S, NEW s \in Seq(S), NEW t \in Seq(S), Len(s) = Len(t),
           \A i \in 1..Len(s) : s[i] = t[i]
    PROVE  s = t
OBVIOUS

\* A file that is not complete counts as boot 0, a complete one has the boot of
\* its first token.
LEMMA SliceBoots ==
    ASSUME NEW file
    PROVE  /\ ~SizeOk(file) => SliceBoot(file) = 0
           /\ SizeOk(file) => 1 \in 1..Len(file) /\ SliceBoot(file) = file[1].boot
BY CaptureAssumption DEF SizeOk, SliceBoot

\* The dataset sees nothing of a step that leaves the files and the manifest.
LEMMA Unseen ==
    ASSUME UNCHANGED <<disk, manifest>>
    PROVE  UNCHANGED Dataset!datasetVars
BY DEF Dataset!datasetVars, SliceBoot, SizeOk, PublishedBoot, AggregatePart

\* A read that is written to the file completes a slice by a boot later than
\* that of every slice there is, or completes none.
LEMMA WriteIsDataset ==
    ASSUME SlicesInv, SlicesInv', UNCHANGED <<slot, manifest>>,
           NEW file, disk' = [disk EXCEPT ![slot] = file],
           SizeOk(file) => \A q \in 1..Runs : SizeOk(disk[q]) => disk[q][1].boot < file[1].boot
    PROVE  Dataset!DatasetNext
<1>. DEFINE old == [r \in 1..Runs |-> SliceBoot(disk[r])]
            new == [r \in 1..Runs |-> SliceBoot(disk'[r])]
<1>t. slot \in 1..Runs /\ DOMAIN disk = 1..Runs
  BY DEF SlicesInv, TypeOK
<1>b. boot' \in Nat
  <2>1. TypeOK'
    BY DEF SlicesInv
  <2>. QED
    BY <2>1 DEF TypeOK
<1>1. disk'[slot] = file /\ \A r \in (1..Runs) \ {slot} : disk'[r] = disk[r]
  BY <1>t
<1>2. new = [old EXCEPT ![slot] = new[slot]] /\ new[slot] = SliceBoot(file)
  BY <1>t, <1>1
<1>3. UNCHANGED [r \in 1..Len(manifest.runs) |-> PublishedBoot(r)]
  BY DEF PublishedBoot, AggregatePart, SliceBoot, SizeOk
<1>n. [r \in 1..Runs |-> SliceBoot(disk[r])]' = new
  BY DEF SliceBoot, SizeOk
<1>4. CASE SizeOk(file)
  <2>1. 1 \in 1..Len(file) /\ SliceBoot(file) = file[1].boot /\ file # NoFile
    BY <1>4, SliceBoots DEF SizeOk
  <2>2. file[1].boot \in Nat \ {0}
    <3>1. disk'[slot'] = file /\ slot' \in 1..Runs
      BY <1>1, <1>t
    <3>2. file[1].boot \in 1..boot'
      BY <2>1, <3>1 DEF SlicesInv, AgeInv, BootsKnown
    <3>3. boot' \in Nat
      BY <1>b
    <3>. HIDE DEF new, old
    <3>. QED
      BY <3>2, <3>3
  <2>3. ASSUME NEW q \in 1..Runs
        PROVE  new[slot] > old[q]
    <3>1. CASE SizeOk(disk[q])
      <4>1. disk[q] # NoFile /\ 1 \in 1..Len(disk[q]) /\ SliceBoot(disk[q]) = disk[q][1].boot
        BY <3>1, SliceBoots DEF SizeOk
      <4>2. disk[q][1].boot \in 1..boot
        BY <4>1 DEF SlicesInv, AgeInv, BootsKnown
      <4>3. disk[q][1].boot < file[1].boot
        BY <1>4, <3>1
      <4>4. new[slot] = file[1].boot /\ old[q] = disk[q][1].boot
        BY <1>2, <2>1, <4>1
      <4>. HIDE DEF new, old
      <4>. QED
        BY <2>2, <4>2, <4>3, <4>4
    <3>2. CASE ~SizeOk(disk[q])
      <4>1. new[slot] = file[1].boot /\ old[q] = 0
        BY <1>2, <2>1, <3>2, SliceBoots
      <4>. HIDE DEF new, old
      <4>. QED
        BY <2>2, <4>1
    <3>. QED
      BY <3>1, <3>2
  <2>. HIDE DEF new
  <2>4. Dataset!CompleteSlice(slot)
    BY <1>2, <1>3, <1>n, <2>3 DEF Dataset!CompleteSlice
  <2>. QED
    BY <1>t, <2>4 DEF Dataset!DatasetNext
<1>5. CASE ~SizeOk(file)
  <2>1. new[slot] = 0
    BY <1>2, <1>5, SliceBoots
  <2>. HIDE DEF new
  <2>2. Dataset!DiscardSlice(slot)
    BY <1>2, <1>3, <1>n, <2>1 DEF Dataset!DiscardSlice, Dataset!Incomplete
  <2>. QED
    BY <1>t, <2>2 DEF Dataset!DatasetNext
<1>. QED
  BY <1>4, <1>5

\* The read that finds the start marker opens the file.
LEMMA OpeningIsDataset ==
    ASSUME SlicesInv, SlicesInv', NEW n \in 1..Len(line), ScanFindsStart(n), UNCHANGED collectVars
    PROVE  Dataset!DatasetNext
<1>. DEFINE file == Take(SkipNewlines(SubSeq(SubSeq(line, 1, n),
                           FirstStart(SubSeq(line, 1, n)) + 1, n)), TargetBytes)
<1>1. /\ host = "scan" /\ Read(n) /\ HasKind(SubSeq(line, 1, n), "start")
      /\ disk' = [disk EXCEPT ![slot] = file] /\ UNCHANGED <<slot, manifest>>
  BY DEF ScanFindsStart, collectVars
<1>. HIDE DEF file
<1>2. PICK j \in 1..n : \E m \in 0..(n - j) :
         /\ line[j].kind = "start"
         /\ \A i \in 1..Len(file) : j + m + i \in 1..Len(line) /\ file[i] = line[j + m + i]
  BY <1>1, FileBegins DEF file, SlicesInv
<1>3. PICK m \in 0..(n - j) :
         /\ line[j].kind = "start"
         /\ \A i \in 1..Len(file) : j + m + i \in 1..Len(line) /\ file[i] = line[j + m + i]
  BY <1>2
<1>4. n \in Nat /\ Len(line) \in Nat /\ n <= Len(line)
  <2>1. line \in Seq(Tokens)
    BY DEF SlicesInv, TypeOK
  <2>2. Len(line) \in Nat
    BY <2>1
  <2>. QED
    BY <2>2
<1>5. j \in 1..Len(line) /\ MarkerInv(j)
  BY <1>1, <1>3, <1>4 DEF SlicesInv, AgeInv, TriggersSpent
<1>6. ASSUME SizeOk(file), NEW q \in 1..Runs, SizeOk(disk[q])
      PROVE  disk[q][1].boot < file[1].boot
  <2>1. 1 \in 1..Len(file)
    BY <1>6, SliceBoots
  <2>2. disk[q] # NoFile /\ 1 \in 1..Len(disk[q])
    BY <1>6, SliceBoots DEF SizeOk
  <2>3. file[1] = line[j + m + 1] /\ j + m + 1 \in j..Len(line)
    BY <1>3, <1>4, <1>5, <2>1
  <2>4. FilesBefore(disk, file[1].boot)
    BY <1>5, <2>3 DEF MarkerInv
  <2>. QED
    BY <2>2, <2>4 DEF FilesBefore, SentBefore
<1>. QED
  BY <1>1, <1>6, WriteIsDataset

\* A later read extends it.
LEMMA ExtendingIsDataset ==
    ASSUME SlicesInv, SlicesInv', NEW n \in 1..Len(line), CollectRead(n), UNCHANGED collectVars
    PROVE  Dataset!DatasetNext
<1>. DEFINE file == disk[slot] \o SubSeq(line, 1, n)
<1>1. /\ host = "collect" /\ host' = "collect" /\ Len(disk[slot]) < TargetBytes
      /\ disk' = [disk EXCEPT ![slot] = file] /\ UNCHANGED <<slot, manifest>>
  BY DEF CollectRead, collectVars
<1>. HIDE DEF file
<1>2. /\ slot \in 1..Runs /\ disk'[slot'] = file /\ slot' = slot
      /\ \A r \in (1..Runs) \ {slot} : disk'[r] = disk[r]
  BY <1>1 DEF SlicesInv, TypeOK
<1>3. ~SizeOk(disk[slot])
  BY <1>1, CaptureAssumption DEF SizeOk, SlicesInv, TypeOK
<1>4. \A k \in 1..Len(file) : Young(file[k], disk', slot, since')
  <2>1. \A k \in 1..Len(disk'[slot']) : Young(disk'[slot'][k], disk', slot', since')
    BY <1>1 DEF SlicesInv, AgeInv, FilesInOrder
  <2>. QED
    BY <1>2, <2>1
<1>5. ASSUME SizeOk(file), NEW q \in 1..Runs, SizeOk(disk[q])
      PROVE  disk[q][1].boot < file[1].boot
  <2>1. 1 \in 1..Len(file)
    BY <1>5, SliceBoots
  <2>2. disk[q] # NoFile /\ 1 \in 1..Len(disk[q])
    BY <1>5, SliceBoots DEF SizeOk
  <2>3. q \in (1..Runs) \ {slot} /\ disk'[q] = disk[q]
    BY <1>2, <1>3, <1>5
  <2>4. OthersBefore(disk', slot, file[1].boot)
    BY <1>4, <2>1 DEF Young
  <2>. QED
    BY <2>2, <2>3, <2>4 DEF OthersBefore, SentBefore
<1>. QED
  BY <1>1, <1>5, WriteIsDataset

\* The place of run r in the concatenation holds the file of run r.
LEMMA PlaceInAggregate ==
    ASSUME SlicesInv, coll = "manifest", manifest' = [runs |-> runs, aggregate |-> concat],
           NEW r \in 1..Runs
    PROVE  AggregatePart(r)' = disk[r]
<1>. DEFINE files == [q \in 1..Runs |-> disk[q]]
<1>c. Runs \in Nat \ {0} /\ TargetBytes \in Nat \ {0} /\ r \in Nat /\ r >= 1 /\ r <= Runs
  BY CaptureAssumption
<1>1. index = Runs + 1 /\ concat = FlattenSeq(files) /\ \A q \in 1..(index - 1) : SizeOk(disk[q])
  BY DEF SlicesInv, PhaseInv
<1>2. \A q \in 1..Runs : SizeOk(disk[q])
  BY <1>1, <1>c
<1>3. files \in [1..Runs -> Seq(Tokens)] /\ \A q \in 1..Runs : Len(files[q]) = TargetBytes
  BY <1>2 DEF SizeOk, SlicesInv, TypeOK
<1>4. files[r] = disk[r]
  OBVIOUS
<1>. HIDE DEF files
<1>t. TargetBytes \in Nat /\ Runs \in Nat \ {0}
  BY <1>c
<1>5. /\ concat \in Seq(Tokens) /\ Len(concat) = Runs * TargetBytes
      /\ InPlaces(concat, files, Runs, TargetBytes)
  BY <1>1, <1>3, <1>t, FlattenBlocks
<1>6. PICK o : o = (r - 1) * TargetBytes
  OBVIOUS
<1>7. /\ o \in Nat /\ r * TargetBytes = o + TargetBytes
      /\ o + TargetBytes <= Len(concat) /\ o <= o + TargetBytes /\ (o + TargetBytes) - o = TargetBytes
  <2>1. o \in Nat /\ r * TargetBytes = o + TargetBytes
    BY <1>6, <1>c
  <2>2. r * TargetBytes <= Runs * TargetBytes
    BY <1>c
  <2>. QED
    BY <1>5, <1>c, <2>1, <2>2
<1>8. AggregatePart(r)' = SubSeq(concat, o + 1, o + TargetBytes)
  <2>1. manifest'.aggregate = concat
    OBVIOUS
  <2>2. ~ (r * TargetBytes > Len(manifest'.aggregate))
    BY <1>5, <1>7, <1>c, <2>1
  <2>3. AggregatePart(r)' = SubSeq(manifest'.aggregate, (r - 1) * TargetBytes + 1, r * TargetBytes)
    BY <2>2 DEF AggregatePart
  <2>. QED
    BY <1>6, <1>7, <2>1, <2>3
<1>9. /\ SubSeq(concat, o + 1, o + TargetBytes) \in Seq(Tokens)
      /\ Len(SubSeq(concat, o + 1, o + TargetBytes)) = TargetBytes
      /\ \A i \in 1..TargetBytes : SubSeq(concat, o + 1, o + TargetBytes)[i] = concat[o + i]
  <2>1. o + TargetBytes \in Nat
    BY <1>7, <1>c
  <2>. QED
    BY <1>5, <1>7, <1>c, <2>1, Piece
<1>10. disk[r] \in Seq(Tokens) /\ Len(disk[r]) = TargetBytes
  BY <1>3, <1>4
<1>11. \A i \in 1..TargetBytes : concat[o + i] = disk[r][i]
  BY <1>4, <1>5, <1>6 DEF InPlaces
<1>12. SubSeq(concat, o + 1, o + TargetBytes) = disk[r]
  <2>. DEFINE part == SubSeq(concat, o + 1, o + TargetBytes)
  <2>1. part \in Seq(Tokens) /\ Len(part) = Len(disk[r]) /\ \A i \in 1..Len(part) : part[i] = disk[r][i]
    BY <1>9, <1>10, <1>11
  <2>. HIDE DEF part
  <2>2. part = disk[r]
    BY <1>10, <2>1, SameSequence
  <2>. QED
    BY <2>2 DEF part
<1>. QED
  BY <1>8, <1>12

\* Writing the manifest publishes the slices as they are on the disk.
LEMMA ManifestIsPublish ==
    ASSUME SlicesInv, WriteManifest
    PROVE  Dataset!Publish
<1>c. Runs \in Nat \ {0}
  BY CaptureAssumption
<1>1. coll = "manifest" /\ manifest' = [runs |-> runs, aggregate |-> concat] /\ UNCHANGED disk
  BY DEF WriteManifest, captureVars, hostVars
<1>2. /\ index = Runs + 1 /\ Len(runs) = Runs
      /\ \A r \in 1..Runs : runs[r] = [run |-> r, sha256 |-> disk[r]] /\ SizeOk(disk[r])
  BY <1>1, <1>c DEF SlicesInv, PhaseInv
<1>3. ASSUME NEW r \in 1..Runs
      PROVE  PublishedBoot(r)' = SliceBoot(disk[r])
  <2>1. AggregatePart(r)' = disk[r]
    BY <1>1, PlaceInAggregate
  <2>2. manifest'.runs[r] = [run |-> r, sha256 |-> disk[r]]
    BY <1>1, <1>2
  <2>3. PublishedBoot(r)' = IF manifest'.runs[r] = [run |-> r, sha256 |-> AggregatePart(r)']
                            THEN SliceBoot(AggregatePart(r)') ELSE 0
    BY DEF PublishedBoot, SliceBoot, SizeOk
  <2>. QED
    BY <2>1, <2>2, <2>3
<1>4. [r \in 1..Len(manifest.runs) |-> PublishedBoot(r)]' = [r \in 1..Runs |-> SliceBoot(disk[r])]
  <2>1. Len(manifest'.runs) = Runs
    BY <1>1, <1>2
  <2>2. [r \in 1..Len(manifest.runs) |-> PublishedBoot(r)]'
           = [r \in 1..Len(manifest'.runs) |-> PublishedBoot(r)']
    OBVIOUS
  <2>. QED
    BY <1>3, <2>1, <2>2
<1>5. UNCHANGED [r \in 1..Runs |-> SliceBoot(disk[r])]
  BY <1>1 DEF SliceBoot, SizeOk
<1>6. \A r \in 1..Runs : SliceBoot(disk[r]) # 0
  <2>. TAKE r \in 1..Runs
  <2>1. disk[r] # NoFile /\ 1 \in 1..Len(disk[r]) /\ SliceBoot(disk[r]) = disk[r][1].boot
    BY <1>2, SliceBoots DEF SizeOk
  <2>2. disk[r][1].boot \in 1..boot
    BY <2>1 DEF SlicesInv, AgeInv, BootsKnown
  <2>. QED
    BY <2>1, <2>2 DEF SlicesInv, TypeOK
<1>. QED
  BY <1>4, <1>5, <1>6 DEF Dataset!Publish, Dataset!Incomplete

\* Every step is a step of SliceDataset, or none.
LEMMA DatasetStep ==
    ASSUME SlicesInv, SlicesInv', [SlicesNext]_sliceVars
    PROVE  [Dataset!DatasetNext]_(Dataset!datasetVars)
<1>. USE DEF captureVars, boardVars, hostVars, collectVars
<1>1. ASSUME NEW n \in 1..Len(line), ScanFindsStart(n), UNCHANGED collectVars
      PROVE  Dataset!DatasetNext
  BY <1>1, OpeningIsDataset
<1>2. ASSUME NEW n \in 1..Len(line), CollectRead(n), UNCHANGED collectVars
      PROVE  Dataset!DatasetNext
  BY <1>2, ExtendingIsDataset
<1>3. CASE WriteManifest
  BY <1>3, ManifestIsPublish DEF Dataset!DatasetNext
<1>4. CASE UNCHANGED <<disk, manifest>>
  BY <1>4, Unseen
<1>5. CASE CaptureNext /\ UNCHANGED collectVars
  <2>1. CASE PulseEn \/ ScanTimeout \/ CollectDone \/ CollectTimeout \/ SerialFails
    BY <1>4, <1>5, <2>1 DEF PulseEn, ScanTimeout, CollectDone, CollectTimeout, SerialFails
  <2>2. ASSUME NEW n \in 1..Len(line), NEW lost \in BOOLEAN, ScanReadsOn(n, lost)
        PROVE  UNCHANGED <<disk, manifest>>
    BY <1>5, <2>2 DEF ScanReadsOn
  <2>. QED
    BY <1>1, <1>2, <1>4, <1>5, <2>1, <2>2 DEF CaptureNext
<1>6. CASE BoardNext /\ UNCHANGED collectVars
  <2>1. UNCHANGED hostVars
    BY <1>6, BoardSends DEF SlicesInv
  <2>. QED
    BY <1>4, <1>6, <2>1
<1>7. CASE (\E again, flash \in BOOLEAN : Invoke(again, flash)) \/ Interrupt
  BY <1>4, <1>7 DEF Invoke, Interrupt
<1>8. CASE CollectStep
  BY <1>3, <1>4, <1>8 DEF CollectStep, Reuse, CaptureOne, OpenPort, CaptureEnds, CaptureFails,
                          Concatenate
<1>9. CASE UNCHANGED sliceVars
  BY <1>4, <1>9 DEF sliceVars
<1>. QED
  BY <1>5, <1>6, <1>7, <1>8, <1>9 DEF SlicesNext

\* Nothing is there at first.
LEMMA DatasetStart == CollectInit => Dataset!DatasetInit
<1>. SUFFICES ASSUME CollectInit
              PROVE  Dataset!DatasetInit
  OBVIOUS
<1>1. disk = [r \in 1..Runs |-> NoFile] /\ manifest.runs = <<>> /\ Len(<<>>) = 0
  BY DEF CollectInit, CaptureInit
<1>2. [r \in 1..Runs |-> SliceBoot(disk[r])] = [r \in 1..Runs |-> 0]
  <2>1. \A r \in 1..Runs : ~SizeOk(disk[r])
    BY <1>1 DEF SizeOk
  <2>. QED
    BY <2>1, SliceBoots
<1>3. [r \in 1..Len(manifest.runs) |-> PublishedBoot(r)] = <<>>
  <2>. DEFINE f == [r \in 1..Len(manifest.runs) |-> PublishedBoot(r)]
  <2>1. Len(manifest.runs) = 0
    BY <1>1
  <2>2. f \in Seq({0}) /\ Len(f) = 0
    BY <2>1
  <2>3. <<>> \in Seq({0}) /\ Len(<<>>) = 0
    OBVIOUS
  <2>. HIDE DEF f
  <2>4. f = <<>>
    BY <2>2, <2>3, SameSequence
  <2>. QED
    BY <2>4 DEF f
<1>. QED
  BY <1>2, <1>3 DEF Dataset!DatasetInit, Dataset!Incomplete

\* A collection is what SliceDataset promises: no boot delivers two slices, a
\* slice is completed only by a later boot than all others, and a manifest is
\* written only over complete slices, each at its place in the aggregate.
THEOREM SlicesImplementDataset == SlicesSpec => ImplementsDataset
<1>1. CollectInit => Dataset!DatasetInit
  BY DatasetStart
<1>2. SlicesInv /\ SlicesInv' /\ [SlicesNext]_sliceVars => [Dataset!DatasetNext]_(Dataset!datasetVars)
  BY DatasetStep
<1>. QED
  BY <1>1, <1>2, SlicesInvariant, PTL DEF SlicesSpec, ImplementsDataset, Dataset!DatasetSpec
==============================================================================
