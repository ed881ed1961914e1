----------------------------- MODULE LogFormat -----------------------------
(***************************************************************************)
(* The record format of LevelDB's log and manifest files, as pure          *)
(* operators: log::Writer cuts records into fragments that never cross a   *)
(* block, log::Reader puts them together again from as much of the file as *)
(* a crash left.  A file is its length and its fragments: where each       *)
(* starts, its type, how many bytes it holds and which record they are of. *)
(***************************************************************************)
EXTENDS Integers, Sequences, SequencesExt

CONSTANTS kBlockSize, kHeaderSize   \* with 0 < kHeaderSize < kBlockSize

EmptyFile == [length |-> 0, fragments |-> <<>>, records |-> 0]

(***************************************************************************)
(* Writing.                                                                *)
(***************************************************************************)

(* Fewer bytes than a header at the end of a block are filled with zeros.  *)
SkipTrailer(p) ==
  LET leftover == kBlockSize - (p % kBlockSize)
  IN  IF leftover < kHeaderSize THEN p + leftover ELSE p

EmitPhysicalRecord(f, p, t, n) ==
  [f EXCEPT !.length = p + kHeaderSize + n,
            !.fragments = Append(@, [at |-> p, type |-> t, len |-> n, of |-> f.records])]

FragmentType(begin, left, n) ==
  CASE begin /\ left = n -> "full"
    [] begin /\ left # n -> "first"
    [] ~begin /\ left = n -> "last"
    [] OTHER -> "middle"

(* AddRecord: the file, the bytes that are left and begin, turn by turn of  *)
(* the loop.  An empty record takes one turn.                              *)
AddRecord(file, size) ==
  LET turn(s) ==
        LET p == SkipTrailer(s.file.length)
            avail == kBlockSize - (p % kBlockSize) - kHeaderSize
            n == IF s.left < avail THEN s.left ELSE avail
        IN  [file |-> EmitPhysicalRecord(s.file, p, FragmentType(s.begin, s.left, n), n),
             left |-> s.left - n, begin |-> FALSE]
      turns[k \in 0 .. size + 2] ==
        IF k = 0 THEN [file |-> [file EXCEPT !.records = @ + 1], left |-> size, begin |-> TRUE]
        ELSE LET s == turns[k - 1]
             IN  IF s.begin \/ s.left > 0 THEN turn(s) ELSE s
  IN  turns[size + 2].file

(* The file of a log to which records of these sizes were added.           *)
Written(sizes) == FoldLeft(AddRecord, EmptyFile, sizes)

(***************************************************************************)
(* Reading.  The file was cut after its first c bytes.                     *)
(***************************************************************************)

(* ReadPhysicalRecord at p: what it returns, and where it goes on.  Bytes   *)
(* that are no fragment fail the checksum, and the block is given up.      *)
ReadPhysicalRecord(f, c, p0) ==
  LET p == SkipTrailer(p0)
      blockEnd == (p \div kBlockSize + 1) * kBlockSize
      eof == c < blockEnd
      size == (IF eof THEN c ELSE blockEnd) - p
      here == SelectSeq(f.fragments, LAMBDA g : g.at = p)
      eofAt(q) == [type |-> "eof", len |-> 0, of |-> 0, next |-> q]
      badAt(q) == [type |-> "bad", len |-> 0, of |-> 0, next |-> q]
  IN  CASE size < kHeaderSize -> eofAt(p)
        [] size >= kHeaderSize /\ here = <<>> -> badAt(blockEnd)
        [] OTHER ->
             LET g == here[1]
                 q == p + kHeaderSize + g.len
             IN  IF q > p + size THEN (IF eof THEN eofAt(p) ELSE badAt(blockEnd))
                 ELSE [type |-> g.type, len |-> g.len, of |-> g.of, next |-> q]

(* scratch: the bytes so far, of which record, and in_fragmented_record.    *)
NoScratch == [in |-> FALSE, of |-> 0, len |-> 0]
Extended(s, g) == [s EXCEPT !.len = @ + g.len, !.of = IF @ = g.of THEN @ ELSE 0]

(* ReadRecord until it returns false, fragment by fragment: the records it *)
(* returned, and whether anything was dropped as corrupt.                  *)
ReadRecords(f, c) ==
  LET step(s) ==
        LET g == ReadPhysicalRecord(f, c, s.p)
            whole == [of |-> g.of, len |-> g.len]
            t == [s EXCEPT !.p = g.next]
        IN  CASE g.type = "eof" -> [s EXCEPT !.done = TRUE]
              [] g.type = "bad" -> [t EXCEPT !.scratch = NoScratch, !.corrupt = TRUE]
              [] g.type = "full" ->
                   [t EXCEPT !.out = Append(@, whole), !.scratch = NoScratch,
                             !.corrupt = @ \/ (s.scratch.in /\ s.scratch.len > 0)]
              [] g.type = "first" ->
                   [t EXCEPT !.scratch = [in |-> TRUE, of |-> g.of, len |-> g.len],
                             !.corrupt = @ \/ (s.scratch.in /\ s.scratch.len > 0)]
              [] g.type \in {"middle", "last"} /\ ~s.scratch.in -> [t EXCEPT !.corrupt = TRUE]
              [] g.type = "middle" /\ s.scratch.in ->
                   [t EXCEPT !.scratch = Extended(s.scratch, g)]
              [] OTHER ->                  \* "last" of a fragmented record
                   [t EXCEPT !.out = Append(@, [of  |-> Extended(s.scratch, g).of,
                                                len |-> Extended(s.scratch, g).len]),
                             !.scratch = NoScratch]
      steps[k \in 0 .. Len(f.fragments) + 1] ==
        IF k = 0 THEN [p |-> 0, scratch |-> NoScratch, out |-> <<>>, corrupt |-> FALSE,
                       done |-> FALSE]
        ELSE LET s == steps[k - 1] IN IF s.done THEN s ELSE step(s)
  IN  steps[Len(f.fragments) + 1]
=============================================================================
