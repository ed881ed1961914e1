--------------------------- MODULE LevelDBVersion ---------------------------
(***************************************************************************)
(* LevelDB's sorted tables and the versions that list them, as pure        *)
(* operators: the order of internal keys, a lookup through the levels, the *)
(* level a memtable goes to, which files a compaction takes and what it    *)
(* keeps of them.  Sizes in bytes are not modelled: where the code compares *)
(* one with a limit, an operator yields every outcome some size allows.    *)
(***************************************************************************)
EXTENDS Integers, FiniteSets, FiniteSetsExt

CONSTANTS
  NumLevels,            \* config::kNumLevels
  MaxMemCompactLevel    \* config::kMaxMemCompactLevel

ASSUME LevelAssumption ==
  /\ NumLevels \in Nat /\ NumLevels >= 2
  /\ MaxMemCompactLevel \in 0 .. NumLevels - 1

Level == 0 .. NumLevels - 1

(* An internal key: a user key, the sequence number of the write and its   *)
(* type.  The value is the write itself and adds nothing.                  *)
EntryOf(keys, maxSeq) == [key: keys, seq: 1 .. maxSeq, del: BOOLEAN]

(* InternalKeyComparator::Compare: user keys ascending, then the newest     *)
(* write first.                                                            *)
Before(a, b) == a.key < b.key \/ (a.key = b.key /\ a.seq > b.seq)

(* The metadata of a table that holds S, as its builder records it.        *)
FileMetaData(n, S) ==
  [number   |-> n,
   smallest |-> CHOOSE a \in S : \A b \in S : ~Before(b, a),
   largest  |-> CHOOSE a \in S : \A b \in S : ~Before(a, b)]

NoFiles == [l \in Level |-> {}]
FilesOf(v) == UNION {v[l] : l \in Level}

(***************************************************************************)
(* Lookups.  A result is the set of the one entry found, or empty.         *)
(***************************************************************************)

(* The entry a seek to (k, s) lands on, if it is of user key k: the same in *)
(* a memtable and in a table.                                              *)
Newest(S, k, s) ==
  {e \in S : /\ e.key = k /\ e.seq <= s
             /\ \A d \in S : (d.key = k /\ d.seq <= s) => d.seq <= e.seq}

(* SaveValue, kDeleted, kFound: a deletion is found and reads as nothing.   *)
ValueOf(found) == {e \in found : ~e.del}

(* What table n holds; tables are those on disk.                            *)
TableIn(tables, n) == IF n \in DOMAIN tables THEN tables[n] ELSE {}

(* Level 0: every file whose range has k, the highest number first.        *)
NewestFirst(files, tables, k, s) ==
  LET hits == {f \in files : /\ f.smallest.key <= k /\ k <= f.largest.key
                             /\ Newest(TableIn(tables, f.number), k, s) # {}}
  IN  UNION {Newest(TableIn(tables, f.number), k, s) :
             f \in {g \in hits : \A h \in hits : h.number <= g.number}}

(* Deeper levels: the first file whose largest key is not before (k, s).   *)
FindFile(files, k, s) ==
  LET target == [key |-> k, seq |-> s]
      enough == {f \in files : ~Before(f.largest, target)}
  IN  {f \in enough : \A g \in enough : ~Before(g.largest, f.largest)}

LevelGet(v, l, tables, k, s) ==
  IF l = 0 THEN NewestFirst(v[0], tables, k, s)
  ELSE UNION {Newest(TableIn(tables, f.number), k, s) :
              f \in {g \in FindFile(v[l], k, s) : g.smallest.key <= k}}

(* Version::Get stops at the first level that has the key.                 *)
VersionGet(v, tables, k, s) ==
  LET hits == {l \in Level : LevelGet(v, l, tables, k, s) # {}}
  IN  IF hits = {} THEN {} ELSE LevelGet(v, Min(hits), tables, k, s)

(* What an iterator over S shows of k: DBIter stands on the newest visible *)
(* entry of a user key, whichever table it comes from.                     *)
FindNextUserEntry(S, k, s) == Newest(S, k, s)

(***************************************************************************)
(* Ranges and overlap.                                                     *)
(***************************************************************************)

GetRange(files) == [lo |-> Min({f.smallest.key : f \in files}),
                    hi |-> Max({f.largest.key : f \in files})]

Overlapping(files, r) == {f \in files : r.lo <= f.largest.key /\ f.smallest.key <= r.hi}

OverlapInLevel(v, l, r) == Overlapping(v[l], r) # {}

(* At level 0 each file found widens the range and the search starts over; *)
(* as many rounds as there are files reach the end of that.                *)
GetOverlappingInputs(v, l, r) ==
  LET widen(S) == [lo |-> Min({r.lo} \cup {f.smallest.key : f \in S}),
                   hi |-> Max({r.hi} \cup {f.largest.key : f \in S})]
      round[n \in 0 .. Cardinality(v[l])] ==
        IF n = 0 THEN Overlapping(v[l], r)
        ELSE Overlapping(v[l], widen(round[n - 1]))
  IN  IF l = 0 THEN round[Cardinality(v[l])] ELSE Overlapping(v[l], r)

\* Mutant: the overlap with the level that is chosen is not looked at.
PickLevelForMemTableOutputBelow(v, r) ==
  IF OverlapInLevel(v, 0, r) THEN {0}
  ELSE {l \in 0 .. MaxMemCompactLevel : \A m \in 1 .. l - 1 : ~OverlapInLevel(v, m, r)}

(* The levels a memtable of range r may be written to.  The code stops     *)
(* before a level it overlaps, and may stop when the level after that holds *)
(* too many bytes of the range.                                            *)
PickLevelForMemTableOutput(v, r) ==
  IF OverlapInLevel(v, 0, r) THEN {0}
  ELSE {l \in 0 .. MaxMemCompactLevel :
         /\ \A m \in 1 .. l : ~OverlapInLevel(v, m, r)
         /\ \/ l = MaxMemCompactLevel
            \/ OverlapInLevel(v, l + 1, r)
            \/ l + 2 < NumLevels /\ OverlapInLevel(v, l + 2, r)}

(***************************************************************************)
(* Compactions.                                                            *)
(***************************************************************************)

(* The inputs from level + 1, and the chance to take more of this level    *)
(* without taking more of the next ("grow": the bytes allow it).           *)
SetupOtherInputs(v, l, in0, grow) ==
  LET in1 == GetOverlappingInputs(v, l + 1, GetRange(in0))
      ex0 == GetOverlappingInputs(v, l, GetRange(in0 \cup in1))
      ex1 == GetOverlappingInputs(v, l + 1, GetRange(ex0))
  IN  IF /\ grow /\ in1 # {}
         /\ Cardinality(ex0) > Cardinality(in0)
         /\ Cardinality(ex1) = Cardinality(in1)
      THEN [level |-> l, in0 |-> ex0, in1 |-> ex1]
      ELSE [level |-> l, in0 |-> in0, in1 |-> in1]

Compactable(v) == \E l \in 0 .. NumLevels - 2 : v[l] # {}

(* What PickCompaction may return: a level over its size and the file after *)
(* its compaction pointer, or the file that took too many seeks; in level 0 *)
(* with every file its range reaches.                                      *)
PickCompaction(v) ==
  UNION {{SetupOtherInputs(v, l,
            IF l = 0 THEN GetOverlappingInputs(v, 0, GetRange({f})) ELSE {f}, grow) :
          f \in v[l], grow \in BOOLEAN} : l \in 0 .. NumLevels - 2}

(* IsTrivialMove: the outcomes the bytes of the grandparents allow.        *)
IsTrivialMove(v, c) ==
  LET r == GetRange(c.in0 \cup c.in1)
  IN  IF Cardinality(c.in0) # 1 \/ c.in1 # {} THEN {FALSE}
      ELSE IF c.level + 2 < NumLevels /\ OverlapInLevel(v, c.level + 2, r)
      THEN BOOLEAN ELSE {TRUE}

IsBaseLevelForKey(v, level, k) ==
  \A l \in level + 2 .. NumLevels - 1 :
    \A f \in v[l] : ~(f.smallest.key <= k /\ k <= f.largest.key)

(* The entries of the merged input a compaction writes out: not the ones   *)
(* hidden by a newer entry that every snapshot sees, nor a deletion every  *)
(* snapshot sees when no deeper level may have the key.                    *)
KeptEntries(input, v, level, smallestSnapshot) ==
  {e \in input :
    /\ \A d \in input : (d.key = e.key /\ d.seq > e.seq) => d.seq > smallestSnapshot
    /\ ~(e.del /\ e.seq <= smallestSnapshot /\ IsBaseLevelForKey(v, level, e.key))}

(* The output files, when a new one is started before each entry of cuts.  *)
Outputs(kept, cuts) ==
  {{d \in kept : {c \in cuts : ~Before(d, c)} = {c \in cuts : ~Before(e, c)}} : e \in kept}

(* The entries before which the output may be cut: any but the first.      *)
CutPoints(kept) == {e \in kept : \E d \in kept : Before(d, e)}

(* A user key in a file that is compacted and in one of the same level that *)
(* is not.                                                                 *)
LeavesBoundary(v, c) ==
  c.level > 0 /\ \E f \in c.in0, g \in v[c.level] \ c.in0 :
                    f.largest.key = g.smallest.key \/ g.largest.key = f.smallest.key

(***************************************************************************)
(* Version edits.                                                          *)
(***************************************************************************)

(* Builder::Apply and SaveTo.                                              *)
BuilderSaveTo(v, edit) ==
  [l \in Level |-> {f \in v[l] : <<l, f.number>> \notin edit.del}
                     \cup {a[2] : a \in {b \in edit.add : b[1] = l}}]

AddInputDeletions(c) ==
  {<<c.level, f.number>> : f \in c.in0} \cup {<<c.level + 1, f.number>> : f \in c.in1}

(* No two files of a level below 0 share an internal key: what SaveTo       *)
(* checks in a debug build.                                                *)
SortedLevels(v) ==
  \A l \in Level \ {0} : \A f, g \in v[l] :
    f = g \/ Before(f.largest, g.smallest) \/ Before(g.largest, f.smallest)
=============================================================================
